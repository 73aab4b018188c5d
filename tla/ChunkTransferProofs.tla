------------------------ MODULE ChunkTransferProofs -------------------------
(***************************************************************************)
(* For any streams, messages, chunk sizes and buffers, when chunk stream 0 *)
(* is not used over an unfinished message, and wherever the input ends but *)
(* right behind the header of a control chunk: the receiver reads every    *)
(* header as it was written, both ends agree when nothing is under way,    *)
(* and each chunk stream is a queue of whole messages (Undisturbed has the *)
(* other conditions).                                                      *)
(*                                                                         *)
(* The invariant speaks of a history h of the connection: the chunks that  *)
(* were ever committed or staged, where each ends on the wire, and what    *)
(* a receiver knows after each of them (a view).  The sender always stands *)
(* at the last view; the receiver at one of the views, or in the middle of *)
(* a chunk; what is under way is the part of the wire between the two.     *)
(***************************************************************************)
EXTENDS ChunkTransfer, SequenceTheorems, TLAPS

\* What the theorems need of the constants: the callback does not fail, ...
NeverFails == Verdicts = {"continue"}
\* ... no time needs the extended form, nor does what the receiver adds up: it
\* goes on where the sender starts anew from 0 behind a message with time 0.
TimesFit ==
    /\ 0 < Mark /\ \A t \in Times : t < Mark
    /\ 0 \in Times => \A t \in Times : MaxMessages * t < Mark
Undisturbed == Careful /\ Orderly /\ ~SplitControl /\ NeverFails /\ TimesFit
-----------------------------------------------------------------------------
(* The history. *)

Any == Message \cup ControlMessage
TypeNames == Types \cup {"none", "chunk_size", "abort"}
Content == {Received(m.type, m.sid, Payload(m)) : m \in Message}

\* The last message of a chunk stream, how much of it has come, and what is left.
Cell(m, k, n) == [msg |-> m, written |-> k, left |-> n]
Cells == [msg : Any \cup {NoMessage}, written : Nat, left : Nat]

\* What a receiver knows: the messages, the chunk size, the times of the headers,
\* and what it has handed over.
View == [at : [Streams -> Cells], size : Sizes \cup {DefaultSize},
         time : [Streams -> Nat], done : [ChunkStream -> Seq(Content)]]

\* A chunk: n units of a message behind the first ones, its form and its time.
Piece == [msg : Any, from : Nat, n : Nat, fmt : 0..3, stamp : Nat]

\* The view after all but rest units of a chunk, ...
Begun(R, c, rest) ==
    LET cs == c.msg.cs
        k  == c.from + c.n - rest
    IN  [at   |-> [R.at EXCEPT ![cs] = Cell(c.msg, k, c.msg.len - k)],
         size |-> R.size,
         time |-> [R.time EXCEPT ![cs] = IF c.fmt = 0 THEN c.stamp ELSE @ + c.stamp],
         done |-> R.done]
\* ... what the end of a message adds to it, ...
Ended(R, m) ==
    [at   |-> IF m.type = "abort" THEN [R.at EXCEPT ![m.arg] = Cell(@.msg, 0, 0)] ELSE R.at,
     size |-> IF m.type = "chunk_size" THEN m.arg ELSE R.size,
     time |-> R.time,
     done |-> IF m.cs = Control THEN R.done
              ELSE [R.done EXCEPT ![m.cs] = Append(@, Received(m.type, m.sid, Payload(m)))]]
\* ... and the view after the chunk.
After(R, c) ==
    IF c.from + c.n = c.msg.len THEN Ended(Begun(R, c, 0), c.msg) ELSE Begun(R, c, 0)

\* A receiver with view R understands the chunk c.
Follows(R, c) ==
    LET m == c.msg
        p == R.at[m.cs]
    IN  /\ c \in Piece
        /\ c.from < m.len /\ c.n = Lesser(m.len - c.from, R.size)
        /\ IF c.from = 0 THEN p.left = 0 ELSE p = Cell(m, c.from, m.len - c.from)
        /\ c.fmt >= 1 => p.msg.sid = m.sid
        /\ c.fmt >= 2 => p.msg.len = m.len /\ p.msg.type = m.type
        /\ c.fmt = 3 => c.stamp = 0
        /\ c.stamp < Mark

HeadLen(c) == 4 - c.fmt
Extent(c) == HeadLen(c) + c.n
Data(m, k) == [kind |-> "data", msg |-> m, part |-> k]
Unit(c, i) ==
    IF i > HeadLen(c) THEN Data(c.msg, c.from + (i - HeadLen(c)))
    ELSE IF i = 1 THEN [kind |-> "basic", fmt |-> c.fmt, cs |-> c.msg.cs]
    ELSE IF i = 2 THEN [kind |-> "time", val |-> c.stamp]
    ELSE IF i = 3 THEN [kind |-> "shape", len |-> c.msg.len, type |-> c.msg.type]
    ELSE [kind |-> "sid", val |-> c.msg.sid]
Units == {Unit(c, i) : c \in Piece, i \in Nat \ {0}}

Traced(h, k) ==
    /\ Follows(h.view[k - 1], h.chunk[k])
    /\ h.view[k] = After(h.view[k - 1], h.chunk[k])
    /\ h.end[k] = h.end[k - 1] + Extent(h.chunk[k])
    /\ \A i \in 1..Extent(h.chunk[k]) : h.wire[h.end[k - 1] + i] = Unit(h.chunk[k], i)
Passed(h, k) ==
    /\ h.view[k] \in View /\ h.end[k] \in Nat /\ h.end[k] <= h.end[h.n]
    /\ \A cs \in Streams : h.view[k].time[cs] < Mark
    /\ \A cs \in ChunkStream : IsPrefixOf(h.view[k].done[cs], h.view[h.n].done[cs])
Traces(h) ==
    /\ h.n \in Nat
    /\ \A k \in 1..h.n : Traced(h, k)
    /\ \A k \in 0..h.n : Passed(h, k)

\* The history with one more chunk, which was written as the sequence s.
Longer(h, c, s) ==
    [n     |-> h.n + 1,
     chunk |-> [k \in Nat |-> IF k = h.n + 1 THEN c ELSE h.chunk[k]],
     view  |-> [k \in Nat |-> IF k = h.n + 1 THEN After(h.view[h.n], c) ELSE h.view[k]],
     end   |-> [k \in Nat |-> IF k = h.n + 1 THEN h.end[h.n] + Extent(c) ELSE h.end[k]],
     wire  |-> [j \in Nat |-> IF j > h.end[h.n] THEN s[j - h.end[h.n]] ELSE h.wire[j]]]
-----------------------------------------------------------------------------
(* The invariant. *)

Entries == [time : Nat, len : Nat, type : TypeNames, sid : Nat, processed : Nat]
Headers == [known : BOOLEAN, time : Nat, delta : Int, len : Nat, type : TypeNames, sid : Nat]
Calling == [msg : Any \cup {NoMessage}, written : Nat]
Messages == Seq([what : Content, time : Nat])

Typed ==
    /\ cacheOut \in [Streams -> Headers] /\ cacheIn \in [Streams -> Entries]
    /\ selfChunkSize \in Sizes \cup {DefaultSize} /\ peerChunkSize \in Sizes \cup {DefaultSize}
    /\ call \in Calling /\ whole \in BOOLEAN /\ search \in BOOLEAN
    /\ pending \in [ChunkStream -> Calling]
    /\ staged \in Seq(Units) /\ out \in Seq(Units) /\ in \in Seq(Units)
    /\ Len(out) + Len(staged) <= OutSize /\ Len(in) <= InSize
    /\ partialChunk \in Nat /\ paused \in {"never", "yes", "over"}
    /\ controlMessage \in Seq(Units) /\ got \in [ChunkStream -> Seq(Units)]
    /\ delivered \in [ChunkStream -> Messages] /\ accepted \in [ChunkStream -> Messages]

\* What is under way is the wire from the receiver's place to its end.
InFlight == (in \o out) \o staged
Gone(h, a) == h.end[a] - partialChunk
Carries(h, a) ==
    /\ a \in 0..h.n /\ partialChunk <= h.end[a]
    /\ Len(InFlight) = h.end[h.n] - Gone(h, a)
    /\ \A i \in 1..Len(InFlight) : InFlight[i] = h.wire[Gone(h, a) + i]

\* The most n messages can add to a time.
Longest == CHOOSE t \in Nat : MaxMessages * t < Mark /\ \A u \in Times : u <= t
Span(n) == Longest * n

\* The application has begun a message it has not finished.
Busy == call.msg.cs # Control \/ \E cs \in ChunkStream : pending[cs] # NoSend
\* Times the receiver has are those of the sender, or, where messages with time 0
\* made that one start anew, at most the sum of all that were begun.
Fresh == call # NoSend /\ call.written = 0 /\ call.msg.cs # Control
Started == IF Fresh THEN begun - 1 ELSE begun
Drifts(R) ==
    /\ begun \in 0..MaxMessages /\ (Busy => begun > 0)
    /\ \A cs \in Streams :
         R.time[cs] <= IF 0 \in Times THEN Span(Started) ELSE cacheOut[cs].time

\* The header cache of the sender holds what the last view does.
Emits(e, R, cs) ==
    LET p == R.at[cs]
    IN  /\ e.time < Mark
        /\ cs = Control => e.time = 0
        /\ 0 \in Times => e.time <= Longest
        /\ e.known => e.len = p.msg.len /\ e.type = p.msg.type /\ e.sid = p.msg.sid
        /\ ~e.known => e.time = 0 /\ p.left = 0
        /\ p.left > 0 => e.time = p.msg.time
Sends(R) ==
    /\ selfChunkSize = R.size
    /\ \A cs \in Streams : Emits(cacheOut[cs], R, cs)
    /\ \A cs \in ChunkStream : What(accepted[cs]) = R.done[cs]
    /\ Drifts(R)

\* A call in progress, or one to be resumed, is where the last view has it.
Halfway(R, p, cs) ==
    /\ p.msg \in Any /\ p.msg.cs = cs /\ p.written \in 1..(p.msg.len - 1)
    /\ R.at[cs] = Cell(p.msg, p.written, p.msg.len - p.written)
Sending(cs) == call # NoSend /\ call.msg.cs = cs
Calls(R) ==
    /\ call # NoSend =>
         /\ call.msg \in Any /\ call.written < call.msg.len
         /\ IF call.written = 0
            THEN search \/ call.msg.time = 0 \/ call.msg.time >= cacheOut[call.msg.cs].time
            ELSE Halfway(R, call, call.msg.cs)
         /\ call.msg.cs = Control => whole
         /\ search => call.msg.free /\ (call.written = 0 \/ ~whole)
    /\ call = NoSend \/ ~whole => staged = <<>>
    /\ \A cs \in ChunkStream : pending[cs] # NoSend =>
         Halfway(R, pending[cs], cs) /\ ~Sending(cs)
    /\ \A cs \in Streams : R.at[cs].left > 0 =>
         \/ Sending(cs) /\ call.written > 0
         \/ cs \in ChunkStream /\ pending[cs] # NoSend

\* The first chunk of a message has room, and all chunks of one sent whole.
First == Len(EmitHdr(call.msg, search).fields)
Unwritten == call.msg.len - call.written
RoomForAll(chunks) ==
    /\ Unwritten <= chunks * selfChunkSize
    /\ Room >= IF call.written = 0 THEN First + 2 * (chunks - 1) + Unwritten
               ELSE 2 * chunks + Unwritten
Roomy ==
    call # NoSend =>
      /\ call.written = 0 => First + Lesser(call.msg.len, selfChunkSize) <= Room
      /\ whole => \E chunks \in Nat : RoomForAll(chunks)

\* The receiver knows what its view says.  Of a message on its way in, the cache
\* may hold the length and the type already.
Collected(p) == IF p.left = 0 THEN <<>> ELSE SubSeq(Payload(p.msg), 1, p.written)
Store(cs) == IF cs = Control THEN controlMessage ELSE got[cs]
Knows(e, R, cs, next) ==
    LET m == R.at[cs].msg
    IN  /\ e.processed = R.at[cs].left /\ e.time = R.time[cs] /\ e.sid = m.sid
        /\ e.processed <= e.len
        /\ \/ e.len = m.len /\ e.type = m.type
           \/ \E d \in next : d.cs = cs /\ e.len = d.len /\ e.type = d.type
Bounded == partialChunk <= peerChunkSize /\ Len(controlMessage) < ControlLength
Hears(R, next) ==
    /\ peerChunkSize = R.size /\ Bounded
    /\ \A cs \in Streams : Knows(cacheIn[cs], R, cs, next) /\ Store(cs) = Collected(R.at[cs])
    /\ \A cs \in ChunkStream : What(delivered[cs]) = R.done[cs]
Upcoming(h, a) == IF a < h.n THEN {h.chunk[a + 1].msg} ELSE {}
Receives(h, a) ==
    IF partialChunk = 0 THEN Hears(h.view[a], Upcoming(h, a))
    ELSE /\ a > 0 /\ partialChunk <= h.chunk[a].n /\ partialMsg = h.chunk[a].msg.cs
         /\ Hears(Begun(h.view[a - 1], h.chunk[a], partialChunk), {})

Explains(h, a) ==
    /\ Traces(h) /\ Carries(h, a)
    /\ Sends(h.view[h.n]) /\ Calls(h.view[h.n])
    /\ Receives(h, a)
IndInv ==
    /\ Typed /\ Roomy
    /\ \E h : \E a \in Nat : Explains(h, a)
-----------------------------------------------------------------------------
(* Messages and chunks. *)

LEMMA Quotient ==
  ASSUME NEW x \in Nat, NEW n \in Nat \ {0}
  PROVE  LET q == x \div n IN q \in Nat /\ n * q <= x /\ x < n * q + n
<1> DEFINE q == x \div n
<1>1. q \in Int /\ n * q <= x /\ x < n * q + n
  OBVIOUS
<1> HIDE DEF q
<1>2. q \in Nat
  <2> SUFFICES ASSUME q <= -1 PROVE FALSE
    BY <1>1
  <2>1. n * q <= -n
    BY <1>1
  <2> QED BY <1>1, <2>1
<1> QED BY <1>1, <1>2 DEF q

LEMMA Distributes ==
  ASSUME NEW n \in Nat, NEW k \in Nat
  PROVE  n * (k + 1) = n * k + n /\ n * k \in Nat
OBVIOUS

LEMMA Multiple ==
  ASSUME NEW n \in Nat, NEW k \in Nat, NEW l \in Nat, k > l
  PROVE  n * k >= n * l + n
<1>1. PICK d \in Nat : k = l + 1 + d
  <2>1. k - (l + 1) \in Nat
    OBVIOUS
  <2> QED BY <2>1
<1>2. n * k = n * l + n + n * d /\ n * d \in Nat /\ n * l \in Nat
  BY <1>1
<1> QED BY <1>2

LEMMA Monotone ==
  ASSUME NEW n \in Nat, NEW k \in Nat, NEW l \in Nat, k <= l
  PROVE  n * k \in Nat /\ n * k <= l * n
<1>1. PICK d \in Nat : l = k + d
  <2>1. l - k \in Nat
    OBVIOUS
  <2> QED BY <2>1
<1>2. l * n = n * k + n * d /\ n * d \in Nat /\ n * k \in Nat
  BY <1>1
<1> QED BY <1>2

LEMMA Lesser2 ==
  ASSUME NEW x \in Nat, NEW y \in Nat
  PROVE  Lesser(x, y) \in Nat /\ Lesser(x, y) <= x /\ Lesser(x, y) <= y
         /\ (x > 0 /\ y > 0 => Lesser(x, y) > 0)
BY DEF Lesser

\* What the messages and the sizes are, once and for all.
LEMMA SizesOK ==
  /\ Sizes \cup {DefaultSize} \subseteq Nat \ {0}
  /\ Mark \in Nat /\ ControlLength \in Nat \ {0} /\ OutSize \in Nat /\ InSize \in Nat
  /\ Streams = ChunkStream \cup {Control} /\ Control \notin ChunkStream
BY ChunkAssumption DEF ChunkAssumption, Streams

LEMMA AnyOK ==
  ASSUME NEW m \in Any
  PROVE  /\ m.len \in Nat \ {0} /\ m.time \in Nat /\ m.sid \in Nat /\ m.cs \in Streams
         /\ m.type \in TypeNames /\ m.type # "none"
         /\ m \in Message <=> m.cs # Control
         /\ m.type = "abort" => m.cs = Control /\ m.arg \in ChunkStream
         /\ m.type = "chunk_size" => m.cs = Control /\ m.arg \in Sizes
         /\ m.cs = Control => m.time = 0 /\ m.type \in {"abort", "chunk_size"} /\ m.len = ControlLength
         /\ m.cs # Control => m.cs \in ChunkStream /\ m.time \in Times
         /\ m.free \in BOOLEAN /\ (m.free => m.cs # Control)
<1>1. CASE m \in Message
  BY <1>1, ChunkAssumption DEF ChunkAssumption, Message, Streams, TypeNames
<1>2. CASE m \in ControlMessage
  <2>1. /\ m.len = ControlLength /\ m.time = 0 /\ m.sid = 0 /\ m.cs = Control /\ m.free = FALSE
        /\ \/ m.type = "abort" /\ m.arg \in ChunkStream
           \/ m.type = "chunk_size" /\ m.arg \in Sizes
    BY <1>2 DEF ControlMessage
  <2>2. m \notin Message
    BY <2>1, ChunkAssumption DEF ChunkAssumption, Message
  <2>3. m.free \in BOOLEAN /\ ~m.free
    BY <2>1
  <2>4. /\ m.len \in Nat \ {0} /\ m.time \in Nat /\ m.sid \in Nat /\ m.cs \in Streams
        /\ m.type \in TypeNames /\ m.type # "none"
    BY <2>1, ChunkAssumption DEF ChunkAssumption, Streams, TypeNames
  <2> QED BY <2>1, <2>2, <2>3, <2>4
<1> QED BY <1>1, <1>2 DEF Any

LEMMA NoMessageOK ==
  /\ NoMessage.len = 0 /\ NoMessage.type = "none" /\ NoMessage.sid = 0 /\ NoMessage.cs = Control
  /\ NoMessage.time = 0 /\ NoMessage \notin Any
<1>1. NoMessage.len = 0 /\ NoMessage.type = "none" /\ NoMessage.sid = 0 /\ NoMessage.cs = Control
      /\ NoMessage.time = 0
  BY DEF NoMessage
<1> QED BY <1>1, AnyOK

LEMMA LongestOK ==
  ASSUME Undisturbed, 0 \in Times
  PROVE  Longest \in Nat /\ MaxMessages * Longest < Mark /\ \A t \in Times : t <= Longest
<1>1. /\ Mark \in Nat /\ 0 < Mark /\ MaxMessages \in Nat /\ Times \subseteq Nat
      /\ \A t \in Times : t < Mark /\ MaxMessages * t < Mark
  BY ChunkAssumption DEF Undisturbed, TimesFit
<1>2. \E t \in Nat : MaxMessages * t < Mark /\ \A u \in Times : u <= t
  <2>1. CASE MaxMessages = 0
    <3>1. MaxMessages * Mark = 0
      BY <1>1, <2>1
    <3>2. \A u \in Times : u <= Mark
      BY <1>1
    <3> QED BY <1>1, <3>1, <3>2
  <2>2. CASE MaxMessages # 0
    <3> DEFINE q == (Mark - 1) \div MaxMessages
    <3>1. q \in Nat /\ MaxMessages * q <= Mark - 1 /\ Mark - 1 < MaxMessages * q + MaxMessages
      <4>1. Mark - 1 \in Nat /\ MaxMessages \in Nat \ {0}
        BY <1>1, <2>2
      <4> QED BY <4>1, Quotient
    <3> HIDE DEF q
    <3>2. ASSUME NEW u \in Times PROVE u <= q
      <4>1. u \in Nat /\ MaxMessages * u < Mark
        BY <1>1
      <4>2. u > q => MaxMessages * u >= MaxMessages * q + MaxMessages
        BY <1>1, <3>1, <4>1, Multiple
      <4> QED BY <1>1, <3>1, <4>1, <4>2
    <3>3. MaxMessages * q < Mark
      BY <1>1, <3>1
    <3> QED BY <3>1, <3>2, <3>3
  <2> QED BY <2>1, <2>2
<1> QED BY <1>2 DEF Longest

LEMMA SpanOK ==
  ASSUME Undisturbed, 0 \in Times, NEW n \in 0..MaxMessages
  PROVE  /\ Span(n) \in Nat /\ Span(n) < Mark
         /\ n > 0 => Span(n) = Span(n - 1) + Longest /\ Span(n - 1) \in Nat
<1>1. Longest \in Nat /\ MaxMessages * Longest < Mark /\ MaxMessages \in Nat /\ Mark \in Nat /\ n \in Nat
  BY LongestOK, ChunkAssumption
<1>2. Span(n) \in Nat /\ Span(n) <= MaxMessages * Longest
  BY <1>1, Monotone DEF Span
<1>3. n > 0 => Span(n) = Span(n - 1) + Longest /\ Span(n - 1) \in Nat
  <2> SUFFICES ASSUME n > 0 PROVE Span(n) = Span(n - 1) + Longest /\ Span(n - 1) \in Nat
    OBVIOUS
  <2> PICK k \in Nat : n = k + 1
    <3>1. n - 1 \in Nat /\ n = (n - 1) + 1
      BY <1>1
    <3> QED BY <3>1
  <2>1. n - 1 = k
    OBVIOUS
  <2>2. Longest * (k + 1) = Longest * k + Longest /\ Longest * k \in Nat
    BY <1>1, Distributes
  <2> QED BY <2>1, <2>2 DEF Span
<1>4. Span(n) < Mark
  <2> PICK x \in Int : x = MaxMessages * Longest
    BY <1>1
  <2> QED BY <1>1, <1>2
<1> QED BY <1>2, <1>3, <1>4

LEMMA TimesOK ==
  ASSUME Undisturbed, NEW m \in Any
  PROVE  /\ m.time < Mark /\ (m.cs = Control => m.time = 0)
         /\ 0 \in Times => m.time <= Longest
         /\ 0 \notin Times /\ m.cs # Control => m.time # 0
<1>1. m.cs = Control => m.time = 0
  BY AnyOK
<1>2. m.cs # Control => m.time \in Times
  BY AnyOK
<1>3. 0 \in Times => 0 <= Longest /\ \A t \in Times : t <= Longest
  BY LongestOK
<1>4. 0 < Mark /\ \A t \in Times : t < Mark
  BY DEF Undisturbed, TimesFit
<1> QED BY <1>1, <1>2, <1>3, <1>4

LEMMA PayloadOK ==
  ASSUME NEW m \in Any
  PROVE  /\ Payload(m) \in Seq({Data(m, k) : k \in Nat}) /\ Len(Payload(m)) = m.len
         /\ \A k \in 1..m.len : Payload(m)[k] = Data(m, k)
<1>1. m.len \in Nat
  BY AnyOK
<1> QED BY <1>1 DEF Payload, Data

-----------------------------------------------------------------------------
(* Views. *)

LEMMA FollowsOK ==
  ASSUME NEW R \in View, NEW c, Follows(R, c)
  PROVE  /\ c \in Piece /\ c.msg \in Any /\ c.from \in Nat /\ c.n \in Nat \ {0} /\ c.fmt \in 0..3
         /\ c.stamp \in Nat /\ c.msg.cs \in Streams /\ c.msg.len \in Nat
         /\ c.from + c.n <= c.msg.len /\ c.n <= R.size
<1>1. /\ c \in Piece /\ c.msg \in Any /\ c.from \in Nat /\ c.n \in Nat /\ c.fmt \in 0..3
      /\ c.stamp \in Nat
  BY DEF Follows, Piece
<1>2. R.size \in Nat \ {0}
  BY SizesOK DEF View
<1>3. c.msg.cs \in Streams /\ c.msg.len \in Nat
  BY <1>1, AnyOK
<1>4. c.from < c.msg.len /\ c.n = Lesser(c.msg.len - c.from, R.size)
  BY DEF Follows
<1>5. c.msg.len - c.from \in Nat \ {0}
  BY <1>1, <1>3, <1>4
<1>6. c.n <= c.msg.len - c.from /\ c.n <= R.size /\ c.n > 0
  BY <1>2, <1>4, <1>5, Lesser2
<1> QED BY <1>1, <1>3, <1>5, <1>6

LEMMA BegunIs ==
  ASSUME NEW R \in View, NEW c, c.msg.cs \in Streams, NEW rest
  PROVE  LET V == Begun(R, c, rest)
             k == c.from + c.n - rest
         IN  /\ V.size = R.size /\ V.done = R.done
             /\ V.at[c.msg.cs] = Cell(c.msg, k, c.msg.len - k)
             /\ V.time[c.msg.cs] = IF c.fmt = 0 THEN c.stamp ELSE R.time[c.msg.cs] + c.stamp
             /\ \A d \in Streams : d # c.msg.cs => V.at[d] = R.at[d] /\ V.time[d] = R.time[d]
BY DEF Begun, View

LEMMA BegunOK ==
  ASSUME NEW R \in View, NEW c, Follows(R, c), NEW rest \in 0..c.n
  PROVE  Begun(R, c, rest) \in View
<1>1. c.msg \in Any /\ c.from \in Nat /\ c.n \in Nat \ {0} /\ c.msg.cs \in Streams
      /\ c.msg.len \in Nat /\ c.stamp \in Nat /\ c.from + c.n <= c.msg.len
  BY FollowsOK
<1> DEFINE k == c.from + c.n - rest
<1>2. k \in Nat /\ c.msg.len - k \in Nat
  BY <1>1
<1>3. Cell(c.msg, k, c.msg.len - k) \in Cells
  BY <1>1, <1>2 DEF Cell, Cells
<1>4. R.time[c.msg.cs] \in Nat
  BY <1>1 DEF View
<1>5. (IF c.fmt = 0 THEN c.stamp ELSE R.time[c.msg.cs] + c.stamp) \in Nat
  BY <1>1, <1>4
<1> HIDE DEF k
<1> QED BY <1>3, <1>5 DEF Begun, View, k

LEMMA EndedOK ==
  ASSUME NEW R \in View, NEW m \in Any
  PROVE  Ended(R, m) \in View
<1>1. m.type = "abort" => m.arg \in Streams /\ R.at[m.arg].msg \in Any \cup {NoMessage}
  BY AnyOK DEF View, Cells, Streams
<1>2. m.type = "abort" => Cell(R.at[m.arg].msg, 0, 0) \in Cells
  BY <1>1 DEF Cell, Cells
<1>3. m.type = "chunk_size" => m.arg \in Sizes
  BY AnyOK
<1>4. m.cs # Control => m.cs \in ChunkStream /\ Received(m.type, m.sid, Payload(m)) \in Content
  BY AnyOK DEF Content
<1>5. m.cs # Control => Append(R.done[m.cs], Received(m.type, m.sid, Payload(m))) \in Seq(Content)
  BY <1>4 DEF View
<1> HIDE DEF Cell, Received, Payload
<1> QED BY <1>1, <1>2, <1>3, <1>5 DEF Ended, View

LEMMA AfterOK ==
  ASSUME NEW R \in View, NEW c, Follows(R, c)
  PROVE  After(R, c) \in View
<1>1. c.msg \in Any /\ 0 \in 0..c.n
  BY FollowsOK
<1>2. Begun(R, c, 0) \in View
  BY <1>1, BegunOK
<1> QED BY <1>1, <1>2, EndedOK DEF After

\* What a view after a chunk is.
LEMMA EndedIs ==
  ASSUME NEW R \in View, NEW m \in Any
  PROVE  /\ m.type # "abort" => Ended(R, m).at = R.at
         /\ m.type # "chunk_size" => Ended(R, m).size = R.size
         /\ m.type = "chunk_size" => Ended(R, m).size = m.arg
         /\ m.cs = Control => Ended(R, m).done = R.done
         /\ Ended(R, m).time = R.time
         /\ m.type = "abort" => /\ Ended(R, m).at[m.arg] = Cell(R.at[m.arg].msg, 0, 0)
                                /\ \A d \in Streams : d # m.arg => Ended(R, m).at[d] = R.at[d]
         /\ m.cs # Control =>
              /\ Ended(R, m).done[m.cs] = Append(R.done[m.cs], Received(m.type, m.sid, Payload(m)))
              /\ \A d \in ChunkStream : d # m.cs => Ended(R, m).done[d] = R.done[d]
<1>1. m.type = "abort" => m.arg \in Streams
  BY AnyOK DEF Streams
<1>2. m.cs # Control => m.cs \in ChunkStream
  BY AnyOK
<1> HIDE DEF Cell, Received, Payload
<1> QED BY <1>1, <1>2 DEF Ended, View

LEMMA PrefixOK ==
  ASSUME NEW S, NEW s \in Seq(S), NEW t \in Seq(S), IsPrefixOf(s, t)
  PROVE  IsPrefixOf(t, t) /\ \A x \in S : IsPrefixOf(s, Append(t, x))
<1>1. Len(s) \in Nat /\ Len(t) \in Nat /\ Len(s) <= Len(t) /\ s = SubSeq(t, 1, Len(s))
  BY DEF IsPrefixOf
<1>2. t = SubSeq(t, 1, Len(t))
  OBVIOUS
<1>3. \A x \in S : s = SubSeq(Append(t, x), 1, Len(s)) /\ Len(Append(t, x)) = Len(t) + 1
  BY <1>1
<1> QED BY <1>1, <1>2, <1>3 DEF IsPrefixOf

\* A chunk only adds to what was handed over.
LEMMA AfterDone ==
  ASSUME NEW R \in View, NEW c, Follows(R, c), NEW s, NEW d \in ChunkStream,
         s \in Seq(Content), IsPrefixOf(s, R.done[d])
  PROVE  IsPrefixOf(s, After(R, c).done[d])
<1>1. c.msg \in Any /\ c.msg.cs \in Streams /\ 0 \in 0..c.n
  BY FollowsOK
<1> DEFINE V == Begun(R, c, 0)
<1>2. V \in View /\ V.done = R.done
  BY <1>1, BegunOK, BegunIs
<1>3. CASE c.from + c.n = c.msg.len /\ c.msg.cs # Control /\ c.msg.cs = d
  <2>1. Received(c.msg.type, c.msg.sid, Payload(c.msg)) \in Content
    BY <1>1, <1>3, AnyOK DEF Content
  <2>2. After(R, c).done[d] = Append(R.done[d], Received(c.msg.type, c.msg.sid, Payload(c.msg)))
    <3>1. After(R, c) = Ended(V, c.msg)
      BY <1>3 DEF After
    <3>2. Ended(V, c.msg).done[c.msg.cs]
            = Append(V.done[c.msg.cs], Received(c.msg.type, c.msg.sid, Payload(c.msg)))
      BY <1>1, <1>2, <1>3, EndedIs
    <3> QED BY <1>2, <1>3, <3>1, <3>2
  <2>3. R.done[d] \in Seq(Content)
    BY DEF View
  <2> QED BY <2>1, <2>2, <2>3, PrefixOK
<1>4. CASE ~(c.from + c.n = c.msg.len /\ c.msg.cs # Control /\ c.msg.cs = d)
  <2>1. CASE c.from + c.n # c.msg.len
    BY <1>2, <2>1 DEF After
  <2>2. CASE c.from + c.n = c.msg.len
    <3>1. After(R, c) = Ended(V, c.msg)
      BY <2>2 DEF After
    <3>2. Ended(V, c.msg).done[d] = V.done[d]
      BY <1>1, <1>2, <1>4, <2>2, EndedIs
    <3> QED BY <1>2, <3>1, <3>2
  <2> QED BY <2>1, <2>2
<1> QED BY <1>3, <1>4

-----------------------------------------------------------------------------
(* A chunk is written: the history grows. *)

LEMMA LongerIs ==
  ASSUME NEW h, h.n \in Nat, h.end[h.n] \in Nat, NEW c, NEW s
  PROVE  LET g == Longer(h, c, s)
         IN  /\ g.n = h.n + 1
             /\ \A k \in 0..h.n : g.chunk[k] = h.chunk[k] /\ g.view[k] = h.view[k] /\ g.end[k] = h.end[k]
             /\ g.chunk[h.n + 1] = c /\ g.view[h.n + 1] = After(h.view[h.n], c)
             /\ g.end[h.n + 1] = h.end[h.n] + Extent(c)
             /\ \A j \in Nat : j <= h.end[h.n] => g.wire[j] = h.wire[j]
             /\ \A i \in Nat \ {0} : g.wire[h.end[h.n] + i] = s[i]
<1> DEFINE g == Longer(h, c, s)
           e == h.end[h.n]
<1>1. g.n = h.n + 1
  BY DEF Longer
<1>2. \A k \in Nat : /\ g.chunk[k] = IF k = h.n + 1 THEN c ELSE h.chunk[k]
                     /\ g.view[k] = IF k = h.n + 1 THEN After(h.view[h.n], c) ELSE h.view[k]
                     /\ g.end[k] = IF k = h.n + 1 THEN e + Extent(c) ELSE h.end[k]
                     /\ g.wire[k] = IF k > e THEN s[k - e] ELSE h.wire[k]
  BY DEF Longer
<1> HIDE DEF g
<1>3. \A k \in 0..h.n : k \in Nat /\ k # h.n + 1
  OBVIOUS
<1>4. h.n + 1 \in Nat
  OBVIOUS
<1>5. \A k \in 0..h.n : g.chunk[k] = h.chunk[k] /\ g.view[k] = h.view[k] /\ g.end[k] = h.end[k]
  BY <1>2, <1>3
<1>6. /\ g.chunk[h.n + 1] = c /\ g.view[h.n + 1] = After(h.view[h.n], c)
      /\ g.end[h.n + 1] = e + Extent(c)
  BY <1>2, <1>4
<1>7. \A i \in Nat \ {0} : g.wire[e + i] = s[i]
  <2> SUFFICES ASSUME NEW i \in Nat \ {0} PROVE g.wire[e + i] = s[i]
    OBVIOUS
  <2> DEFINE k == e + i
  <2>1. k \in Nat /\ k > e /\ k - e = i
    OBVIOUS
  <2> HIDE DEF k
  <2>2. g.wire[k] = s[k - e]
    BY <1>2, <2>1
  <2> QED BY <2>1, <2>2 DEF k
<1>8. \A j \in Nat : j <= e => g.wire[j] = h.wire[j]
  BY <1>2
<1> QED BY <1>1, <1>5, <1>6, <1>7, <1>8 DEF g

LEMMA ExtentOK ==
  ASSUME NEW c \in Piece
  PROVE  HeadLen(c) \in 1..4 /\ Extent(c) \in Nat \ {0} /\ Extent(c) = HeadLen(c) + c.n
         /\ HeadLen(c) = 4 - c.fmt
BY DEF Piece, HeadLen, Extent

LEMMA LongerOK ==
  ASSUME NEW h, Traces(h), NEW c, Follows(h.view[h.n], c),
         NEW s, \A i \in 1..Extent(c) : s[i] = Unit(c, i),
         \A cs \in Streams : After(h.view[h.n], c).time[cs] < Mark
  PROVE  Traces(Longer(h, c, s))
<1> DEFINE g == Longer(h, c, s)
           R == h.view[h.n]
<1>1. h.n \in Nat /\ \A k \in 0..h.n : Passed(h, k)
  BY DEF Traces
<1>2. \A k \in 0..h.n : h.view[k] \in View /\ h.end[k] \in Nat /\ h.end[k] <= h.end[h.n]
  BY <1>1 DEF Passed
<1>3. h.end[h.n] \in Nat /\ R \in View
  BY <1>1, <1>2
<1>4. /\ g.n = h.n + 1
      /\ \A k \in 0..h.n : g.chunk[k] = h.chunk[k] /\ g.view[k] = h.view[k] /\ g.end[k] = h.end[k]
      /\ g.chunk[h.n + 1] = c /\ g.view[h.n + 1] = After(R, c)
      /\ g.end[h.n + 1] = h.end[h.n] + Extent(c)
      /\ \A j \in Nat : j <= h.end[h.n] => g.wire[j] = h.wire[j]
      /\ \A i \in Nat \ {0} : g.wire[h.end[h.n] + i] = s[i]
  BY <1>1, <1>3, LongerIs
<1>5. c \in Piece
  BY <1>3, FollowsOK
<1>6. Extent(c) \in Nat \ {0}
  BY <1>5, ExtentOK
<1>7. After(R, c) \in View
  BY <1>3, AfterOK
<1> HIDE DEF g, R
<1>8. \A k \in 1..g.n : Traced(g, k)
  <2> SUFFICES ASSUME NEW k \in 1..g.n PROVE Traced(g, k)
    OBVIOUS
  <2>1. CASE k = h.n + 1
    <3>1. k - 1 = h.n /\ h.n \in 0..h.n
      BY <1>1, <2>1
    <3>2. g.view[k - 1] = R /\ g.end[k - 1] = h.end[h.n]
      BY <1>4, <3>1 DEF R
    <3>3. \A i \in 1..Extent(c) : g.wire[h.end[h.n] + i] = Unit(c, i)
      BY <1>4, <1>6
    <3> QED BY <1>4, <2>1, <3>2, <3>3 DEF Traced, R
  <2>2. CASE k # h.n + 1
    <3>1. k \in 1..h.n /\ k \in 0..h.n /\ k - 1 \in 0..h.n
      BY <1>1, <1>4, <2>2
    <3>2. Traced(h, k)
      BY <3>1 DEF Traces
    <3>3. g.chunk[k] = h.chunk[k] /\ g.view[k] = h.view[k] /\ g.end[k] = h.end[k]
          /\ g.view[k - 1] = h.view[k - 1] /\ g.end[k - 1] = h.end[k - 1]
      BY <1>4, <3>1
    <3>4. h.chunk[k] \in Piece
      BY <3>2 DEF Traced, Follows
    <3>5. Extent(h.chunk[k]) \in Nat
      BY <3>4, ExtentOK
    <3>6. ASSUME NEW i \in 1..Extent(h.chunk[k])
          PROVE  g.wire[h.end[k - 1] + i] = h.wire[h.end[k - 1] + i]
      <4>1. h.end[k] = h.end[k - 1] + Extent(h.chunk[k])
        BY <3>2 DEF Traced
      <4>2. h.end[k - 1] \in Nat /\ h.end[k] <= h.end[h.n] /\ h.end[k] \in Nat
        BY <1>2, <3>1
      <4>3. h.end[k - 1] + i \in Nat /\ h.end[k - 1] + i <= h.end[h.n]
        BY <1>3, <3>5, <4>1, <4>2
      <4> QED BY <1>4, <4>3
    <3> QED BY <3>2, <3>3, <3>6 DEF Traced
  <2> QED BY <2>1, <2>2
<1>9. \A k \in 0..g.n : Passed(g, k)
  <2> SUFFICES ASSUME NEW k \in 0..g.n PROVE Passed(g, k)
    OBVIOUS
  <2>1. g.view[g.n] = After(R, c) /\ g.end[g.n] = h.end[h.n] + Extent(c)
    BY <1>4
  <2>2. CASE k = h.n + 1
    <3>1. \A d \in ChunkStream : After(R, c).done[d] \in Seq(Content)
      BY <1>7 DEF View
    <3>2. \A d \in ChunkStream : IsPrefixOf(After(R, c).done[d], After(R, c).done[d])
      <4> SUFFICES ASSUME NEW d \in ChunkStream
                   PROVE  IsPrefixOf(After(R, c).done[d], After(R, c).done[d])
        OBVIOUS
      <4> DEFINE t == After(R, c).done[d]
      <4>1. t \in Seq(Content)
        BY <3>1
      <4> HIDE DEF t
      <4>2. t = SubSeq(t, 1, Len(t)) /\ Len(t) \in Nat
        BY <4>1
      <4>3. IsPrefixOf(t, t)
        BY <4>2 DEF IsPrefixOf
      <4> QED BY <4>3 DEF t
    <3>3. g.view[k] = After(R, c) /\ g.end[k] = g.end[g.n] /\ g.end[k] \in Nat
      BY <1>3, <1>4, <1>6, <2>2
    <3> QED BY <1>7, <2>1, <3>2, <3>3 DEF Passed, R
  <2>3. CASE k # h.n + 1
    <3>1. k \in 0..h.n
      BY <1>1, <1>4, <2>3
    <3>2. Passed(h, k)
      BY <1>1, <3>1
    <3>3. g.view[k] = h.view[k] /\ g.end[k] = h.end[k] /\ h.end[k] <= g.end[g.n]
      BY <1>2, <1>3, <1>4, <1>6, <2>1, <3>1
    <3>4. ASSUME NEW d \in ChunkStream
          PROVE  IsPrefixOf(h.view[k].done[d], After(R, c).done[d])
      <4>1. h.view[k].done[d] \in Seq(Content) /\ IsPrefixOf(h.view[k].done[d], R.done[d])
        BY <3>2 DEF Passed, View, R
      <4>2. Follows(R, c)
        BY DEF R
      <4> QED BY <1>3, <4>1, <4>2, AfterDone
    <3> QED BY <2>1, <3>2, <3>3, <3>4 DEF Passed
  <2> QED BY <2>2, <2>3
<1>10. g.n \in Nat
  BY <1>1, <1>4
<1> QED BY <1>8, <1>9, <1>10 DEF Traces, g

-----------------------------------------------------------------------------
(* What rtmp_chunk_emit_hdr writes. *)

\* Its local variables, and the chunk the call in progress writes next.
Before(m) == Previous(m, search)
KeepsTime(m) == Before(m).known /\ m.time = 0
Increment(m) == IF KeepsTime(m) THEN 0 ELSE m.time - Before(m).time
Form(m) == Format(Before(m), m, Increment(m))
TimeField(m) ==
    IF Form(m) > 0 THEN Increment(m)
    ELSE IF KeepsTime(m) THEN Before(m).time ELSE m.time
NextPiece ==
    [msg |-> call.msg, from |-> call.written, n |-> Lesser(Unwritten, selfChunkSize),
     fmt |-> Form(call.msg),
     stamp |-> IF Form(call.msg) = 3 THEN 0 ELSE TimeField(call.msg)]

LEMMA OneMore ==
  ASSUME NEW S, NEW s \in Seq(S), NEW x \in S
  PROVE  s \o <<x>> = Append(s, x)
<1> DEFINE t == <<x>>
<1>1. t \in Seq(S) /\ Len(t) = 1 /\ t[1] = x
  OBVIOUS
<1> HIDE DEF t
<1>2. /\ s \o t \in Seq(S) /\ Len(s \o t) = Len(s) + Len(t)
      /\ \A i \in 1..(Len(s) + Len(t)) :
            (s \o t)[i] = IF i <= Len(s) THEN s[i] ELSE t[i - Len(s)]
  BY <1>1, ConcatProperties, Zenon
<1> DEFINE u == s \o t
           v == Append(s, x)
<1>3. v \in Seq(S) /\ Len(v) = Len(s) + 1 /\ Len(s) \in Nat
  OBVIOUS
<1>4. \A i \in 1..(Len(s) + 1) : v[i] = IF i <= Len(s) THEN s[i] ELSE x
  OBVIOUS
<1>5. u \in Seq(S) /\ Len(u) = Len(s) + 1
  BY <1>1, <1>2
<1>6. \A i \in 1..(Len(s) + 1) : u[i] = IF i <= Len(s) THEN s[i] ELSE x
  BY <1>1, <1>2, <1>3
<1> HIDE DEF u, v
<1>7. u = v
  BY <1>3, <1>4, <1>5, <1>6, SeqEqual
<1> QED BY <1>7 DEF u, v, t

LEMMA AppendIs ==
  ASSUME NEW S, NEW s \in Seq(S), NEW x \in S
  PROVE  /\ Append(s, x) \in Seq(S) /\ Len(Append(s, x)) = Len(s) + 1
         /\ Append(s, x)[Len(s) + 1] = x
         /\ \A i \in 1..Len(s) : Append(s, x)[i] = s[i]
BY AppendProperties

LEMMA EmitHdrIs ==
  ASSUME NEW m, Form(m) \in 0..3, ~(TimeField(m) < 0 \/ TimeField(m) >= Mark)
  PROVE  LET s == EmitHdr(m, search).fields
         IN  /\ Len(s) = 4 - Form(m)
             /\ s[1] = [kind |-> "basic", fmt |-> Form(m), cs |-> m.cs]
             /\ Form(m) <= 2 => s[2] = [kind |-> "time", val |-> TimeField(m)]
             /\ Form(m) <= 1 => s[3] = [kind |-> "shape", len |-> m.len, type |-> m.type]
             /\ Form(m) = 0 => s[4] = [kind |-> "sid", val |-> m.sid]
             /\ EmitHdr(m, search).entry = Remembered(Before(m), m, Increment(m))
             /\ \E S : s \in Seq(S)
<1> DEFINE x1 == [kind |-> "basic", fmt |-> Form(m), cs |-> m.cs]
           x2 == [kind |-> "time", val |-> TimeField(m)]
           x3 == [kind |-> "shape", len |-> m.len, type |-> m.type]
           x4 == [kind |-> "sid", val |-> m.sid]
           z  == <<[kind |-> "ext", val |-> TimeField(m) % WireMod]>>
           extended == TimeField(m) < 0 \/ TimeField(m) >= Mark
<1>1. EmitHdr(m, search).fields =
        <<x1>> \o When(Form(m) <= 2, <<[kind |-> "time", val |-> IF extended THEN Mark ELSE TimeField(m)]>>)
        \o When(Form(m) <= 1, <<x3>>) \o When(Form(m) = 0, <<x4>>) \o When(extended, z)
  BY DEF EmitHdr, TimeField, Form, Increment, KeepsTime, Before
<1>2. extended = FALSE
  OBVIOUS
<1>3. EmitHdr(m, search).fields = <<x1>> \o When(Form(m) <= 2, <<x2>>)
        \o When(Form(m) <= 1, <<x3>>) \o When(Form(m) = 0, <<x4>>) \o When(FALSE, z)
  BY <1>1, <1>2
<1>4. EmitHdr(m, search).entry = Remembered(Before(m), m, Increment(m))
  BY DEF EmitHdr, Increment, KeepsTime, Before
<1> HIDE DEF x1, x2, x3, x4, z
<1> DEFINE f == Form(m)
           S == {x1, x2, x3, x4}
           s1 == <<x1>>
           s2 == s1 \o When(f <= 2, <<x2>>)
           s3 == s2 \o When(f <= 1, <<x3>>)
           s4 == s3 \o When(f = 0, <<x4>>)
           s5 == s4 \o When(FALSE, z)
<1>5. EmitHdr(m, search).fields = s5 /\ f \in 0..3
  BY <1>3
<1> HIDE DEF f
<1>6. x1 \in S /\ x2 \in S /\ x3 \in S /\ x4 \in S
  OBVIOUS
<1> HIDE DEF S
<1>7. s1 \in Seq(S) /\ Len(s1) = 1 /\ s1[1] = x1
  BY <1>6
<1>8. s1 \in Seq(S)
  BY <1>7
<1> HIDE DEF s1
<1>9. /\ s2 \in Seq(S) /\ Len(s2) = IF f <= 2 THEN 2 ELSE 1
      /\ s2[1] = x1 /\ (f <= 2 => s2[2] = x2)
  <2>1. CASE f <= 2
    <3>1. s2 = s1 \o <<x2>>
      BY <2>1 DEF When
    <3>2. s2 = Append(s1, x2)
      BY <1>6, <1>7, <3>1, OneMore
    <3> HIDE DEF s2
    <3>3. /\ s2 \in Seq(S) /\ Len(s2) = Len(s1) + 1 /\ s2[Len(s1) + 1] = x2
          /\ \A i \in 1..Len(s1) : s2[i] = s1[i]
      BY <1>6, <1>8, <3>2, AppendIs
    <3> QED BY <1>5, <1>6, <1>7, <2>1, <3>3
  <2>2. CASE ~(f <= 2)
    <3>1. s2 = s1 \o <<>>
      BY <2>2 DEF When
    <3>2. s2 = s1
      BY <1>6, <1>7, <3>1, ConcatEmptySeq
    <3> HIDE DEF s2
    <3> QED BY <1>6, <1>7, <2>2, <3>2
  <2> QED BY <2>1, <2>2
<1> HIDE DEF s2
<1>10. /\ s3 \in Seq(S) /\ Len(s3) = IF f <= 1 THEN 3 ELSE Len(s2)
      /\ s3[1] = x1 /\ (f <= 2 => s3[2] = x2) /\ (f <= 1 => s3[3] = x3)
  <2>1. CASE f <= 1
    <3>1. s3 = s2 \o <<x3>>
      BY <2>1 DEF When
    <3>2. s3 = Append(s2, x3)
      BY <1>6, <1>9, <3>1, OneMore
    <3> HIDE DEF s3
    <3>3. /\ s3 \in Seq(S) /\ Len(s3) = Len(s2) + 1 /\ s3[Len(s2) + 1] = x3
          /\ \A i \in 1..Len(s2) : s3[i] = s2[i]
      BY <1>6, <1>9, <3>2, AppendIs
    <3> QED BY <1>5, <1>6, <1>9, <2>1, <3>3
  <2>2. CASE ~(f <= 1)
    <3>1. s3 = s2 \o <<>>
      BY <2>2 DEF When
    <3>2. s3 = s2
      BY <1>6, <1>9, <3>1, ConcatEmptySeq
    <3> HIDE DEF s3
    <3> QED BY <1>6, <1>9, <2>2, <3>2
  <2> QED BY <2>1, <2>2
<1> HIDE DEF s3
<1>11. /\ s4 \in Seq(S) /\ Len(s4) = IF f = 0 THEN 4 ELSE Len(s3)
      /\ s4[1] = x1 /\ (f <= 2 => s4[2] = x2) /\ (f <= 1 => s4[3] = x3) /\ (f = 0 => s4[4] = x4)
  <2>1. CASE f = 0
    <3>1. s4 = s3 \o <<x4>>
      BY <2>1 DEF When
    <3>2. s4 = Append(s3, x4)
      BY <1>6, <1>10, <3>1, OneMore
    <3> HIDE DEF s4
    <3>3. /\ s4 \in Seq(S) /\ Len(s4) = Len(s3) + 1 /\ s4[Len(s3) + 1] = x4
          /\ \A i \in 1..Len(s3) : s4[i] = s3[i]
      BY <1>6, <1>10, <3>2, AppendIs
    <3> QED BY <1>5, <1>6, <1>9, <1>10, <2>1, <3>3
  <2>2. CASE ~(f = 0)
    <3>1. s4 = s3 \o <<>>
      BY <2>2 DEF When
    <3>2. s4 = s3
      BY <1>6, <1>10, <3>1, ConcatEmptySeq
    <3> HIDE DEF s4
    <3> QED BY <1>6, <1>9, <1>10, <2>2, <3>2
  <2> QED BY <2>1, <2>2
<1> HIDE DEF s4
<1>12. s5 = s4
  BY <1>11, ConcatEmptySeq DEF When
<1>13. Len(s4) = 4 - f
  BY <1>5, <1>9, <1>10, <1>11
<1> QED BY <1>4, <1>5, <1>12, <1>13, <1>11 DEF f, x1, x2, x3, x4

\* It writes at most one field more when the condition holds.
LEMMA WhenOK ==
  ASSUME NEW S, NEW s \in Seq(S), NEW x \in S
  PROVE  s \o When(TRUE, <<x>>) \in Seq(S) /\ s \o When(FALSE, <<x>>) \in Seq(S)
<1>1. s \o <<x>> \in Seq(S) /\ s \o <<>> \in Seq(S)
  OBVIOUS
<1> QED BY <1>1 DEF When

LEMMA EmitHdrLen ==
  ASSUME NEW m, NEW find
  PROVE  Len(EmitHdr(m, find).fields) \in Nat
<1> DEFINE e == Previous(m, find)
           keeps == e.known /\ m.time = 0
           delta == IF keeps THEN 0 ELSE m.time - e.time
           f == Format(e, m, delta)
           t == IF f > 0 THEN delta ELSE IF keeps THEN e.time ELSE m.time
           extended == t < 0 \/ t >= Mark
           x1 == [kind |-> "basic", fmt |-> f, cs |-> m.cs]
           x2 == [kind |-> "time", val |-> IF extended THEN Mark ELSE t]
           x3 == [kind |-> "shape", len |-> m.len, type |-> m.type]
           x4 == [kind |-> "sid", val |-> m.sid]
           x5 == [kind |-> "ext", val |-> t % WireMod]
           S == {x1, x2, x3, x4, x5}
           s1 == <<x1>>
           s2 == s1 \o When(f <= 2, <<x2>>)
           s3 == s2 \o When(f <= 1, <<x3>>)
           s4 == s3 \o When(f = 0, <<x4>>)
           s5 == s4 \o When(extended, <<x5>>)
<1>1. EmitHdr(m, find).fields = s5
  BY DEF EmitHdr
<1>2. x1 \in S /\ x2 \in S /\ x3 \in S /\ x4 \in S /\ x5 \in S
  OBVIOUS
<1> HIDE DEF S, x1, x2, x3, x4, x5, f, t
<1>3. s1 \in Seq(S)
  BY <1>2
<1> HIDE DEF s1
<1>4. s2 \in Seq(S)
  <2>1. CASE f <= 2
    BY <1>2, <1>3, <2>1, WhenOK DEF When
  <2>2. CASE ~(f <= 2)
    BY <1>2, <1>3, <2>2, WhenOK DEF When
  <2> QED BY <2>1, <2>2
<1> HIDE DEF s2
<1>5. s3 \in Seq(S)
  <2>1. CASE f <= 1
    BY <1>2, <1>4, <2>1, WhenOK DEF When
  <2>2. CASE ~(f <= 1)
    BY <1>2, <1>4, <2>2, WhenOK DEF When
  <2> QED BY <2>1, <2>2
<1> HIDE DEF s3
<1>6. s4 \in Seq(S)
  <2>1. CASE f = 0
    BY <1>2, <1>5, <2>1, WhenOK DEF When
  <2>2. CASE ~(f = 0)
    BY <1>2, <1>5, <2>2, WhenOK DEF When
  <2> QED BY <2>1, <2>2
<1> HIDE DEF s4
<1>7. s5 \in Seq(S)
  <2>1. CASE extended
    BY <1>2, <1>6, <2>1, WhenOK DEF When
  <2>2. CASE ~extended
    BY <1>2, <1>6, <2>2, WhenOK DEF When
  <2> QED BY <2>1, <2>2
<1> HIDE DEF s5
<1> QED BY <1>1, <1>7

\* The call in progress is of a message, and its chunk stream is at the last view.
LEMMA CallIs ==
  ASSUME Typed, NEW R \in View, Calls(R), Sends(R), call # NoSend
  PROVE  /\ call.msg \in Any /\ call.written \in Nat /\ call.written < call.msg.len
         /\ call.msg.cs \in Streams /\ Unwritten \in Nat \ {0} /\ selfChunkSize \in Nat \ {0}
         /\ selfChunkSize = R.size
         /\ Before(call.msg) \in Headers
         /\ Before(call.msg) = IF search THEN Blank ELSE cacheOut[call.msg.cs]
         /\ cacheOut[call.msg.cs] \in Headers /\ Emits(cacheOut[call.msg.cs], R, call.msg.cs)
<1>1. call.msg \in Any /\ call.written < call.msg.len
  BY DEF Calls
<1>2. call.written \in Nat
  BY DEF Typed, Calling
<1>3. call.msg.cs \in Streams /\ call.msg.len \in Nat
  BY <1>1, AnyOK
<1>4. selfChunkSize \in Nat \ {0}
  BY SizesOK DEF Typed
<1>5. Before(call.msg) = IF search THEN Blank ELSE cacheOut[call.msg.cs]
  BY DEF Before, Previous
<1>6. Blank \in Headers /\ cacheOut[call.msg.cs] \in Headers
  BY <1>3 DEF Typed, Blank, Headers, TypeNames
<1>7. Emits(cacheOut[call.msg.cs], R, call.msg.cs) /\ selfChunkSize = R.size
  BY <1>3 DEF Sends
<1> QED BY <1>1, <1>2, <1>3, <1>4, <1>5, <1>6, <1>7 DEF Unwritten

\* A message in progress continues what the view has of its chunk stream.
LEMMA CellIs ==
  ASSUME Typed, NEW R \in View, Calls(R), Sends(R), call # NoSend
  PROVE  LET m == call.msg
             p == R.at[m.cs]
         IN  IF call.written = 0
             THEN p.left = 0 /\ (search \/ m.time = 0 \/ m.time >= cacheOut[m.cs].time)
             ELSE LET e == cacheOut[m.cs]
                  IN  /\ p = Cell(m, call.written, m.len - call.written) /\ p.left > 0
                      /\ e.known /\ e.time = m.time
                      /\ e.len = m.len /\ e.type = m.type /\ e.sid = m.sid
<1> DEFINE m == call.msg
           p == R.at[m.cs]
           e == cacheOut[m.cs]
<1>1. /\ m \in Any /\ call.written \in Nat /\ call.written < m.len /\ m.cs \in Streams
      /\ e \in Headers /\ Emits(e, R, m.cs)
  BY CallIs
<1>2. m.len \in Nat
  BY <1>1, AnyOK
<1>3. CASE call.written = 0
  <2>1. search \/ m.time = 0 \/ m.time >= e.time
    BY <1>3 DEF Calls
  <2>2. Sending(m.cs) /\ m.cs \in ChunkStream => pending[m.cs] = NoSend
    BY DEF Calls
  <2>3. Sending(m.cs)
    BY DEF Sending
  <2>4. ~(p.left > 0)
    BY <1>1, <1>3, <2>2, <2>3 DEF Calls
  <2>5. p.left \in Nat
    BY <1>1 DEF View, Cells
  <2>6. p.left = 0
    BY <2>4, <2>5
  <2> QED BY <1>3, <2>1, <2>6
<1>4. CASE call.written # 0
  <2>1. p = Cell(m, call.written, m.len - call.written)
    BY <1>4 DEF Calls, Halfway
  <2>2. p.left = m.len - call.written /\ p.msg = m
    BY <2>1 DEF Cell
  <2>3. p.left > 0
    BY <1>1, <1>2, <2>2
  <2>4. e.known /\ e.time = m.time
    BY <1>1, <2>2, <2>3 DEF Emits
  <2>5. e.len = m.len /\ e.type = m.type /\ e.sid = m.sid
    BY <1>1, <2>2, <2>4 DEF Emits
  <2> QED BY <1>4, <2>1, <2>3, <2>4, <2>5
<1> QED BY <1>3, <1>4

LEMMA FormIs ==
  ASSUME Typed, NEW R \in View, Calls(R), Sends(R), call # NoSend
  PROVE  LET m == call.msg
             p == R.at[m.cs]
         IN  /\ Form(m) \in 0..3
             /\ Form(m) >= 1 => p.msg.sid = m.sid
             /\ Form(m) >= 2 => p.msg.len = m.len /\ p.msg.type = m.type
             /\ search => Form(m) = 0
             /\ call.written > 0 /\ ~search => Form(m) >= 2
<1> DEFINE m == call.msg
           e == Before(m)
<1>1. IF search THEN e = Blank ELSE e = cacheOut[m.cs] /\ Emits(e, R, m.cs)
  BY CallIs
<1>2. Form(m) \in 0..3
  BY DEF Form, Format
<1>3. /\ Form(m) >= 1 => e.known /\ e.sid = m.sid
      /\ Form(m) >= 2 => e.known /\ e.len = m.len /\ e.type = m.type
  <2> HIDE DEF m
  <2>1. CASE ~e.known \/ e.sid # m.sid
    <3>1. Form(m) = 0
      BY <2>1 DEF Form, Format
    <3> QED BY <3>1
  <2>2. CASE ~(~e.known \/ e.sid # m.sid) /\ (e.type # m.type \/ e.len # m.len)
    <3>1. Form(m) = 1
      BY <2>2 DEF Form, Format
    <3> QED BY <2>2, <3>1
  <2>3. CASE ~(~e.known \/ e.sid # m.sid) /\ ~(e.type # m.type \/ e.len # m.len)
    BY <2>3
  <2> QED BY <2>1, <2>2, <2>3
<1>4. search => Form(m) = 0
  BY <1>1 DEF Form, Format, Blank
<1>5. call.written > 0 /\ ~search => Form(m) >= 2
  <2> SUFFICES ASSUME call.written > 0, ~search PROVE Form(m) >= 2
    OBVIOUS
  <2>1. e.known /\ e.len = m.len /\ e.type = m.type /\ e.sid = m.sid
    BY <1>1, CellIs
  <2> HIDE DEF m
  <2> QED BY <2>1 DEF Form, Format
<1>6. CASE search
  BY <1>2, <1>4, <1>6
<1>7. CASE ~search
  BY <1>1, <1>2, <1>3, <1>5, <1>7 DEF Emits
<1> QED BY <1>6, <1>7

\* Where a message begins, one more has begun than was started.
LEMMA StartedIs ==
  ASSUME Undisturbed, Typed, NEW R \in View, Calls(R), Sends(R), call # NoSend, 0 \in Times
  PROVE  /\ Span(begun) \in Nat /\ Span(begun) < Mark /\ Span(Started) \in Nat
         /\ Span(begun) = IF call.written = 0 /\ call.msg.cs # Control
                          THEN Span(Started) + Longest ELSE Span(Started)
         /\ Longest \in Nat /\ \A cs \in Streams : R.time[cs] <= Span(Started)
         /\ call.msg.cs # Control => Longest <= Span(begun)
<1>1. Drifts(R)
  BY DEF Sends
<1>2. begun \in 0..MaxMessages /\ (Fresh \/ call.msg.cs # Control => begun > 0)
      /\ \A cs \in Streams : R.time[cs] <= Span(Started)
  BY <1>1 DEF Drifts, Busy, Fresh
<1>3. Span(begun) \in Nat /\ Span(begun) < Mark
      /\ (begun > 0 => Span(begun) = Span(begun - 1) + Longest /\ Span(begun - 1) \in Nat)
  BY <1>2, SpanOK
<1>4. Longest \in Nat
  BY LongestOK
<1>5. CASE Fresh
  BY <1>2, <1>3, <1>4, <1>5 DEF Started, Fresh
<1>6. CASE ~Fresh
  BY <1>2, <1>3, <1>4, <1>6 DEF Started, Fresh
<1> QED BY <1>5, <1>6

\* The time a header says, and the receiver's time behind it: of a message on the
\* chunk stream it names, ...
LEMMA TimeFieldNamed ==
  ASSUME Undisturbed, Typed, NEW R \in View, Calls(R), Sends(R), call # NoSend, ~search
  PROVE  LET m == call.msg
             t == R.time[m.cs]
         IN  /\ Increment(m) \in Nat /\ TimeField(m) \in 0..(Mark - 1)
             /\ (IF Form(m) = 0 THEN TimeField(m) ELSE t + Increment(m))
                  <= (IF 0 \in Times THEN Span(begun) ELSE m.time)
             /\ Form(m) > 0 => TimeField(m) = Increment(m)
             /\ t \in Nat
<1> DEFINE m == call.msg
           e == Before(m)
           t == R.time[m.cs]
<1>1. /\ m \in Any /\ m.cs \in Streams /\ e \in Headers /\ Emits(e, R, m.cs) /\ call.written \in Nat
      /\ e = cacheOut[m.cs]
  BY CallIs
<1>2. m.time \in Nat /\ m.time < Mark /\ Mark \in Nat
  BY <1>1, AnyOK, TimesOK, SizesOK
<1>3. e.time \in Nat /\ e.time < Mark /\ t \in Nat
  BY <1>1 DEF Headers, View, Emits
<1>4. KeepsTime(m) <=> e.known /\ m.time = 0
  BY DEF KeepsTime
<1>5. ~e.known => e.time = 0
  BY <1>1 DEF Emits
<1>6. call.written # 0 => e.time = m.time
  BY <1>1, CellIs
<1>7. m.cs = Control => m.time = 0 /\ e.time = 0
  BY <1>1, TimesOK DEF Emits
<1>8. m.time = 0 \/ m.time >= e.time
  BY <1>1, <1>2, <1>3, <1>6, CellIs
<1>9. Increment(m) = IF KeepsTime(m) THEN 0 ELSE m.time - e.time
  BY DEF Increment
<1>10. Form(m) \in 0..3 /\ (call.written > 0 => Form(m) >= 2)
  BY FormIs
<1>11. TimeField(m) = IF Form(m) > 0 THEN Increment(m) ELSE IF KeepsTime(m) THEN e.time ELSE m.time
  BY DEF TimeField
<1>12. /\ 0 \notin Times => t <= e.time /\ (m.cs # Control => m.time # 0)
       /\ 0 \in Times => m.time <= Longest /\ e.time <= Longest
  <2>1. Drifts(R)
    BY DEF Sends
  <2>2. 0 \notin Times => t <= cacheOut[m.cs].time
    BY <1>1, <2>1 DEF Drifts
  <2>3. e = cacheOut[m.cs]
    BY CallIs
  <2>4. /\ 0 \in Times => e.time <= Longest /\ m.time <= Longest
        /\ 0 \notin Times /\ m.cs # Control => m.time # 0
    BY <1>1, TimesOK DEF Emits
  <2> HIDE DEF m, e, t
  <2> QED BY <2>2, <2>3, <2>4
<1>13. 0 \in Times => 
         /\ Span(begun) \in Nat /\ Span(Started) \in Nat /\ Longest \in Nat
         /\ Span(begun) = (IF call.written = 0 /\ m.cs # Control
                           THEN Span(Started) + Longest ELSE Span(Started))
         /\ t <= Span(Started)
  <2>1. m.cs \in Streams
    BY <1>1
  <2> HIDE DEF m
  <2> QED BY <2>1, StartedIs DEF m
<1> HIDE DEF m, e, t
<1>14. Increment(m) \in Nat /\ Increment(m) <= m.time
  BY <1>2, <1>3, <1>4, <1>5, <1>8, <1>9
<1>15. TimeField(m) \in 0..(Mark - 1) /\ (Form(m) > 0 => TimeField(m) = Increment(m))
  BY <1>2, <1>3, <1>11, <1>14
<1> PICK x : x = IF Form(m) = 0 THEN TimeField(m) ELSE t + Increment(m)
  OBVIOUS
<1>16. x <= (IF 0 \in Times THEN Span(begun) ELSE m.time)
  <2>1. CASE 0 \notin Times /\ m.cs # Control
    <3>1. Increment(m) = m.time - e.time /\ ~KeepsTime(m) /\ t <= e.time
      BY <1>4, <1>9, <1>12, <2>1
    <3>2. TimeField(m) = IF Form(m) > 0 THEN Increment(m) ELSE m.time
      BY <1>11, <3>1
    <3>3. t + Increment(m) <= m.time
      BY <1>2, <1>3, <3>1
    <3> QED BY <1>2, <1>10, <2>1, <3>2, <3>3
  <2>2. CASE m.cs = Control \/ call.written # 0
    <3>1. e.time = m.time
      BY <1>6, <1>7, <2>2
    <3>2. Increment(m) = 0
      BY <1>2, <1>9, <3>1
    <3>3. Form(m) = 0 => m.time = 0 /\ TimeField(m) = 0
      <4>1. Form(m) = 0 => m.cs = Control
        BY <1>1, <1>10, <2>2
      <4> QED BY <1>7, <1>11, <4>1
    <3>4. x <= t
      BY <1>3, <3>2, <3>3
    <3>5. CASE 0 \in Times
      <4>1. t <= Span(begun) /\ Span(begun) \in Nat
        BY <1>13, <2>2, <3>5
      <4>2. x \in Nat
        BY <1>3, <1>14, <1>15
      <4> HIDE DEF Span
      <4> QED BY <1>3, <3>4, <3>5, <4>1, <4>2
    <3>6. CASE 0 \notin Times
      BY <1>2, <1>3, <1>12, <1>14, <1>15, <3>1, <3>4, <3>6
    <3> QED BY <3>5, <3>6
  <2>3. CASE 0 \in Times /\ m.cs # Control /\ call.written = 0
    <3>1. Span(begun) = Span(Started) + Longest /\ t <= Span(Started)
      BY <1>13, <2>3
    <3>2. Increment(m) <= Longest /\ (Form(m) = 0 => TimeField(m) <= Longest)
      BY <1>2, <1>11, <1>12, <1>13, <1>14, <2>3
    <3> QED BY <1>3, <1>10, <1>13, <1>14, <1>15, <2>3, <3>1, <3>2
  <2> QED BY <2>1, <2>2, <2>3
<1> QED BY <1>3, <1>14, <1>15, <1>16 DEF m, t

\* ... of a message that looks for one, ...
LEMMA TimeFieldFree ==
  ASSUME Undisturbed, Typed, NEW R \in View, Calls(R), Sends(R), call # NoSend, search
  PROVE  LET m == call.msg
         IN  /\ m.time \in Nat /\ m.time < Mark
             /\ Form(m) = 0 /\ Increment(m) = m.time /\ TimeField(m) = m.time
             /\ 0 \in Times => m.time <= Span(begun)
<1> DEFINE m == call.msg
           e == Before(m)
<1>1. m \in Any /\ e = Blank /\ m.free
  BY CallIs DEF Calls
<1>2. m.time \in Nat /\ m.time < Mark /\ m.cs # Control
  BY <1>1, AnyOK, TimesOK
<1>3. ~e.known /\ e.time = 0
  BY <1>1 DEF Blank
<1>4. Form(m) = 0
  BY FormIs
<1>5. ~KeepsTime(m)
  BY <1>3 DEF KeepsTime
<1>6. Increment(m) = m.time - e.time
  BY <1>5 DEF Increment
<1>7. TimeField(m) = m.time
  BY <1>4, <1>5 DEF TimeField
<1>8. 0 \in Times => m.time <= Span(begun)
  <2> SUFFICES ASSUME 0 \in Times PROVE m.time <= Span(begun)
    OBVIOUS
  <2>1. Longest <= Span(begun) /\ Longest \in Nat /\ Span(begun) \in Nat
    BY <1>2, StartedIs
  <2>2. m.time <= Longest
    BY <1>1, TimesOK
  <2> QED BY <1>2, <2>1, <2>2
<1> HIDE DEF m, e
<1>9. Increment(m) = m.time
  BY <1>2, <1>3, <1>6
<1> QED BY <1>2, <1>4, <1>7, <1>8, <1>9 DEF m

\* ... and of both.
LEMMA TimeFieldIs ==
  ASSUME Undisturbed, Typed, NEW R \in View, Calls(R), Sends(R), call # NoSend
  PROVE  LET m == call.msg
             t == R.time[m.cs]
         IN  /\ Increment(m) \in Nat /\ TimeField(m) \in 0..(Mark - 1)
             /\ (IF Form(m) = 0 THEN TimeField(m) ELSE t + Increment(m))
                  <= (IF 0 \in Times THEN Span(begun) ELSE m.time)
             /\ Form(m) > 0 => TimeField(m) = Increment(m)
             /\ t \in Nat
<1>1. CASE ~search
  BY <1>1, TimeFieldNamed
<1>2. CASE search
  <2> DEFINE m == call.msg
  <2>1. /\ m.time \in Nat /\ m.time < Mark /\ Mark \in Nat
        /\ Form(m) = 0 /\ Increment(m) = m.time /\ TimeField(m) = m.time
        /\ 0 \in Times => m.time <= Span(begun)
    BY <1>2, TimeFieldFree, SizesOK
  <2>2. R.time[m.cs] \in Nat
    BY CallIs DEF View
  <2> HIDE DEF m
  <2>3. Increment(m) \in Nat /\ TimeField(m) \in 0..(Mark - 1)
    BY <2>1
  <2>4. ~(Form(m) > 0)
    BY <2>1
  <2>5. TimeField(m) <= (IF 0 \in Times THEN Span(begun) ELSE m.time)
    BY <2>1
  <2> QED BY <2>1, <2>2, <2>3, <2>4, <2>5 DEF m
<1> QED BY <1>1, <1>2

LEMMA PieceFollows ==
  ASSUME Undisturbed, Typed, NEW R \in View, Calls(R), Sends(R), call # NoSend
  PROVE  Follows(R, NextPiece)
<1> DEFINE m == call.msg
           c == NextPiece
           p == R.at[m.cs]
<1>1. /\ m \in Any /\ call.written \in Nat /\ call.written < m.len /\ Unwritten \in Nat \ {0}
      /\ selfChunkSize \in Nat \ {0} /\ selfChunkSize = R.size
  BY CallIs
<1>2. /\ Form(m) \in 0..3
      /\ Form(m) >= 1 => p.msg.sid = m.sid
      /\ Form(m) >= 2 => p.msg.len = m.len /\ p.msg.type = m.type
  BY FormIs
<1>3. TimeField(m) \in 0..(Mark - 1)
  BY TimeFieldIs
<1>4. Mark \in Nat /\ 0 < Mark
  BY SizesOK DEF Undisturbed, TimesFit
<1>5. /\ c.msg = m /\ c.from = call.written /\ c.fmt = Form(m)
      /\ c.n = Lesser(m.len - call.written, R.size)
      /\ c.stamp = IF Form(m) = 3 THEN 0 ELSE TimeField(m)
  BY <1>1 DEF NextPiece, Unwritten
<1>6. c.n \in Nat
  BY <1>1, <1>5, Lesser2 DEF Unwritten
<1>7. c.stamp \in Nat /\ c.stamp < Mark
  BY <1>3, <1>4, <1>5
<1>8. c \in Piece
  <2>1. c = [msg |-> c.msg, from |-> c.from, n |-> c.n, fmt |-> c.fmt, stamp |-> c.stamp]
    BY DEF NextPiece
  <2> HIDE DEF c
  <2> QED BY <1>1, <1>2, <1>5, <1>6, <1>7, <2>1 DEF Piece
<1>9. IF call.written = 0 THEN p.left = 0 ELSE p = Cell(m, call.written, m.len - call.written)
  BY CellIs
<1> HIDE DEF c
<1> QED BY <1>1, <1>2, <1>5, <1>7, <1>8, <1>9 DEF Follows, c

LEMMA NextPieceIs ==
  /\ NextPiece.msg = call.msg /\ NextPiece.from = call.written /\ NextPiece.fmt = Form(call.msg)
  /\ NextPiece.n = Lesser(Unwritten, selfChunkSize)
  /\ NextPiece.stamp = IF Form(call.msg) = 3 THEN 0 ELSE TimeField(call.msg)
BY DEF NextPiece

LEMMA FieldsAre ==
  ASSUME Undisturbed, Typed, NEW R \in View, Calls(R), Sends(R), call # NoSend
  PROVE  LET c == NextPiece
             s == EmitHdr(call.msg, search).fields
         IN  /\ s \in Seq(Units) /\ Len(s) = HeadLen(c)
             /\ \A i \in 1..HeadLen(c) : s[i] = Unit(c, i)
             /\ EmitHdr(call.msg, search).entry = Remembered(Before(call.msg), call.msg, Increment(call.msg))
<1> DEFINE m == call.msg
           c == NextPiece
           s == EmitHdr(m, search).fields
<1>1. Form(m) \in 0..3
  BY FormIs
<1>2. TimeField(m) \in 0..(Mark - 1) /\ Mark \in Nat
  BY TimeFieldIs, SizesOK
<1>3. ~(TimeField(m) < 0 \/ TimeField(m) >= Mark)
  BY <1>2
<1>4. /\ Len(s) = 4 - Form(m)
      /\ s[1] = [kind |-> "basic", fmt |-> Form(m), cs |-> m.cs]
      /\ Form(m) <= 2 => s[2] = [kind |-> "time", val |-> TimeField(m)]
      /\ Form(m) <= 1 => s[3] = [kind |-> "shape", len |-> m.len, type |-> m.type]
      /\ Form(m) = 0 => s[4] = [kind |-> "sid", val |-> m.sid]
      /\ EmitHdr(m, search).entry = Remembered(Before(m), m, Increment(m))
      /\ \E S : s \in Seq(S)
  BY <1>1, <1>3, EmitHdrIs
<1>5. c \in Piece /\ c.msg = m /\ c.fmt = Form(m)
      /\ c.stamp = IF Form(m) = 3 THEN 0 ELSE TimeField(m)
  BY PieceFollows, NextPieceIs DEF Follows
<1> HIDE DEF c, s
<1>6. HeadLen(c) = 4 - Form(m) /\ HeadLen(c) \in 1..4
  BY <1>1, <1>5 DEF HeadLen
<1>7. ASSUME NEW i \in 1..HeadLen(c) PROVE s[i] = Unit(c, i)
  <2>1. ~(i > HeadLen(c)) /\ i \in {1, 2, 3, 4}
    BY <1>6
  <2>2. CASE i = 1
    <3>1. Unit(c, i) = [kind |-> "basic", fmt |-> c.fmt, cs |-> c.msg.cs]
      BY <2>1, <2>2 DEF Unit
    <3> QED BY <1>4, <1>5, <2>2, <3>1
  <2>3. CASE i = 2
    <3>1. Unit(c, i) = [kind |-> "time", val |-> c.stamp]
      BY <2>1, <2>3 DEF Unit
    <3>2. Form(m) <= 2
      BY <1>1, <1>6, <2>1, <2>3
    <3>3. c.stamp = TimeField(m)
      BY <1>5, <3>2
    <3> QED BY <1>4, <2>3, <3>1, <3>2, <3>3
  <2>4. CASE i = 3
    <3>1. Unit(c, i) = [kind |-> "shape", len |-> c.msg.len, type |-> c.msg.type]
      BY <2>1, <2>4 DEF Unit
    <3>2. Form(m) <= 1
      BY <1>1, <1>6, <2>1, <2>4
    <3> QED BY <1>4, <1>5, <2>4, <3>1, <3>2
  <2>5. CASE i = 4
    <3>1. Unit(c, i) = [kind |-> "sid", val |-> c.msg.sid]
      BY <2>1, <2>5 DEF Unit
    <3>2. Form(m) = 0
      BY <1>1, <1>6, <2>1, <2>5
    <3> QED BY <1>4, <1>5, <2>5, <3>1, <3>2
  <2> QED BY <2>1, <2>2, <2>3, <2>4, <2>5
<1>8. s \in Seq(Units)
  <2>1. PICK S : s \in Seq(S)
    BY <1>4
  <2>2. Len(s) = HeadLen(c)
    BY <1>4, <1>6
  <2>3. \A i \in 1..Len(s) : s[i] \in Units
    BY <1>5, <1>6, <1>7, <2>2 DEF Units
  <2> QED BY <2>1, <2>3
<1> QED BY <1>4, <1>6, <1>7, <1>8 DEF c, s

\* Payload from one place on.
LEMMA PartIs ==
  ASSUME NEW m \in Any, NEW k \in Nat, NEW n \in Nat, k + n <= m.len
  PROVE  LET s == SubSeq(Payload(m), k + 1, k + n)
         IN  /\ s \in Seq({Data(m, j) : j \in Nat}) /\ Len(s) = n
             /\ \A i \in 1..n : s[i] = Data(m, k + i)
<1> DEFINE p == Payload(m)
           S == {Data(m, j) : j \in Nat}
           s == SubSeq(p, k + 1, k + n)
<1>1. p \in Seq(S) /\ Len(p) = m.len /\ \A i \in 1..m.len : p[i] = Data(m, i)
  BY PayloadOK
<1>2. m.len \in Nat
  BY AnyOK
<1> HIDE DEF p, S
<1>3. s \in Seq(S) /\ Len(s) = n /\ \A i \in 1..n : s[i] = p[k + i]
  BY <1>1, <1>2
<1>4. \A i \in 1..n : k + i \in 1..m.len
  BY <1>2
<1> QED BY <1>1, <1>3, <1>4 DEF S, p

LEMMA ChunkIs ==
  ASSUME Undisturbed, Typed, NEW R \in View, Calls(R), Sends(R), call # NoSend
  PROVE  LET c == NextPiece
         IN  /\ Chunk \in Seq(Units) /\ Len(Chunk) = Extent(c)
             /\ \A i \in 1..Extent(c) : Chunk[i] = Unit(c, i)
<1> DEFINE c == NextPiece
           s == EmitHdr(call.msg, search).fields
           t == SubSeq(Payload(call.msg), call.written + 1, call.written + c.n)
<1>1. Chunk = s \o t
  BY NextPieceIs DEF Chunk, Unwritten
<1>2. s \in Seq(Units) /\ Len(s) = HeadLen(c) /\ \A i \in 1..HeadLen(c) : s[i] = Unit(c, i)
  BY FieldsAre
<1>3. /\ c \in Piece /\ c.n \in Nat \ {0} /\ c.from \in Nat /\ c.from + c.n <= c.msg.len
      /\ c.msg \in Any
  BY PieceFollows, FollowsOK
<1>4. c.msg = call.msg /\ c.from = call.written
  BY NextPieceIs
<1>5. HeadLen(c) \in 1..4 /\ Extent(c) = HeadLen(c) + c.n
  BY <1>3, ExtentOK
<1>6. Len(t) = c.n /\ (\A i \in 1..c.n : t[i] = Data(call.msg, call.written + i))
      /\ t \in Seq({Data(call.msg, j) : j \in Nat})
  <2> DEFINE n == c.n
  <2>1. call.msg \in Any /\ call.written \in Nat /\ n \in Nat /\ call.written + n <= call.msg.len
    BY <1>3, <1>4
  <2> HIDE DEF n
  <2>2. LET u == SubSeq(Payload(call.msg), call.written + 1, call.written + n)
        IN  /\ u \in Seq({Data(call.msg, j) : j \in Nat}) /\ Len(u) = n
            /\ \A i \in 1..n : u[i] = Data(call.msg, call.written + i)
    BY <2>1, PartIs
  <2> QED BY <2>2 DEF n
<1> HIDE DEF c, s, t
<1>7. \A i \in 1..c.n : Unit(c, HeadLen(c) + i) = Data(call.msg, call.written + i)
  <2> SUFFICES ASSUME NEW i \in 1..c.n
               PROVE  Unit(c, HeadLen(c) + i) = Data(call.msg, call.written + i)
    OBVIOUS
  <2>1. HeadLen(c) + i > HeadLen(c) /\ (HeadLen(c) + i) - HeadLen(c) = i
    BY <1>3, <1>5
  <2> QED BY <1>4, <2>1 DEF Unit
<1>8. t \in Seq(Units)
  <2>1. ASSUME NEW i \in 1..c.n PROVE t[i] \in Units
    <3>1. t[i] = Unit(c, HeadLen(c) + i)
      BY <1>6, <1>7
    <3>2. HeadLen(c) + i \in Nat \ {0}
      BY <1>3, <1>5
    <3> QED BY <1>3, <3>1, <3>2 DEF Units
  <2> QED BY <1>6, <2>1
<1>9. /\ s \o t \in Seq(Units) /\ Len(s \o t) = Len(s) + Len(t)
      /\ \A i \in 1..(Len(s) + Len(t)) :
            (s \o t)[i] = IF i <= Len(s) THEN s[i] ELSE t[i - Len(s)]
  BY <1>2, <1>8, ConcatProperties, Zenon
<1>10. \A i \in 1..Extent(c) : (s \o t)[i] = Unit(c, i)
  <2> SUFFICES ASSUME NEW i \in 1..Extent(c) PROVE (s \o t)[i] = Unit(c, i)
    OBVIOUS
  <2>1. i <= HeadLen(c) \/ i > HeadLen(c)
    BY <1>3, <1>5
  <2>2. CASE i <= HeadLen(c)
    BY <1>2, <1>3, <1>5, <1>6, <1>9, <2>2
  <2>3. CASE i > HeadLen(c)
    <3>1. i - HeadLen(c) \in 1..c.n /\ HeadLen(c) + (i - HeadLen(c)) = i
      BY <1>3, <1>5, <2>3
    <3>2. (s \o t)[i] = t[i - HeadLen(c)]
      BY <1>2, <1>3, <1>5, <1>6, <1>9, <2>3
    <3> QED BY <1>6, <1>7, <3>1, <3>2
  <2> QED BY <2>1, <2>2, <2>3, Zenon
<1> QED BY <1>1, <1>2, <1>5, <1>6, <1>9, <1>10 DEF c
-----------------------------------------------------------------------------
(* A chunk is written: the sender. *)

\* The view after all but rest units of a chunk, which may be all of it.
Now(R, c, rest) ==
    IF c.from + c.n - rest = c.msg.len
    THEN Ended(Begun(R, c, rest), c.msg) ELSE Begun(R, c, rest)

LEMMA NowIs ==
  ASSUME NEW R \in View, NEW c, Follows(R, c), NEW rest \in 0..c.n
  PROVE  LET m == c.msg
             k == c.from + c.n - rest
             A == Now(R, c, rest)
         IN  /\ A.at[m.cs] = Cell(m, k, m.len - k)
             /\ A.time[m.cs] = IF c.fmt = 0 THEN c.stamp ELSE R.time[m.cs] + c.stamp
             /\ A.size = IF k = m.len /\ m.type = "chunk_size" THEN m.arg ELSE R.size
             /\ \A d \in Streams : d # m.cs =>
                  /\ A.time[d] = R.time[d]
                  /\ A.at[d] = IF k = m.len /\ m.type = "abort" /\ d = m.arg
                               THEN Cell(R.at[d].msg, 0, 0) ELSE R.at[d]
             /\ \A d \in ChunkStream :
                  A.done[d] = IF k = m.len /\ d = m.cs
                              THEN Append(R.done[d], Received(m.type, m.sid, Payload(m)))
                              ELSE R.done[d]
<1> DEFINE m == c.msg
           k == c.from + c.n - rest
           V == Begun(R, c, rest)
           A == Now(R, c, rest)
<1>1. m \in Any /\ m.cs \in Streams /\ c.from \in Nat /\ c.n \in Nat
  BY FollowsOK
<1>2. V \in View
  BY <1>1, BegunOK
<1>3. /\ V.size = R.size /\ V.done = R.done
      /\ V.at[m.cs] = Cell(m, k, m.len - k)
      /\ V.time[m.cs] = IF c.fmt = 0 THEN c.stamp ELSE R.time[m.cs] + c.stamp
      /\ \A d \in Streams : d # m.cs => V.at[d] = R.at[d] /\ V.time[d] = R.time[d]
  BY <1>1, BegunIs
<1>4. /\ m.type = "abort" => m.cs = Control /\ m.arg \in ChunkStream
      /\ m.type = "chunk_size" => m.cs = Control
      /\ Control \notin ChunkStream
  BY <1>1, AnyOK, SizesOK
<1> HIDE DEF V, m, k
<1>5. CASE k # m.len
  <2>1. A = V
    BY <1>5 DEF Now, V, m, k
  <2> HIDE DEF A
  <2> QED BY <1>3, <1>5, <2>1 DEF m, k, A
<1>6. CASE k = m.len
  <2>1. A = Ended(V, m)
    BY <1>6 DEF Now, V, m, k
  <2>2. /\ m.type # "abort" => A.at = V.at
        /\ m.type # "chunk_size" => A.size = V.size
        /\ m.type = "chunk_size" => A.size = m.arg
        /\ m.cs = Control => A.done = V.done
        /\ A.time = V.time
        /\ m.type = "abort" => /\ A.at[m.arg] = Cell(V.at[m.arg].msg, 0, 0)
                               /\ \A d \in Streams : d # m.arg => A.at[d] = V.at[d]
        /\ m.cs # Control =>
             /\ A.done[m.cs] = Append(V.done[m.cs], Received(m.type, m.sid, Payload(m)))
             /\ \A d \in ChunkStream : d # m.cs => A.done[d] = V.done[d]
    BY <1>1, <1>2, <2>1, EndedIs
  <2> HIDE DEF A
  <2>3. A.at[m.cs] = V.at[m.cs]
    BY <1>1, <1>4, <2>2
  <2>4. ASSUME NEW d \in Streams, d # m.cs
        PROVE  A.at[d] = IF m.type = "abort" /\ d = m.arg THEN Cell(R.at[d].msg, 0, 0) ELSE R.at[d]
    BY <1>3, <2>2, <2>4
  <2>5. ASSUME NEW d \in ChunkStream
        PROVE  A.done[d] = IF d = m.cs
                           THEN Append(R.done[d], Received(m.type, m.sid, Payload(m))) ELSE R.done[d]
    BY <1>3, <1>4, <2>2, <2>5
  <2>6. A.size = IF m.type = "chunk_size" THEN m.arg ELSE R.size
    BY <1>3, <2>2
  <2> QED BY <1>3, <1>6, <2>2, <2>3, <2>4, <2>5, <2>6 DEF m, k, A
<1> QED BY <1>5, <1>6

LEMMA AfterIs ==
  ASSUME NEW R \in View, NEW c, Follows(R, c)
  PROVE  LET m == c.msg
             k == c.from + c.n
             A == After(R, c)
         IN  /\ A.at[m.cs] = Cell(m, k, m.len - k)
             /\ A.time[m.cs] = IF c.fmt = 0 THEN c.stamp ELSE R.time[m.cs] + c.stamp
             /\ A.size = IF k = m.len /\ m.type = "chunk_size" THEN m.arg ELSE R.size
             /\ \A d \in Streams : d # m.cs =>
                  /\ A.time[d] = R.time[d]
                  /\ A.at[d] = IF k = m.len /\ m.type = "abort" /\ d = m.arg
                               THEN Cell(R.at[d].msg, 0, 0) ELSE R.at[d]
             /\ \A d \in ChunkStream :
                  A.done[d] = IF k = m.len /\ d = m.cs
                              THEN Append(R.done[d], Received(m.type, m.sid, Payload(m)))
                              ELSE R.done[d]
<1>1. c.from \in Nat /\ c.n \in Nat /\ 0 \in 0..c.n
  BY FollowsOK
<1>2. c.from + c.n - 0 = c.from + c.n
  BY <1>1
<1>3. After(R, c) = Now(R, c, 0)
  BY <1>2 DEF After, Now
<1> DEFINE A == After(R, c)
           k == c.from + c.n - 0
<1>4. k = c.from + c.n /\ A = Now(R, c, 0)
  BY <1>2, <1>3
<1> HIDE DEF A
<1> QED BY <1>1, <1>4, NowIs DEF A

LEMMA EmitsOther ==
  ASSUME NEW e, NEW R, NEW A, NEW d, Emits(e, R, d), A.time[d] = R.time[d],
         A.at[d] = R.at[d] \/ A.at[d] = Cell(R.at[d].msg, 0, 0)
  PROVE  Emits(e, A, d)
<1>1. A.at[d].msg = R.at[d].msg /\ (A.at[d].left = R.at[d].left \/ A.at[d].left = 0)
  BY DEF Cell
<1> QED BY <1>1 DEF Emits

\* The time of a chunk in the view after it.
LEMMA AfterTime ==
  ASSUME Undisturbed, Typed, NEW R \in View, Calls(R), Sends(R), call # NoSend
  PROVE  LET A == After(R, NextPiece)
         IN  /\ A.time[call.msg.cs] \in Nat /\ A.time[call.msg.cs] < Mark
             /\ A.time[call.msg.cs] <= IF 0 \in Times THEN Span(begun) ELSE call.msg.time
<1> DEFINE m == call.msg
           c == NextPiece
           t == R.time[m.cs]
           A == After(R, c)
<1> PICK limit : limit = IF 0 \in Times THEN Span(begun) ELSE m.time
  OBVIOUS
<1>1. Follows(R, c)
  BY PieceFollows
<1>2. /\ Increment(m) \in Nat /\ TimeField(m) \in 0..(Mark - 1)
      /\ (IF Form(m) = 0 THEN TimeField(m) ELSE t + Increment(m)) <= limit
      /\ Form(m) > 0 => TimeField(m) = Increment(m)
      /\ t \in Nat
  BY TimeFieldIs
<1>3. /\ c.msg = m /\ c.fmt = Form(m)
      /\ c.stamp = IF Form(m) = 3 THEN 0 ELSE TimeField(m)
  BY NextPieceIs
<1>4. Form(m) \in 0..3
  BY FormIs
<1>5. A.time[m.cs] = IF c.fmt = 0 THEN c.stamp ELSE t + c.stamp
  BY <1>1, <1>3, AfterIs
<1>6. limit \in Nat /\ limit < Mark /\ Mark \in Nat
  <2>1. m \in Any
    BY CallIs
  <2>2. m.time \in Nat /\ m.time < Mark /\ Mark \in Nat
    BY <2>1, AnyOK, TimesOK, SizesOK
  <2>3. 0 \in Times => Span(begun) \in Nat /\ Span(begun) < Mark
    BY StartedIs
  <2> QED BY <2>2, <2>3
<1> HIDE DEF A, m, c, t
<1>7. A.time[m.cs] \in Nat /\ A.time[m.cs] <= limit
  <2>1. CASE Form(m) = 0
    BY <1>2, <1>3, <1>5, <2>1
  <2>2. CASE Form(m) = 3
    BY <1>2, <1>3, <1>5, <1>6, <2>2
  <2>3. CASE Form(m) \in 1..2
    BY <1>2, <1>3, <1>5, <2>3
  <2> QED BY <1>4, <2>1, <2>2, <2>3
<1>8. A.time[m.cs] < Mark
  BY <1>6, <1>7
<1> QED BY <1>7, <1>8 DEF A, m, c

LEMMA Underway == ASSUME NEW m \in Any, NEW k PROVE Progress(m, k) # NoSend
<1>1. m # NoMessage
  BY NoMessageOK
<1> QED BY <1>1 DEF Progress, NoSend

\* What WriteChunk does, in terms of the next piece.
LEMMA WriteIs ==
  ASSUME Undisturbed, Typed, NEW R \in View, Calls(R), Sends(R), WriteChunk
  PROVE  LET m == call.msg
             k == call.written + NextPiece.n
         IN  /\ call # NoSend /\ Len(Chunk) <= Room
             /\ cacheOut' = [cacheOut EXCEPT ![m.cs] = Remembered(Before(m), m, Increment(m))]
             /\ k # m.len => /\ call' = Progress(m, k)
                             /\ selfChunkSize' = selfChunkSize
                             /\ pending' = pending /\ accepted' = accepted
             /\ k = m.len => call' = NoSend /\ Accepted(m)
             /\ whole /\ k # m.len => staged' = staged \o Chunk /\ out' = out
             /\ ~whole \/ k = m.len => staged' = <<>> /\ out' = (out \o staged) \o Chunk
             /\ whole' = whole /\ search' = FALSE /\ in' = in /\ UNCHANGED receiver
<1>1. call # NoSend
  BY DEF WriteChunk
<1>2. EmitHdr(call.msg, search).entry = Remembered(Before(call.msg), call.msg, Increment(call.msg))
  BY <1>1, FieldsAre
<1>3. NextPiece.n = Lesser(call.msg.len - call.written, selfChunkSize)
  BY NextPieceIs DEF Unwritten
<1> HIDE DEF Progress, Accepted, NextPiece, Chunk, Remembered, receiver
<1> QED BY <1>1, <1>2, <1>3 DEF WriteChunk

LEMMA WriteSends ==
  ASSUME Undisturbed, Typed, NEW R \in View, Calls(R), Sends(R), WriteChunk,
         NEW c, c = NextPiece, NEW A, A = After(R, c)
  PROVE  Sends(A)'
<1>1. call # NoSend
  BY DEF WriteChunk
<1> PICK m : m = call.msg
  OBVIOUS
<1> PICK k : k = call.written + c.n
  OBVIOUS
<1>2. /\ m \in Any /\ m.cs \in Streams /\ selfChunkSize = R.size
  BY <1>1, CallIs
<1>3. Follows(R, c) /\ c.msg = m /\ c.from = call.written
  BY <1>1, PieceFollows, NextPieceIs
<1>4. /\ A.at[m.cs] = Cell(m, k, m.len - k)
      /\ A.size = IF k = m.len /\ m.type = "chunk_size" THEN m.arg ELSE R.size
      /\ \A d \in Streams : d # m.cs =>
           /\ A.time[d] = R.time[d]
           /\ A.at[d] = IF k = m.len /\ m.type = "abort" /\ d = m.arg
                        THEN Cell(R.at[d].msg, 0, 0) ELSE R.at[d]
      /\ \A d \in ChunkStream :
           A.done[d] = IF k = m.len /\ d = m.cs
                       THEN Append(R.done[d], Received(m.type, m.sid, Payload(m)))
                       ELSE R.done[d]
  BY <1>3, AfterIs
<1>5. /\ cacheOut' = [cacheOut EXCEPT ![m.cs] = Remembered(Before(m), m, Increment(m))]
      /\ k # m.len => selfChunkSize' = selfChunkSize /\ accepted' = accepted
      /\ k = m.len => Accepted(m)
  BY WriteIs
<1>6. A.time[m.cs] <= IF 0 \in Times THEN Span(begun) ELSE m.time
  BY <1>1, AfterTime
<1>7. selfChunkSize' = A.size
  BY <1>2, <1>4, <1>5 DEF Accepted
<1>8. ASSUME NEW d \in Streams PROVE Emits(cacheOut'[d], A, d)
  <2>1. CASE d = m.cs
    <3>1. cacheOut'[d] = [known |-> TRUE, time |-> m.time, delta |-> Increment(m), len |-> m.len,
                          type |-> m.type, sid |-> m.sid]
      BY <1>2, <1>5, <2>1 DEF Typed, Remembered
    <3>2. A.at[d].msg = m
      BY <1>4, <2>1 DEF Cell
    <3>3. m.time < Mark /\ (m.cs = Control => m.time = 0) /\ (0 \in Times => m.time <= Longest)
      BY <1>2, TimesOK
    <3> QED BY <2>1, <3>1, <3>2, <3>3 DEF Emits
  <2>2. CASE d # m.cs
    <3>1. cacheOut'[d] = cacheOut[d]
      BY <1>2, <1>5, <2>2 DEF Typed
    <3>2. Emits(cacheOut[d], R, d)
      BY DEF Sends
    <3> QED BY <1>4, <2>2, <3>1, <3>2, EmitsOther
  <2> QED BY <2>1, <2>2
<1>9. ASSUME NEW d \in ChunkStream PROVE What(accepted'[d]) = A.done[d]
  <2>1. What(accepted[d]) = R.done[d]
    BY DEF Sends
  <2>2. CASE k = m.len /\ d = m.cs
    <3> DEFINE x == [what |-> Received(m.type, m.sid, Payload(m)), time |-> m.time]
    <3>1. d # Control /\ accepted[d] \in Messages
      BY SizesOK DEF Typed
    <3>2. accepted'[d] = Append(accepted[d], x)
      BY <1>5, <2>2, <3>1 DEF Accepted, Typed
    <3>3. x \in [what : Content, time : Nat] /\ x.what = Received(m.type, m.sid, Payload(m))
      <4>1. m \in Message /\ m.time \in Nat
        BY <1>2, <2>2, <3>1, AnyOK
      <4>2. Received(m.type, m.sid, Payload(m)) \in Content
        BY <4>1 DEF Content
      <4> HIDE DEF Received, Payload
      <4> QED BY <4>1, <4>2
    <3> HIDE DEF x
    <3>4. What(Append(accepted[d], x)) = Append(What(accepted[d]), x.what)
      BY <3>1, <3>3 DEF What, Messages
    <3> QED BY <1>4, <2>1, <2>2, <3>2, <3>3, <3>4, ZenonT(60)
  <2>3. CASE ~(k = m.len /\ d = m.cs)
    <3>1. accepted'[d] = accepted[d]
      BY <1>5, <2>3 DEF Accepted, Typed
    <3> QED BY <1>4, <2>1, <2>3, <3>1
  <2> QED BY <2>2, <2>3
<1>10. Drifts(A)'
  <2>1. begun \in 0..MaxMessages /\ begun' = begun
    BY DEF Sends, Drifts, WriteChunk
  <2>2. ~Fresh'
    <3>1. call.written \in Nat /\ c.n \in Nat \ {0}
      <4>1. call.written \in Nat /\ Unwritten \in Nat \ {0} /\ selfChunkSize \in Nat \ {0}
        BY <1>1, CallIs
      <4>2. c.n = Lesser(Unwritten, selfChunkSize)
        BY NextPieceIs
      <4> HIDE DEF Unwritten
      <4> QED BY <4>1, <4>2, Lesser2
    <3>2. k # 0
      BY <3>1
    <3>3. call' = NoSend \/ call' = Progress(m, k)
      BY WriteIs
    <3> QED BY <3>2, <3>3 DEF Fresh, Progress
  <2>3. Started' = begun /\ (Busy' => begun' > 0)
    <3>1. Started' = begun
      BY <2>1, <2>2 DEF Started
    <3>2. call'.msg.cs # Control => m.cs # Control
      <4>1. call' = NoSend \/ call' = Progress(m, k)
        BY WriteIs
      <4> QED BY <4>1 DEF Progress, NoSend, NoMessage
    <3>3. \A d \in ChunkStream : pending'[d] = pending[d] \/ pending'[d] = NoSend
      BY <1>5, WriteIs DEF Accepted, Typed
    <3>4. Busy' => Busy
      BY <3>2, <3>3 DEF Busy
    <3>5. Busy => begun > 0
      BY DEF Sends, Drifts
    <3> QED BY <2>1, <3>1, <3>4, <3>5
  <2>4. ASSUME NEW d \in Streams
        PROVE  A.time[d] <= IF 0 \in Times THEN Span(begun) ELSE cacheOut'[d].time
    <3>1. CASE d = m.cs
      <4>1. cacheOut'[d].time = m.time
        BY <1>2, <1>5, <3>1 DEF Typed, Remembered
      <4> QED BY <1>6, <3>1, <4>1
    <3>2. CASE d # m.cs
      <4>1. A.time[d] = R.time[d] /\ cacheOut'[d] = cacheOut[d]
        BY <1>2, <1>4, <1>5, <3>2 DEF Typed
      <4>2. 0 \notin Times => R.time[d] <= cacheOut[d].time
        BY DEF Sends, Drifts
      <4>3. 0 \in Times => R.time[d] <= Span(begun)
        <5> SUFFICES ASSUME 0 \in Times PROVE R.time[d] <= Span(begun)
          OBVIOUS
        <5>1. /\ R.time[d] <= Span(Started) /\ Span(Started) \in Nat /\ Span(begun) \in Nat
              /\ Longest \in Nat
              /\ Span(begun) = Span(Started) + Longest \/ Span(begun) = Span(Started)
          BY <1>1, StartedIs
        <5>2. R.time[d] \in Nat
          BY DEF View
        <5> QED BY <5>1, <5>2
      <4> QED BY <4>1, <4>2, <4>3
    <3> QED BY <3>1, <3>2
  <2> QED BY <2>1, <2>2, <2>3, <2>4 DEF Drifts, Span
<1> QED BY <1>7, <1>8, <1>9, <1>10 DEF Sends

LEMMA HalfwayOther ==
  ASSUME NEW R, NEW A, NEW p, NEW d, Halfway(R, p, d), A.at[d] = R.at[d]
  PROVE  Halfway(A, p, d)
BY DEF Halfway

LEMMA WriteCalls ==
  ASSUME Undisturbed, Typed, NEW R \in View, Calls(R), Sends(R), WriteChunk,
         NEW c, c = NextPiece, NEW A, A = After(R, c)
  PROVE  Calls(A)'
<1>1. call # NoSend
  BY DEF WriteChunk
<1> PICK m : m = call.msg
  OBVIOUS
<1> PICK k : k = call.written + c.n
  OBVIOUS
<1>2. /\ m \in Any /\ m.cs \in Streams /\ m.len \in Nat /\ call.written \in Nat
  BY <1>1, CallIs, AnyOK
<1>3. Follows(R, c) /\ c.msg = m /\ c.from = call.written
  BY <1>1, PieceFollows, NextPieceIs
<1>4. c.n \in Nat \ {0} /\ k \in Nat \ {0} /\ k <= m.len
  BY <1>2, <1>3, FollowsOK
<1>5. /\ A.at[m.cs] = Cell(m, k, m.len - k)
      /\ \A d \in Streams : d # m.cs =>
           A.at[d] = IF k = m.len /\ m.type = "abort" /\ d = m.arg
                     THEN Cell(R.at[d].msg, 0, 0) ELSE R.at[d]
  BY <1>3, AfterIs
<1>6. /\ k # m.len => call' = Progress(m, k) /\ pending' = pending
      /\ k = m.len => call' = NoSend /\ Accepted(m)
      /\ ~whole \/ k = m.len => staged' = <<>>
      /\ whole' = whole /\ search' = FALSE
  BY WriteIs
<1>7. /\ m.type = "abort" => m.cs = Control /\ m.arg \in ChunkStream
      /\ ChunkStream \subseteq Streams /\ Control \notin ChunkStream
  BY <1>2, AnyOK, SizesOK
<1>8. k # m.len => call'.msg = m /\ call'.written = k /\ call' # NoSend
  BY <1>2, <1>6, Underway DEF Progress
<1>9. \A d \in Streams : (call' # NoSend /\ call'.msg.cs = d) <=> (k # m.len /\ d = m.cs)
  BY <1>6, <1>8
<1>10. \A d \in ChunkStream :
         pending'[d] = IF k = m.len /\ m.type = "abort" /\ d = m.arg THEN NoSend ELSE pending[d]
  BY <1>6, <1>7 DEF Accepted, Typed
<1>11. call' # NoSend =>
         /\ call'.msg \in Any /\ call'.written < call'.msg.len
         /\ IF call'.written = 0
            THEN search' \/ call'.msg.time = 0 \/ call'.msg.time >= cacheOut'[call'.msg.cs].time
            ELSE Halfway(A, call', call'.msg.cs)
         /\ call'.msg.cs = Control => whole'
         /\ ~search'
  <2> SUFFICES ASSUME k # m.len
               PROVE  /\ call'.msg \in Any /\ call'.written < call'.msg.len
                      /\ IF call'.written = 0
                         THEN search' \/ call'.msg.time = 0
                              \/ call'.msg.time >= cacheOut'[call'.msg.cs].time
                         ELSE Halfway(A, call', call'.msg.cs)
                      /\ call'.msg.cs = Control => whole'
    BY <1>6
  <2>1. call'.msg = m /\ call'.written = k
    BY <1>8
  <2>2. k < m.len /\ k \in 1..(m.len - 1) /\ k # 0
    BY <1>2, <1>4
  <2>3. Halfway(A, call', m.cs)
    BY <1>2, <1>5, <2>1, <2>2 DEF Halfway
  <2>4. m.cs = Control => whole
    BY <1>1 DEF Calls
  <2> QED BY <1>2, <1>6, <2>1, <2>2, <2>3, <2>4
<1>12. call' = NoSend \/ ~whole' => staged' = <<>>
  BY <1>6, <1>8
<1>13. ASSUME NEW d \in ChunkStream, pending'[d] # NoSend
       PROVE  Halfway(A, pending'[d], d) /\ ~(call' # NoSend /\ call'.msg.cs = d)
  <2>1. pending'[d] = pending[d] /\ ~(k = m.len /\ m.type = "abort" /\ d = m.arg)
    BY <1>10, <1>13
  <2>2. Halfway(R, pending[d], d) /\ ~Sending(d)
    BY <1>13, <2>1 DEF Calls
  <2>3. d # m.cs
    BY <1>1, <2>2 DEF Sending
  <2>4. A.at[d] = R.at[d]
    BY <1>5, <1>7, <2>1, <2>3
  <2>5. Halfway(A, pending[d], d)
    BY <2>2, <2>4, HalfwayOther
  <2> QED BY <1>7, <1>9, <2>1, <2>3, <2>5
<1>14. ASSUME NEW d \in Streams, A.at[d].left > 0
       PROVE  \/ (call' # NoSend /\ call'.msg.cs = d) /\ call'.written > 0
              \/ d \in ChunkStream /\ pending'[d] # NoSend
  <2>1. CASE d = m.cs
    <3>1. m.len - k > 0
      BY <1>5, <1>14, <2>1 DEF Cell
    <3>2. k # m.len
      BY <1>2, <1>4, <3>1
    <3> QED BY <1>4, <1>8, <2>1, <3>2
  <2>2. CASE d # m.cs
    <3>1. ~(k = m.len /\ m.type = "abort" /\ d = m.arg)
      <4> SUFFICES ASSUME k = m.len /\ m.type = "abort" /\ d = m.arg PROVE FALSE
        OBVIOUS
      <4>1. A.at[d] = Cell(R.at[d].msg, 0, 0)
        BY <1>5, <2>2, Zenon
      <4>2. A.at[d].left = 0
        BY <4>1 DEF Cell
      <4> QED BY <1>14, <4>2
    <3>2. A.at[d] = R.at[d]
      BY <1>5, <2>2, <3>1
    <3>3. R.at[d].left > 0 /\ ~Sending(d)
      BY <1>14, <2>2, <3>2 DEF Sending
    <3>4. d \in ChunkStream /\ pending[d] # NoSend
      BY <3>3 DEF Calls
    <3> QED BY <1>10, <3>1, <3>4
  <2> QED BY <2>1, <2>2
<1> QED BY <1>11, <1>12, <1>13, <1>14 DEF Calls, Sending

\* The first header has as many fields as First says.
LEMMA FirstIs ==
  ASSUME Undisturbed, Typed, NEW R \in View, Calls(R), Sends(R), call # NoSend
  PROVE  /\ First = HeadLen(NextPiece) /\ First \in 1..4
         /\ call.written > 0 /\ ~search => First <= 2
         /\ Len(Chunk) = First + NextPiece.n
<1>1. First = HeadLen(NextPiece)
  BY FieldsAre DEF First
<1>2. NextPiece \in Piece
  BY PieceFollows DEF Follows
<1>3. HeadLen(NextPiece) \in 1..4 /\ HeadLen(NextPiece) = 4 - Form(call.msg)
      /\ Extent(NextPiece) = HeadLen(NextPiece) + NextPiece.n
  BY <1>2, ExtentOK, NextPieceIs
<1>4. call.written > 0 /\ ~search => Form(call.msg) >= 2 /\ Form(call.msg) \in 0..3
  BY FormIs
<1>5. call.written > 0 /\ ~search => HeadLen(NextPiece) <= 2
  BY <1>3, <1>4
<1>6. Len(Chunk) = Extent(NextPiece)
  BY ChunkIs
<1> QED BY <1>1, <1>3, <1>5, <1>6

LEMMA RoomIs ==
  ASSUME Typed
  PROVE  Room \in Nat /\ Room = OutSize - (Len(out) + Len(staged)) /\ Len(out) \in Nat /\ Len(staged) \in Nat
BY SizesOK DEF Typed, Room

LEMMA WriteTyped ==
  ASSUME Undisturbed, Typed, NEW R \in View, Calls(R), Sends(R), WriteChunk
  PROVE  Typed' /\ Room' = Room - Len(Chunk)
<1> PICK m : m = call.msg
  OBVIOUS
<1> PICK k : k = call.written + NextPiece.n
  OBVIOUS
<1>1. call # NoSend
  BY DEF WriteChunk
<1>2. m \in Any /\ m.cs \in Streams /\ call.written \in Nat /\ m.len \in Nat /\ m.time \in Nat /\ m.sid \in Nat
      /\ m.type \in TypeNames
  BY <1>1, CallIs, AnyOK
<1>3. NextPiece.n \in Nat /\ k \in Nat
  BY <1>1, <1>2, PieceFollows, FollowsOK
<1>4. /\ Len(Chunk) <= Room
      /\ cacheOut' = [cacheOut EXCEPT ![m.cs] = Remembered(Before(m), m, Increment(m))]
      /\ k # m.len => /\ call' = Progress(m, k) /\ selfChunkSize' = selfChunkSize
                      /\ pending' = pending /\ accepted' = accepted
      /\ k = m.len => call' = NoSend /\ Accepted(m)
      /\ whole /\ k # m.len => staged' = staged \o Chunk /\ out' = out
      /\ ~whole \/ k = m.len => staged' = <<>> /\ out' = (out \o staged) \o Chunk
      /\ whole' = whole /\ search' = FALSE /\ in' = in /\ UNCHANGED receiver
  BY WriteIs
<1>5. Chunk \in Seq(Units) /\ Len(Chunk) \in Nat
  BY <1>1, ChunkIs
<1>6. Increment(m) \in Nat
  BY <1>1, TimeFieldIs
<1> HIDE DEF NextPiece
<1>7. cacheOut' \in [Streams -> Headers]
  <2>1. Remembered(Before(m), m, Increment(m)) \in Headers
    BY <1>2, <1>6 DEF Remembered, Headers
  <2> QED BY <1>2, <1>4, <2>1 DEF Typed
<1>8. call' \in Calling
  <2>1. Progress(m, k) \in Calling /\ NoSend \in Calling
    BY <1>2, <1>3 DEF Progress, Calling, NoSend
  <2> QED BY <1>4, <2>1
<1>9. selfChunkSize' \in Sizes \cup {DefaultSize}
  BY <1>2, <1>4, AnyOK DEF Typed, Accepted
<1>10. pending' \in [ChunkStream -> Calling]
  <2>1. NoSend \in Calling
    BY DEF Progress, Calling, NoSend
  <2> HIDE DEF NoSend
  <2>2. m.type = "abort" => m.arg \in ChunkStream
    BY <1>2, AnyOK
  <2>3. k = m.len => pending' = IF m.type = "abort" THEN [pending EXCEPT ![m.arg] = NoSend] ELSE pending
    BY <1>4 DEF Accepted
  <2> QED BY <1>4, <2>1, <2>2, <2>3 DEF Typed
<1>11. accepted' \in [ChunkStream -> Messages]
  <2>1. CASE k = m.len /\ m.cs # Control
    <3> DEFINE x == [what |-> Received(m.type, m.sid, Payload(m)), time |-> m.time]
    <3>1. m \in Message /\ m.cs \in ChunkStream
      BY <1>2, <2>1, AnyOK
    <3>2. x \in [what : Content, time : Nat]
      <4>1. Received(m.type, m.sid, Payload(m)) \in Content
        BY <3>1 DEF Content
      <4> HIDE DEF Received, Payload
      <4> QED BY <1>2, <4>1
    <3>3. accepted' = [accepted EXCEPT ![m.cs] = Append(@, x)]
      BY <1>4, <2>1 DEF Accepted
    <3> HIDE DEF x
    <3>4. Append(accepted[m.cs], x) \in Messages
      <4>1. accepted[m.cs] \in Messages
        BY <3>1 DEF Typed
      <4> QED BY <3>2, <4>1, AppendProperties DEF Messages
    <3> QED BY <3>1, <3>3, <3>4 DEF Typed
  <2>2. CASE ~(k = m.len /\ m.cs # Control)
    BY <1>4, <2>2 DEF Accepted, Typed
  <2> QED BY <2>1, <2>2
<1>12. out \in Seq(Units) /\ staged \in Seq(Units) /\ Len(out) \in Nat /\ Len(staged) \in Nat
       /\ Room = OutSize - (Len(out) + Len(staged)) /\ OutSize \in Nat
  BY RoomIs, SizesOK DEF Typed
<1>13. /\ staged \o Chunk \in Seq(Units) /\ Len(staged \o Chunk) = Len(staged) + Len(Chunk)
       /\ out \o staged \in Seq(Units) /\ Len(out \o staged) = Len(out) + Len(staged)
  BY <1>5, <1>12, ConcatProperties, Zenon
<1>14. /\ (out \o staged) \o Chunk \in Seq(Units)
       /\ Len((out \o staged) \o Chunk) = Len(out \o staged) + Len(Chunk)
  BY <1>5, <1>13, ConcatProperties, ZenonT(60)
<1>15. /\ staged' \in Seq(Units) /\ out' \in Seq(Units)
       /\ Len(out') + Len(staged') = Len(out) + Len(staged) + Len(Chunk)
  <2> HIDE DEF Chunk
  <2>1. CASE whole /\ k # m.len
    <3>1. staged' = staged \o Chunk /\ out' = out
      BY <1>4, <2>1
    <3>2. Len(out') = Len(out) /\ Len(staged') = Len(staged) + Len(Chunk)
      BY <1>13, <3>1
    <3> QED BY <1>5, <1>12, <1>13, <3>1, <3>2
  <2>2. CASE ~(whole /\ k # m.len)
    <3>1. staged' = <<>> /\ out' = (out \o staged) \o Chunk
      BY <1>4, <2>2
    <3>2. Len(staged') = 0 /\ staged' \in Seq(Units)
      BY <3>1
    <3> QED BY <1>5, <1>12, <1>13, <1>14, <3>1, <3>2
  <2> QED BY <2>1, <2>2
<1>16. Len(out') + Len(staged') <= OutSize
  BY <1>4, <1>5, <1>12, <1>15
<1>17. /\ cacheIn' = cacheIn /\ peerChunkSize' = peerChunkSize /\ partialChunk' = partialChunk
       /\ paused' = paused /\ controlMessage' = controlMessage /\ got' = got /\ delivered' = delivered
  BY <1>4 DEF receiver
<1>18. Typed'
  BY <1>4, <1>7, <1>8, <1>9, <1>10, <1>11, <1>15, <1>16, <1>17 DEF Typed
<1>19. Len(out') \in Nat /\ Len(staged') \in Nat /\ Room' = OutSize - Len(out') - Len(staged')
  BY <1>15 DEF Room
<1>20. Room' = Room - Len(Chunk)
  <2> DEFINE o == Len(out)
             t == Len(staged)
             n == Len(Chunk)
             o2 == Len(out')
             t2 == Len(staged')
  <2>1. o \in Nat /\ t \in Nat /\ n \in Nat /\ o2 \in Nat /\ t2 \in Nat /\ o2 + t2 = (o + t) + n
    BY <1>5, <1>12, <1>15, <1>19
  <2>2. Room = OutSize - (o + t) /\ Room' = (OutSize - o2) - t2
    BY <1>12, <1>19
  <2> HIDE DEF o, t, n, o2, t2
  <2>3. (OutSize - o2) - t2 = (OutSize - (o + t)) - n
    BY <1>12, <2>1
  <2> QED BY <2>2, <2>3 DEF n
<1> QED BY <1>18, <1>20

\* Multiples, as far as they are needed.
LEMMA OneFewer ==
  ASSUME NEW r \in Nat, NEW s \in Nat \ {0}, NEW u \in Nat \ {0}, u <= r * s
  PROVE  r >= 1 /\ (u > s => u - s <= (r - 1) * s)
<1>1. r # 0
  <2> SUFFICES ASSUME r = 0 PROVE FALSE
    OBVIOUS
  <2>1. r * s = 0
    OBVIOUS
  <2> QED BY <2>1
<1>2. (r - 1) * s = r * s - s
  OBVIOUS
<1>3. r * s \in Int
  OBVIOUS
<1> QED BY <1>1, <1>2, <1>3

LEMMA WriteRoomy ==
  ASSUME Undisturbed, Typed, NEW R \in View, Calls(R), Sends(R), WriteChunk, Roomy
  PROVE  Roomy'
<1>1. call # NoSend
  BY DEF WriteChunk
<1> PICK n : n = NextPiece.n
  OBVIOUS
<1> PICK k : k = call.written + n
  OBVIOUS
<1> PICK u : u = Unwritten
  OBVIOUS
<1> PICK f : f = First
  OBVIOUS
<1>2. /\ call.written \in Nat /\ call.msg.len \in Nat /\ call.msg \in Any
      /\ u = call.msg.len - call.written /\ u \in Nat \ {0} /\ selfChunkSize \in Nat \ {0}
  BY <1>1, CallIs, AnyOK DEF Unwritten
<1>3. n = Lesser(u, selfChunkSize)
  BY NextPieceIs
<1>4. /\ k # call.msg.len => call' = Progress(call.msg, k) /\ selfChunkSize' = selfChunkSize
      /\ k = call.msg.len => call' = NoSend
      /\ whole' = whole
  BY WriteIs
<1>5. Room' = Room - Len(Chunk) /\ Room \in Nat
  BY WriteTyped, RoomIs
<1>6. f \in 1..4 /\ (call.written > 0 /\ ~search => f <= 2) /\ Len(Chunk) = f + n
  BY <1>1, FirstIs
<1> SUFFICES ASSUME k # call.msg.len, whole PROVE \E chunks \in Nat : RoomForAll(chunks)'
  <2>1. call' # NoSend => k # call.msg.len
    BY <1>4
  <2>2. n \in Nat \ {0}
    BY <1>2, <1>3, Lesser2
  <2>3. k # 0
    BY <1>2, <2>2
  <2>4. k # call.msg.len => call'.written # 0
    BY <1>4, <2>3 DEF Progress
  <2> QED BY <1>4, <2>1, <2>4 DEF Roomy
<1>7. n = selfChunkSize /\ u > selfChunkSize
  BY <1>2, <1>3 DEF Lesser
<1>8. PICK r \in Nat : RoomForAll(r)
  BY <1>1 DEF Roomy
<1>9. /\ u <= r * selfChunkSize
      /\ Room >= IF call.written = 0 THEN f + 2 * (r - 1) + u ELSE 2 * r + u
  BY <1>8 DEF RoomForAll
<1>10. r >= 1 /\ u - n <= (r - 1) * selfChunkSize
  BY <1>2, <1>7, <1>9, OneFewer
<1>11. call'.written = k /\ call'.msg = call.msg /\ selfChunkSize' = selfChunkSize
  BY <1>4 DEF Progress
<1>12. Unwritten' = u - n
  <2>1. Unwritten' = call.msg.len - k
    BY <1>11 DEF Unwritten
  <2>2. call.msg.len - (call.written + n) = (call.msg.len - call.written) - n
    BY <1>2, <1>7
  <2> QED BY <1>2, <2>1, <2>2
<1>13. k # 0
  BY <1>2, <1>7
<1>14. Room' >= 2 * (r - 1) + (u - n)
  <2>1. Room' = Room - (f + n)
    BY <1>5, <1>6
  <2>2. CASE call.written = 0
    BY <1>2, <1>5, <1>6, <1>7, <1>9, <2>1, <2>2
  <2>3. CASE call.written # 0
    <3>1. f <= 2
      <4>1. ~search
        BY <1>1, <2>3 DEF Calls
      <4> QED BY <1>2, <1>6, <2>3, <4>1
    <3> QED BY <1>2, <1>5, <1>6, <1>7, <1>9, <2>1, <2>3, <3>1
  <2> QED BY <2>2, <2>3
<1>15. RoomForAll(r - 1)'
  BY <1>10, <1>11, <1>12, <1>13, <1>14 DEF RoomForAll
<1> QED BY <1>10, <1>15
-----------------------------------------------------------------------------
(* A chunk is written: the wire, and the receiver. *)

LEMMA JoinIs ==
  ASSUME NEW S, NEW i \in Seq(S), NEW o \in Seq(S), NEW t \in Seq(S)
  PROVE  LET s == (i \o o) \o t
         IN  /\ s \in Seq(S) /\ Len(s) = (Len(i) + Len(o)) + Len(t)
             /\ \A k \in 1..Len(i) : s[k] = i[k]
             /\ \A k \in 1..Len(s) :
                  s[k] = IF k <= Len(i) THEN i[k]
                         ELSE IF k <= Len(i) + Len(o) THEN o[k - Len(i)]
                         ELSE t[k - (Len(i) + Len(o))]
<1> DEFINE s == i \o o
<1>1. /\ s \in Seq(S) /\ Len(s) = Len(i) + Len(o)
      /\ \A k \in 1..(Len(i) + Len(o)) : s[k] = IF k <= Len(i) THEN i[k] ELSE o[k - Len(i)]
  BY ConcatProperties, Zenon
<1>2. s \in Seq(S)
  BY <1>1
<1>3. Len(i) \in Nat /\ Len(o) \in Nat /\ Len(t) \in Nat
  OBVIOUS
<1> HIDE DEF s
<1>4. /\ s \o t \in Seq(S) /\ Len(s \o t) = Len(s) + Len(t)
      /\ \A k \in 1..(Len(s) + Len(t)) :
           (s \o t)[k] = IF k <= Len(s) THEN s[k] ELSE t[k - Len(s)]
  BY <1>2, ConcatProperties, Zenon
<1> DEFINE u == s \o t
<1>5. u \in Seq(S) /\ Len(u) = (Len(i) + Len(o)) + Len(t)
  BY <1>1, <1>4
<1>6. \A k \in 1..Len(i) : u[k] = i[k]
  BY <1>1, <1>3, <1>4
<1>7. \A k \in 1..Len(u) :
        u[k] = IF k <= Len(i) THEN i[k]
               ELSE IF k <= Len(i) + Len(o) THEN o[k - Len(i)] ELSE t[k - (Len(i) + Len(o))]
  BY <1>1, <1>3, <1>4, <1>5
<1> QED BY <1>5, <1>6, <1>7 DEF s

LEMMA JoinAssoc ==
  ASSUME NEW S, NEW s \in Seq(S), NEW t \in Seq(S), NEW r \in Seq(S)
  PROVE  (s \o t) \o r = s \o (t \o r)
<1> DEFINE st == s \o t
           tr == t \o r
<1>1. /\ st \in Seq(S) /\ Len(st) = Len(s) + Len(t)
      /\ \A k \in 1..(Len(s) + Len(t)) : st[k] = IF k <= Len(s) THEN s[k] ELSE t[k - Len(s)]
  BY ConcatProperties, Zenon
<1>2. /\ tr \in Seq(S) /\ Len(tr) = Len(t) + Len(r)
      /\ \A k \in 1..(Len(t) + Len(r)) : tr[k] = IF k <= Len(t) THEN t[k] ELSE r[k - Len(t)]
  BY ConcatProperties, Zenon
<1>3. st \in Seq(S) /\ tr \in Seq(S)
  BY <1>1, <1>2
<1> HIDE DEF st, tr
<1>4. /\ st \o r \in Seq(S) /\ Len(st \o r) = Len(st) + Len(r)
      /\ \A k \in 1..(Len(st) + Len(r)) : (st \o r)[k] = IF k <= Len(st) THEN st[k] ELSE r[k - Len(st)]
  BY <1>3, ConcatProperties, Zenon
<1>5. /\ s \o tr \in Seq(S) /\ Len(s \o tr) = Len(s) + Len(tr)
      /\ \A k \in 1..(Len(s) + Len(tr)) : (s \o tr)[k] = IF k <= Len(s) THEN s[k] ELSE tr[k - Len(s)]
  BY <1>3, ConcatProperties, Zenon
<1> DEFINE u == st \o r
           v == s \o tr
           a == Len(s)
           b == Len(t)
           c == Len(r)
<1>6. a \in Nat /\ b \in Nat /\ c \in Nat
  OBVIOUS
<1>7. u \in Seq(S) /\ v \in Seq(S) /\ Len(u) = (a + b) + c /\ Len(v) = a + (b + c)
      /\ Len(st) = a + b /\ Len(tr) = b + c
  BY <1>1, <1>2, <1>4, <1>5
<1>8. ASSUME NEW k \in 1..(a + b) + c PROVE u[k] = v[k]
  <2>1. /\ u[k] = IF k <= a + b THEN st[k] ELSE r[k - (a + b)]
        /\ v[k] = IF k <= a THEN s[k] ELSE tr[k - a]
    <3>1. k \in 1..(Len(st) + Len(r)) /\ k \in 1..(Len(s) + Len(tr))
      BY <1>6, <1>7
    <3> QED BY <1>4, <1>5, <1>7, <3>1
  <2> HIDE DEF u, v
  <2>2. k <= a \/ (k > a /\ k <= a + b) \/ k > a + b
    BY <1>6
  <2>3. CASE k <= a
    <3>1. k <= a + b /\ k \in 1..(a + b)
      BY <1>6, <2>3
    <3> QED BY <1>1, <2>1, <2>3, <3>1
  <2>4. CASE k > a /\ k <= a + b
    <3>1. k \in 1..(a + b) /\ ~(k <= a) /\ k - a <= b /\ k - a \in 1..(b + c)
      BY <1>6, <2>4
    <3>2. st[k] = t[k - a]
      BY <1>1, <3>1
    <3>3. tr[k - a] = t[k - a]
      BY <1>2, <3>1
    <3> QED BY <2>1, <2>4, <3>1, <3>2, <3>3
  <2>5. CASE k > a + b
    <3>1. ~(k <= a) /\ ~(k <= a + b) /\ ~(k - a <= b) /\ k - a \in 1..(b + c) /\ (k - a) - b = k - (a + b)
      BY <1>6, <2>5
    <3>2. tr[k - a] = r[(k - a) - b]
      BY <1>2, <3>1
    <3> QED BY <2>1, <3>1, <3>2
  <2> QED BY <2>2, <2>3, <2>4, <2>5, Zenon
<1> HIDE DEF u, v
<1>9. Len(u) = Len(v) /\ \A k \in 1..Len(u) : u[k] = v[k]
  BY <1>6, <1>7, <1>8
<1>10. u = v
  BY <1>7, <1>9, SeqEqual
<1> QED BY <1>10 DEF u, v, st, tr

LEMMA FlightIs ==
  ASSUME Typed
  PROVE  /\ InFlight \in Seq(Units) /\ Len(InFlight) = (Len(in) + Len(out)) + Len(staged)
         /\ Len(in) \in Nat /\ Len(out) \in Nat /\ Len(staged) \in Nat
         /\ \A i \in 1..Len(in) : InFlight[i] = in[i]
<1>1. /\ in \in Seq(Units) /\ out \in Seq(Units) /\ staged \in Seq(Units)
  BY DEF Typed
<1> HIDE DEF Units
<1> QED BY <1>1, JoinIs DEF InFlight

LEMMA WriteFlight ==
  ASSUME Undisturbed, Typed, NEW R \in View, Calls(R), Sends(R), WriteChunk
  PROVE  InFlight' = InFlight \o Chunk
<1>1. call # NoSend
  BY DEF WriteChunk
<1>2. Chunk \in Seq(Units)
  BY <1>1, ChunkIs
<1>3. in \in Seq(Units) /\ out \in Seq(Units) /\ staged \in Seq(Units)
  BY DEF Typed
<1> DEFINE done == call.written + NextPiece.n = call.msg.len
<1>4. /\ whole /\ ~done => staged' = staged \o Chunk /\ out' = out
      /\ ~whole \/ done => staged' = <<>> /\ out' = (out \o staged) \o Chunk
      /\ in' = in
  BY WriteIs
<1> HIDE DEF done, Chunk
<1>5. /\ (in \o out) \o (staged \o Chunk) = ((in \o out) \o staged) \o Chunk
      /\ in \o ((out \o staged) \o Chunk) = ((in \o out) \o staged) \o Chunk
  <2> DEFINE c == Chunk
  <2>1. c \in Seq(Units)
    BY <1>2
  <2> HIDE DEF c
  <2>2. /\ (in \o out) \o (staged \o c) = ((in \o out) \o staged) \o c
        /\ in \o ((out \o staged) \o c) = ((in \o out) \o staged) \o c
    <3>1. in \o out \in Seq(Units) /\ out \o staged \in Seq(Units)
      BY <1>3, ConcatProperties, Zenon
    <3>2. ((in \o out) \o staged) \o c = (in \o out) \o (staged \o c)
      BY <1>3, <2>1, <3>1, JoinAssoc
    <3>3. (in \o (out \o staged)) \o c = in \o ((out \o staged) \o c)
      BY <1>3, <2>1, <3>1, JoinAssoc, SMTT(30)
    <3>4. (in \o out) \o staged = in \o (out \o staged)
      BY <1>3, JoinAssoc
    <3> QED BY <3>2, <3>3, <3>4, Zenon
  <2> QED BY <2>2 DEF c
<1>6. CASE whole /\ ~done
  BY <1>4, <1>5, <1>6, Zenon DEF InFlight
<1>7. CASE ~whole \/ done
  <2>1. InFlight' = (in \o ((out \o staged) \o Chunk)) \o <<>>
    BY <1>4, <1>7, Zenon DEF InFlight
  <2>2. in \o ((out \o staged) \o Chunk) \in Seq(Units)
    BY <1>2, <1>3
  <2>3. InFlight' = in \o ((out \o staged) \o Chunk)
    BY <2>1, <2>2, ConcatEmptySeq, Zenon
  <2> QED BY <1>5, <2>3, Zenon DEF InFlight
<1> QED BY <1>6, <1>7

LEMMA TracesOK ==
  ASSUME NEW h, Traces(h)
  PROVE  /\ h.n \in Nat /\ h.view[h.n] \in View /\ h.end[h.n] \in Nat
         /\ \A k \in 0..h.n : h.view[k] \in View /\ h.end[k] \in Nat /\ h.end[k] <= h.end[h.n]
         /\ \A cs \in Streams : h.view[h.n].time[cs] < Mark
<1>1. h.n \in Nat /\ \A k \in 0..h.n : Passed(h, k)
  BY DEF Traces
<1>2. h.n \in 0..h.n
  BY <1>1
<1> QED BY <1>1, <1>2 DEF Passed

LEMMA Places ==
  ASSUME NEW e \in Nat, NEW l \in Nat, NEW w \in Nat, NEW x \in Nat, w <= e, l = e - w
  PROVE  /\ l + x = (e + x) - w
         /\ \A i \in 1..(l + x) :
              /\ i <= l \/ i > l
              /\ i <= l => i \in 1..l /\ w + i \in Nat /\ w + i <= e
              /\ i > l => i - l \in Nat \ {0} /\ e + (i - l) = w + i
OBVIOUS

LEMMA WriteCarries ==
  ASSUME Undisturbed, Typed, WriteChunk, NEW h, Traces(h), NEW a, Carries(h, a),
         Calls(h.view[h.n]), Sends(h.view[h.n]), NEW c, c = NextPiece, NEW s, s = Chunk
  PROVE  Carries(Longer(h, c, s), a)'
<1>35. PICK g : g = Longer(h, c, s)
  OBVIOUS
<1>30. PICK e : e = h.end[h.n]
  OBVIOUS
<1>31. PICK l : l = Len(InFlight)
  OBVIOUS
<1>32. PICK p : p = partialChunk
  OBVIOUS
<1>1. h.n \in Nat /\ e \in Nat /\ h.view[h.n] \in View
      /\ \A k \in 0..h.n : h.end[k] \in Nat /\ h.end[k] <= e
  BY <1>30, TracesOK
<1>2. call # NoSend
  BY DEF WriteChunk
<1>3. s \in Seq(Units) /\ Len(s) = Extent(c) /\ c \in Piece
  BY <1>1, <1>2, ChunkIs, PieceFollows DEF Follows
<1>4. Extent(c) \in Nat
  BY <1>3, ExtentOK
<1>5. InFlight' = InFlight \o s
  BY <1>1, WriteFlight
<1>6. InFlight \in Seq(Units) /\ l \in Nat
  BY <1>31, FlightIs
<1>7. partialChunk' = p /\ p \in Nat
  BY <1>1, <1>32, WriteIs DEF receiver, Typed
<1>8. /\ InFlight' \in Seq(Units) /\ Len(InFlight') = l + Len(s)
      /\ \A i \in 1..(l + Len(s)) : InFlight'[i] = IF i <= l THEN InFlight[i] ELSE s[i - l]
  BY <1>3, <1>5, <1>6, <1>31, ConcatProperties, Zenon
<1>9. /\ a \in 0..h.n /\ p <= h.end[a] /\ l = e - (h.end[a] - p)
      /\ \A i \in 1..l : InFlight[i] = h.wire[(h.end[a] - p) + i]
  BY <1>30, <1>31, <1>32 DEF Carries, Gone
<1>10. /\ g.n = h.n + 1
       /\ g.end[a] = h.end[a]
       /\ g.end[h.n + 1] = e + Extent(c)
       /\ \A j \in Nat : j <= e => g.wire[j] = h.wire[j]
       /\ \A i \in Nat \ {0} : g.wire[e + i] = s[i]
  BY <1>1, <1>9, <1>30, <1>35, LongerIs
<1>33. PICK w : w = h.end[a] - p
  OBVIOUS
<1>11. w \in Nat /\ w <= e /\ l = e - w /\ a \in 0..(h.n + 1)
  BY <1>1, <1>7, <1>9, <1>33
<1>34. PICK x : x = Len(s)
  OBVIOUS
<1>20. x \in Nat /\ x = Extent(c) /\ x = Len(s)
  BY <1>3, <1>4, <1>34
<1>21. /\ l + x = (e + x) - w
       /\ \A i \in 1..(l + x) :
            /\ i <= l \/ i > l
            /\ i <= l => i \in 1..l /\ w + i \in Nat /\ w + i <= e
            /\ i > l => i - l \in Nat \ {0} /\ e + (i - l) = w + i
  <2>1. e \in Nat /\ l \in Nat /\ w \in Nat /\ x \in Nat /\ w <= e /\ l = e - w
    BY <1>1, <1>6, <1>11, <1>20
  <2> QED BY <2>1, Places
<1>12. ASSUME NEW i \in 1..(l + x) PROVE InFlight'[i] = g.wire[w + i]
  <2>1. i <= l \/ i > l
    BY <1>21
  <2>2. CASE i <= l
    <3>1. i \in 1..l /\ w + i \in Nat /\ w + i <= e
      BY <1>21, <2>2
    <3>2. InFlight'[i] = InFlight[i]
      BY <1>8, <1>20, <2>2
    <3> QED BY <1>9, <1>10, <1>33, <3>1, <3>2
  <2>3. CASE i > l
    <3>1. i - l \in Nat \ {0} /\ e + (i - l) = w + i
      BY <1>21, <2>3
    <3>2. InFlight'[i] = s[i - l]
      BY <1>6, <1>8, <1>20, <2>3
    <3> QED BY <1>10, <3>1, <3>2
  <2> QED BY <2>1, <2>2, <2>3, Zenon
<1>13. Len(InFlight') = (e + Extent(c)) - w
  BY <1>8, <1>20, <1>21
<1>14. Gone(g, a)' = w
  BY <1>7, <1>10, <1>33 DEF Gone
<1>15. Carries(g, a)'
  BY <1>7, <1>8, <1>9, <1>10, <1>11, <1>12, <1>13, <1>14, <1>20 DEF Carries
<1> QED BY <1>15, <1>35

\* What the receiver has come to know, and not whether it is paused.
Heard == <<cacheIn, peerChunkSize, partialChunk, partialMsg, controlMessage, got, delivered>>

LEMMA HeardIs == UNCHANGED receiver => UNCHANGED Heard
BY DEF receiver, Heard

\* What is upcoming only widens what the cache may hold.
LEMMA HearsMore ==
  ASSUME NEW R, NEW S, NEW T, Hears(R, S), S \subseteq T
  PROVE  Hears(R, T)
BY DEF Hears, Knows

LEMMA HearsSame ==
  ASSUME NEW R, NEW S, Hears(R, S), UNCHANGED Heard
  PROVE  Hears(R, S)'
BY DEF Hears, Knows, Store, Heard, Bounded

LEMMA WriteReceives ==
  ASSUME UNCHANGED receiver, NEW h, Traces(h), NEW a \in 0..h.n, Receives(h, a), NEW c, NEW s
  PROVE  Receives(Longer(h, c, s), a)'
<1> PICK g : g = Longer(h, c, s)
  OBVIOUS
<1>1. h.n \in Nat /\ h.end[h.n] \in Nat
  BY TracesOK
<1>2. /\ g.n = h.n + 1
      /\ \A k \in 0..h.n : g.chunk[k] = h.chunk[k] /\ g.view[k] = h.view[k]
      /\ g.chunk[h.n + 1] = c
  BY <1>1, LongerIs
<1>3. partialChunk' = partialChunk /\ partialMsg' = partialMsg
  BY DEF receiver
<1>4. CASE partialChunk = 0
  <2>1. Hears(h.view[a], Upcoming(h, a))
    BY <1>4 DEF Receives
  <2>2. Upcoming(h, a) \subseteq Upcoming(g, a)
    <3>1. a < h.n => a + 1 \in 0..h.n /\ a < g.n
      BY <1>1, <1>2
    <3> QED BY <1>2, <3>1 DEF Upcoming
  <2>3. Hears(h.view[a], Upcoming(g, a))
    BY <2>1, <2>2, HearsMore
  <2> DEFINE R == h.view[a]
             S == Upcoming(g, a)
  <2> HIDE DEF R, S
  <2>4. Hears(R, S)
    BY <2>3 DEF R, S
  <2>5. Hears(R, S)'
    BY <2>4, HearsSame, HeardIs
  <2> QED BY <1>2, <1>3, <1>4, <2>5 DEF Receives, R, S
<1>5. CASE partialChunk # 0
  <2>1. /\ a > 0 /\ partialChunk <= h.chunk[a].n /\ partialMsg = h.chunk[a].msg.cs
        /\ Hears(Begun(h.view[a - 1], h.chunk[a], partialChunk), {})
    BY <1>5 DEF Receives
  <2>2. a - 1 \in 0..h.n
    BY <1>1, <2>1
  <2> PICK R : R = Begun(h.view[a - 1], h.chunk[a], partialChunk)
    OBVIOUS
  <2>3. Hears(R, {})'
    BY <2>1, HearsSame, HeardIs
  <2>4. g.view[a - 1] = h.view[a - 1] /\ g.chunk[a] = h.chunk[a]
    BY <1>2, <2>2
  <2> QED BY <1>3, <1>5, <2>1, <2>3, <2>4 DEF Receives
<1> QED BY <1>4, <1>5

LEMMA WriteOK ==
  ASSUME Undisturbed, Typed, Roomy, NEW h, NEW a \in Nat, Explains(h, a), WriteChunk
  PROVE  IndInv'
<1> PICK R : R = h.view[h.n]
  OBVIOUS
<1> PICK c : c = NextPiece
  OBVIOUS
<1> PICK s : s = Chunk
  OBVIOUS
<1> PICK A : A = After(R, c)
  OBVIOUS
<1>1. Traces(h) /\ Carries(h, a) /\ Sends(R) /\ Calls(R) /\ Receives(h, a)
  BY DEF Explains
<1>2. R \in View /\ h.n \in Nat /\ h.end[h.n] \in Nat /\ \A d \in Streams : R.time[d] < Mark
  BY <1>1, TracesOK
<1>3. call # NoSend
  BY DEF WriteChunk
<1>4. Follows(R, c) /\ \A i \in 1..Extent(c) : s[i] = Unit(c, i)
  BY <1>1, <1>2, <1>3, PieceFollows, ChunkIs
<1>5. \A d \in Streams : A.time[d] < Mark
  <2>1. /\ c.msg = call.msg /\ call.msg \in Any /\ call.msg.cs \in Streams
        /\ A.time[call.msg.cs] < Mark
    BY <1>1, <1>2, <1>3, AfterTime, NextPieceIs, CallIs
  <2>2. \A d \in Streams : d # call.msg.cs => A.time[d] = R.time[d]
    BY <1>2, <1>4, <2>1, AfterIs
  <2> QED BY <1>2, <2>1, <2>2
<1> PICK g : g = Longer(h, c, s)
  OBVIOUS
<1>6. Traces(g)
  BY <1>1, <1>4, <1>5, LongerOK
<1>7. Carries(g, a)'
  BY <1>1, WriteCarries
<1>8. Sends(A)' /\ Calls(A)'
  BY <1>1, <1>2, WriteSends, WriteCalls
<1>9. Receives(g, a)'
  <2>1. UNCHANGED receiver
    BY <1>1, <1>2, WriteIs
  <2>2. a \in 0..h.n
    BY <1>1 DEF Carries
  <2> QED BY <1>1, <2>1, <2>2, WriteReceives
<1>10. g.view[g.n] = A
  BY <1>2, LongerIs
<1>11. Explains(g, a)'
  BY <1>6, <1>7, <1>8, <1>9, <1>10 DEF Explains
<1>12. Typed' /\ Roomy'
  BY <1>1, <1>2, WriteTyped, WriteRoomy
<1> QED BY <1>11, <1>12 DEF IndInv
-----------------------------------------------------------------------------
(* The other steps of the sender. *)

LEMMA SendsSame ==
  ASSUME NEW R, Sends(R), UNCHANGED <<cacheOut, selfChunkSize, accepted>>, Drifts(R)'
  PROVE  Sends(R)'
BY DEF Sends

\* A step that leaves the wire and the receiver alone.
LEMMA Kept ==
  ASSUME NEW h, NEW a \in Nat, NEW R, R = h.view[h.n], Explains(h, a), Typed', Roomy',
         InFlight' = InFlight, UNCHANGED Heard, Sends(R)', Calls(R)'
  PROVE  IndInv'
<1>1. Carries(h, a)'
  <2>1. Carries(h, a) /\ partialChunk' = partialChunk
    BY DEF Explains, Heard
  <2> HIDE DEF InFlight
  <2> QED BY <2>1 DEF Carries, Gone
<1>2. Receives(h, a)'
  <2>1. Receives(h, a) /\ partialChunk' = partialChunk /\ partialMsg' = partialMsg
    BY DEF Explains, Heard
  <2>2. ASSUME NEW V, NEW S PROVE Hears(V, S) => Hears(V, S)'
    BY HearsSame
  <2>3. CASE partialChunk = 0
    <3> PICK V : V = h.view[a]
      OBVIOUS
    <3> PICK S : S = Upcoming(h, a)
      OBVIOUS
    <3>1. Hears(V, S)'
      BY <2>1, <2>2, <2>3 DEF Receives
    <3> QED BY <2>1, <2>3, <3>1 DEF Receives, Upcoming
  <2>4. CASE partialChunk # 0
    <3> PICK V : V = Begun(h.view[a - 1], h.chunk[a], partialChunk)
      OBVIOUS
    <3>1. Hears(V, {})'
      BY <2>1, <2>2, <2>4 DEF Receives
    <3> QED BY <2>1, <2>4, <3>1 DEF Receives
  <2> QED BY <2>3, <2>4
<1>3. Explains(h, a)'
  BY <1>1, <1>2 DEF Explains
<1> QED BY <1>3 DEF IndInv

LEMMA Ceiling ==
  ASSUME NEW n \in Nat \ {0}, NEW s \in Nat \ {0}
  PROVE  LET q == (n + s - 1) \div s IN q \in Nat \ {0} /\ n <= q * s
<1> PICK x : x = n + s - 1
  OBVIOUS
<1>1. x \in Nat /\ x >= s /\ n = x - (s - 1)
  OBVIOUS
<1> DEFINE q == x \div s
<1>2. q \in Int /\ s * q <= x /\ x < s * q + s
  BY <1>1
<1>3. q * s = s * q /\ q * s \in Int
  BY <1>2
<1> HIDE DEF q
<1>4. q \in Nat \ {0}
  <2> SUFFICES ASSUME q <= 0 PROVE FALSE
    BY <1>2
  <2>1. s * q <= 0
    BY <1>2
  <2> QED BY <1>1, <1>2, <2>1
<1>5. n <= q * s
  BY <1>1, <1>2, <1>3
<1> QED BY <1>4, <1>5 DEF q

\* The first header of a message about to be sent.
LEMMA FirstSame ==
  ASSUME NEW m, NEW find, call'.msg = m, search' = find, cacheOut' = cacheOut
  PROVE  First' = Len(EmitHdr(m, find).fields)
BY DEF First, EmitHdr, Previous

LEMMA CallOK ==
  ASSUME Undisturbed, Typed, NEW h, NEW a \in Nat, Explains(h, a), NEW m \in Any, NEW all \in BOOLEAN,
         Call(m, 0, all), UNCHANGED pending,
         m.free \/ m.time = 0 \/ m.time >= cacheOut[m.cs].time,
         m.cs = Control => all,
         m.cs \in ChunkStream => pending[m.cs] = NoSend,
         IF m.cs = Control THEN begun' = begun ELSE begun < MaxMessages /\ begun' = begun + 1
  PROVE  IndInv'
<1> PICK R : R = h.view[h.n]
  OBVIOUS
<1>1. Sends(R) /\ Calls(R)
  BY DEF Explains
<1>2. /\ call = NoSend /\ call' = Progress(m, 0) /\ whole' = all /\ search' = m.free /\ Fits(m, all)
      /\ cacheOut' = cacheOut /\ selfChunkSize' = selfChunkSize /\ staged' = staged
      /\ accepted' = accepted /\ out' = out /\ in' = in /\ UNCHANGED receiver
  BY DEF Call, Undisturbed
<1>3. m.len \in Nat \ {0} /\ m.cs \in Streams /\ m.free \in BOOLEAN
  BY AnyOK
<1>4. selfChunkSize \in Nat \ {0}
  BY SizesOK DEF Typed
<1>5. call'.msg = m /\ call'.written = 0 /\ call' # NoSend
  BY <1>2, Underway DEF Progress
<1>6. staged = <<>>
  BY <1>1, <1>2 DEF Calls
<1>7. Typed'
  <2>1. call' \in Calling
    BY <1>2 DEF Progress, Calling
  <2> QED BY <1>2, <1>3, <2>1 DEF Typed, receiver
<1>8. Roomy'
  <2>10. PICK f : f = Len(EmitHdr(m, m.free).fields)
    OBVIOUS
  <2>1. First' = f
    BY <1>2, <1>5, <2>10, FirstSame
  <2>11. PICK q : q = (m.len + selfChunkSize - 1) \div selfChunkSize
    OBVIOUS
  <2>2. q \in Nat \ {0} /\ m.len <= q * selfChunkSize
    BY <1>3, <1>4, <2>11, Ceiling
  <2>3. Room >= IF all THEN f + 2 * (q - 1) + m.len ELSE f + Lesser(m.len, selfChunkSize)
    BY <1>2, <2>10, <2>11 DEF Fits
  <2>4. Room' = Room /\ Room \in Nat
    BY <1>2, RoomIs DEF Room
  <2>5. Lesser(m.len, selfChunkSize) \in Nat /\ Lesser(m.len, selfChunkSize) <= m.len
    BY <1>3, <1>4, Lesser2
  <2>6. f \in Nat
    BY <2>10, EmitHdrLen
  <2>7. f + Lesser(m.len, selfChunkSize) <= Room
    BY <1>3, <2>2, <2>3, <2>4, <2>5, <2>6
  <2>8. Unwritten' = m.len
    BY <1>3, <1>5 DEF Unwritten
  <2>9. all => RoomForAll(q)'
    BY <1>2, <1>5, <2>1, <2>2, <2>3, <2>4, <2>8 DEF RoomForAll
  <2> QED BY <1>2, <1>5, <2>1, <2>2, <2>4, <2>7, <2>9 DEF Roomy
<1>9. InFlight' = InFlight
  BY <1>2 DEF InFlight
<1>10. Sends(R)'
  <2>1. Drifts(R)
    BY <1>1 DEF Sends
  <2>2. Started = begun /\ begun \in 0..MaxMessages /\ MaxMessages \in Nat
    BY <1>2, <2>1, ChunkAssumption DEF Started, Fresh, Drifts
  <2>3. Fresh' <=> m.cs # Control
    BY <1>5 DEF Fresh
  <2>4. Started' = begun /\ begun' \in 0..MaxMessages
    BY <2>2, <2>3 DEF Started
  <2>5. Busy' => begun' > 0
    <3>1. CASE m.cs = Control
      <4>1. Busy' => Busy
        BY <1>5, <3>1 DEF Busy
      <4> QED BY <2>1, <3>1, <4>1 DEF Drifts
    <3>2. CASE m.cs # Control
      BY <2>2, <3>2
    <3> QED BY <3>1, <3>2
  <2>6. Drifts(R)'
    BY <1>2, <2>1, <2>2, <2>4, <2>5 DEF Drifts, Span
  <2> QED BY <1>1, <1>2, <2>6, SendsSame
<1>11. Calls(R)'
  <2>1. \A d \in Streams : (call' # NoSend /\ call'.msg.cs = d) <=> d = m.cs
    BY <1>5
  <2>2. \A d \in ChunkStream : pending'[d] # NoSend => Halfway(R, pending[d], d) /\ d # m.cs
    BY <1>1 DEF Calls
  <2>3. ChunkStream \subseteq Streams
    BY SizesOK
  <2>4. ASSUME NEW d \in Streams, R.at[d].left > 0 PROVE d \in ChunkStream /\ pending[d] # NoSend
    BY <1>1, <1>2, <2>4 DEF Calls, Sending
  <2>5. /\ call'.msg \in Any /\ call'.written < call'.msg.len
        /\ IF call'.written = 0
           THEN search' \/ call'.msg.time = 0 \/ call'.msg.time >= cacheOut'[call'.msg.cs].time
           ELSE Halfway(R, call', call'.msg.cs)
        /\ call'.msg.cs = Control => whole'
        /\ search' => call'.msg.free /\ call'.written = 0
    BY <1>2, <1>3, <1>5
  <2> QED BY <1>2, <1>6, <2>1, <2>2, <2>3, <2>4, <2>5 DEF Calls, Sending
<1> QED BY <1>2, <1>7, <1>8, <1>9, <1>10, <1>11, Kept, HeardIs

LEMMA SendOK ==
  ASSUME Undisturbed, Typed, NEW h, NEW a \in Nat, Explains(h, a), NEW m \in Message,
         NEW all \in BOOLEAN, Send(m, all)
  PROVE  IndInv'
<1>1. m \in Any /\ m.cs # Control
  BY AnyOK DEF Any
<1> QED BY <1>1, CallOK DEF Send, Undisturbed

LEMMA SendControlOK ==
  ASSUME Undisturbed, Typed, NEW h, NEW a \in Nat, Explains(h, a), NEW m \in ControlMessage,
         SendControl(m)
  PROVE  IndInv'
<1>1. m \in Any /\ m.cs = Control /\ m.time = 0
  BY DEF Any, ControlMessage
<1>2. m.cs \notin ChunkStream
  BY <1>1, SizesOK
<1> QED BY <1>1, <1>2, CallOK DEF SendControl

LEMMA ResumeOK ==
  ASSUME Undisturbed, Typed, NEW h, NEW a \in Nat, Explains(h, a), NEW cs \in ChunkStream, Resume(cs)
  PROVE  IndInv'
<1> PICK R : R = h.view[h.n]
  OBVIOUS
<1> PICK p : p = pending[cs]
  OBVIOUS
<1>1. Sends(R) /\ Calls(R)
  BY DEF Explains
<1>2. /\ p # NoSend /\ call = NoSend /\ call' = p /\ whole' = FALSE /\ search' = p.msg.free
      /\ pending' = [pending EXCEPT ![cs] = NoSend]
      /\ cacheOut' = cacheOut /\ selfChunkSize' = selfChunkSize /\ staged' = staged
      /\ accepted' = accepted /\ out' = out /\ in' = in /\ UNCHANGED receiver
  BY DEF Resume
<1>3. Halfway(R, p, cs) /\ p \in Calling
  BY <1>1, <1>2 DEF Calls, Typed
<1>4. p.msg \in Any /\ p.msg.cs = cs /\ p.written \in 1..(p.msg.len - 1) /\ p.msg.len \in Nat
      /\ p.msg.free \in BOOLEAN
  BY <1>3, AnyOK DEF Halfway
<1>5. p.written > 0 /\ p.written # 0 /\ p.written < p.msg.len
  BY <1>4
<1>6. staged = <<>>
  BY <1>1, <1>2 DEF Calls
<1>7. \A d \in ChunkStream : pending'[d] = IF d = cs THEN NoSend ELSE pending[d]
  BY <1>2 DEF Typed
<1>8. NoSend \in Calling
  BY DEF NoSend, Progress, Calling
<1> HIDE DEF NoSend
<1>9. Typed'
  BY <1>2, <1>3, <1>4, <1>8 DEF Typed, receiver
<1>10. Roomy'
  BY <1>2, <1>5 DEF Roomy
<1>11. InFlight' = InFlight
  BY <1>2 DEF InFlight
<1>12. Sends(R)'
  <2>1. Drifts(R) /\ begun' = begun
    BY <1>1 DEF Sends, Resume
  <2>2. ~Fresh /\ ~Fresh'
    BY <1>2, <1>5 DEF Fresh
  <2>3. Started' = Started
    BY <2>1, <2>2 DEF Started
  <2>4. begun > 0
    BY <1>2, <2>1 DEF Drifts, Busy
  <2>5. Drifts(R)'
    BY <1>2, <2>1, <2>3, <2>4 DEF Drifts, Span
  <2> QED BY <1>1, <1>2, <2>5, SendsSame
<1>13. cs # Control /\ ChunkStream \subseteq Streams
  BY SizesOK
<1>14. Calls(R)'
  <2>1. \A d \in ChunkStream : pending'[d] # NoSend => Halfway(R, pending'[d], d) /\ d # cs
    BY <1>1, <1>7 DEF Calls
  <2>2. ASSUME NEW d \in Streams, R.at[d].left > 0
        PROVE  d = cs \/ (d \in ChunkStream /\ pending'[d] # NoSend)
    BY <1>1, <1>2, <1>7, <2>2 DEF Calls, Sending
  <2> QED BY <1>2, <1>3, <1>4, <1>5, <1>6, <1>13, <2>1, <2>2 DEF Calls, Sending
<1> QED BY <1>2, <1>9, <1>10, <1>11, <1>12, <1>14, Kept, HeardIs

\* NoRoom is only met behind the first chunk of a message sent resumably.
LEMMA NoRoomIs ==
  ASSUME Undisturbed, Typed, Roomy, NEW R \in View, Calls(R), Sends(R), NoRoom
  PROVE  call # NoSend /\ call.written > 0 /\ ~whole
<1>1. call # NoSend /\ Len(Chunk) > Room
  BY DEF NoRoom
<1> PICK n : n = NextPiece.n
  OBVIOUS
<1> PICK u : u = Unwritten
  OBVIOUS
<1> PICK f : f = First
  OBVIOUS
<1>2. /\ call.written \in Nat /\ call.msg.len \in Nat /\ u = call.msg.len - call.written
      /\ u \in Nat \ {0} /\ selfChunkSize \in Nat \ {0}
  BY <1>1, CallIs, AnyOK DEF Unwritten
<1>3. n = Lesser(u, selfChunkSize) /\ n \in Nat /\ n <= u
  <2>1. n = Lesser(u, selfChunkSize)
    BY NextPieceIs
  <2> QED BY <1>2, <2>1, Lesser2
<1>4. f \in 1..4 /\ (call.written > 0 /\ ~search => f <= 2) /\ Len(Chunk) = f + n
  BY <1>1, FirstIs
<1>5. Room \in Nat
  BY RoomIs
<1>6. call.written # 0
  <2> SUFFICES ASSUME call.written = 0 PROVE FALSE
    OBVIOUS
  <2>1. f + Lesser(call.msg.len, selfChunkSize) <= Room
    BY <1>1 DEF Roomy
  <2>2. u = call.msg.len
    BY <1>2
  <2> QED BY <1>1, <1>3, <1>4, <1>5, <2>1, <2>2
<1>7. ~whole
  <2> SUFFICES ASSUME whole PROVE FALSE
    OBVIOUS
  <2>1. PICK r \in Nat : RoomForAll(r)
    BY <1>1 DEF Roomy
  <2>2. u <= r * selfChunkSize /\ Room >= 2 * r + u
    BY <1>6, <2>1 DEF RoomForAll
  <2>3. r >= 1
    BY <1>2, <2>2, OneFewer
  <2>4. f <= 2
    <3>1. ~search
      BY <1>1, <1>6 DEF Calls
    <3> QED BY <1>2, <1>4, <1>6, <3>1
  <2> QED BY <1>1, <1>2, <1>3, <1>4, <1>5, <2>2, <2>3, <2>4
<1> QED BY <1>1, <1>2, <1>6, <1>7

LEMMA NoRoomOK ==
  ASSUME Undisturbed, Typed, Roomy, NEW h, NEW a \in Nat, Explains(h, a), NoRoom
  PROVE  IndInv'
<1> PICK R : R = h.view[h.n]
  OBVIOUS
<1> PICK m : m = call.msg
  OBVIOUS
<1>1. Sends(R) /\ Calls(R) /\ R \in View
  BY TracesOK DEF Explains
<1>2. call # NoSend /\ call.written > 0 /\ ~whole
  BY <1>1, NoRoomIs
<1>3. /\ m \in Any /\ m.cs \in Streams /\ call.written \in Nat /\ m.len \in Nat /\ m.time \in Nat
      /\ m.sid \in Nat /\ m.type \in TypeNames
  BY <1>1, <1>2, CallIs, AnyOK
<1>4. Increment(m) \in Nat
  BY <1>1, <1>2, TimeFieldIs
<1>5. /\ cacheOut' = [cacheOut EXCEPT ![m.cs] = Remembered(Before(m), m, Increment(m))]
      /\ staged' = <<>> /\ pending' = [pending EXCEPT ![m.cs] = call] /\ call' = NoSend
      /\ selfChunkSize' = selfChunkSize /\ whole' = whole /\ search' = FALSE
      /\ accepted' = accepted /\ out' = out /\ in' = in /\ UNCHANGED receiver
  <2>1. EmitHdr(m, search).entry = Remembered(Before(m), m, Increment(m))
    BY <1>1, <1>2, FieldsAre
  <2> HIDE DEF NoSend, Remembered, Chunk
  <2> QED BY <1>2, <2>1 DEF NoRoom
<1>6. staged = <<>>
  BY <1>1, <1>2 DEF Calls
<1>7. m.cs \in ChunkStream
  BY <1>1, <1>2, <1>3, SizesOK DEF Calls
<1>8. call \in Calling /\ NoSend \in Calling
  BY DEF Typed, NoSend, Progress, Calling
<1> HIDE DEF NoSend
<1>9. Typed'
  <2>1. Remembered(Before(m), m, Increment(m)) \in Headers
    BY <1>3, <1>4 DEF Remembered, Headers
  <2>2. cacheOut' \in [Streams -> Headers]
    BY <1>3, <1>5, <2>1 DEF Typed
  <2> QED BY <1>5, <1>6, <1>7, <1>8, <2>2 DEF Typed, receiver
<1>10. Roomy'
  BY <1>5 DEF Roomy
<1>11. InFlight' = InFlight
  BY <1>5, <1>6 DEF InFlight
<1>12. R.at[m.cs] = Cell(m, call.written, m.len - call.written) /\ Halfway(R, call, m.cs)
       /\ R.at[m.cs].left > 0
  <2>1. Halfway(R, call, m.cs)
    BY <1>1, <1>2, <1>3 DEF Calls
  <2> QED BY <1>1, <1>2, <1>3, <2>1, CellIs DEF Halfway
<1>13. Sends(R)'
  <2>1. ASSUME NEW d \in Streams PROVE Emits(cacheOut'[d], R, d)
    <3>1. Emits(cacheOut[d], R, d)
      BY <1>1 DEF Sends
    <3>2. CASE d = m.cs
      <4>1. cacheOut'[d] = [known |-> TRUE, time |-> m.time, delta |-> Increment(m), len |-> m.len,
                            type |-> m.type, sid |-> m.sid]
        BY <1>3, <1>5, <3>2 DEF Typed, Remembered
      <4>3. cacheOut[d].known /\ cacheOut[d].time = m.time
        BY <1>1, <1>2, <3>2, CellIs
      <4>4. R.at[d].msg = m
        BY <1>12, <3>2 DEF Cell
      <4> QED BY <3>1, <4>1, <4>3, <4>4 DEF Emits
    <3>3. CASE d # m.cs
      BY <1>3, <1>5, <3>1, <3>3 DEF Typed
    <3> QED BY <3>2, <3>3
  <2>2. selfChunkSize' = R.size /\ \A d \in ChunkStream : What(accepted'[d]) = R.done[d]
    BY <1>1, <1>5 DEF Sends
  <2>3. Drifts(R)'
    <3>1. Drifts(R) /\ begun' = begun
      BY <1>1 DEF Sends, NoRoom
    <3>2. ~Fresh /\ ~Fresh'
      BY <1>2, <1>3, <1>5 DEF Fresh
    <3>3. Started' = Started
      BY <3>1, <3>2 DEF Started
    <3>4. ASSUME NEW d \in Streams PROVE cacheOut'[d].time = cacheOut[d].time
      <4>1. CASE d = m.cs
        <5>1. cacheOut'[d].time = m.time
          BY <1>3, <1>5, <4>1 DEF Typed, Remembered
        <5>2. cacheOut[m.cs].time = m.time
          BY <1>1, <1>2, CellIs
        <5> QED BY <4>1, <5>1, <5>2
      <4>2. CASE d # m.cs
        BY <1>3, <1>5, <4>2 DEF Typed
      <4> QED BY <4>1, <4>2
    <3>5. begun > 0
      BY <1>7, <3>1, SizesOK DEF Drifts, Busy
    <3> QED BY <3>1, <3>3, <3>4, <3>5 DEF Drifts, Span
  <2> QED BY <2>1, <2>2, <2>3 DEF Sends
<1>14. Calls(R)'
  <2>1. \A d \in ChunkStream : pending'[d] = IF d = m.cs THEN call ELSE pending[d]
    BY <1>5, <1>7 DEF Typed
  <2>2. \A d \in ChunkStream : pending'[d] # NoSend => Halfway(R, pending'[d], d)
    BY <1>1, <1>12, <2>1 DEF Calls
  <2>3. ASSUME NEW d \in Streams, R.at[d].left > 0 PROVE d \in ChunkStream /\ pending'[d] # NoSend
    <3>1. CASE d = m.cs
      BY <1>2, <1>7, <2>1, <3>1
    <3>2. CASE d # m.cs
      BY <1>1, <2>1, <2>3, <3>2 DEF Calls, Sending
    <3> QED BY <3>1, <3>2
  <2> QED BY <1>5, <2>2, <2>3 DEF Calls, Sending
<1> QED BY <1>5, <1>9, <1>10, <1>11, <1>13, <1>14, Kept, HeardIs
-----------------------------------------------------------------------------
(* The sockets and the pause. *)

LEMMA CarryIs ==
  ASSUME NEW S, NEW i \in Seq(S), NEW o \in Seq(S), o # <<>>
  PROVE  /\ Append(i, Head(o)) \o Tail(o) = i \o o
         /\ Append(i, Head(o)) \in Seq(S) /\ Len(Append(i, Head(o))) = Len(i) + 1
         /\ Tail(o) \in Seq(S) /\ Len(Tail(o)) = Len(o) - 1
<1> DEFINE x == Head(o)
           t == Tail(o)
           j == Append(i, x)
<1>1. x \in S /\ t \in Seq(S) /\ Len(t) = Len(o) - 1 /\ x = o[1] /\ Len(o) \in Nat /\ Len(o) > 0
      /\ \A k \in 1..Len(t) : t[k] = o[k + 1]
  OBVIOUS
<1>2. j \in Seq(S) /\ Len(j) = Len(i) + 1 /\ Len(i) \in Nat
      /\ \A k \in 1..Len(i) + 1 : j[k] = IF k <= Len(i) THEN i[k] ELSE x
  OBVIOUS
<1>3. x \in S /\ t \in Seq(S) /\ j \in Seq(S)
  BY <1>1, <1>2
<1> HIDE DEF x, t, j
<1>4. /\ j \o t \in Seq(S) /\ Len(j \o t) = Len(j) + Len(t)
      /\ \A k \in 1..(Len(j) + Len(t)) : (j \o t)[k] = IF k <= Len(j) THEN j[k] ELSE t[k - Len(j)]
  BY <1>3, ConcatProperties, Zenon
<1>5. /\ i \o o \in Seq(S) /\ Len(i \o o) = Len(i) + Len(o)
      /\ \A k \in 1..(Len(i) + Len(o)) : (i \o o)[k] = IF k <= Len(i) THEN i[k] ELSE o[k - Len(i)]
  BY ConcatProperties, Zenon
<1> DEFINE u == j \o t
           v == i \o o
<1>6. u \in Seq(S) /\ v \in Seq(S) /\ Len(u) = Len(v) /\ Len(u) = Len(i) + Len(o)
  BY <1>1, <1>2, <1>4, <1>5
<1>7. ASSUME NEW k \in 1..(Len(i) + Len(o)) PROVE u[k] = v[k]
  <2>1. k <= Len(i) \/ k = Len(i) + 1 \/ k > Len(i) + 1
    BY <1>1, <1>2
  <2>2. CASE k <= Len(i)
    BY <1>1, <1>2, <1>4, <1>5, <2>2
  <2>3. CASE k = Len(i) + 1
    <3>1. k - Len(i) = 1
      BY <1>2, <2>3
    <3>2. v[k] = o[1]
      BY <1>1, <1>2, <1>5, <2>3, <3>1
    <3>3. u[k] = x
      BY <1>1, <1>2, <1>4, <2>3
    <3> QED BY <1>1, <3>2, <3>3
  <2>4. CASE k > Len(i) + 1
    <3>1. k - Len(j) \in 1..Len(t) /\ (k - Len(j)) + 1 = k - Len(i)
      BY <1>1, <1>2, <2>4
    <3>2. u[k] = t[k - Len(j)]
      BY <1>1, <1>2, <1>4, <2>4
    <3>3. v[k] = o[k - Len(i)]
      BY <1>1, <1>2, <1>5, <2>4
    <3>4. t[k - Len(j)] = o[(k - Len(j)) + 1]
      BY <1>1, <3>1
    <3> QED BY <3>1, <3>2, <3>3, <3>4
  <2> QED BY <2>1, <2>2, <2>3, <2>4, Zenon
<1> HIDE DEF u, v
<1>8. u = v
  BY <1>6, <1>7, SeqEqual
<1> QED BY <1>1, <1>2, <1>8 DEF u, v, x, t, j

LEMMA CarryOK ==
  ASSUME Undisturbed, Typed, Roomy, NEW h, NEW a \in Nat, Explains(h, a), Carry
  PROVE  IndInv'
<1> PICK R : R = h.view[h.n]
  OBVIOUS
<1>1. /\ out # <<>> /\ Len(in) < InSize /\ in' = Append(in, Head(out)) /\ out' = Tail(out)
      /\ UNCHANGED sender /\ UNCHANGED receiver
  BY DEF Carry
<1>2. /\ in \in Seq(Units) /\ out \in Seq(Units) /\ Len(in) \in Nat /\ Len(out) \in Nat
      /\ Len(staged) \in Nat /\ InSize \in Nat /\ OutSize \in Nat
  BY RoomIs, SizesOK DEF Typed
<1>3. /\ in' \o out' = in \o out /\ in' \in Seq(Units) /\ Len(in') = Len(in) + 1
      /\ out' \in Seq(Units) /\ Len(out') = Len(out) - 1
  BY <1>1, <1>2, CarryIs, SMTT(30)
<1>4. staged' = staged
  BY <1>1 DEF sender
<1>5. InFlight' = InFlight
  BY <1>3, <1>4 DEF InFlight
<1>6. Typed'
  <2>1. Len(in') <= InSize /\ Len(out') + Len(staged') <= OutSize
    BY <1>1, <1>2, <1>3, <1>4 DEF Typed
  <2> QED BY <1>1, <1>3, <2>1 DEF Typed, sender, receiver
<1>7. Room' = Room + 1 /\ Room \in Nat
  <2>1. Room' = OutSize - Len(out') - Len(staged)
    BY <1>4 DEF Room
  <2>2. Room = OutSize - (Len(out) + Len(staged)) /\ Room \in Nat
    BY RoomIs
  <2> QED BY <1>2, <1>3, <2>1, <2>2
<1>8. Roomy'
  <2>1. /\ call' = call /\ whole' = whole /\ search' = search /\ cacheOut' = cacheOut
        /\ selfChunkSize' = selfChunkSize
    BY <1>1 DEF sender
  <2>2. CASE call = NoSend
    BY <2>1, <2>2 DEF Roomy
  <2>3. CASE call # NoSend
    <3>1. /\ call.written \in Nat /\ call.msg \in Any /\ call.msg.len \in Nat /\ Unwritten \in Nat
          /\ selfChunkSize \in Nat
      <4>1. Sends(R) /\ Calls(R) /\ R \in View
        BY TracesOK DEF Explains
      <4> QED BY <2>3, <4>1, CallIs, AnyOK
    <3>2. First \in Nat
      <4>1. Sends(R) /\ Calls(R) /\ R \in View
        BY TracesOK DEF Explains
      <4>2. First \in 1..4
        BY <2>3, <4>1, FirstIs
      <4> QED BY <4>2
    <3>3. First' = First /\ Unwritten' = Unwritten
      <4>1. First' = Len(EmitHdr(call.msg, search).fields)
        BY <2>1, FirstSame
      <4> QED BY <2>1, <4>1 DEF First, Unwritten
    <3>4. Lesser(call.msg.len, selfChunkSize) \in Nat
      BY <3>1, Lesser2
    <3> PICK f : f = First
      OBVIOUS
    <3> PICK u : u = Unwritten
      OBVIOUS
    <3>5. ASSUME NEW r \in Nat, RoomForAll(r) PROVE RoomForAll(r)'
      <4>1. u <= r * selfChunkSize /\ Room >= IF call.written = 0 THEN f + 2 * (r - 1) + u ELSE 2 * r + u
        BY <3>5 DEF RoomForAll
      <4>2. Room' >= IF call.written = 0 THEN f + 2 * (r - 1) + u ELSE 2 * r + u
        BY <1>7, <3>1, <3>2, <4>1
      <4> QED BY <2>1, <3>3, <4>1, <4>2 DEF RoomForAll
    <3>6. call.written = 0 => f + Lesser(call.msg.len, selfChunkSize) <= Room'
      <4>1. call.written = 0 => f + Lesser(call.msg.len, selfChunkSize) <= Room
        BY <2>3 DEF Roomy
      <4> QED BY <1>7, <3>2, <3>4, <4>1
    <3>7. whole => \E r \in Nat : RoomForAll(r)'
      BY <2>3, <3>5 DEF Roomy
    <3> QED BY <2>1, <3>3, <3>6, <3>7 DEF Roomy
  <2> QED BY <2>2, <2>3
<1>9. Sends(R)' /\ Calls(R)'
  BY <1>1 DEF Explains, Sends, Drifts, Started, Fresh, Busy, Span, Calls, Sending, Halfway, sender
<1> QED BY <1>1, <1>5, <1>6, <1>8, <1>9, Kept, HeardIs

\* A step of the receiver leaves the sender alone.
LEMMA SenderSame ==
  ASSUME UNCHANGED <<sender, out>>, Roomy, NEW R, Sends(R), Calls(R)
  PROVE  Roomy' /\ Sends(R)' /\ Calls(R)'
<1>1. Roomy'
  <2>1. /\ call' = call /\ whole' = whole /\ search' = search /\ cacheOut' = cacheOut
        /\ selfChunkSize' = selfChunkSize /\ Room' = Room
    BY DEF sender, Room
  <2>2. First' = First /\ Unwritten' = Unwritten
    <3>1. First' = Len(EmitHdr(call.msg, search).fields)
      BY <2>1, FirstSame
    <3> QED BY <2>1, <3>1 DEF First, Unwritten
  <2>3. \A r \in Nat : RoomForAll(r) => RoomForAll(r)'
    BY <2>1, <2>2 DEF RoomForAll
  <2> QED BY <2>1, <2>2, <2>3 DEF Roomy
<1>2. Sends(R)' /\ Calls(R)'
  BY DEF Sends, Drifts, Started, Fresh, Busy, Span, Calls, Sending, Halfway, sender
<1> QED BY <1>1, <1>2

LEMMA PauseOK ==
  ASSUME Typed, Roomy, NEW h, NEW a \in Nat, Explains(h, a), Pause \/ Unpause
  PROVE  IndInv'
<1> PICK R : R = h.view[h.n]
  OBVIOUS
<1>1. UNCHANGED sender /\ UNCHANGED <<out, in>> /\ UNCHANGED Heard /\ paused' \in {"never", "yes", "over"}
  BY DEF Pause, Unpause, Heard
<1>2. Typed'
  BY <1>1 DEF Typed, sender, Heard
<1>3. InFlight' = InFlight
  BY <1>1 DEF InFlight, sender
<1>4. Sends(R) /\ Calls(R)
  BY DEF Explains
<1>5. Roomy' /\ Sends(R)' /\ Calls(R)'
  BY <1>1, <1>4, SenderSame
<1> QED BY <1>1, <1>2, <1>3, <1>5, Kept
-----------------------------------------------------------------------------
(* The receiver in front of a chunk. *)

\* The receiver has view R and the units at hand are the first ones of the chunk c.
Facing(R, c) ==
    /\ R \in View /\ Follows(R, c) /\ \A cs \in Streams : R.time[cs] < Mark
    /\ partialChunk = 0 /\ in # <<>>
    /\ Hears(R, {c.msg})
    /\ \A i \in 1..Len(in) : i <= Extent(c) => in[i] = Unit(c, i)

LEMMA InIs ==
  ASSUME Typed, NEW h, NEW a \in Nat, Explains(h, a)
  PROVE  /\ Len(in) \in Nat /\ Gone(h, a) \in Nat /\ a \in 0..h.n /\ h.n \in Nat
         /\ Gone(h, a) = h.end[a] - partialChunk /\ h.end[a] \in Nat /\ partialChunk \in Nat
         /\ Gone(h, a) + Len(in) <= h.end[h.n] /\ h.end[h.n] \in Nat
         /\ \A i \in 1..Len(in) : in[i] = h.wire[Gone(h, a) + i]
<1>1. Traces(h) /\ Carries(h, a)
  BY DEF Explains
<1>2. /\ a \in 0..h.n /\ partialChunk <= h.end[a] /\ Len(InFlight) = h.end[h.n] - Gone(h, a)
      /\ \A i \in 1..Len(InFlight) : InFlight[i] = h.wire[Gone(h, a) + i]
  BY <1>1 DEF Carries
<1>3. h.n \in Nat /\ h.end[a] \in Nat /\ h.end[h.n] \in Nat /\ h.end[a] <= h.end[h.n]
  BY <1>1, <1>2, TracesOK
<1>4. partialChunk \in Nat
  BY DEF Typed
<1>5. Gone(h, a) = h.end[a] - partialChunk /\ Gone(h, a) \in Nat
  BY <1>2, <1>3, <1>4 DEF Gone
<1>6. /\ Len(InFlight) = (Len(in) + Len(out)) + Len(staged)
      /\ Len(in) \in Nat /\ Len(out) \in Nat /\ Len(staged) \in Nat
      /\ \A i \in 1..Len(in) : InFlight[i] = in[i]
  BY FlightIs
<1>7. \A i \in 1..Len(in) : i \in 1..Len(InFlight)
  BY <1>6
<1>8. \A i \in 1..Len(in) : in[i] = h.wire[Gone(h, a) + i]
  BY <1>2, <1>6, <1>7
<1>9. Gone(h, a) + Len(in) <= h.end[h.n]
  <2> DEFINE l == Len(InFlight)
             g == Gone(h, a)
             x == Len(in)
             y == Len(out)
             z == Len(staged)
             e == h.end[h.n]
  <2>1. l = e - g /\ l = (x + y) + z /\ e \in Nat /\ g \in Nat /\ x \in Nat /\ y \in Nat /\ z \in Nat
    BY <1>2, <1>3, <1>5, <1>6
  <2> HIDE DEF l, g, x, y, z, e
  <2>2. g + x <= e
    BY <2>1
  <2> QED BY <2>2 DEF g, x, e
<1> QED BY <1>2, <1>3, <1>4, <1>5, <1>6, <1>8, <1>9

LEMMA FrontIs ==
  ASSUME Typed, NEW h, NEW a \in Nat, Explains(h, a), partialChunk = 0, in # <<>>,
         NEW c, c = h.chunk[a + 1]
  PROVE  /\ a < h.n /\ a + 1 \in 0..h.n /\ Facing(h.view[a], c)
         /\ h.view[a + 1] = After(h.view[a], c) /\ h.end[a + 1] = h.end[a] + Extent(c)
<1> PICK R : R = h.view[a]
  OBVIOUS
<1>1. /\ Len(in) \in Nat /\ a \in 0..h.n /\ h.n \in Nat /\ Gone(h, a) = h.end[a]
      /\ h.end[a] \in Nat /\ h.end[h.n] \in Nat /\ h.end[a] + Len(in) <= h.end[h.n]
      /\ \A i \in 1..Len(in) : in[i] = h.wire[h.end[a] + i]
  BY InIs
<1>2. Len(in) > 0
  BY <1>1 DEF Typed
<1>3. a # h.n
  BY <1>1, <1>2
<1>4. a < h.n /\ a + 1 \in 1..h.n /\ (a + 1) - 1 = a /\ a + 1 \in 0..h.n
  BY <1>1, <1>3
<1>5. Traces(h) /\ Receives(h, a)
  BY DEF Explains
<1>6. /\ Follows(R, c) /\ h.view[a + 1] = After(R, c) /\ h.end[a + 1] = h.end[a] + Extent(c)
      /\ \A i \in 1..Extent(c) : h.wire[h.end[a] + i] = Unit(c, i)
  <2>1. Traced(h, a + 1)
    BY <1>4, <1>5 DEF Traces
  <2> QED BY <1>4, <2>1 DEF Traced
<1>7. R \in View /\ \A cs \in Streams : R.time[cs] < Mark
  BY <1>1, <1>5 DEF Traces, Passed
<1>8. Extent(c) \in Nat
  BY <1>6, <1>7, FollowsOK, ExtentOK
<1>9. \A i \in 1..Len(in) : i <= Extent(c) => in[i] = Unit(c, i)
  BY <1>1, <1>6, <1>8
<1>10. Hears(R, {c.msg})
  BY <1>4, <1>5 DEF Receives, Upcoming
<1> QED BY <1>4, <1>6, <1>7, <1>9, <1>10 DEF Facing

LEMMA FacingIs ==
  ASSUME Typed, NEW R, NEW c, Facing(R, c)
  PROVE  /\ Len(in) \in Nat \ {0} /\ c.fmt \in 0..3 /\ HeadLen(c) = 4 - c.fmt /\ HeadLen(c) \in 1..4
         /\ Extent(c) = HeadLen(c) + c.n /\ c.n \in Nat \ {0} /\ c.msg \in Any /\ c.msg.cs \in Streams
         /\ c.from \in Nat /\ c.msg.len \in Nat /\ c.from + c.n <= c.msg.len
         /\ R \in View /\ Follows(R, c) /\ c.stamp \in Nat /\ c.stamp < Mark /\ Mark \in Nat
         /\ \A i \in 1..Len(in) : i <= HeadLen(c) => in[i] = Unit(c, i)
<1>1. R \in View /\ Follows(R, c) /\ in # <<>>
  BY DEF Facing
<1>2. /\ c \in Piece /\ c.msg \in Any /\ c.from \in Nat /\ c.n \in Nat \ {0} /\ c.fmt \in 0..3
      /\ c.stamp \in Nat /\ c.msg.cs \in Streams /\ c.msg.len \in Nat /\ c.from + c.n <= c.msg.len
  BY <1>1, FollowsOK
<1>3. HeadLen(c) \in 1..4 /\ HeadLen(c) = 4 - c.fmt /\ Extent(c) = HeadLen(c) + c.n
  BY <1>2, ExtentOK
<1>4. Len(in) \in Nat \ {0}
  BY <1>1 DEF Typed
<1>5. c.stamp < Mark /\ Mark \in Nat
  BY <1>1, SizesOK DEF Follows
<1>6. \A i \in 1..Len(in) : i <= HeadLen(c) => in[i] = Unit(c, i)
  BY <1>2, <1>3, <1>4 DEF Facing
<1> QED BY <1>1, <1>2, <1>3, <1>4, <1>5, <1>6

\* The fields that have arrived are the ones that were written.
LEMMA SeenIs ==
  ASSUME Typed, NEW R, NEW c, Facing(R, c)
  PROVE  /\ in[1] = [kind |-> "basic", fmt |-> c.fmt, cs |-> c.msg.cs]
         /\ Fmt = c.fmt /\ Cs = c.msg.cs
         /\ c.fmt <= 2 /\ Len(in) >= 2 => in[2] = [kind |-> "time", val |-> c.stamp]
         /\ c.fmt <= 1 /\ Len(in) >= 3 => in[3] = [kind |-> "shape", len |-> c.msg.len, type |-> c.msg.type]
         /\ c.fmt = 0 /\ Len(in) >= 4 => in[4] = [kind |-> "sid", val |-> c.msg.sid]
<1>1. /\ Len(in) \in Nat \ {0} /\ c.fmt \in 0..3 /\ HeadLen(c) = 4 - c.fmt
      /\ \A i \in 1..Len(in) : i <= HeadLen(c) => in[i] = Unit(c, i)
  BY FacingIs
<1>2. in[1] = [kind |-> "basic", fmt |-> c.fmt, cs |-> c.msg.cs]
  <2>1. in[1] = Unit(c, 1) /\ ~(1 > HeadLen(c))
    BY <1>1
  <2> QED BY <2>1 DEF Unit
<1>3. Fmt = c.fmt /\ Cs = c.msg.cs
  BY <1>2 DEF Fmt, Cs
<1>4. ASSUME c.fmt <= 2, Len(in) >= 2 PROVE in[2] = [kind |-> "time", val |-> c.stamp]
  <2>1. in[2] = Unit(c, 2) /\ ~(2 > HeadLen(c))
    BY <1>1, <1>4
  <2> QED BY <2>1 DEF Unit
<1>5. ASSUME c.fmt <= 1, Len(in) >= 3
      PROVE  in[3] = [kind |-> "shape", len |-> c.msg.len, type |-> c.msg.type]
  <2>1. in[3] = Unit(c, 3) /\ ~(3 > HeadLen(c))
    BY <1>1, <1>5
  <2> QED BY <2>1 DEF Unit
<1>6. ASSUME c.fmt = 0, Len(in) >= 4 PROVE in[4] = [kind |-> "sid", val |-> c.msg.sid]
  <2>1. in[4] = Unit(c, 4) /\ ~(4 > HeadLen(c))
    BY <1>1, <1>6
  <2> QED BY <2>1 DEF Unit
<1> QED BY <1>2, <1>3, <1>4, <1>5, <1>6

\* The cache entry the header is read into.
LEMMA EntryIs ==
  ASSUME Typed, NEW R, NEW c, Facing(R, c)
  PROVE  LET e == cacheIn[c.msg.cs]
             p == R.at[c.msg.cs]
         IN  /\ e \in Entries /\ e.processed = p.left /\ e.time = R.time[c.msg.cs] /\ e.time < Mark
             /\ e.sid = p.msg.sid
             /\ \/ e.len = p.msg.len /\ e.type = p.msg.type
                \/ e.len = c.msg.len /\ e.type = c.msg.type
<1>1. c.msg.cs \in Streams
  BY FacingIs
<1>2. Knows(cacheIn[c.msg.cs], R, c.msg.cs, {c.msg}) /\ R.time[c.msg.cs] < Mark
  BY <1>1 DEF Facing, Hears
<1>3. cacheIn[c.msg.cs] \in Entries
  BY <1>1 DEF Typed
<1> QED BY <1>2, <1>3 DEF Knows

\* No time that arrives announces an extended one.
LEMMA StampIs ==
  ASSUME Typed, NEW R, NEW c, Facing(R, c)
  PROVE  /\ ~((Fmt <= 2 => Len(in) >= 2) /\ Extended)
         /\ Len(in) >= HeadLen(c) => Stamp = c.stamp /\ ~Extended
<1>1. /\ Fmt = c.fmt /\ Cs = c.msg.cs
      /\ c.fmt <= 2 /\ Len(in) >= 2 => in[2] = [kind |-> "time", val |-> c.stamp]
  BY SeenIs
<1>2. /\ c.fmt \in 0..3 /\ c.stamp \in Nat /\ c.stamp < Mark /\ Mark \in Nat /\ HeadLen(c) = 4 - c.fmt
      /\ Len(in) \in Nat
  BY FacingIs
<1>3. cacheIn[c.msg.cs].time < Mark /\ cacheIn[c.msg.cs].time \in Nat
  BY EntryIs DEF Entries
<1>4. c.fmt = 3 => c.stamp = 0
  BY DEF Facing, Follows
<1>5. (Fmt <= 2 => Len(in) >= 2) => Stamp = c.stamp
  <2>1. CASE c.fmt <= 2
    BY <1>1, <2>1 DEF Stamp
  <2>2. CASE c.fmt = 3
    BY <1>1, <1>4, <2>2 DEF Stamp
  <2> QED BY <1>2, <2>1, <2>2
<1>6. Stamp = c.stamp => ~Extended
  <2> SUFFICES ASSUME Stamp = c.stamp PROVE ~Extended
    OBVIOUS
  <2>1. Stamp # Mark
    BY <1>2
  <2>2. cacheIn[Cs].time # Mark
    BY <1>1, <1>2, <1>3
  <2> QED BY <2>1, <2>2 DEF Extended
<1>7. Len(in) >= HeadLen(c) => (Fmt <= 2 => Len(in) >= 2)
  BY <1>1, <1>2
<1> QED BY <1>5, <1>6, <1>7

LEMMA SectionIs ==
  ASSUME NEW S, NEW t \in Seq(S), NEW q \in Nat, q <= Len(t)
  PROVE  LET u == SubSeq(t, 1, q)
         IN  u \in Seq(S) /\ Len(u) = q /\ \A i \in 1..q : u[i] = t[i]
OBVIOUS

LEMMA KindsAre ==
  ASSUME Typed, NEW R, NEW c, Facing(R, c)
  PROVE  /\ Len(HeaderKinds) = HeadLen(c)
         /\ \A i \in 1..HeadLen(c) : HeaderKinds[i] = Unit(c, i).kind
         /\ HeaderDone <=> Len(in) >= HeadLen(c)
<1> DEFINE t == <<"basic", "time", "shape", "sid">>
           s == SubSeq(t, 1, 4 - Fmt)
<1>1. Fmt = c.fmt
  BY SeenIs
<1>2. HeadLen(c) \in 1..4 /\ HeadLen(c) = 4 - c.fmt /\ c.fmt \in 0..3 /\ Len(in) \in Nat
  BY FacingIs
<1>3. HeaderKinds = s \o When((Fmt <= 2 => Len(in) >= 2) /\ Extended, <<"ext">>)
  BY DEF HeaderKinds
<1>4. When((Fmt <= 2 => Len(in) >= 2) /\ Extended, <<"ext">>) = <<>>
  BY StampIs DEF When
<1> DEFINE S == {"basic", "time", "shape", "sid"}
<1>5. /\ t \in Seq(S) /\ Len(t) = 4
      /\ t[1] = "basic" /\ t[2] = "time" /\ t[3] = "shape" /\ t[4] = "sid"
  OBVIOUS
<1> HIDE DEF t, S
<1>6. s \in Seq(S) /\ Len(s) = 4 - c.fmt /\ \A i \in 1..(4 - c.fmt) : s[i] = t[i]
  <2> DEFINE q == 4 - Fmt
  <2>1. q \in 1..4 /\ q = 4 - c.fmt
    BY <1>1, <1>2
  <2> HIDE DEF q
  <2>2. LET u == SubSeq(t, 1, q)
        IN  u \in Seq(S) /\ Len(u) = q /\ \A i \in 1..q : u[i] = t[i]
    <3>1. t \in Seq(S) /\ q \in Nat /\ q <= Len(t)
      BY <1>5, <2>1
    <3> QED BY <3>1, SectionIs
  <2>3. s = SubSeq(t, 1, q)
    BY DEF q
  <2> HIDE DEF s
  <2> QED BY <2>1, <2>2, <2>3
<1> HIDE DEF s
<1>7. s \o <<>> = s
  BY <1>6, ConcatEmptySeq, Zenon
<1>8. HeaderKinds = s
  BY <1>3, <1>4, <1>7, Zenon
<1>9. ASSUME NEW i \in 1..HeadLen(c) PROVE t[i] = Unit(c, i).kind
  <2>1. ~(i > HeadLen(c)) /\ i \in {1, 2, 3, 4}
    BY <1>2
  <2>2. CASE i = 1
    BY <1>5, <2>1, <2>2 DEF Unit
  <2>3. CASE i = 2
    BY <1>5, <2>1, <2>3 DEF Unit
  <2>4. CASE i = 3
    BY <1>5, <2>1, <2>4 DEF Unit
  <2>5. CASE i = 4
    BY <1>5, <2>1, <2>5 DEF Unit
  <2> QED BY <2>1, <2>2, <2>3, <2>4, <2>5
<1>10. HeaderDone <=> Len(in) >= HeadLen(c)
  BY <1>2, <1>6, <1>8 DEF HeaderDone
<1> QED BY <1>2, <1>6, <1>8, <1>9, <1>10

LEMMA FieldsRead ==
  ASSUME Typed, NEW R, NEW c, Facing(R, c)
  PROVE  LET e == cacheIn[c.msg.cs]
             m == c.msg
         IN  /\ Fields \in Entries
             /\ Fields.processed = e.processed /\ Fields.time = e.time
             /\ Len(in) < HeadLen(c) => Fields.sid = e.sid
             /\ \/ Fields.len = e.len /\ Fields.type = e.type
                \/ Fields.len = m.len /\ Fields.type = m.type
             /\ Len(in) >= HeadLen(c) => Fields.len = m.len /\ Fields.type = m.type /\ Fields.sid = m.sid
<1> DEFINE m == c.msg
           e == cacheIn[m.cs]
           p == R.at[m.cs]
           shaped == IF c.fmt <= 1 /\ Len(in) >= 3 THEN [e EXCEPT !.len = m.len, !.type = m.type] ELSE e
           read == IF c.fmt = 0 /\ Len(in) >= 4 THEN [shaped EXCEPT !.sid = m.sid] ELSE shaped
<1>1. /\ Fmt = c.fmt /\ Cs = m.cs
      /\ c.fmt <= 1 /\ Len(in) >= 3 => in[3] = [kind |-> "shape", len |-> m.len, type |-> m.type]
      /\ c.fmt = 0 /\ Len(in) >= 4 => in[4] = [kind |-> "sid", val |-> m.sid]
  BY SeenIs
<1>2. /\ c.fmt \in 0..3 /\ HeadLen(c) = 4 - c.fmt /\ Len(in) \in Nat /\ m \in Any
      /\ Follows(R, c)
  BY FacingIs
<1>3. m.len \in Nat /\ m.sid \in Nat /\ m.type \in TypeNames
  BY <1>2, AnyOK
<1>4. /\ e \in Entries /\ e.sid = p.msg.sid
      /\ \/ e.len = p.msg.len /\ e.type = p.msg.type
         \/ e.len = m.len /\ e.type = m.type
  BY EntryIs
<1>5. /\ c.fmt >= 1 => p.msg.sid = m.sid
      /\ c.fmt >= 2 => p.msg.len = m.len /\ p.msg.type = m.type
  BY <1>2 DEF Follows
<1>6. Fields = read
  <2> DEFINE shape == IF c.fmt <= 1 /\ Len(in) >= 3
                      THEN [e EXCEPT !.len = in[3].len, !.type = in[3].type] ELSE e
  <2>1. Fields = IF c.fmt = 0 /\ Len(in) >= 4 THEN [shape EXCEPT !.sid = in[4].val] ELSE shape
    BY <1>1 DEF Fields
  <2>2. shape = shaped
    <3>1. CASE c.fmt <= 1 /\ Len(in) >= 3
      <4>1. in[3].len = m.len /\ in[3].type = m.type
        BY <1>1, <3>1
      <4> QED BY <3>1, <4>1
    <3>2. CASE ~(c.fmt <= 1 /\ Len(in) >= 3)
      BY <3>2
    <3> QED BY <3>1, <3>2
  <2> HIDE DEF shape, shaped
  <2> QED BY <1>1, <2>1, <2>2
<1> HIDE DEF e, m, p
<1>7. /\ shaped \in Entries /\ shaped.processed = e.processed /\ shaped.time = e.time
      /\ shaped.sid = e.sid
      /\ IF c.fmt <= 1 /\ Len(in) >= 3 THEN shaped.len = m.len /\ shaped.type = m.type
         ELSE shaped.len = e.len /\ shaped.type = e.type
  BY <1>3, <1>4 DEF Entries
<1> HIDE DEF shaped
<1>8. /\ read \in Entries /\ read.processed = e.processed /\ read.time = e.time
      /\ read.len = shaped.len /\ read.type = shaped.type
      /\ read.sid = IF c.fmt = 0 /\ Len(in) >= 4 THEN m.sid ELSE e.sid
  BY <1>3, <1>7 DEF Entries
<1> HIDE DEF read
<1>9. /\ Len(in) < HeadLen(c) => ~(c.fmt = 0 /\ Len(in) >= 4)
      /\ Len(in) >= HeadLen(c) => (c.fmt = 0 => Len(in) >= 4) /\ (c.fmt <= 1 => Len(in) >= 3)
      /\ c.fmt = 0 \/ (c.fmt >= 1 /\ (c.fmt <= 1 \/ c.fmt >= 2))
  BY <1>2
<1>10. Len(in) >= HeadLen(c) => read.sid = m.sid
  BY <1>4, <1>5, <1>8, <1>9
<1>11. Len(in) >= HeadLen(c) => read.len = m.len /\ read.type = m.type
  <2>1. CASE c.fmt <= 1
    BY <1>7, <1>8, <1>9, <2>1
  <2>2. CASE c.fmt >= 2
    BY <1>4, <1>5, <1>7, <1>8, <2>2
  <2> QED BY <1>2, <2>1, <2>2
<1> QED BY <1>6, <1>7, <1>8, <1>9, <1>10, <1>11 DEF e, m

\* The header as a whole, and how much of the message the chunk is taken to hold.
LEMMA HeaderRead ==
  ASSUME Typed, NEW R, NEW c, Facing(R, c), Len(in) >= HeadLen(c)
  PROVE  LET m == c.msg
             B == Begun(R, c, c.n)
         IN  /\ Header \in Entries /\ Header.len = m.len /\ Header.type = m.type
             /\ Header.sid = m.sid /\ Header.time = B.time[m.cs]
             /\ Remaining = m.len - c.from /\ Wanted = c.n
<1> DEFINE m == c.msg
           e == cacheIn[m.cs]
           p == R.at[m.cs]
<1>1. /\ Fmt = c.fmt /\ Stamp = c.stamp /\ ~Extended
  BY SeenIs, StampIs
<1>2. /\ Fields \in Entries /\ Fields.processed = e.processed /\ Fields.time = e.time
      /\ Fields.len = m.len /\ Fields.type = m.type /\ Fields.sid = m.sid
  BY FieldsRead
<1>3. /\ e \in Entries /\ e.processed = p.left /\ e.time = R.time[m.cs]
  BY EntryIs
<1>4. /\ c.stamp \in Nat /\ c.fmt \in 0..3 /\ m.cs \in Streams /\ R \in View /\ Follows(R, c)
      /\ c.from \in Nat /\ m.len \in Nat /\ c.from + c.n <= m.len /\ c.n \in Nat \ {0}
  BY FacingIs
<1>5. Header = [Fields EXCEPT !.time = IF c.fmt = 0 THEN c.stamp ELSE Fields.time + c.stamp]
  BY <1>1 DEF Header
<1>6. e.time \in Nat
  BY <1>3 DEF Entries
<1>7. (IF c.fmt = 0 THEN c.stamp ELSE Fields.time + c.stamp) \in Nat
  BY <1>2, <1>4, <1>6
<1> HIDE DEF Fields
<1>8. /\ Header \in Entries /\ Header.len = m.len /\ Header.type = m.type /\ Header.sid = m.sid
      /\ Header.time = IF c.fmt = 0 THEN c.stamp ELSE R.time[m.cs] + c.stamp
      /\ Header.processed = p.left
  BY <1>2, <1>3, <1>5, <1>7 DEF Entries
<1> HIDE DEF Header
<1>9. Begun(R, c, c.n).time[m.cs] = IF c.fmt = 0 THEN c.stamp ELSE R.time[m.cs] + c.stamp
  BY <1>4, BegunIs
<1>10. IF c.from = 0 THEN p.left = 0 ELSE p = Cell(m, c.from, m.len - c.from)
  BY <1>4 DEF Follows
<1>11. Remaining = m.len - c.from
  <2>1. CASE c.from = 0
    BY <1>4, <1>8, <1>10, <2>1 DEF Remaining
  <2>2. CASE c.from # 0
    <3>1. p.left = m.len - c.from
      BY <1>10, <2>2 DEF Cell
    <3>2. p.left # 0
      BY <1>4, <3>1
    <3> QED BY <1>8, <3>1, <3>2 DEF Remaining
  <2> QED BY <2>1, <2>2
<1>12. Wanted = c.n
  <2>1. peerChunkSize = R.size
    BY DEF Facing, Hears
  <2>2. c.n = Lesser(m.len - c.from, R.size)
    BY <1>4 DEF Follows
  <2> QED BY <1>11, <2>1, <2>2 DEF Wanted
<1> QED BY <1>8, <1>9, <1>11, <1>12
-----------------------------------------------------------------------------
(* The receiver takes units from the wire. *)

LEMMA RestIs ==
  ASSUME NEW S, NEW s \in Seq(S), NEW n \in Nat, n <= Len(s)
  PROVE  /\ Rest(s, n) \in Seq(S) /\ Len(Rest(s, n)) = Len(s) - n
         /\ \A k \in 1..(Len(s) - n) : Rest(s, n)[k] = s[n + k]
BY DEF Rest

LEMMA Shift ==
  ASSUME NEW a \in Nat, NEW b \in Nat, NEW n \in Nat, NEW k \in Nat, n <= a
  PROVE  /\ (n + k) - a = k - (a - n) /\ (n + k) - (a + b) = k - ((a - n) + b)
         /\ k <= a - n <=> n + k <= a
         /\ k <= (a - n) + b <=> n + k <= a + b
OBVIOUS

Joined(i, o, t) == (i \o o) \o t

LEMMA DropIs ==
  ASSUME NEW S, NEW i \in Seq(S), NEW o \in Seq(S), NEW t \in Seq(S), NEW n \in Nat, n <= Len(i),
         NEW j, j = Rest(i, n)
  PROVE  LET s == Joined(i, o, t)
             u == Joined(j, o, t)
         IN  Len(u) = Len(s) - n /\ \A k \in 1..Len(u) : u[k] = s[n + k]
<1>1. /\ j \in Seq(S) /\ Len(j) = Len(i) - n
      /\ \A k \in 1..(Len(i) - n) : j[k] = i[n + k]
  BY RestIs
<1> DEFINE s == (i \o o) \o t
           u == (j \o o) \o t
           a == Len(i)
           b == Len(o)
           c == Len(t)
<1>2. a \in Nat /\ b \in Nat /\ c \in Nat
  OBVIOUS
<1>3. /\ Len(s) = (a + b) + c
      /\ \A k \in 1..Len(s) :
           s[k] = IF k <= a THEN i[k] ELSE IF k <= a + b THEN o[k - a] ELSE t[k - (a + b)]
  BY JoinIs
<1>4. j \in Seq(S)
  BY <1>1
<1>5. /\ Len(u) = (Len(j) + b) + c
      /\ \A k \in 1..Len(u) :
           u[k] = IF k <= Len(j) THEN j[k]
                  ELSE IF k <= Len(j) + b THEN o[k - Len(j)] ELSE t[k - (Len(j) + b)]
  BY <1>4, JoinIs
<1> HIDE DEF s, u, a, b, c
<1>6. Len(j) = a - n /\ n <= a
  BY <1>1 DEF a
<1>7. Len(u) = Len(s) - n
  BY <1>2, <1>3, <1>5, <1>6
<1>8. ASSUME NEW k \in 1..Len(u) PROVE u[k] = s[n + k]
  <2>1. /\ k \in 1..((a - n) + b) + c /\ n + k \in 1..Len(s)
        /\ u[k] = IF k <= a - n THEN j[k]
                  ELSE IF k <= (a - n) + b THEN o[k - (a - n)] ELSE t[k - ((a - n) + b)]
    BY <1>2, <1>3, <1>5, <1>6
  <2>2. s[n + k] = IF n + k <= a THEN i[n + k]
                   ELSE IF n + k <= a + b THEN o[(n + k) - a] ELSE t[(n + k) - (a + b)]
    BY <1>3, <2>1
  <2>3. k <= a - n \/ (~(k <= a - n) /\ k <= (a - n) + b) \/ (~(k <= a - n) /\ ~(k <= (a - n) + b))
    OBVIOUS
  <2>7. k \in Nat
    OBVIOUS
  <2>4. CASE k <= a - n
    <3>1. n + k <= a /\ k \in 1..(Len(i) - n)
      BY <1>2, <1>6, <2>1, <2>4 DEF a
    <3> QED BY <1>1, <2>1, <2>2, <2>4, <3>1
  <2>5. CASE ~(k <= a - n) /\ k <= (a - n) + b
    <3>1. ~(n + k <= a) /\ n + k <= a + b /\ (n + k) - a = k - (a - n)
      BY <1>2, <1>6, <2>5, <2>7, Shift
    <3> QED BY <2>1, <2>2, <2>5, <3>1
  <2>6. CASE ~(k <= a - n) /\ ~(k <= (a - n) + b)
    <3>1. ~(n + k <= a) /\ ~(n + k <= a + b) /\ (n + k) - (a + b) = k - ((a - n) + b)
      BY <1>2, <1>6, <2>6, <2>7, Shift
    <3> QED BY <2>1, <2>2, <2>6, <3>1
  <2> QED BY <2>3, <2>4, <2>5, <2>6, Zenon
<1> QED BY <1>7, <1>8 DEF s, u, Joined

\* What is left on the wire is still the wire, from a later place on.
LEMMA ConsumeIs ==
  ASSUME Typed, NEW h, NEW a \in Nat, Explains(h, a), UNCHANGED <<sender, out>>,
         NEW n \in Nat, n <= Len(in), in' = Rest(in, n),
         NEW b \in 0..h.n, partialChunk' \in Nat, partialChunk' <= h.end[b],
         h.end[b] - partialChunk' = Gone(h, a) + n
  PROVE  Carries(h, b)' /\ in' \in Seq(Units) /\ Len(in') <= InSize
<1>1. in \in Seq(Units) /\ out \in Seq(Units) /\ staged \in Seq(Units) /\ Len(in) <= InSize
      /\ InSize \in Nat /\ Len(in) \in Nat
  BY SizesOK DEF Typed
<1>2. in' \in Seq(Units) /\ Len(in') = Len(in) - n
  BY <1>1, RestIs
<1>3. Len(in') <= InSize
  BY <1>1, <1>2
<1>4. InFlight' = Joined(in', out, staged) /\ InFlight = Joined(in, out, staged)
  BY DEF InFlight, Joined, sender
<1>5. Len(InFlight') = Len(InFlight) - n /\ \A k \in 1..Len(InFlight') : InFlight'[k] = InFlight[n + k]
  <2> HIDE DEF Rest
  <2>1. /\ Len(Joined(in', out, staged)) = Len(Joined(in, out, staged)) - n
        /\ \A k \in 1..Len(Joined(in', out, staged)) :
             Joined(in', out, staged)[k] = Joined(in, out, staged)[n + k]
    <3>1. in \in Seq(Units) /\ out \in Seq(Units) /\ staged \in Seq(Units) /\ n \in Nat /\ n <= Len(in)
      BY <1>1
    <3>2. \A i, o, t \in Seq(Units) : n <= Len(i) =>
            LET s == Joined(i, o, t)
                u == Joined(Rest(i, n), o, t)
            IN  Len(u) = Len(s) - n /\ \A k \in 1..Len(u) : u[k] = s[n + k]
      <4> SUFFICES ASSUME NEW i \in Seq(Units), NEW o \in Seq(Units), NEW t \in Seq(Units), n <= Len(i)
                   PROVE  LET s == Joined(i, o, t)
                              u == Joined(Rest(i, n), o, t)
                          IN  Len(u) = Len(s) - n /\ \A k \in 1..Len(u) : u[k] = s[n + k]
        OBVIOUS
      <4> QED BY DropIs
    <3> QED BY <3>1, <3>2
  <2> QED BY <1>4, <2>1
<1> HIDE DEF InFlight
<1> DEFINE l == Len(InFlight)
           g == Gone(h, a)
           e == h.end[h.n]
<1>6. /\ l \in Nat /\ l = e - g /\ g \in Nat /\ e \in Nat
      /\ \A i \in 1..l : InFlight[i] = h.wire[g + i]
  <2>1. l \in Nat
    BY FlightIs
  <2>2. l = e - g /\ \A i \in 1..l : InFlight[i] = h.wire[g + i]
    BY DEF Explains, Carries
  <2>3. g \in Nat /\ e \in Nat
    BY InIs
  <2> QED BY <2>1, <2>2, <2>3
<1>7. Len(InFlight') = l - n /\ \A k \in 1..(l - n) : InFlight'[k] = InFlight[n + k]
  BY <1>5
<1>8. Gone(h, b)' = g + n
  BY DEF Gone
<1> HIDE DEF l, g, e
<1>9. \A k \in 1..(l - n) : n + k \in 1..l /\ (g + n) + k = g + (n + k)
  BY <1>6
<1>10. \A k \in 1..(l - n) : InFlight'[k] = h.wire[(g + n) + k]
  BY <1>6, <1>7, <1>9
<1>11. l - n = e - (g + n)
  BY <1>6
<1>12. Carries(h, b)'
  BY <1>7, <1>8, <1>10, <1>11 DEF Carries, e
<1> QED BY <1>2, <1>3, <1>12

\* A step of the receiver.
LEMMA Heeded ==
  ASSUME Roomy, NEW h, NEW a \in Nat, Explains(h, a), UNCHANGED <<sender, out>>,
         Typed', NEW b \in Nat, Carries(h, b)', Receives(h, b)'
  PROVE  IndInv'
<1> PICK R : R = h.view[h.n]
  OBVIOUS
<1>1. Traces(h) /\ Sends(R) /\ Calls(R)
  BY DEF Explains
<1>2. Roomy' /\ Sends(R)' /\ Calls(R)'
  BY <1>1, SenderSame
<1>3. Explains(h, b)'
  BY <1>1, <1>2 DEF Explains
<1> QED BY <1>2, <1>3 DEF IndInv

LEMMA StarvedOK ==
  ASSUME Typed, Roomy, NEW h, NEW a \in Nat, Explains(h, a), RecvStarved, in # <<>>,
         UNCHANGED <<sender, out>>
  PROVE  IndInv'
<1> PICK c : c = h.chunk[a + 1]
  OBVIOUS
<1> PICK R : R = h.view[a]
  OBVIOUS
<1>1. /\ partialChunk = 0 /\ ~HeaderDone /\ cacheIn' = [cacheIn EXCEPT ![Cs] = Fields]
      /\ in' = in /\ peerChunkSize' = peerChunkSize /\ partialChunk' = partialChunk
      /\ partialMsg' = partialMsg /\ controlMessage' = controlMessage /\ paused' = paused
      /\ got' = got /\ delivered' = delivered
  BY DEF RecvStarved
<1>2. a < h.n /\ Facing(R, c)
  BY <1>1, FrontIs
<1> PICK m : m = c.msg
  OBVIOUS
<1>3. Cs = m.cs /\ m.cs \in Streams /\ Len(in) < HeadLen(c)
  <2>1. ~(Len(in) >= HeadLen(c))
    BY <1>1, <1>2, KindsAre
  <2>2. Cs = m.cs
    BY <1>2, SeenIs
  <2>3. m.cs \in Streams /\ Len(in) \in Nat /\ HeadLen(c) \in 1..4
    BY <1>2, FacingIs
  <2> QED BY <2>1, <2>2, <2>3
<1>4. /\ Fields \in Entries /\ Fields.processed = cacheIn[m.cs].processed
      /\ Fields.time = cacheIn[m.cs].time /\ Fields.sid = cacheIn[m.cs].sid
      /\ \/ Fields.len = cacheIn[m.cs].len /\ Fields.type = cacheIn[m.cs].type
         \/ Fields.len = m.len /\ Fields.type = m.type
  BY <1>2, <1>3, FieldsRead
<1> HIDE DEF Fields
<1>5. cacheIn' \in [Streams -> Entries] /\ cacheIn'[m.cs] = Fields
      /\ \A d \in Streams : d # m.cs => cacheIn'[d] = cacheIn[d]
  BY <1>1, <1>3, <1>4 DEF Typed
<1>6. Typed'
  BY <1>1, <1>5 DEF Typed, sender
<1>7. Carries(h, a)'
  <2>1. InFlight' = InFlight
    BY <1>1 DEF InFlight, sender
  <2> HIDE DEF InFlight
  <2> QED BY <1>1, <2>1 DEF Explains, Carries, Gone
<1>8. Hears(R, {m})
  BY <1>2 DEF Facing
<1>9. ASSUME NEW d \in Streams PROVE Knows(cacheIn'[d], R, d, {m})
  <2>1. Knows(cacheIn[d], R, d, {m})
    BY <1>8 DEF Hears
  <2>2. CASE d = m.cs
    <3>1. cacheIn[d].processed <= m.len
      <4>1. Follows(R, c) /\ R \in View /\ cacheIn[d].processed = R.at[m.cs].left
        BY <1>2, <2>1, <2>2 DEF Facing, Knows
      <4>2. c.from \in Nat /\ m.len \in Nat
        BY <4>1, FollowsOK
      <4>3. R.at[m.cs].left = 0 \/ R.at[m.cs].left = m.len - c.from
        <5>1. R.at[m.cs].left = 0 \/ R.at[m.cs] = Cell(m, c.from, m.len - c.from)
          BY <4>1 DEF Follows
        <5>2. Cell(m, c.from, m.len - c.from).left = m.len - c.from
          BY DEF Cell
        <5> QED BY <5>1, <5>2
      <4>4. PICK l \in Nat : l = m.len
        BY <4>2
      <4>5. PICK f \in Nat : f = c.from
        BY <4>2
      <4>6. PICK x : x = cacheIn[d].processed
        OBVIOUS
      <4>7. x = 0 \/ x = l - f
        BY <4>1, <4>3, <4>4, <4>5, <4>6, Zenon
      <4>8. x <= l
        BY <4>7
      <4> QED BY <4>4, <4>6, <4>8, Zenon
    <3> QED BY <1>4, <1>5, <2>1, <2>2, <3>1, ZenonT(60) DEF Knows
  <2>3. CASE d # m.cs
    BY <1>5, <2>1, <2>3
  <2> QED BY <2>2, <2>3
<1>10. Hears(R, {m})'
  BY <1>1, <1>8, <1>9 DEF Hears, Store, Bounded
<1>11. Receives(h, a)'
  BY <1>1, <1>2, <1>10 DEF Receives, Upcoming
<1> QED BY <1>6, <1>7, <1>11, Heeded
-----------------------------------------------------------------------------
(* rtmp_chunk_conn_service_recv_issue. *)

\* Of the chunk c, in front of which the receiver had view R, it has q units.
Midway(R, c, q) ==
    /\ R \in View /\ Follows(R, c) /\ q \in 0..c.n
    /\ peerChunkSize = R.size /\ Len(controlMessage) < ControlLength
    /\ \A d \in Streams : d # c.msg.cs =>
         Knows(cacheIn[d], R, d, {}) /\ Store(d) = Collected(R.at[d])
    /\ Store(c.msg.cs) = SubSeq(Payload(c.msg), 1, c.from + q)
    /\ \A d \in ChunkStream : What(delivered[d]) = R.done[d]

\* The cache entry behind j units of the payload.
EntryAt(e, R, c, j) ==
    /\ e \in Entries /\ e.processed = c.msg.len - j
    /\ e.len = c.msg.len /\ e.type = c.msg.type /\ e.sid = c.msg.sid
    /\ e.time = IF c.fmt = 0 THEN c.stamp ELSE R.time[c.msg.cs] + c.stamp

LEMMA GrowIs ==
  ASSUME NEW m \in Any, NEW x \in Nat, NEW k \in Nat, x + k <= m.len,
         NEW u \in Seq(Units), Len(u) = k, \A i \in 1..k : u[i] = Data(m, x + i)
  PROVE  SubSeq(Payload(m), 1, x) \o u = SubSeq(Payload(m), 1, x + k)
<1> DEFINE p == Payload(m)
           S == {Data(m, i) : i \in Nat}
           s == SubSeq(p, 1, x)
           t == SubSeq(p, 1, x + k)
<1>1. p \in Seq(S) /\ Len(p) = m.len /\ \A i \in 1..m.len : p[i] = Data(m, i)
  BY PayloadOK
<1>2. m.len \in Nat
  BY AnyOK
<1>3. u \in Seq(S)
  BY DEF S
<1> HIDE DEF p, S
<1>4. p \in Seq(S) /\ x <= Len(p) /\ x + k \in Nat /\ x + k <= Len(p)
  BY <1>1, <1>2
<1>5. s \in Seq(S) /\ Len(s) = x /\ \A i \in 1..x : s[i] = p[i]
  BY <1>4, SectionIs
<1>6. t \in Seq(S) /\ Len(t) = x + k /\ \A i \in 1..(x + k) : t[i] = p[i]
  BY <1>4, SectionIs
<1>7. s \in Seq(S)
  BY <1>5
<1> HIDE DEF s, t
<1>8. /\ s \o u \in Seq(S) /\ Len(s \o u) = Len(s) + Len(u)
      /\ \A i \in 1..(Len(s) + Len(u)) : (s \o u)[i] = IF i <= Len(s) THEN s[i] ELSE u[i - Len(s)]
  BY <1>3, <1>7, ConcatProperties, Zenon
<1> DEFINE v == s \o u
<1>9. v \in Seq(S) /\ Len(v) = x + k
      /\ \A i \in 1..(x + k) : v[i] = IF i <= x THEN s[i] ELSE u[i - x]
  BY <1>5, <1>8
<1> HIDE DEF v
<1>10. ASSUME NEW i \in 1..(x + k) PROVE v[i] = t[i]
  <2>1. t[i] = Data(m, i)
    BY <1>1, <1>2, <1>6
  <2>2. i <= x \/ ~(i <= x)
    OBVIOUS
  <2>3. CASE i <= x
    <3>1. i \in 1..x /\ i \in 1..m.len
      BY <1>2, <2>3
    <3> QED BY <1>1, <1>5, <1>9, <2>1, <2>3, <3>1
  <2>4. CASE ~(i <= x)
    <3>1. i - x \in 1..k /\ x + (i - x) = i
      BY <2>4
    <3>2. u[i - x] = Data(m, i)
      BY <3>1
    <3> QED BY <1>9, <2>1, <2>4, <3>2
  <2> QED BY <2>2, <2>3, <2>4, Zenon
<1>11. v = t
  BY <1>6, <1>9, <1>10, SeqEqual
<1> QED BY <1>11 DEF v, s, t, p

LEMMA WholePayload ==
  ASSUME NEW m \in Any
  PROVE  SubSeq(Payload(m), 1, m.len) = Payload(m) /\ SubSeq(Payload(m), 1, 0) = <<>>
<1> DEFINE p == Payload(m)
           S == {Data(m, i) : i \in Nat}
<1>1. p \in Seq(S) /\ Len(p) = m.len
  BY PayloadOK
<1> HIDE DEF p, S
<1>2. SubSeq(p, 1, Len(p)) = p
  BY <1>1
<1>3. SubSeq(p, 1, 0) = <<>>
  BY <1>1
<1> QED BY <1>1, <1>2, <1>3 DEF p

LEMMA WithinMessage ==
  ASSUME NEW f \in Nat, NEW q \in Nat, NEW k \in Nat, NEW n \in Nat, NEW l \in Nat,
         q + k <= n, f + n <= l
  PROVE  (f + q) + k <= l /\ (f + q) + k \in Nat
OBVIOUS

LEMMA LeftOver ==
  ASSUME NEW f \in Nat, NEW q \in Nat, NEW k \in Nat, NEW n \in Nat, NEW l \in Nat,
         q + k <= n, f + n <= l
  PROVE  (f + q + k = l => n - (q + k) = 0) /\ n - (q + k) <= n
OBVIOUS

\* Behind skip units of in come the next k units of the chunk.
Arrives(c, q, k, skip) ==
    /\ k \in Nat /\ q + k <= c.n
    /\ skip \in Nat /\ skip + k <= Len(in)
    /\ \A i \in 1..k : in[skip + i] = Data(c.msg, c.from + q + i)

\* What Issue puts together.
LEMMA AllIs ==
  ASSUME Typed, NEW R, NEW c, NEW q, Midway(R, c, q), NEW k, NEW skip, Arrives(c, q, k, skip),
         NEW j, j = c.from + q + k
  PROVE  LET s == SubSeq(in, skip + 1, skip + k)
         IN  /\ Store(c.msg.cs) \o s = SubSeq(Payload(c.msg), 1, j)
             /\ Store(c.msg.cs) \o s \in Seq(Units)
             /\ j \in Nat /\ j <= c.msg.len
             /\ j > 0 => SubSeq(Payload(c.msg), 1, j)[1].msg = c.msg
<1> USE DEF Arrives
<1> DEFINE m == c.msg
           x == c.from + q
           s == SubSeq(in, skip + 1, skip + k)
<1>1. R \in View /\ Follows(R, c) /\ q \in 0..c.n
  BY DEF Midway
<1>2. /\ m \in Any /\ c.from \in Nat /\ c.n \in Nat \ {0} /\ m.len \in Nat /\ m.cs \in Streams
      /\ c.from + c.n <= m.len
  BY <1>1, FollowsOK
<1>3. x \in Nat /\ x + k <= m.len /\ j = x + k /\ j \in Nat /\ q \in Nat
  <2>1. q \in Nat /\ x \in Nat
    BY <1>1, <1>2
  <2>2. x + k <= m.len
    <3>1. q \in Nat /\ c.n \in Nat /\ q + k <= c.n /\ c.from + c.n <= m.len
      BY <1>1, <1>2
    <3> QED BY <1>2, <3>1, WithinMessage
  <2> QED BY <2>1, <2>2
<1>4. in \in Seq(Units) /\ Len(in) \in Nat
  BY DEF Typed
<1>5. s \in Seq(Units) /\ Len(s) = k /\ \A i \in 1..k : s[i] = in[skip + i]
  BY <1>4
<1>6. \A i \in 1..k : s[i] = Data(m, x + i)
  BY <1>5
<1>7. Store(m.cs) = SubSeq(Payload(m), 1, x)
  BY DEF Midway
<1> HIDE DEF s, x, m
<1>8. SubSeq(Payload(m), 1, x) \o s = SubSeq(Payload(m), 1, x + k)
  BY <1>2, <1>3, <1>5, <1>6, GrowIs
<1>9. Store(m.cs) \in Seq(Units)
  BY <1>2 DEF Typed, Store, Streams
<1>10. Store(m.cs) \o s \in Seq(Units)
  BY <1>5, <1>9, ConcatProperties, Zenon
<1>11. ASSUME j > 0 PROVE SubSeq(Payload(m), 1, j)[1].msg = m
  <2> DEFINE p == Payload(m)
             S == {Data(m, i) : i \in Nat}
  <2>1. p \in Seq(S) /\ Len(p) = m.len /\ \A i \in 1..m.len : p[i] = Data(m, i)
    BY <1>2, PayloadOK
  <2> HIDE DEF p, S
  <2>2. p \in Seq(S) /\ j \in Nat /\ j <= Len(p) /\ 1 \in 1..j /\ 1 \in 1..m.len
    BY <1>2, <1>3, <1>11, <2>1
  <2>3. SubSeq(p, 1, j)[1] = p[1]
    BY <2>2, SectionIs
  <2>4. p[1].msg = m
    <3>1. p[1] = Data(m, 1)
      BY <2>1, <2>2
    <3>2. Data(m, 1).msg = m
      BY DEF Data
    <3> QED BY <3>1, <3>2
  <2> QED BY <2>3, <2>4 DEF p
<1> QED BY <1>3, <1>7, <1>8, <1>10, <1>11 DEF s, m

\* What Issue does, in terms of how far the message has come.
Issued(cs, e, all) ==
    /\ paused' = paused
    /\ cs = Control /\ e.processed = 0 =>
         Obey(e, all, cs) /\ controlMessage' = <<>> /\ delivered' = delivered
    /\ cs = Control /\ e.processed # 0 =>
         /\ cacheIn' = [cacheIn EXCEPT ![cs] = e] /\ controlMessage' = all
         /\ peerChunkSize' = peerChunkSize /\ got' = got /\ delivered' = delivered
    /\ cs # Control =>
         /\ cacheIn' = [cacheIn EXCEPT ![cs] = e]
         /\ peerChunkSize' = peerChunkSize /\ controlMessage' = controlMessage
         /\ got' = [got EXCEPT ![cs] = IF e.processed = 0 THEN <<>> ELSE all]
         /\ e.processed # 0 => delivered' = delivered
         /\ e.processed = 0 =>
              delivered' = [delivered EXCEPT ![cs] =
                              Append(@, [what |-> Received(e.type, e.sid, all), time |-> e.time])]

LEMMA IssueIs ==
  ASSUME NEW cs, NEW e, NEW skip, NEW k, NEW all, all = Store(cs) \o SubSeq(in, skip + 1, skip + k),
         cs = Control => k # 0, Issue(cs, e, skip, k, "continue")
  PROVE  in' = Rest(in, skip + k) /\ Issued(cs, e, all)
<1> HIDE DEF Obey, Rest, Received
<1>1. CASE cs = Control
  <2>1. all = controlMessage \o SubSeq(in, skip + 1, skip + k) /\ k # 0
    BY <1>1 DEF Store
  <2> QED BY <1>1, <2>1 DEF Issue, Issued
<1>2. CASE cs # Control
  <2>1. all = got[cs] \o SubSeq(in, skip + 1, skip + k)
    BY <1>2 DEF Store
  <2> QED BY <1>2, <2>1 DEF Issue, Issued
<1> QED BY <1>1, <1>2

\* The view a receiver has of a chunk only part of which it has.
LEMMA NowAt ==
  ASSUME NEW R, NEW c, NEW q, Midway(R, c, q), NEW k \in Nat, q + k <= c.n,
         NEW rest, rest = c.n - (q + k), NEW j, j = c.from + q + k, NEW V, V = Now(R, c, rest)
  PROVE  LET m == c.msg
         IN  /\ V.at[m.cs] = Cell(m, j, m.len - j)
             /\ V.time[m.cs] = IF c.fmt = 0 THEN c.stamp ELSE R.time[m.cs] + c.stamp
             /\ V.size = IF j = m.len /\ m.type = "chunk_size" THEN m.arg ELSE R.size
             /\ \A d \in Streams : d # m.cs =>
                  /\ V.time[d] = R.time[d]
                  /\ V.at[d] = IF j = m.len /\ m.type = "abort" /\ d = m.arg
                               THEN Cell(R.at[d].msg, 0, 0) ELSE R.at[d]
             /\ \A d \in ChunkStream :
                  V.done[d] = IF j = m.len /\ d = m.cs
                              THEN Append(R.done[d], Received(m.type, m.sid, Payload(m)))
                              ELSE R.done[d]
<1>1. R \in View /\ Follows(R, c) /\ q \in 0..c.n
  BY DEF Midway
<1>2. c.from \in Nat /\ c.n \in Nat
  BY <1>1, FollowsOK
<1>3. rest \in 0..c.n /\ c.from + c.n - rest = j
  BY <1>1, <1>2
<1> HIDE DEF Now
<1>4. LET m == c.msg
          i == c.from + c.n - rest
          A == Now(R, c, rest)
      IN  /\ A.at[m.cs] = Cell(m, i, m.len - i)
          /\ A.time[m.cs] = IF c.fmt = 0 THEN c.stamp ELSE R.time[m.cs] + c.stamp
          /\ A.size = IF i = m.len /\ m.type = "chunk_size" THEN m.arg ELSE R.size
          /\ \A d \in Streams : d # m.cs =>
               /\ A.time[d] = R.time[d]
               /\ A.at[d] = IF i = m.len /\ m.type = "abort" /\ d = m.arg
                            THEN Cell(R.at[d].msg, 0, 0) ELSE R.at[d]
          /\ \A d \in ChunkStream :
               A.done[d] = IF i = m.len /\ d = m.cs
                           THEN Append(R.done[d], Received(m.type, m.sid, Payload(m)))
                           ELSE R.done[d]
  BY <1>1, <1>3, NowIs
<1> QED BY <1>3, <1>4

\* What the bookkeeping has to become for the receiver to have view V.
Learns(m, j, e, s) ==
    LET ends == j = m.len
        voids(d) == ends /\ m.type = "abort" /\ d = m.arg
    IN  /\ cacheIn' \in [Streams -> Entries]
        /\ cacheIn'[m.cs] = e
        /\ \A d \in Streams : d # m.cs =>
             cacheIn'[d] = IF voids(d) THEN [cacheIn[d] EXCEPT !.processed = 0] ELSE cacheIn[d]
        /\ peerChunkSize' = IF ends /\ m.type = "chunk_size" THEN m.arg ELSE peerChunkSize
        /\ controlMessage' \in Seq(Units) /\ got' \in [ChunkStream -> Seq(Units)]
        /\ Store(m.cs)' = IF ends THEN <<>> ELSE s
        /\ \A d \in Streams : d # m.cs => Store(d)' = IF voids(d) THEN <<>> ELSE Store(d)
        /\ delivered' \in [ChunkStream -> Messages]
        /\ \A d \in ChunkStream :
             What(delivered'[d]) =
               IF ends /\ d = m.cs
               THEN Append(What(delivered[d]), Received(m.type, m.sid, Payload(m)))
               ELSE What(delivered[d])

LEMMA LearnsOK ==
  ASSUME Typed, NEW R, NEW c, NEW q, Midway(R, c, q), NEW k \in Nat, q + k <= c.n,
         NEW rest, rest = c.n - (q + k), NEW j, j = c.from + q + k, NEW V, V = Now(R, c, rest),
         NEW e, EntryAt(e, R, c, j), NEW s, s = SubSeq(Payload(c.msg), 1, j),
         Learns(c.msg, j, e, s), partialChunk' = rest
  PROVE  Hears(V, {})'
<1> PICK m : m = c.msg
  OBVIOUS
<1>1. /\ V.at[m.cs] = Cell(m, j, m.len - j)
      /\ V.time[m.cs] = IF c.fmt = 0 THEN c.stamp ELSE R.time[m.cs] + c.stamp
      /\ V.size = IF j = m.len /\ m.type = "chunk_size" THEN m.arg ELSE R.size
      /\ \A d \in Streams : d # m.cs =>
           /\ V.time[d] = R.time[d]
           /\ V.at[d] = IF j = m.len /\ m.type = "abort" /\ d = m.arg
                        THEN Cell(R.at[d].msg, 0, 0) ELSE R.at[d]
      /\ \A d \in ChunkStream :
           V.done[d] = IF j = m.len /\ d = m.cs
                       THEN Append(R.done[d], Received(m.type, m.sid, Payload(m)))
                       ELSE R.done[d]
  BY NowAt
<1>2. /\ R \in View /\ peerChunkSize = R.size
      /\ \A d \in Streams : d # m.cs =>
           Knows(cacheIn[d], R, d, {}) /\ Store(d) = Collected(R.at[d])
      /\ \A d \in ChunkStream : What(delivered[d]) = R.done[d]
  BY DEF Midway
<1>3. m \in Any /\ m.len \in Nat /\ j \in Nat /\ j <= m.len
  <2>1. Follows(R, c) /\ R \in View /\ q \in 0..c.n
    BY DEF Midway
  <2>2. c.from \in Nat /\ c.n \in Nat /\ c.from + c.n <= m.len /\ m \in Any /\ m.len \in Nat /\ q \in Nat
    BY <2>1, FollowsOK
  <2>3. (c.from + q) + k <= m.len /\ (c.from + q) + k \in Nat
    BY <2>2, WithinMessage
  <2> QED BY <2>2, <2>3
<1>4. /\ cacheIn'[m.cs] = e
      /\ \A d \in Streams : d # m.cs =>
           cacheIn'[d] = IF j = m.len /\ m.type = "abort" /\ d = m.arg
                         THEN [cacheIn[d] EXCEPT !.processed = 0] ELSE cacheIn[d]
      /\ peerChunkSize' = IF j = m.len /\ m.type = "chunk_size" THEN m.arg ELSE peerChunkSize
      /\ Store(m.cs)' = IF j = m.len THEN <<>> ELSE s
      /\ \A d \in Streams : d # m.cs =>
           Store(d)' = IF j = m.len /\ m.type = "abort" /\ d = m.arg THEN <<>> ELSE Store(d)
      /\ \A d \in ChunkStream :
           What(delivered'[d]) =
             IF j = m.len /\ d = m.cs
             THEN Append(What(delivered[d]), Received(m.type, m.sid, Payload(m)))
             ELSE What(delivered[d])
  BY DEF Learns
<1>5. peerChunkSize' = V.size
  BY <1>1, <1>2, <1>4
<1>6. ASSUME NEW d \in ChunkStream PROVE What(delivered'[d]) = V.done[d]
  BY <1>1, <1>2, <1>4
<1>7. Knows(cacheIn'[m.cs], V, m.cs, {})
  <2>1. /\ e.processed = m.len - j /\ e.len = m.len /\ e.type = m.type /\ e.sid = m.sid
        /\ e.time = IF c.fmt = 0 THEN c.stamp ELSE R.time[m.cs] + c.stamp
    BY DEF EntryAt
  <2>2. V.at[m.cs].left = m.len - j /\ V.at[m.cs].msg = m
    BY <1>1 DEF Cell
  <2>3. e.processed <= e.len
    BY <1>3, <2>1
  <2> QED BY <1>1, <1>4, <2>1, <2>2, <2>3 DEF Knows
<1>8. Store(m.cs)' = Collected(V.at[m.cs])
  <2>1. V.at[m.cs].left = m.len - j /\ V.at[m.cs].msg = m /\ V.at[m.cs].written = j
    BY <1>1 DEF Cell
  <2>2. CASE j = m.len
    <3>1. V.at[m.cs].left = 0
      BY <1>3, <2>1, <2>2
    <3> QED BY <1>4, <2>2, <3>1 DEF Collected
  <2>3. CASE j # m.len
    <3>1. V.at[m.cs].left # 0
      BY <1>3, <2>1, <2>3
    <3> QED BY <1>4, <2>1, <2>3, <3>1 DEF Collected
  <2> QED BY <2>2, <2>3
<1>9. ASSUME NEW d \in Streams, d # m.cs
      PROVE  Knows(cacheIn'[d], V, d, {}) /\ Store(d)' = Collected(V.at[d])
  <2>1. Knows(cacheIn[d], R, d, {}) /\ Store(d) = Collected(R.at[d]) /\ V.time[d] = R.time[d]
    BY <1>1, <1>2, <1>9
  <2>2. CASE j = m.len /\ m.type = "abort" /\ d = m.arg
    <3>1. V.at[d] = Cell(R.at[d].msg, 0, 0) /\ cacheIn'[d] = [cacheIn[d] EXCEPT !.processed = 0]
          /\ Store(d)' = <<>>
      BY <1>1, <1>4, <1>9, <2>2
    <3>2. V.at[d].left = 0 /\ V.at[d].msg = R.at[d].msg
      BY <3>1 DEF Cell
    <3>3. cacheIn[d] \in Entries
      BY DEF Typed
    <3>4. /\ cacheIn'[d].processed = 0 /\ cacheIn'[d].time = cacheIn[d].time
          /\ cacheIn'[d].sid = cacheIn[d].sid /\ cacheIn'[d].len = cacheIn[d].len
          /\ cacheIn'[d].type = cacheIn[d].type
      BY <3>1, <3>3 DEF Entries
    <3>5. Knows(cacheIn'[d], V, d, {})
      BY <2>1, <3>2, <3>3, <3>4 DEF Knows, Entries
    <3>6. Store(d)' = Collected(V.at[d])
      BY <3>1, <3>2 DEF Collected
    <3> QED BY <3>5, <3>6
  <2>3. CASE ~(j = m.len /\ m.type = "abort" /\ d = m.arg)
    <3>1. V.at[d] = R.at[d] /\ cacheIn'[d] = cacheIn[d] /\ Store(d)' = Store(d)
      BY <1>1, <1>4, <1>9, <2>3
    <3>2. Knows(cacheIn'[d], V, d, {})
      BY <2>1, <3>1 DEF Knows
    <3> QED BY <2>1, <3>1, <3>2
  <2> QED BY <2>2, <2>3
<1>10. \A d \in Streams : Knows(cacheIn'[d], V, d, {}) /\ Store(d)' = Collected(V.at[d])
  BY <1>7, <1>8, <1>9
<1>11. partialChunk' <= peerChunkSize'
  <2>1. rest <= R.size /\ (j = m.len => rest = 0)
    <3>1. Follows(R, c) /\ R \in View /\ q \in 0..c.n
      BY DEF Midway
    <3>2. /\ c.from \in Nat /\ c.n \in Nat /\ c.from + c.n <= m.len /\ q \in Nat
          /\ c.n <= R.size /\ R.size \in Nat
      <4>1. R.size \in Nat
        BY <3>1, SizesOK DEF View
      <4> QED BY <3>1, <4>1, FollowsOK
    <3>3. (j = m.len => rest = 0) /\ rest <= c.n
      BY <1>3, <3>2, LeftOver, SMTT(30)
    <3> QED BY <3>2, <3>3
  <2>2. m.type = "chunk_size" => m.arg \in Nat
    BY <1>3, AnyOK, SizesOK
  <2> QED BY <1>2, <1>4, <2>1, <2>2
<1>12. Len(controlMessage') < ControlLength
  <2>1. ControlLength \in Nat \ {0}
    BY SizesOK
  <2>2. CASE m.cs = Control
    <3>1. controlMessage' = Store(m.cs)'
      BY <2>2 DEF Store
    <3>2. CASE j = m.len
      BY <1>4, <2>1, <3>1, <3>2
    <3>3. CASE j # m.len
      <4>1. Len(s) = j /\ j < m.len
        <5>1. Len(Payload(m)) = m.len /\ Payload(m) \in Seq({Data(m, i) : i \in Nat})
          BY <1>3, PayloadOK
        <5> QED BY <1>3, <3>3, <5>1, SectionIs
      <4>2. m.len = ControlLength
        BY <1>3, <2>2, AnyOK
      <4> QED BY <1>4, <3>1, <3>3, <4>1, <4>2
    <3> QED BY <3>2, <3>3
  <2>3. CASE m.cs # Control
    <3>1. controlMessage' = Store(Control)' /\ controlMessage = Store(Control)
      BY DEF Store
    <3>2. m.type # "abort" /\ Control \in Streams
      BY <1>3, <2>3, AnyOK, SizesOK
    <3>3. controlMessage' = controlMessage
      BY <1>4, <2>3, <3>1, <3>2
    <3> QED BY <3>3 DEF Midway
  <2> QED BY <2>2, <2>3
<1> HIDE DEF Store
<1> QED BY <1>5, <1>6, <1>10, <1>11, <1>12 DEF Hears, Bounded

\* A message handed over is content of the application's.
LEMMA AppendWhat ==
  ASSUME NEW s \in Messages, NEW w \in Content, NEW t \in Nat
  PROVE  LET x == [what |-> w, time |-> t]
         IN  Append(s, x) \in Messages /\ What(Append(s, x)) = Append(What(s), w)
<1> DEFINE x == [what |-> w, time |-> t]
<1>1. x \in [what : Content, time : Nat] /\ x.what = w
  OBVIOUS
<1> HIDE DEF x
<1> QED BY <1>1 DEF What, Messages

\* The end of a control message.
LEMMA ObeyLearns ==
  ASSUME Typed, NEW m \in Any, m.cs = Control, NEW e \in Entries, e.type = m.type,
         NEW all, all[1].msg = m, Obey(e, all, Control),
         controlMessage' = <<>>, delivered' = delivered, NEW s
  PROVE  Learns(m, m.len, e, s)
<1>1. m.type \in {"abort", "chunk_size"} /\ Control \in Streams /\ Control \notin ChunkStream
  BY AnyOK, SizesOK
<1>2. \A d \in Streams : d # Control <=> d \in ChunkStream
  BY SizesOK
<1>3. CASE m.type = "chunk_size"
  <2>1. peerChunkSize' = m.arg /\ cacheIn' = [cacheIn EXCEPT ![Control] = e] /\ got' = got
    BY <1>3 DEF Obey
  <2>2. /\ cacheIn' \in [Streams -> Entries] /\ cacheIn'[Control] = e
        /\ \A d \in Streams : d # Control => cacheIn'[d] = cacheIn[d]
    BY <1>1, <2>1 DEF Typed
  <2>3. controlMessage' \in Seq(Units) /\ got' \in [ChunkStream -> Seq(Units)]
        /\ delivered' \in [ChunkStream -> Messages]
    BY <2>1 DEF Typed
  <2>4. Store(m.cs)' = <<>> /\ \A d \in Streams : d # m.cs => Store(d)' = Store(d)
    BY <2>1 DEF Store
  <2>5. \A d \in ChunkStream : d # m.cs
    BY <1>1
  <2> HIDE DEF Store
  <2> QED BY <1>3, <2>1, <2>2, <2>3, <2>4, <2>5 DEF Learns
<1>4. CASE m.type = "abort"
  <2> PICK b : b = m.arg
    OBVIOUS
  <2>1. b \in ChunkStream /\ b \in Streams /\ b # Control
    BY <1>1, <1>4, AnyOK, SizesOK
  <2>2. /\ peerChunkSize' = peerChunkSize /\ got' = [got EXCEPT ![b] = <<>>]
        /\ cacheIn' = [[cacheIn EXCEPT ![Control] = e] EXCEPT ![b].processed = 0]
    BY <1>4 DEF Obey
  <2>3. /\ cacheIn'[Control] = e
        /\ \A d \in Streams : d # Control =>
             cacheIn'[d] = IF d = b THEN [cacheIn[d] EXCEPT !.processed = 0] ELSE cacheIn[d]
        /\ cacheIn' \in [Streams -> Entries]
    <3>1. cacheIn \in [Streams -> Entries]
      BY DEF Typed
    <3>2. \A d \in Streams : d # Control =>
            cacheIn'[d] = IF d = b THEN [cacheIn[d] EXCEPT !.processed = 0] ELSE cacheIn[d]
      BY <1>1, <2>1, <2>2, <3>1
    <3>3. cacheIn'[Control] = e
      BY <1>1, <2>1, <2>2, <3>1
    <3>4. [cacheIn[b] EXCEPT !.processed = 0] \in Entries
      BY <2>1, <3>1 DEF Entries
    <3> QED BY <1>1, <2>1, <2>2, <3>1, <3>2, <3>3, <3>4
  <2>4. /\ controlMessage' \in Seq(Units) /\ got' \in [ChunkStream -> Seq(Units)]
        /\ delivered' \in [ChunkStream -> Messages]
    <3> DEFINE z == <<>>
    <3>1. z \in Seq(Units)
      OBVIOUS
    <3>2. got' = [got EXCEPT ![b] = z] /\ controlMessage' = z
      BY <2>2
    <3> HIDE DEF z
    <3> QED BY <3>1, <3>2 DEF Typed
  <2>5. Store(m.cs)' = <<>>
        /\ \A d \in Streams : d # m.cs => Store(d)' = IF d = b THEN <<>> ELSE Store(d)
    BY <1>2, <2>2 DEF Store, Typed
  <2>6. \A d \in ChunkStream : d # m.cs
    BY <1>1
  <2> HIDE DEF Store
  <2> QED BY <1>4, <2>2, <2>3, <2>4, <2>5, <2>6 DEF Learns
<1> QED BY <1>1, <1>3, <1>4

\* What Issue makes of k more units of a chunk.
LEMMA IssueOK ==
  ASSUME Typed, NEW R, NEW c, NEW q, Midway(R, c, q), NEW k, NEW skip, Arrives(c, q, k, skip),
         c.msg.cs = Control => k # 0,
         NEW j, j = c.from + q + k, NEW e, EntryAt(e, R, c, j),
         NEW s, s = SubSeq(Payload(c.msg), 1, j),
         Issue(c.msg.cs, e, skip, k, "continue")
  PROVE  in' = Rest(in, skip + k) /\ paused' = paused /\ Learns(c.msg, j, e, s)
<1> DEFINE m == c.msg
           all == Store(m.cs) \o SubSeq(in, skip + 1, skip + k)
<1>0. /\ all = SubSeq(Payload(c.msg), 1, j)
      /\ all \in Seq(Units) /\ j \in Nat /\ j <= c.msg.len
      /\ j > 0 => SubSeq(Payload(c.msg), 1, j)[1].msg = c.msg
  BY AllIs, SMTT(30)
<1>1. /\ all = s /\ s \in Seq(Units) /\ j \in Nat /\ j <= m.len
      /\ j > 0 => s[1].msg = m
  BY <1>0
<1>2. /\ e \in Entries /\ e.processed = m.len - j
      /\ e.len = m.len /\ e.type = m.type /\ e.sid = m.sid
  BY DEF EntryAt
<1>3. m \in Any /\ m.len \in Nat \ {0} /\ m.cs \in Streams
  <2>1. R \in View /\ Follows(R, c)
    BY DEF Midway
  <2> QED BY <2>1, FollowsOK, AnyOK
<1>4. e.processed = 0 <=> j = m.len
  BY <1>1, <1>2, <1>3
<1>20. in' = Rest(in, skip + k) /\ Issued(m.cs, e, all)
  BY IssueIs
<1>5. /\ in' = Rest(in, skip + k) /\ paused' = paused
      /\ m.cs = Control /\ e.processed = 0 =>
           Obey(e, all, m.cs) /\ controlMessage' = <<>> /\ delivered' = delivered
      /\ m.cs = Control /\ e.processed # 0 =>
           /\ cacheIn' = [cacheIn EXCEPT ![m.cs] = e] /\ controlMessage' = all
           /\ peerChunkSize' = peerChunkSize /\ got' = got /\ delivered' = delivered
      /\ m.cs # Control =>
           /\ cacheIn' = [cacheIn EXCEPT ![m.cs] = e]
           /\ peerChunkSize' = peerChunkSize /\ controlMessage' = controlMessage
           /\ got' = [got EXCEPT ![m.cs] = IF e.processed = 0 THEN <<>> ELSE all]
           /\ e.processed # 0 => delivered' = delivered
           /\ e.processed = 0 =>
                delivered' = [delivered EXCEPT ![m.cs] =
                                Append(@, [what |-> Received(e.type, e.sid, all), time |-> e.time])]
  BY <1>20 DEF Issued
<1> HIDE DEF all
<1>6. Control \notin ChunkStream /\ Control \in Streams /\ \A d \in Streams : d # Control <=> d \in ChunkStream
  BY SizesOK
<1>7. CASE m.cs = Control /\ j = m.len
  <2>1. Obey(e, s, Control) /\ controlMessage' = <<>> /\ delivered' = delivered /\ s[1].msg = m
    BY <1>1, <1>3, <1>4, <1>5, <1>7
  <2>2. Learns(m, m.len, e, s)
    BY <1>2, <1>3, <1>7, <2>1, ObeyLearns
  <2> QED BY <1>5, <1>7, <2>2
<1>8. CASE m.cs = Control /\ j # m.len
  <2>1. /\ cacheIn' = [cacheIn EXCEPT ![Control] = e] /\ controlMessage' = s
        /\ peerChunkSize' = peerChunkSize /\ got' = got /\ delivered' = delivered
    BY <1>1, <1>4, <1>5, <1>8
  <2>2. /\ cacheIn' \in [Streams -> Entries] /\ cacheIn'[Control] = e
        /\ \A d \in Streams : d # Control => cacheIn'[d] = cacheIn[d]
    BY <1>2, <1>6, <2>1 DEF Typed
  <2>3. controlMessage' \in Seq(Units) /\ got' \in [ChunkStream -> Seq(Units)]
        /\ delivered' \in [ChunkStream -> Messages]
    BY <1>1, <2>1 DEF Typed
  <2>4. Store(m.cs)' = s /\ \A d \in Streams : d # m.cs => Store(d)' = Store(d)
    BY <1>8, <2>1 DEF Store
  <2> HIDE DEF Store
  <2>5. Learns(m, j, e, s)
    BY <1>8, <2>1, <2>2, <2>3, <2>4 DEF Learns
  <2> QED BY <1>5, <2>5
<1>9. CASE m.cs # Control
  <2>1. m.cs \in ChunkStream /\ m \in Message /\ m.type # "abort" /\ m.type # "chunk_size"
    BY <1>3, <1>9, AnyOK
  <2>2. /\ cacheIn' \in [Streams -> Entries] /\ cacheIn'[m.cs] = e
        /\ \A d \in Streams : d # m.cs => cacheIn'[d] = cacheIn[d]
    <3>1. cacheIn' = [cacheIn EXCEPT ![m.cs] = e]
      BY <1>5, <1>9
    <3> QED BY <1>2, <1>3, <3>1 DEF Typed
  <2>3. peerChunkSize' = peerChunkSize /\ controlMessage' = controlMessage
    BY <1>5, <1>9
  <2> DEFINE z == <<>>
             x == IF j = m.len THEN z ELSE s
  <2>4. got' = [got EXCEPT ![m.cs] = x] /\ x \in Seq(Units)
    <3>1. z \in Seq(Units)
      OBVIOUS
    <3> QED BY <1>1, <1>4, <1>5, <1>9, <3>1
  <2> HIDE DEF z, x
  <2>5. /\ got' \in [ChunkStream -> Seq(Units)] /\ got'[m.cs] = x
        /\ \A d \in ChunkStream : d # m.cs => got'[d] = got[d]
    BY <2>1, <2>4 DEF Typed
  <2>6. Store(m.cs)' = (IF j = m.len THEN <<>> ELSE s)
    BY <1>9, <2>5 DEF Store, x, z
  <2>7. \A d \in Streams : d # m.cs => Store(d)' = Store(d)
    BY <1>6, <2>3, <2>5 DEF Store
  <2>8. /\ delivered' \in [ChunkStream -> Messages]
        /\ \A d \in ChunkStream :
             What(delivered'[d]) =
               IF j = m.len /\ d = m.cs
               THEN Append(What(delivered[d]), Received(m.type, m.sid, Payload(m)))
               ELSE What(delivered[d])
    <3>1. CASE j = m.len
      <4> DEFINE w == Received(m.type, m.sid, Payload(m))
                 y == Append(delivered[m.cs], [what |-> w, time |-> e.time])
      <4>1. s = Payload(m)
        BY <1>3, <3>1, WholePayload
      <4>2. w \in Content /\ e.time \in Nat
        BY <1>2, <2>1 DEF Content, Entries
      <4>3. delivered' = [delivered EXCEPT ![m.cs] = y]
        BY <1>1, <1>2, <1>4, <1>5, <1>9, <3>1, <4>1
      <4> HIDE DEF w
      <4>4. y \in Messages /\ What(y) = Append(What(delivered[m.cs]), w)
        <5>1. delivered[m.cs] \in Messages
          BY <2>1 DEF Typed
        <5> QED BY <4>2, <5>1, AppendWhat
      <4> HIDE DEF y
      <4>5. /\ delivered' \in [ChunkStream -> Messages] /\ delivered'[m.cs] = y
            /\ \A d \in ChunkStream : d # m.cs => delivered'[d] = delivered[d]
        BY <2>1, <4>3, <4>4 DEF Typed
      <4> HIDE DEF What
      <4> QED BY <3>1, <4>4, <4>5 DEF w
    <3>2. CASE j # m.len
      BY <1>4, <1>5, <1>9, <3>2 DEF Typed
    <3> QED BY <3>1, <3>2
  <2>9. controlMessage' \in Seq(Units)
    BY <2>3 DEF Typed
  <2> HIDE DEF Store, What, Received, Payload
  <2>10. Learns(m, j, e, s)
    BY <2>1, <2>2, <2>3, <2>5, <2>6, <2>7, <2>8, <2>9 DEF Learns
  <2> QED BY <1>5, <2>10
<1> QED BY <1>7, <1>8, <1>9

LEMMA ReceiverTyped ==
  ASSUME Typed, UNCHANGED <<sender, out>>, NEW m \in Any, NEW j, NEW e, NEW s, Learns(m, j, e, s),
         in' \in Seq(Units), Len(in') <= InSize, partialChunk' \in Nat, paused' = paused
  PROVE  Typed'
<1>1. /\ cacheIn' \in [Streams -> Entries] /\ controlMessage' \in Seq(Units)
      /\ got' \in [ChunkStream -> Seq(Units)] /\ delivered' \in [ChunkStream -> Messages]
      /\ peerChunkSize' = IF j = m.len /\ m.type = "chunk_size" THEN m.arg ELSE peerChunkSize
  <2> HIDE DEF Store, What, Messages, Entries
  <2> QED BY DEF Learns
<1>2. peerChunkSize' \in Sizes \cup {DefaultSize}
  BY <1>1, AnyOK DEF Typed
<1> QED BY <1>1, <1>2 DEF Typed, sender

LEMMA RestNat ==
  ASSUME NEW n \in Nat, NEW q \in 0..n, NEW k \in Nat, q + k <= n
  PROVE  n - (q + k) \in Nat /\ n - (q + k) <= n
OBVIOUS

\* The b-th chunk of the history, and the view in front of it.
At(h, b, R, c) == b \in 1..h.n /\ R = h.view[b - 1] /\ c = h.chunk[b]

\* Some or all of what is left of a chunk is issued.
LEMMA ChunkOK ==
  ASSUME Typed, Roomy, NEW h, NEW a \in Nat, Explains(h, a), UNCHANGED <<sender, out>>,
         NEW b, NEW R, NEW c, At(h, b, R, c),
         NEW q, Midway(R, c, q), NEW k, NEW skip, Arrives(c, q, k, skip),
         NEW rest, rest = c.n - (q + k), NEW n, n = skip + k, Gone(h, a) + n = h.end[b] - rest,
         c.msg.cs = Control => k # 0,
         NEW j, j = c.from + q + k, NEW e, EntryAt(e, R, c, j), Issue(c.msg.cs, e, skip, k, "continue"),
         partialChunk' = rest, rest > 0 => partialMsg' = c.msg.cs
  PROVE  IndInv'
<1> USE DEF At
<1>1. Traces(h) /\ Carries(h, a)
  BY DEF Explains
<1>2. Traced(h, b) /\ h.n \in Nat
  BY <1>1 DEF Traces
<1>3. Follows(R, c) /\ h.view[b] = After(R, c) /\ h.end[b] = h.end[b - 1] + Extent(c)
  BY <1>2 DEF Traced
<1>4. R \in View /\ h.end[b - 1] \in Nat /\ h.end[b] \in Nat /\ b \in 0..h.n
  <2>1. b - 1 \in 0..h.n /\ b \in 0..h.n
    BY <1>2
  <2> QED BY <1>1, <2>1, TracesOK
<1>5. /\ c.msg \in Any /\ c.from \in Nat /\ c.n \in Nat \ {0} /\ c.msg.len \in Nat
      /\ c.from + c.n <= c.msg.len /\ c \in Piece
  BY <1>3, <1>4, FollowsOK
<1>6. Extent(c) = HeadLen(c) + c.n /\ HeadLen(c) \in 1..4
  BY <1>5, ExtentOK
<1>7. q \in 0..c.n /\ k \in Nat /\ q + k <= c.n /\ skip \in Nat /\ skip + k <= Len(in)
  BY DEF Midway, Arrives
<1>8. rest \in Nat /\ rest <= c.n /\ rest <= h.end[b] /\ n \in Nat /\ n <= Len(in)
  <2>1. rest \in Nat /\ rest <= c.n
    <3>1. c.n - (q + k) \in Nat /\ c.n - (q + k) <= c.n
      BY <1>5, <1>7, RestNat
    <3> QED BY <3>1
  <2>3. n \in Nat /\ n <= Len(in)
    BY <1>7
  <2>2. c.n <= h.end[b]
    BY <1>3, <1>4, <1>5, <1>6
  <2> QED BY <1>4, <1>5, <2>1, <2>2, <2>3
<1> PICK s : s = SubSeq(Payload(c.msg), 1, j)
  OBVIOUS
<1>9. in' = Rest(in, skip + k) /\ paused' = paused /\ Learns(c.msg, j, e, s)
  BY IssueOK
<1>10. Carries(h, b)' /\ in' \in Seq(Units) /\ Len(in') <= InSize
  <2>1. in' = Rest(in, n) /\ partialChunk' \in Nat /\ partialChunk' <= h.end[b]
        /\ h.end[b] - partialChunk' = Gone(h, a) + n
    BY <1>8, <1>9
  <2> HIDE DEF Rest, Gone
  <2> QED BY <1>4, <1>8, <2>1, ConsumeIs
<1>11. Typed'
  BY <1>5, <1>8, <1>9, <1>10, ReceiverTyped
<1>12. Hears(Now(R, c, rest), {})'
  BY <1>7, <1>9, LearnsOK
<1>13. Receives(h, b)'
  <2>1. CASE rest = 0
    <3>1. Now(R, c, rest) = h.view[b]
      <4>1. c.from + c.n - rest = c.from + c.n
        BY <1>5, <2>1
      <4> QED BY <1>3, <2>1, <4>1 DEF Now, After
    <3>2. Hears(h.view[b], {})'
      BY <1>12, <3>1
    <3>3. Hears(h.view[b], Upcoming(h, b))'
      BY <3>2 DEF Hears, Knows
    <3> QED BY <2>1, <3>3 DEF Receives
  <2>2. CASE rest # 0
    <3>1. c.from + c.n - rest # c.msg.len
      BY <1>5, <1>8, <2>2
    <3>2. Now(R, c, rest) = Begun(R, c, rest)
      BY <3>1 DEF Now
    <3>3. Hears(Begun(R, c, rest), {})'
      BY <1>12, <3>2
    <3>4. Hears(Begun(R, c, partialChunk), {})'
      BY <3>3 DEF Hears, Knows
    <3>5. b > 0 /\ partialChunk' # 0 /\ partialChunk' <= c.n /\ partialMsg' = c.msg.cs
      BY <1>2, <1>8, <2>2
    <3> QED BY <3>4, <3>5 DEF Receives
  <2> QED BY <2>1, <2>2
<1> QED BY <1>10, <1>11, <1>13, Heeded
-----------------------------------------------------------------------------
(* rtmp_chunk_conn_service_recv and _recv_partial. *)

\* In front of a chunk the receiver has none of it.
LEMMA FrontMidway ==
  ASSUME Typed, NEW R, NEW c, Facing(R, c)
  PROVE  Midway(R, c, 0)
<1> PICK m : m = c.msg
  OBVIOUS
<1>1. /\ R \in View /\ Follows(R, c) /\ m \in Any /\ m.cs \in Streams /\ c.from \in Nat /\ c.n \in Nat
      /\ m.len \in Nat
  BY FacingIs
<1>2. Hears(R, {m})
  BY DEF Facing
<1>3. /\ peerChunkSize = R.size /\ Bounded
      /\ \A d \in Streams : Knows(cacheIn[d], R, d, {m}) /\ Store(d) = Collected(R.at[d])
      /\ \A d \in ChunkStream : What(delivered[d]) = R.done[d]
  BY <1>2 DEF Hears
<1>4. \A d \in Streams : d # m.cs => Knows(cacheIn[d], R, d, {})
  BY <1>3 DEF Knows
<1>5. Store(m.cs) = SubSeq(Payload(m), 1, c.from)
  <2>1. Store(m.cs) = Collected(R.at[m.cs])
    BY <1>1, <1>3
  <2>2. CASE c.from = 0
    <3>1. R.at[m.cs].left = 0
      BY <1>1, <2>2 DEF Follows
    <3>2. SubSeq(Payload(m), 1, 0) = <<>>
      BY <1>1, WholePayload
    <3> HIDE DEF Store
    <3> QED BY <2>1, <2>2, <3>1, <3>2 DEF Collected
  <2>3. CASE c.from # 0
    <3>1. R.at[m.cs] = Cell(m, c.from, m.len - c.from) /\ c.from < m.len
      BY <1>1, <2>3 DEF Follows
    <3>2. R.at[m.cs].msg = m /\ R.at[m.cs].written = c.from /\ R.at[m.cs].left = m.len - c.from
      BY <3>1 DEF Cell
    <3>3. R.at[m.cs].left # 0
      BY <1>1, <3>1, <3>2
    <3> HIDE DEF Store
    <3> QED BY <2>1, <3>2, <3>3 DEF Collected
  <2> QED BY <2>2, <2>3
<1>6. c.from + 0 = c.from /\ 0 \in 0..c.n
  BY <1>1
<1> HIDE DEF Store
<1> QED BY <1>1, <1>3, <1>4, <1>5, <1>6 DEF Midway, Bounded

LEMMA Parts ==
  ASSUME NEW f \in Nat, NEW k \in Nat, NEW n \in Nat, NEW l \in Nat, k <= n, f + n <= l
  PROVE  /\ f + 0 + k \in Nat /\ f + 0 + k <= l /\ (l - f) - k = l - (f + 0 + k)
         /\ l - (f + 0 + k) \in Nat /\ n - (0 + k) = n - k /\ n - k \in Nat
         /\ (n - (0 + k) > 0 => k < n) /\ 0 + k <= n
OBVIOUS
LEMMA Advance ==
  ASSUME NEW k \in Nat, NEW n \in Nat, NEW x \in Nat, NEW t \in Nat
  PROVE  t + (x + k) = (t + (x + n)) - (n - (0 + k))
OBVIOUS

\* What Recv makes of the chunk in front.
LEMMA RecvIs ==
  ASSUME ~ControlSplit, Typed, NEW R, NEW c, Facing(R, c), Recv("continue"),
         NEW k, k = Lesser(c.n, Len(in) - HeadLen(c)),
         NEW e, e = [Header EXCEPT !.processed = (c.msg.len - c.from) - k]
  PROVE  /\ k \in Nat /\ k <= c.n
         /\ Arrives(c, 0, k, HeadLen(c)) /\ EntryAt(e, R, c, c.from + 0 + k)
         /\ Issue(c.msg.cs, e, HeadLen(c), k, "continue")
         /\ partialChunk' = c.n - (0 + k)
         /\ c.n - (0 + k) > 0 => partialMsg' = c.msg.cs
         /\ c.msg.cs = Control => k # 0
<1> DEFINE m == c.msg
           skip == Len(HeaderKinds)
           here == Lesser(Wanted, Len(in) - skip)
<1>1. /\ HeaderDone /\ (Cs # Control \/ Len(in) # skip)
      /\ Issue(Cs, [Header EXCEPT !.processed = Remaining - here], skip, here, "continue")
      /\ partialChunk' = Wanted - here
      /\ partialMsg' = IF here < Wanted THEN Cs ELSE partialMsg
  BY DEF Recv, ControlSplit
<1>3. /\ Len(in) \in Nat \ {0} /\ HeadLen(c) \in 1..4 /\ Extent(c) = HeadLen(c) + c.n
      /\ c.n \in Nat \ {0} /\ m \in Any /\ m.cs \in Streams /\ c.from \in Nat /\ m.len \in Nat
      /\ c.from + c.n <= m.len /\ R \in View /\ Follows(R, c)
  BY FacingIs
<1>4. skip = HeadLen(c) /\ Len(in) >= HeadLen(c) /\ Cs = m.cs
  BY <1>1, KindsAre, SeenIs
<1>5. /\ Header \in Entries /\ Header.len = m.len /\ Header.type = m.type
      /\ Header.sid = m.sid /\ Header.time = Begun(R, c, c.n).time[m.cs]
      /\ Remaining = m.len - c.from /\ Wanted = c.n
  BY <1>4, HeaderRead
<1>7. here = k
  BY <1>4, <1>5
<1>8. k \in Nat /\ k <= c.n /\ HeadLen(c) + k <= Len(in)
  BY <1>3, <1>4 DEF Lesser
<1>20. /\ c.from + 0 + k \in Nat /\ c.from + 0 + k <= m.len
       /\ (m.len - c.from) - k = m.len - (c.from + 0 + k)
       /\ m.len - (c.from + 0 + k) \in Nat /\ c.n - (0 + k) = c.n - k /\ c.n - k \in Nat
       /\ (c.n - (0 + k) > 0 => k < c.n) /\ 0 + k <= c.n
  BY <1>3, <1>8, Parts, SMTT(30)
<1> HIDE DEF here, skip
<1>21. Issue(m.cs, e, HeadLen(c), k, "continue")
  BY <1>1, <1>4, <1>5, <1>7
<1>22. partialChunk' = c.n - (0 + k)
  BY <1>1, <1>5, <1>7, <1>20
<1>23. c.n - (0 + k) > 0 => partialMsg' = m.cs
  BY <1>1, <1>4, <1>5, <1>7, <1>20
<1>24. m.cs = Control => k # 0
  BY <1>1, <1>3, <1>4 DEF Lesser
<1>10. EntryAt(e, R, c, c.from + 0 + k)
  <2>2. Begun(R, c, c.n).time[m.cs] = IF c.fmt = 0 THEN c.stamp ELSE R.time[m.cs] + c.stamp
    BY <1>3, BegunIs
  <2>3. /\ e \in Entries /\ e.processed = m.len - (c.from + 0 + k) /\ e.len = Header.len
        /\ e.type = Header.type /\ e.sid = Header.sid /\ e.time = Header.time
    <3> HIDE DEF Header
    <3> QED BY <1>5, <1>20 DEF Entries
  <2> HIDE DEF Header
  <2> QED BY <1>5, <2>2, <2>3 DEF EntryAt
<1>11. Arrives(c, 0, k, HeadLen(c))
  <2>1. ASSUME NEW i \in 1..k PROVE in[HeadLen(c) + i] = Data(m, c.from + 0 + i)
    <3>1. /\ HeadLen(c) + i \in 1..Len(in) /\ HeadLen(c) + i <= Extent(c)
          /\ HeadLen(c) + i > HeadLen(c) /\ (HeadLen(c) + i) - HeadLen(c) = i /\ c.from + 0 + i = c.from + i
      BY <1>3, <1>8, SMTT(30)
    <3>2. in[HeadLen(c) + i] = Unit(c, HeadLen(c) + i)
      BY <3>1 DEF Facing
    <3> HIDE DEF HeadLen, Data
    <3> QED BY <3>1, <3>2 DEF Unit
  <2>2. HeadLen(c) \in Nat /\ 0 + k <= c.n
    BY <1>3, <1>20
  <2> HIDE DEF HeadLen, Data
  <2> QED BY <1>8, <2>1, <2>2 DEF Arrives
<1> QED BY <1>8, <1>10, <1>11, <1>21, <1>22, <1>23, <1>24

LEMMA RecvOK ==
  ASSUME Undisturbed, Typed, Roomy, NEW h, NEW a \in Nat, Explains(h, a), Recv("continue"),
         ~ControlSplit, in # <<>>, UNCHANGED <<sender, out>>
  PROVE  IndInv'
<1>10. PICK c : c = h.chunk[a + 1]
  OBVIOUS
<1>11. PICK R : R = h.view[a]
  OBVIOUS
<1>13. PICK k : k = Lesser(c.n, Len(in) - HeadLen(c))
  OBVIOUS
<1>14. PICK e : e = [Header EXCEPT !.processed = (c.msg.len - c.from) - k]
  OBVIOUS
<1> PICK j : j = c.from + 0 + k
  OBVIOUS
<1> PICK rest : rest = c.n - (0 + k)
  OBVIOUS
<1>12. PICK b : b = a + 1
  OBVIOUS
<1> PICK n : n = HeadLen(c) + k
  OBVIOUS
<1>1. partialChunk = 0
  BY DEF Recv
<1>2. /\ a < h.n /\ a + 1 \in 0..h.n /\ Facing(R, c)
      /\ h.end[a + 1] = h.end[a] + Extent(c)
  BY <1>1, <1>10, <1>11, FrontIs
<1>3. /\ k \in Nat /\ k <= c.n
      /\ Arrives(c, 0, k, HeadLen(c)) /\ EntryAt(e, R, c, j)
      /\ Issue(c.msg.cs, e, HeadLen(c), k, "continue")
      /\ partialChunk' = rest
      /\ rest > 0 => partialMsg' = c.msg.cs
      /\ c.msg.cs = Control => k # 0
  BY <1>2, <1>13, <1>14, RecvIs
<1>4. Midway(R, c, 0)
  BY <1>2, FrontMidway
<1>5. At(h, b, R, c)
  <2>1. b - 1 = a /\ h.n \in Nat
    BY <1>12, InIs
  <2> QED BY <1>2, <1>10, <1>11, <1>12, <2>1 DEF At
<1>6. Gone(h, a) + n = h.end[b] - rest
  <2>1. Gone(h, a) = h.end[a] /\ h.end[a] \in Nat
    BY <1>1, InIs
  <2>2. HeadLen(c) \in Nat /\ Extent(c) = HeadLen(c) + c.n /\ c.n \in Nat /\ c.from \in Nat
    BY <1>2, FacingIs
  <2>3. h.end[a] + (HeadLen(c) + k) = (h.end[a] + (HeadLen(c) + c.n)) - (c.n - (0 + k))
    <3> HIDE DEF HeadLen
    <3>1. k \in Nat
      BY <1>3
    <3> QED BY <2>1, <2>2, <3>1
  <2> HIDE DEF Gone, HeadLen, Extent
  <2> QED BY <1>2, <1>12, <2>1, <2>2, <2>3
<1> QED BY <1>3, <1>4, <1>5, <1>6, ChunkOK

\* The receiver is in the middle of the chunk c.
InPart(R, c) ==
    /\ partialChunk \in Nat /\ partialChunk # 0 /\ partialChunk <= c.n
    /\ Follows(R, c) /\ R \in View
    /\ Hears(Begun(R, c, partialChunk), {})

LEMMA Parted ==
  ASSUME NEW f \in Nat, NEW n \in Nat, NEW l \in Nat, f + n <= l, NEW p \in Nat, p # 0, p <= n
  PROVE  LET q == n - p
         IN  /\ q \in 0..n /\ q \in Nat /\ f + n - p = f + q /\ f + q \in Nat
             /\ l - (f + q) \in Nat \ {0}
OBVIOUS

\* It has all but partialChunk units of it.
LEMMA InPartIs ==
  ASSUME Typed, NEW R, NEW c, InPart(R, c), NEW q, q = c.n - partialChunk
  PROVE  /\ Midway(R, c, q)
         /\ LET e == cacheIn[c.msg.cs]
            IN  /\ e \in Entries /\ e.processed = c.msg.len - (c.from + q) /\ e.len = c.msg.len
                /\ e.type = c.msg.type /\ e.sid = c.msg.sid
                /\ e.time = IF c.fmt = 0 THEN c.stamp ELSE R.time[c.msg.cs] + c.stamp
<1> DEFINE m == c.msg
           V == Begun(R, c, partialChunk)
<1>1. /\ partialChunk \in Nat /\ partialChunk # 0 /\ partialChunk <= c.n
      /\ Follows(R, c) /\ R \in View /\ Hears(V, {})
  BY DEF InPart
<1>2. /\ m \in Any /\ m.cs \in Streams /\ c.from \in Nat /\ c.n \in Nat /\ m.len \in Nat
      /\ c.from + c.n <= m.len
  BY <1>1, FollowsOK
<1>3. /\ q \in 0..c.n /\ c.from + c.n - partialChunk = c.from + q
      /\ m.len - (c.from + q) \in Nat \ {0}
  BY <1>1, <1>2, Parted
<1>4. /\ V.size = R.size /\ V.done = R.done
      /\ V.at[m.cs] = Cell(m, c.from + q, m.len - (c.from + q))
      /\ V.time[m.cs] = IF c.fmt = 0 THEN c.stamp ELSE R.time[m.cs] + c.stamp
      /\ \A d \in Streams : d # m.cs => V.at[d] = R.at[d] /\ V.time[d] = R.time[d]
  BY <1>1, <1>2, <1>3, BegunIs
<1> HIDE DEF V
<1>5. /\ peerChunkSize = V.size /\ Bounded
      /\ \A d \in Streams : Knows(cacheIn[d], V, d, {}) /\ Store(d) = Collected(V.at[d])
      /\ \A d \in ChunkStream : What(delivered[d]) = V.done[d]
  BY <1>1 DEF Hears
<1>6. V.at[m.cs].msg = m /\ V.at[m.cs].written = c.from + q /\ V.at[m.cs].left = m.len - (c.from + q)
  BY <1>4 DEF Cell
<1>7. Store(m.cs) = SubSeq(Payload(m), 1, c.from + q)
  <2>1. V.at[m.cs].left # 0
    BY <1>3, <1>6
  <2> HIDE DEF Store
  <2> QED BY <1>2, <1>5, <1>6, <2>1 DEF Collected
<1>8. \A d \in Streams : d # m.cs => Knows(cacheIn[d], R, d, {}) /\ Store(d) = Collected(R.at[d])
  <2> HIDE DEF Store
  <2> QED BY <1>4, <1>5 DEF Knows
<1>9. Midway(R, c, q)
  <2> HIDE DEF Store
  <2> QED BY <1>1, <1>3, <1>4, <1>5, <1>7, <1>8 DEF Midway, Bounded
<1>10. Knows(cacheIn[m.cs], V, m.cs, {}) /\ cacheIn[m.cs] \in Entries
  BY <1>2, <1>5 DEF Typed
<1> QED BY <1>4, <1>6, <1>9, <1>10 DEF Knows

\* What has arrived is what is left of it.
LEMMA PartIn ==
  ASSUME Typed, NEW h, NEW a \in Nat, Explains(h, a), partialChunk # 0,
         NEW c, c = h.chunk[a], NEW R, R = h.view[a - 1]
  PROVE  /\ At(h, a, R, c) /\ InPart(R, c) /\ partialMsg = c.msg.cs
         /\ Gone(h, a) = h.end[a] - partialChunk /\ h.end[a] \in Nat /\ Gone(h, a) \in Nat
         /\ \A i \in 1..Len(in) : i <= partialChunk =>
              in[i] = Data(c.msg, c.from + (c.n - partialChunk) + i)
<1>1. /\ partialChunk \in Nat /\ a \in 0..h.n /\ h.n \in Nat /\ Len(in) \in Nat
      /\ Gone(h, a) = h.end[a] - partialChunk /\ h.end[a] \in Nat /\ Gone(h, a) \in Nat
      /\ \A i \in 1..Len(in) : in[i] = h.wire[Gone(h, a) + i]
  BY InIs
<1>2. a > 0 /\ partialChunk <= c.n /\ partialMsg = c.msg.cs
      /\ Hears(Begun(R, c, partialChunk), {})
  BY DEF Explains, Receives
<1>3. a \in 1..h.n /\ a - 1 \in 0..h.n
  BY <1>1, <1>2
<1>4. Follows(R, c) /\ R \in View /\ h.end[a - 1] \in Nat /\ h.end[a] = h.end[a - 1] + Extent(c)
      /\ \A i \in 1..Extent(c) : h.wire[h.end[a - 1] + i] = Unit(c, i)
  <2>1. Traces(h)
    BY DEF Explains
  <2>2. Traced(h, a)
    BY <1>3, <2>1 DEF Traces
  <2>3. R \in View /\ h.end[a - 1] \in Nat
    BY <1>3, <2>1, TracesOK
  <2> QED BY <2>2, <2>3 DEF Traced
<1>5. InPart(R, c)
  BY <1>1, <1>2, <1>4 DEF InPart
<1>6. /\ c.from \in Nat /\ c.n \in Nat /\ HeadLen(c) \in 1..4 /\ Extent(c) = HeadLen(c) + c.n
  BY <1>4, FollowsOK, ExtentOK
<1>7. ASSUME NEW i \in 1..Len(in), i <= partialChunk
      PROVE  in[i] = Data(c.msg, c.from + (c.n - partialChunk) + i)
  <2> HIDE DEF Gone, HeadLen, Extent
  <2>3. PICK x \in Nat : x = HeadLen(c)
    BY <1>6
  <2>4. PICK s \in Nat : s = h.end[a - 1]
    BY <1>4
  <2>5. PICK n \in Nat : n = c.n
    BY <1>6
  <2>6. PICK f \in Nat : f = c.from
    BY <1>6
  <2>7. PICK p \in Nat : p = partialChunk
    BY <1>1
  <2>8. PICK y \in Nat \ {0} : y = i
    BY <1>1
  <2>9. PICK g : g = x + (n - p) + y
    OBVIOUS
  <2>10. p <= n /\ y <= p
    BY <1>2, <1>7, <2>5, <2>7, <2>8
  <2>11. g \in 1..(x + n) /\ ((s + (x + n)) - p) + y = s + g /\ g > x
         /\ f + (g - x) = f + (n - p) + y
    BY <2>9, <2>10
  <2>12. Extent(c) = x + n /\ Gone(h, a) = (s + (x + n)) - p
    BY <1>1, <1>4, <1>6, <2>3, <2>4, <2>5, <2>7
  <2>1. /\ g \in 1..Extent(c) /\ Gone(h, a) + i = h.end[a - 1] + g /\ g > HeadLen(c)
        /\ c.from + (g - HeadLen(c)) = c.from + (c.n - partialChunk) + i
    BY <2>3, <2>4, <2>5, <2>6, <2>7, <2>8, <2>11, <2>12
  <2>2. in[i] = Unit(c, g)
    BY <1>1, <1>4, <2>1
  <2> HIDE DEF HeadLen, Data
  <2> QED BY <2>1, <2>2 DEF Unit
<1>8. At(h, a, R, c)
  BY <1>3 DEF At
<1> QED BY <1>1, <1>2, <1>5, <1>7, <1>8

\* What RecvPartial makes of it.
LEMMA RecvPartialIs ==
  ASSUME Typed, NEW R, NEW c, InPart(R, c), RecvPartial("continue"), in # <<>>,
         partialMsg = c.msg.cs,
         \A i \in 1..Len(in) : i <= partialChunk =>
           in[i] = Data(c.msg, c.from + (c.n - partialChunk) + i),
         NEW q, q = c.n - partialChunk, NEW k, k = Lesser(partialChunk, Len(in)),
         NEW e, e = [cacheIn[c.msg.cs] EXCEPT !.processed = @ - k]
  PROVE  /\ Midway(R, c, q) /\ Arrives(c, q, k, 0) /\ EntryAt(e, R, c, c.from + q + k)
         /\ Issue(c.msg.cs, e, 0, k, "continue")
         /\ partialChunk' = c.n - (q + k) /\ partialMsg' = c.msg.cs
         /\ k \in Nat /\ k # 0 /\ c.n - (q + k) = partialChunk - k /\ k <= partialChunk
<1> DEFINE m == c.msg
<1>1. /\ Issue(m.cs, e, 0, k, "continue") /\ partialChunk' = partialChunk - k /\ partialMsg' = m.cs
  BY DEF RecvPartial
<1>2. /\ partialChunk \in Nat /\ partialChunk # 0 /\ partialChunk <= c.n
      /\ Follows(R, c) /\ R \in View
  BY DEF InPart
<1>3. /\ m \in Any /\ m.cs \in Streams /\ c.from \in Nat /\ c.n \in Nat /\ m.len \in Nat
      /\ c.from + c.n <= m.len
  BY <1>2, FollowsOK
<1>4. Len(in) \in Nat /\ Len(in) # 0
  BY DEF Typed
<1>5. k \in Nat /\ k # 0 /\ k <= partialChunk /\ k <= Len(in)
  BY <1>2, <1>4 DEF Lesser
<1>6. /\ q \in Nat /\ q + k <= c.n /\ c.n - (q + k) = partialChunk - k
      /\ (m.len - (c.from + q)) - k = m.len - (c.from + q + k) /\ m.len - (c.from + q + k) \in Nat
  <2>1. PICK p \in Nat : p = partialChunk
    BY <1>2
  <2>2. PICK n \in Nat : n = c.n
    BY <1>3
  <2>3. PICK f \in Nat : f = c.from
    BY <1>3
  <2>4. PICK l \in Nat : l = m.len
    BY <1>3
  <2>5. PICK z : z = n - p
    OBVIOUS
  <2>6. k <= p /\ p <= n /\ f + n <= l
    BY <1>2, <1>3, <1>5, <2>1, <2>2, <2>3, <2>4
  <2>7. z \in Nat /\ z + k <= n /\ n - (z + k) = p - k
        /\ (l - (f + z)) - k = l - (f + z + k) /\ l - (f + z + k) \in Nat
    BY <1>5, <2>5, <2>6, SMTT(30)
  <2>8. z = q
    BY <2>1, <2>2, <2>5
  <2> QED BY <2>1, <2>2, <2>3, <2>4, <2>7, <2>8
<1>7. /\ Midway(R, c, q)
      /\ cacheIn[m.cs] \in Entries /\ cacheIn[m.cs].processed = m.len - (c.from + q)
      /\ cacheIn[m.cs].len = m.len /\ cacheIn[m.cs].type = m.type /\ cacheIn[m.cs].sid = m.sid
      /\ cacheIn[m.cs].time = IF c.fmt = 0 THEN c.stamp ELSE R.time[m.cs] + c.stamp
  BY InPartIs
<1>8. EntryAt(e, R, c, c.from + q + k)
  <2>1. /\ e \in Entries /\ e.processed = m.len - (c.from + q + k) /\ e.len = cacheIn[m.cs].len
        /\ e.type = cacheIn[m.cs].type /\ e.sid = cacheIn[m.cs].sid /\ e.time = cacheIn[m.cs].time
    BY <1>6, <1>7 DEF Entries
  <2> QED BY <1>7, <2>1 DEF EntryAt
<1>9. Arrives(c, q, k, 0)
  <2>1. ASSUME NEW i \in 1..k PROVE in[0 + i] = Data(m, c.from + q + i)
    <3>1. i \in 1..Len(in) /\ i <= partialChunk /\ 0 + i = i
      BY <1>2, <1>4, <1>5
    <3> HIDE DEF Data
    <3> QED BY <3>1
  <2> HIDE DEF Data
  <2> QED BY <1>4, <1>5, <1>6, <2>1 DEF Arrives
<1> QED BY <1>1, <1>5, <1>6, <1>7, <1>8, <1>9

LEMMA RecvPartialOK ==
  ASSUME Typed, Roomy, NEW h, NEW a \in Nat, Explains(h, a), RecvPartial("continue"),
         in # <<>>, UNCHANGED <<sender, out>>
  PROVE  IndInv'
<1>1. PICK c : c = h.chunk[a]
  OBVIOUS
<1>2. PICK R : R = h.view[a - 1]
  OBVIOUS
<1>3. PICK q : q = c.n - partialChunk
  OBVIOUS
<1>4. PICK k : k = Lesser(partialChunk, Len(in))
  OBVIOUS
<1>5. PICK e : e = [cacheIn[c.msg.cs] EXCEPT !.processed = @ - k]
  OBVIOUS
<1> PICK j : j = c.from + q + k
  OBVIOUS
<1> PICK rest : rest = c.n - (q + k)
  OBVIOUS
<1> PICK n : n = 0 + k
  OBVIOUS
<1>6. partialChunk # 0
  BY DEF RecvPartial, Typed
<1>7. /\ At(h, a, R, c) /\ InPart(R, c) /\ partialMsg = c.msg.cs
      /\ Gone(h, a) = h.end[a] - partialChunk /\ h.end[a] \in Nat /\ Gone(h, a) \in Nat
      /\ \A i \in 1..Len(in) : i <= partialChunk =>
           in[i] = Data(c.msg, c.from + (c.n - partialChunk) + i)
  BY <1>1, <1>2, <1>6, PartIn
<1>8. /\ Midway(R, c, q) /\ Arrives(c, q, k, 0) /\ EntryAt(e, R, c, j)
      /\ Issue(c.msg.cs, e, 0, k, "continue")
      /\ partialChunk' = rest /\ partialMsg' = c.msg.cs
      /\ k \in Nat /\ k # 0 /\ rest = partialChunk - k /\ k <= partialChunk
  <2> HIDE DEF Data
  <2> QED BY <1>3, <1>4, <1>5, <1>7, RecvPartialIs
<1>9. Gone(h, a) + n = h.end[a] - rest
  <2>1. partialChunk \in Nat
    BY DEF Typed
  <2> HIDE DEF Gone
  <2> QED BY <1>7, <1>8, <2>1
<1> QED BY <1>7, <1>8, <1>9, ChunkOK
-----------------------------------------------------------------------------
(* What the invariant says of the input. *)

LEMMA AlignedOK ==
  ASSUME Typed, NEW h, NEW a \in Nat, Explains(h, a)
  PROVE  Aligned
<1> SUFFICES ASSUME in # <<>>
             PROVE  IF partialChunk > 0
                    THEN \A k \in 1..Lesser(partialChunk, Len(in)) : in[k].kind = "data"
                    ELSE /\ in[1].kind = "basic"
                         /\ Fmt <= 2 /\ Len(in) >= 2 => in[2].kind = "time"
                         /\ \A k \in 1..Lesser(Len(HeaderKinds), Len(in)) : in[k].kind = HeaderKinds[k]
                         /\ HeaderDone =>
                              \A k \in 1..Lesser(Wanted, Len(in) - Len(HeaderKinds)) :
                                  in[Len(HeaderKinds) + k].kind = "data"
  BY DEF Aligned
<1>1. partialChunk \in Nat /\ Len(in) \in Nat
  BY DEF Typed
<1>2. \A m, k : Data(m, k).kind = "data"
  BY DEF Data
<1>3. CASE partialChunk > 0
  <2>1. PICK c : c = h.chunk[a]
    OBVIOUS
  <2>2. PICK R : R = h.view[a - 1]
    OBVIOUS
  <2>3. \A i \in 1..Len(in) : i <= partialChunk =>
          in[i] = Data(c.msg, c.from + (c.n - partialChunk) + i)
    BY <1>1, <1>3, <2>1, <2>2, PartIn
  <2>4. \A k \in 1..Lesser(partialChunk, Len(in)) : k \in 1..Len(in) /\ k <= partialChunk
    BY <1>1 DEF Lesser
  <2> HIDE DEF Data
  <2> QED BY <1>2, <1>3, <2>3, <2>4
<1>4. CASE partialChunk = 0
  <2>1. PICK c : c = h.chunk[a + 1]
    OBVIOUS
  <2>2. PICK R : R = h.view[a]
    OBVIOUS
  <2>3. Facing(R, c)
    BY <1>4, <2>1, <2>2, FrontIs
  <2>4. /\ HeadLen(c) \in 1..4 /\ Extent(c) = HeadLen(c) + c.n /\ c.n \in Nat
        /\ \A i \in 1..Len(in) : i <= HeadLen(c) => in[i] = Unit(c, i)
    BY <2>3, FacingIs
  <2>5. /\ Len(HeaderKinds) = HeadLen(c)
        /\ HeaderDone <=> Len(in) >= HeadLen(c)
        /\ \A i \in 1..HeadLen(c) : HeaderKinds[i] = Unit(c, i).kind
    BY <2>3, KindsAre
  <2>6. in[1].kind = "basic" /\ (Fmt <= 2 /\ Len(in) >= 2 => in[2].kind = "time")
    <3>1. /\ in[1] = [kind |-> "basic", fmt |-> c.fmt, cs |-> c.msg.cs]
          /\ Fmt = c.fmt
          /\ c.fmt <= 2 /\ Len(in) >= 2 => in[2] = [kind |-> "time", val |-> c.stamp]
      BY <2>3, SeenIs
    <3>2. in[1].kind = "basic"
      BY <3>1
    <3> HIDE DEF Fmt
    <3> QED BY <3>1, <3>2
  <2> HIDE DEF HeaderKinds, HeaderDone, Wanted, HeadLen, Unit, Data, Extent
  <2>7. ASSUME NEW k \in 1..Lesser(Len(HeaderKinds), Len(in)) PROVE in[k].kind = HeaderKinds[k]
    <3>1. k \in 1..Len(in) /\ k <= HeadLen(c) /\ k \in 1..HeadLen(c)
      BY <1>1, <2>4, <2>5 DEF Lesser
    <3> QED BY <2>4, <2>5, <3>1
  <2>8. ASSUME HeaderDone, NEW k \in 1..Lesser(Wanted, Len(in) - Len(HeaderKinds))
        PROVE  in[Len(HeaderKinds) + k].kind = "data"
    <3>1. Wanted = c.n /\ Len(in) >= HeadLen(c)
      BY <2>3, <2>5, <2>8, HeaderRead
    <3>2. PICK i : i = HeadLen(c) + k
      OBVIOUS
    <3>3. k \in Nat \ {0} /\ k <= c.n /\ i \in 1..Len(in) /\ i <= Extent(c) /\ i > HeadLen(c)
      BY <1>1, <2>4, <2>5, <3>1, <3>2 DEF Lesser
    <3>4. in[i] = Unit(c, i)
      BY <2>3, <3>3 DEF Facing
    <3>5. Unit(c, i) = Data(c.msg, c.from + (i - HeadLen(c)))
      BY <3>3 DEF Unit
    <3> QED BY <1>2, <2>5, <3>2, <3>4, <3>5
  <2> QED BY <1>4, <2>6, <2>7, <2>8
<1> QED BY <1>1, <1>3, <1>4

\* A turn of the service loop.
LEMMA ServiceOK ==
  ASSUME Undisturbed, Typed, Roomy, NEW h, NEW a \in Nat, Explains(h, a),
         NEW verdict \in Verdicts, Service(verdict)
  PROVE  IndInv'
<1>1. verdict = "continue"
  BY DEF Undisturbed, NeverFails
<1>2. /\ in # <<>> /\ UNCHANGED <<sender, out>> /\ ~ControlSplit
      /\ Recv("continue") \/ RecvStarved \/ RecvPartial("continue")
  BY <1>1 DEF Service, Undisturbed
<1>3. CASE Recv("continue")
  BY <1>2, <1>3, RecvOK
<1>4. CASE RecvStarved
  BY <1>2, <1>4, StarvedOK
<1>5. CASE RecvPartial("continue")
  BY <1>2, <1>5, RecvPartialOK
<1> QED BY <1>2, <1>3, <1>4, <1>5
-----------------------------------------------------------------------------
(* The invariant holds initially, and every step preserves it. *)

Start == [at   |-> [cs \in Streams |-> Cell(NoMessage, 0, 0)],
          size |-> DefaultSize,
          time |-> [cs \in Streams |-> 0],
          done |-> [cs \in ChunkStream |-> <<>>]]
Outset == [n |-> 0, chunk |-> <<>>, view |-> [k \in {0} |-> Start], end |-> [k \in {0} |-> 0],
           wire |-> <<>>]

LEMMA StartOK ==
  ASSUME Undisturbed
  PROVE  /\ Start \in View /\ \A cs \in Streams : Start.time[cs] < Mark
         /\ \A cs \in ChunkStream : IsPrefixOf(Start.done[cs], Start.done[cs])
<1>1. Cell(NoMessage, 0, 0) \in Cells
  BY DEF Cell, Cells
<1>2. PICK z : z = <<>>
  OBVIOUS
<1>3. z \in Seq(Content) /\ IsPrefixOf(z, z)
  <2>1. z \in Seq(Content) /\ Len(z) = 0
    BY <1>2
  <2>2. SubSeq(z, 1, Len(z)) = z
    BY <2>1
  <2> QED BY <2>1, <2>2 DEF IsPrefixOf
<1>4. Start.done = [cs \in ChunkStream |-> z]
  BY <1>2 DEF Start
<1>5. Start.done \in [ChunkStream -> Seq(Content)]
  BY <1>3, <1>4
<1>6. Start = [at |-> Start.at, size |-> Start.size, time |-> Start.time, done |-> Start.done]
  BY DEF Start
<1>7. Start.at \in [Streams -> Cells] /\ Start.size = DefaultSize /\ Start.time \in [Streams -> Nat]
      /\ \A cs \in Streams : Start.time[cs] = 0
  BY <1>1 DEF Start
<1> HIDE DEF Start, Content, Cells, IsPrefixOf
<1>8. Start \in View
  BY <1>5, <1>6, <1>7 DEF View
<1>9. 0 < Mark
  BY DEF Undisturbed, TimesFit
<1> QED BY <1>3, <1>4, <1>7, <1>8, <1>9

LEMMA WhatNothing == What(<<>>) = <<>>
<1>1. PICK z : z = <<>>
  OBVIOUS
<1>2. z \in Seq({}) /\ Len(z) = 0 /\ DOMAIN z = {}
  BY <1>1
<1>3. What(z) = [k \in {} |-> z[k].what]
  BY <1>2 DEF What
<1>4. What(z) \in Seq({}) /\ Len(What(z)) = 0
  <2>1. What(z) = [k \in 1..0 |-> z[k].what]
    BY <1>3
  <2> QED BY <2>1
<1> QED BY <1>1, <1>2, <1>4, SeqEqual

LEMMA InitTyped ==
  ASSUME Init
  PROVE  Typed
<1>1. PICK z : z = <<>>
  OBVIOUS
<1>2. z \in Seq(Units) /\ Len(z) = 0 /\ z \in Messages
  BY <1>1 DEF Messages
<1>3. /\ staged = z /\ out = z /\ in = z /\ controlMessage = z
      /\ got = [cs \in ChunkStream |-> z] /\ delivered = [cs \in ChunkStream |-> z]
      /\ accepted = [cs \in ChunkStream |-> z]
  BY <1>1 DEF Init
<1>4. /\ cacheOut \in [Streams -> Headers] /\ cacheIn \in [Streams -> Entries]
  BY DEF Init, Blank, Headers, Entries, TypeNames
<1>5. /\ selfChunkSize = DefaultSize /\ peerChunkSize = DefaultSize /\ whole = FALSE
      /\ search = FALSE /\ partialChunk = 0 /\ paused = "never"
  BY DEF Init
<1>6. NoSend \in Calling /\ call = NoSend /\ pending = [cs \in ChunkStream |-> NoSend]
  <2>1. NoSend \in Calling
    BY DEF NoSend, Progress, Calling
  <2> QED BY <2>1 DEF Init
<1>7. Len(out) + Len(staged) <= OutSize /\ Len(in) <= InSize
  BY <1>2, <1>3, SizesOK
<1> HIDE DEF NoSend, Messages
<1>8. /\ staged \in Seq(Units) /\ out \in Seq(Units) /\ in \in Seq(Units)
      /\ controlMessage \in Seq(Units) /\ got \in [ChunkStream -> Seq(Units)]
      /\ delivered \in [ChunkStream -> Messages] /\ accepted \in [ChunkStream -> Messages]
  BY <1>2, <1>3
<1>9. call \in Calling /\ pending \in [ChunkStream -> Calling]
  BY <1>6
<1> QED BY <1>4, <1>5, <1>7, <1>8, <1>9 DEF Typed

LEMMA StartIs ==
  /\ Start.size = DefaultSize
  /\ \A cs \in Streams : /\ Start.at[cs].msg = NoMessage /\ Start.at[cs].written = 0
                         /\ Start.at[cs].left = 0 /\ Start.time[cs] = 0
  /\ \A cs \in ChunkStream : Start.done[cs] = <<>>
BY DEF Start, Cell

LEMMA InitExplained ==
  ASSUME Undisturbed, Init
  PROVE  Explains(Outset, 0)
<1>1. Outset.n = 0 /\ Outset.view[0] = Start /\ Outset.end[0] = 0
  BY DEF Outset
<1>2. PICK h : h = Outset
  OBVIOUS
<1>3. h.n = 0 /\ h.view[0] = Start /\ h.end[0] = 0 /\ h.view[h.n] = Start /\ h.end[h.n] = 0
  BY <1>1, <1>2
<1> HIDE DEF Outset, Start
<1>4. Traces(h)
  <2>1. Passed(h, 0)
    BY <1>3, StartOK DEF Passed
  <2>2. \A k \in 0..h.n : k = 0
    BY <1>3
  <2>3. \A k \in 1..h.n : FALSE
    BY <1>3
  <2> QED BY <1>3, <2>1, <2>2, <2>3 DEF Traces
<1>5. partialChunk = 0 /\ out = <<>> /\ in = <<>> /\ staged = <<>> /\ call = NoSend
  BY DEF Init
<1>6. Carries(h, 0)
  <2>1. Typed
    BY InitTyped
  <2>2. Len(InFlight) = 0
    <3>1. Len(InFlight) = (Len(in) + Len(out)) + Len(staged)
      BY <2>1, FlightIs
    <3>2. Len(in) = 0 /\ Len(out) = 0 /\ Len(staged) = 0
      BY <1>5
    <3> QED BY <3>1, <3>2
  <2>3. Gone(h, 0) = 0
    BY <1>3, <1>5 DEF Gone
  <2> HIDE DEF InFlight, Gone
  <2> QED BY <1>3, <1>5, <2>2, <2>3 DEF Carries
<1>7. Sends(Start)
  <2>1. ASSUME NEW cs \in Streams PROVE Emits(cacheOut[cs], Start, cs)
    <3>1. cacheOut[cs].time = 0 /\ ~cacheOut[cs].known
      BY DEF Init, Blank
    <3>2. 0 < Mark
      BY DEF Undisturbed, TimesFit
    <3>3. 0 \in Times => 0 <= Longest
      BY LongestOK
    <3> QED BY <3>1, <3>2, <3>3, StartIs DEF Emits
  <2>2. ASSUME NEW cs \in ChunkStream PROVE What(accepted[cs]) = Start.done[cs]
    <3>1. accepted[cs] = <<>>
      BY DEF Init
    <3>2. What(<<>>) = <<>>
      BY WhatNothing
    <3> QED BY <3>1, <3>2, StartIs
  <2>3. selfChunkSize = Start.size
    BY StartIs DEF Init
  <2>4. Drifts(Start)
    <3>1. begun = 0 /\ call = NoSend /\ MaxMessages \in Nat
      BY ChunkAssumption DEF Init
    <3>2. ~Fresh /\ Started = 0 /\ begun \in 0..MaxMessages
      BY <3>1 DEF Fresh, Started
    <3>3. 0 \in Times => Span(0) >= 0
      <4>1. 0 \in 0..MaxMessages
        BY <3>1
      <4> QED BY <4>1, SpanOK
    <3>4. \A cs \in Streams : cacheOut[cs].time = 0 /\ Start.time[cs] = 0
      BY StartIs DEF Init, Blank
    <3>5. ~Busy
      BY DEF Busy, Init, NoSend, Progress, NoMessage
    <3> QED BY <3>1, <3>2, <3>3, <3>4, <3>5 DEF Drifts
  <2> QED BY <2>1, <2>2, <2>3, <2>4 DEF Sends
<1>8. Calls(Start)
  <2>1. \A cs \in ChunkStream : pending[cs] = NoSend
    BY DEF Init
  <2>2. ASSUME NEW cs \in Streams PROVE ~(Start.at[cs].left > 0)
    <3>1. Start.at[cs].left = 0
      BY StartIs
    <3> QED BY <3>1
  <2> QED BY <1>5, <2>1, <2>2 DEF Calls
<1>9. Receives(h, 0)
  <2>1. ASSUME NEW cs \in Streams
        PROVE  Knows(cacheIn[cs], Start, cs, {}) /\ Store(cs) = Collected(Start.at[cs])
    <3>1. cacheIn[cs] = [time |-> 0, len |-> 0, type |-> "none", sid |-> 0, processed |-> 0]
      BY DEF Init
    <3>2. Knows(cacheIn[cs], Start, cs, {})
      BY <3>1, StartIs, NoMessageOK DEF Knows
    <3>3. cs # Control => cs \in ChunkStream
      BY SizesOK
    <3>4. Store(cs) = <<>>
      BY <3>3 DEF Init, Store
    <3> QED BY <3>2, <3>4, StartIs DEF Collected
  <2>2. ASSUME NEW cs \in ChunkStream PROVE What(delivered[cs]) = Start.done[cs]
    <3>1. delivered[cs] = <<>>
      BY DEF Init
    <3>2. What(<<>>) = <<>>
      BY WhatNothing
    <3> QED BY <3>1, <3>2, StartIs
  <2>3. peerChunkSize = Start.size
    BY StartIs DEF Init
  <2>4. Bounded
    <3>1. Len(controlMessage) = 0
      BY DEF Init
    <3>2. partialChunk = 0 /\ peerChunkSize = DefaultSize
      BY DEF Init
    <3> QED BY <3>1, <3>2, SizesOK DEF Bounded
  <2>5. Hears(Start, {})
    BY <2>1, <2>2, <2>3, <2>4 DEF Hears
  <2>6. Upcoming(h, 0) = {}
    BY <1>3 DEF Upcoming
  <2> QED BY <1>3, <1>5, <2>5, <2>6 DEF Receives
<1> QED BY <1>2, <1>3, <1>4, <1>6, <1>7, <1>8, <1>9 DEF Explains

LEMMA InitOK ==
  ASSUME Undisturbed, Init
  PROVE  IndInv
<1>1. Typed
  BY InitTyped
<1>2. Roomy
  BY DEF Init, Roomy
<1>3. Explains(Outset, 0)
  BY InitExplained
<1> QED BY <1>1, <1>2, <1>3 DEF IndInv

LEMMA StepOK ==
  ASSUME Undisturbed, IndInv, [Next]_vars
  PROVE  IndInv'
<1>1. Typed /\ Roomy
  BY DEF IndInv
<1>2. PICK h : \E a \in Nat : Explains(h, a)
  BY DEF IndInv
<1>3. PICK a \in Nat : Explains(h, a)
  BY <1>2
<1>4. CASE \E m \in Message, all \in BOOLEAN : Send(m, all)
  BY <1>1, <1>3, <1>4, SendOK
<1>5. CASE \E m \in ControlMessage : SendControl(m)
  BY <1>1, <1>3, <1>5, SendControlOK
<1>6. CASE \E cs \in ChunkStream : Resume(cs)
  BY <1>1, <1>3, <1>6, ResumeOK
<1>7. CASE WriteChunk
  BY <1>1, <1>3, <1>7, WriteOK
<1>8. CASE NoRoom
  BY <1>1, <1>3, <1>8, NoRoomOK
<1>9. CASE Carry
  BY <1>1, <1>3, <1>9, CarryOK
<1>10. CASE \E verdict \in Verdicts : Service(verdict)
  BY <1>1, <1>3, <1>10, ServiceOK
<1>11. CASE Pause \/ Unpause
  BY <1>1, <1>3, <1>11, PauseOK
<1>12. CASE UNCHANGED vars
  <2>1. UNCHANGED <<sender, receiver, out, in>>
    BY <1>12 DEF vars
  <2>2. Typed'
    BY <1>1, <2>1 DEF Typed, sender, receiver
  <2>3. PICK R : R = h.view[h.n]
    OBVIOUS
  <2>4. Sends(R) /\ Calls(R)
    BY <1>3, <2>3 DEF Explains
  <2>5. Roomy' /\ Sends(R)' /\ Calls(R)'
    BY <1>1, <2>1, <2>4, SenderSame
  <2>6. InFlight' = InFlight
    BY <2>1 DEF InFlight, sender
  <2>7. UNCHANGED Heard
    BY <2>1, HeardIs
  <2> QED BY <1>3, <2>2, <2>3, <2>5, <2>6, <2>7, Kept
<1> QED BY <1>4, <1>5, <1>6, <1>7, <1>8, <1>9, <1>10, <1>11, <1>12 DEF Next
-----------------------------------------------------------------------------
(* The theorems. *)

LEMMA Invariance == Undisturbed => (Spec => []IndInv)
<1> SUFFICES ASSUME Undisturbed PROVE Spec => []IndInv
  OBVIOUS
<1>1. Init => IndInv
  BY InitOK
<1>2. IndInv /\ [Next]_vars => IndInv'
  BY StepOK
<1> QED BY <1>1, <1>2, PTL DEF Spec

\* In either case the receiver hears something.
LEMMA HearsSomething ==
  ASSUME NEW h, NEW a, Receives(h, a)
  PROVE  \E R, S : Hears(R, S)
BY DEF Receives

\* TypeOK: neither buffer overflows, no send runs past its message, what is to
\* come of a message or a chunk never exceeds its length or the chunk size.  The
\* last is so because Orderly, a part of Undisturbed, keeps messages without a
\* chunk stream of their own from starting over an unfinished one (ChunkZero.cfg).
THEOREM TypeCorrect == Undisturbed => (Spec => []TypeOK)
<1>1. IndInv => TypeOK
  <2> SUFFICES ASSUME IndInv PROVE TypeOK
    OBVIOUS
  <2>1. Typed
    BY DEF IndInv
  <2>2. PICK h : \E a \in Nat : Explains(h, a)
    BY DEF IndInv
  <2>3. PICK a \in Nat : Explains(h, a)
    BY <2>2
  <2>4. PICK R : Calls(R)
    BY <2>3 DEF Explains
  <2>5. PICK V : \E S : Hears(V, S)
    BY <2>3, HearsSomething DEF Explains
  <2>6. \A cs \in Streams : cacheOut[cs].type \in Types \cup {"none", "chunk_size", "abort"}
    BY <2>1 DEF Typed, Headers, TypeNames
  <2>7. \A cs \in Streams : cacheIn[cs].processed \in 0..cacheIn[cs].len
    <3> SUFFICES ASSUME NEW cs \in Streams PROVE cacheIn[cs].processed \in 0..cacheIn[cs].len
      OBVIOUS
    <3>1. cacheIn[cs].processed \in Nat /\ cacheIn[cs].len \in Nat
      BY <2>1 DEF Typed, Entries
    <3>2. cacheIn[cs].processed <= cacheIn[cs].len
      BY <2>5 DEF Hears, Knows
    <3> QED BY <3>1, <3>2
  <2>8. call.written \in 0..call.msg.len
    <3>1. CASE call = NoSend
      BY <3>1 DEF NoSend, Progress, NoMessage
    <3>2. CASE call # NoSend
      <4>1. call.msg \in Any /\ call.written < call.msg.len
        BY <2>4, <3>2 DEF Calls
      <4>2. call.written \in Nat /\ call.msg.len \in Nat
        BY <2>1, <4>1, AnyOK DEF Typed, Calling
      <4> QED BY <4>1, <4>2
    <3> QED BY <3>1, <3>2
  <2>9. partialChunk \in 0..peerChunkSize /\ Len(controlMessage) < ControlLength
    <3>1. Bounded
      BY <2>5 DEF Hears
    <3>2. partialChunk \in Nat /\ peerChunkSize \in Nat
      BY <2>1, SizesOK DEF Typed
    <3> QED BY <3>1, <3>2 DEF Bounded
  <2>10. /\ selfChunkSize \in Sizes \cup {DefaultSize} /\ peerChunkSize \in Sizes \cup {DefaultSize}
         /\ Len(out) + Len(staged) <= OutSize /\ Len(in) <= InSize
         /\ paused \in {"never", "yes", "over"}
    BY <2>1 DEF Typed
  <2> QED BY <2>6, <2>7, <2>8, <2>9, <2>10 DEF TypeOK
<1> SUFFICES ASSUME Undisturbed PROVE Spec => []TypeOK
  OBVIOUS
<1> QED BY <1>1, Invariance, PTL

\* Aligned: wherever the input ends but right behind the header of a control
\* chunk, the receiver reads the next header as the fields rtmp_chunk_emit_hdr
\* wrote, for chunk stream 0 included, and takes for payload what is payload.
THEOREM HeadersRead == Undisturbed => (Spec => []Aligned)
<1>1. IndInv => Aligned
  BY AlignedOK DEF IndInv
<1> SUFFICES ASSUME Undisturbed PROVE Spec => []Aligned
  OBVIOUS
<1> QED BY <1>1, Invariance, PTL

\* Nothing is under way: the receiver stands at the sender's view.
LEMMA QuietIs ==
  ASSUME Typed, NEW h, NEW a \in Nat, Explains(h, a), out = <<>>, in = <<>>, call = NoSend
  PROVE  partialChunk = 0 /\ Hears(h.view[h.n], {})
<1>1. Traces(h) /\ Carries(h, a) /\ Calls(h.view[h.n]) /\ Receives(h, a)
  BY DEF Explains
<1>2. staged = <<>>
  BY <1>1 DEF Calls
<1>3. Len(InFlight) = 0
  <2>1. Len(InFlight) = (Len(in) + Len(out)) + Len(staged)
    BY FlightIs
  <2>2. Len(in) = 0 /\ Len(out) = 0 /\ Len(staged) = 0
    BY <1>2
  <2> QED BY <2>1, <2>2
<1>4. /\ Gone(h, a) = h.end[a] - partialChunk /\ a \in 0..h.n /\ h.n \in Nat
      /\ h.end[a] \in Nat /\ partialChunk \in Nat /\ h.end[h.n] \in Nat
  BY InIs
<1>5. Len(InFlight) = h.end[h.n] - Gone(h, a)
  BY <1>1 DEF Carries
<1>6. h.end[a] <= h.end[h.n]
  BY <1>1, <1>4, TracesOK
<1> HIDE DEF InFlight, Gone
<1>7. partialChunk = 0 /\ h.end[a] = h.end[h.n]
  BY <1>3, <1>4, <1>5, <1>6
<1>8. a = h.n
  <2> SUFFICES ASSUME a # h.n PROVE FALSE
    OBVIOUS
  <2>1. a + 1 \in 1..h.n /\ a + 1 \in 0..h.n /\ (a + 1) - 1 = a
    BY <1>4
  <2>2. /\ h.end[a + 1] = h.end[a] + Extent(h.chunk[a + 1])
        /\ Follows(h.view[a], h.chunk[a + 1])
    <3>1. Traced(h, a + 1)
      BY <1>1, <2>1 DEF Traces
    <3> QED BY <2>1, <3>1 DEF Traced
  <2>3. h.end[a + 1] <= h.end[h.n] /\ h.view[a] \in View
    BY <1>1, <1>4, <2>1, TracesOK
  <2>4. Extent(h.chunk[a + 1]) \in Nat \ {0}
    BY <2>2, <2>3, FollowsOK, ExtentOK
  <2> HIDE DEF Extent
  <2> QED BY <1>4, <1>7, <2>2, <2>3, <2>4
<1>9. Hears(h.view[a], Upcoming(h, a))
  BY <1>1, <1>7 DEF Receives
<1>10. Upcoming(h, a) = {}
  BY <1>4, <1>8 DEF Upcoming
<1> QED BY <1>7, <1>8, <1>9, <1>10

\* AgreeWhenQuiet: once all output is consumed both ends have the same chunk
\* size and the same headers to compress against, and the receiver waits for the
\* rest of exactly those messages that the sender has yet to resume.  A message
\* for chunk stream 0 clears the entry of Fourth at the sender: Orderly keeps it
\* from doing so while a message on Fourth has yet to be resumed.
THEOREM EndsAgree == Undisturbed => (Spec => []AgreeWhenQuiet)
<1>1. IndInv => AgreeWhenQuiet
  <2> SUFFICES ASSUME IndInv, out = <<>>, in = <<>>, call = NoSend
               PROVE  /\ peerChunkSize = selfChunkSize
                      /\ partialChunk = 0
                      /\ controlMessage = <<>>
                      /\ \A cs \in Streams : cacheOut[cs].known =>
                           /\ cacheIn[cs].len = cacheOut[cs].len
                           /\ cacheIn[cs].type = cacheOut[cs].type
                           /\ cacheIn[cs].sid = cacheOut[cs].sid
                      /\ \A cs \in ChunkStream :
                           (cacheIn[cs].processed > 0) = (pending[cs] # NoSend /\ pending[cs].written > 0)
    BY DEF AgreeWhenQuiet
  <2>1. Typed
    BY DEF IndInv
  <2>2. PICK h : \E a \in Nat : Explains(h, a)
    BY DEF IndInv
  <2>3. PICK a \in Nat : Explains(h, a)
    BY <2>2
  <2>4. PICK R : R = h.view[h.n]
    OBVIOUS
  <2>5. partialChunk = 0 /\ Hears(R, {})
    BY <2>1, <2>3, <2>4, QuietIs
  <2>6. Sends(R) /\ Calls(R)
    BY <2>3, <2>4 DEF Explains
  <2>7. R \in View
    BY <2>3, <2>4, TracesOK DEF Explains
  <2>8. /\ peerChunkSize = R.size
        /\ \A cs \in Streams : Knows(cacheIn[cs], R, cs, {}) /\ Store(cs) = Collected(R.at[cs])
    BY <2>5 DEF Hears
  <2>9. peerChunkSize = selfChunkSize
    BY <2>6, <2>8 DEF Sends
  <2>10. \A cs \in Streams : R.at[cs].left \in Nat
    BY <2>7 DEF View, Cells
  <2>11. controlMessage = <<>>
    <3>1. Control \in Streams /\ Control \notin ChunkStream
      BY SizesOK
    <3>2. ~(R.at[Control].left > 0)
      BY <2>6, <3>1 DEF Calls, Sending
    <3>3. R.at[Control].left = 0
      BY <2>10, <3>1, <3>2
    <3>4. Store(Control) = controlMessage
      BY DEF Store
    <3> QED BY <2>8, <3>1, <3>3, <3>4 DEF Collected
  <2>12. ASSUME NEW cs \in Streams, cacheOut[cs].known
         PROVE  /\ cacheIn[cs].len = cacheOut[cs].len
                /\ cacheIn[cs].type = cacheOut[cs].type
                /\ cacheIn[cs].sid = cacheOut[cs].sid
    <3>1. Emits(cacheOut[cs], R, cs)
      BY <2>6 DEF Sends
    <3>2. Knows(cacheIn[cs], R, cs, {})
      BY <2>8
    <3> QED BY <2>12, <3>1, <3>2 DEF Emits, Knows
  <2>13. ASSUME NEW cs \in ChunkStream
         PROVE  (cacheIn[cs].processed > 0) = (pending[cs] # NoSend /\ pending[cs].written > 0)
    <3>1. cs \in Streams
      BY SizesOK
    <3>2. cacheIn[cs].processed = R.at[cs].left /\ R.at[cs].left \in Nat
      BY <2>8, <2>10, <3>1 DEF Knows
    <3>3. CASE pending[cs] # NoSend
      <4>1. Halfway(R, pending[cs], cs)
        BY <2>6, <3>3 DEF Calls
      <4>2. PICK p : p = pending[cs]
        OBVIOUS
      <4>3. /\ p.msg \in Any /\ p.written \in 1..(p.msg.len - 1)
            /\ R.at[cs] = Cell(p.msg, p.written, p.msg.len - p.written)
        BY <4>1, <4>2 DEF Halfway
      <4>4. R.at[cs].left = p.msg.len - p.written /\ p.msg.len \in Nat
        BY <4>3, AnyOK DEF Cell
      <4>5. R.at[cs].left > 0 /\ p.written > 0
        BY <4>3, <4>4
      <4> QED BY <3>2, <3>3, <4>2, <4>5
    <3>4. CASE pending[cs] = NoSend
      <4>1. ~(R.at[cs].left > 0)
        BY <2>6, <3>1, <3>4 DEF Calls, Sending
      <4> QED BY <3>2, <3>4, <4>1
    <3> QED BY <3>3, <3>4
  <2> QED BY <2>5, <2>9, <2>11, <2>12, <2>13
<1> SUFFICES ASSUME Undisturbed PROVE Spec => []AgreeWhenQuiet
  OBVIOUS
<1> QED BY <1>1, Invariance, PTL

\* What was handed over is the beginning of what was accepted.
LEMMA ArrivedOK ==
  ASSUME NEW h, NEW a \in Nat, Explains(h, a), Typed
  PROVE  MessagesArriveAsSent
<1> SUFFICES ASSUME NEW cs \in ChunkStream
             PROVE  IsPrefixOf(What(delivered[cs]), What(accepted[cs]))
  BY DEF MessagesArriveAsSent
<1>1. Traces(h) /\ Receives(h, a) /\ Sends(h.view[h.n])
  BY DEF Explains
<1>2. What(accepted[cs]) = h.view[h.n].done[cs]
  BY <1>1 DEF Sends
<1>3. a \in 0..h.n /\ h.n \in Nat /\ partialChunk \in Nat
  BY InIs
<1>4. \A k \in 0..h.n : IsPrefixOf(h.view[k].done[cs], h.view[h.n].done[cs])
  BY <1>1 DEF Traces, Passed
<1>5. CASE partialChunk = 0
  <2>1. What(delivered[cs]) = h.view[a].done[cs]
    BY <1>1, <1>5 DEF Receives, Hears
  <2> HIDE DEF What, IsPrefixOf
  <2> QED BY <1>2, <1>3, <1>4, <2>1
<1>6. CASE partialChunk # 0
  <2>1. a > 0 /\ Hears(Begun(h.view[a - 1], h.chunk[a], partialChunk), {})
    BY <1>1, <1>6 DEF Receives
  <2>2. What(delivered[cs]) = Begun(h.view[a - 1], h.chunk[a], partialChunk).done[cs]
    BY <2>1 DEF Hears
  <2>3. What(delivered[cs]) = h.view[a - 1].done[cs]
    BY <2>2 DEF Begun
  <2>4. a - 1 \in 0..h.n
    BY <1>3, <2>1
  <2> HIDE DEF What, IsPrefixOf
  <2> QED BY <1>2, <1>4, <2>3, <2>4
<1> QED BY <1>5, <1>6

LEMMA Arrived == IndInv => MessagesArriveAsSent
BY ArrivedOK DEF IndInv

\* MessagesArriveAsSent: the callback is given whole messages, in the order they
\* were sent, none twice, none skipped, none that was rolled back or aborted,
\* provided that the sender never sends for chunk stream 0 over an unfinished
\* message on Fourth (Orderly; ChunkZero.cfg shows what happens otherwise).
THEOREM MessagesArrive == Undisturbed => (Spec => []MessagesArriveAsSent)
<1>1. IndInv => MessagesArriveAsSent
  BY Arrived
<1> SUFFICES ASSUME Undisturbed PROVE Spec => []MessagesArriveAsSent
  OBVIOUS
<1> QED BY <1>1, Invariance, PTL
-----------------------------------------------------------------------------
(* The connection implements MessageChannel. *)

\* What MessageChannel calls queue and delivered.
Waiting == [cs \in ChunkStream |-> Rest(What(accepted[cs]), Len(delivered[cs]))]
Handed == [cs \in ChunkStream |-> What(delivered[cs])]

LEMMA RestMore ==
  ASSUME NEW S, NEW s \in Seq(S), NEW n \in Nat, n <= Len(s), NEW x \in S
  PROVE  Rest(Append(s, x), n) = Append(Rest(s, n), x)
<1>1. PICK t : t = Append(s, x)
  OBVIOUS
<1>2. PICK q \in Nat : q = Len(s) - n
  OBVIOUS
<1>3. /\ t \in Seq(S) /\ Len(t) = Len(s) + 1
      /\ \A k \in 1..Len(s) : t[k] = s[k]
      /\ t[Len(s) + 1] = x
  BY <1>1
<1>4. PICK l : l = Rest(t, n)
  OBVIOUS
<1>5. /\ l \in Seq(S) /\ Len(l) = Len(t) - n
      /\ \A k \in 1..(Len(t) - n) : l[k] = t[n + k]
  <2>1. n <= Len(t)
    BY <1>3
  <2>2. t \in Seq(S)
    BY <1>3
  <2>3. /\ Rest(t, n) \in Seq(S) /\ Len(Rest(t, n)) = Len(t) - n
        /\ \A k \in 1..(Len(t) - n) : Rest(t, n)[k] = t[n + k]
    BY <2>1, <2>2, RestIs
  <2> HIDE DEF Rest
  <2> QED BY <1>4, <2>3
<1>6. PICK f : f = Rest(s, n)
  OBVIOUS
<1>7. /\ f \in Seq(S) /\ Len(f) = q
      /\ \A k \in 1..q : f[k] = s[n + k]
  BY <1>2, <1>6, RestIs
<1>8. PICK r : r = Append(f, x)
  OBVIOUS
<1>9. /\ r \in Seq(S) /\ Len(r) = q + 1
      /\ \A k \in 1..q : r[k] = f[k]
      /\ r[q + 1] = x
  BY <1>7, <1>8
<1>10. Len(l) = q + 1
  BY <1>2, <1>3, <1>5
<1>11. ASSUME NEW k \in 1..q PROVE l[k] = r[k]
  <2>1. k \in 1..(Len(t) - n) /\ n + k \in 1..Len(s)
    BY <1>2, <1>3
  <2>2. l[k] = t[n + k] /\ t[n + k] = s[n + k]
    BY <1>3, <1>5, <2>1
  <2> QED BY <1>7, <1>9, <2>2
<1>12. l[q + 1] = r[q + 1]
  <2>1. q + 1 \in 1..(Len(t) - n) /\ n + (q + 1) = Len(s) + 1
    BY <1>2, <1>3
  <2> QED BY <1>3, <1>5, <1>9, <2>1
<1>13. l = r
  <2>1. \A k \in 1..(q + 1) : k \in 1..q \/ k = q + 1
    OBVIOUS
  <2>2. \A k \in 1..(q + 1) : l[k] = r[k]
    BY <1>11, <1>12, <2>1
  <2> QED BY <1>5, <1>9, <1>10, <2>2
<1> QED BY <1>1, <1>4, <1>6, <1>8, <1>13

LEMMA RestNext ==
  ASSUME NEW S, NEW s \in Seq(S), NEW n \in Nat, n < Len(s)
  PROVE  /\ Rest(s, n) # <<>> /\ Head(Rest(s, n)) = s[n + 1]
         /\ Tail(Rest(s, n)) = Rest(s, n + 1)
<1> DEFINE l == Rest(s, n)  r == Rest(s, n + 1)
<1>1. /\ l \in Seq(S) /\ Len(l) = Len(s) - n
      /\ \A k \in 1..(Len(s) - n) : l[k] = s[n + k]
  BY RestIs
<1>2. /\ r \in Seq(S) /\ Len(r) = Len(s) - (n + 1)
      /\ \A k \in 1..(Len(s) - (n + 1)) : r[k] = s[n + 1 + k]
  BY RestIs
<1> HIDE DEF l, r
<1>3. l # <<>> /\ Head(l) = s[n + 1]
  BY <1>1
<1>4. /\ Tail(l) \in Seq(S) /\ Len(Tail(l)) = Len(l) - 1
      /\ \A k \in 1..(Len(l) - 1) : Tail(l)[k] = l[k + 1]
  BY <1>1, <1>3
<1>5. PICK q \in Nat : q = Len(s) - (n + 1)
  <2>1. Len(s) \in Nat
    OBVIOUS
  <2>2. Len(s) - (n + 1) \in Nat
    BY <2>1
  <2> QED BY <2>2
<1>6. PICK t : t = Tail(l)
  OBVIOUS
<1>7. /\ t \in Seq(S) /\ Len(t) = q
      /\ \A k \in 1..q : t[k] = l[k + 1]
  BY <1>1, <1>4, <1>5, <1>6
<1>8. ASSUME NEW k \in 1..q PROVE t[k] = r[k]
  <2>1. k + 1 \in 1..(Len(s) - n) /\ n + (k + 1) = n + 1 + k
    BY <1>5
  <2>2. l[k + 1] = s[n + (k + 1)] /\ r[k] = s[n + 1 + k]
    BY <1>1, <1>2, <1>5, <2>1
  <2> QED BY <1>7, <2>1, <2>2
<1>9. t = r
  <2>1. Len(t) = q /\ Len(r) = q /\ t \in Seq(S) /\ r \in Seq(S)
    BY <1>2, <1>5, <1>7
  <2> QED BY <1>8, <2>1
<1> QED BY <1>3, <1>6, <1>9 DEF l, r

\* What a message is to MessageChannel.
LEMMA WhatOK ==
  ASSUME NEW s \in Messages
  PROVE  /\ What(s) \in Seq(Content) /\ Len(What(s)) = Len(s)
         /\ \A k \in 1..Len(s) : What(s)[k] = s[k].what
<1>1. s \in Seq([what : Content, time : Nat])
  BY DEF Messages
<1>2. DOMAIN s = 1..Len(s) /\ Len(s) \in Nat
  BY <1>1
<1>3. ASSUME NEW k \in 1..Len(s) PROVE s[k].what \in Content
  <2>1. s[k] \in [what : Content, time : Nat]
    <3> DEFINE E == [what : Content, time : Nat]
    <3>1. s \in Seq(E)
      BY <1>1
    <3> HIDE DEF E
    <3>2. s[k] \in E
      BY <3>1
    <3> QED BY <3>2 DEF E
  <2> HIDE DEF Content
  <2> QED BY <2>1
<1>4. PICK f : f = [k \in 1..Len(s) |-> s[k].what]
  OBVIOUS
<1>5. f \in Seq(Content) /\ Len(f) = Len(s) /\ \A k \in 1..Len(s) : f[k] = s[k].what
  <2> HIDE DEF Content
  <2> QED BY <1>2, <1>3, <1>4
<1>6. f = What(s)
  BY <1>2, <1>4 DEF What
<1> QED BY <1>5, <1>6

\* A send is complete, and the queue is longer by its message.
LEMMA AcceptOK ==
  ASSUME NEW cs \in ChunkStream, NEW x \in [what : Content, time : Nat], Typed,
         MessagesArriveAsSent, delivered' = delivered,
         accepted' = [accepted EXCEPT ![cs] = Append(@, x)]
  PROVE  /\ Waiting' = [Waiting EXCEPT ![cs] = Append(@, x.what)]
         /\ Handed' = Handed
<1>1. accepted \in [ChunkStream -> Messages] /\ delivered \in [ChunkStream -> Messages]
  BY DEF Typed
<1>2. PICK w : w = x.what
  OBVIOUS
<1>3. w \in Content
  BY <1>2
<1>4. What(accepted'[cs]) = Append(What(accepted[cs]), w)
  <2>1. accepted'[cs] = Append(accepted[cs], x) /\ accepted[cs] \in Messages
    BY <1>1
  <2>2. What(Append(accepted[cs], x)) = Append(What(accepted[cs]), x.what)
    BY <2>1 DEF What, Messages
  <2> QED BY <1>2, <2>1, <2>2
<1>5. PICK s : s = What(accepted[cs])
  OBVIOUS
<1>6. PICK n : n = Len(delivered[cs])
  OBVIOUS
<1>7. s \in Seq(Content) /\ n \in Nat /\ n <= Len(s)
  <2>1. accepted[cs] \in Messages /\ delivered[cs] \in Messages
    BY <1>1
  <2>2. Len(What(delivered[cs])) = n
    BY <1>6, <2>1, WhatOK
  <2>3. s \in Seq(Content)
    BY <1>5, <2>1, WhatOK
  <2>4. IsPrefixOf(What(delivered[cs]), s)
    BY <1>5 DEF MessagesArriveAsSent
  <2>5. n \in Nat
    BY <1>6, <2>1 DEF Messages
  <2> QED BY <2>2, <2>3, <2>4, <2>5 DEF IsPrefixOf
<1>8. Rest(Append(s, w), n) = Append(Rest(s, n), w)
  BY <1>3, <1>7, RestMore
<1>9. Handed' = Handed
  BY DEF Handed
<1>10. \A d \in ChunkStream : d # cs => accepted'[d] = accepted[d]
  BY <1>1
<1> HIDE DEF What, Rest
<1>11. Waiting'[cs] = Append(Waiting[cs], w)
  BY <1>4, <1>5, <1>6, <1>8 DEF Waiting
<1>12. ASSUME NEW d \in ChunkStream, d # cs PROVE Waiting'[d] = Waiting[d]
  BY <1>10, <1>12 DEF Waiting
<1>13. Waiting' = [Waiting EXCEPT ![cs] = Append(@, w)]
  <2>1. Waiting = [d \in ChunkStream |-> Waiting[d]] /\ Waiting' = [d \in ChunkStream |-> Waiting'[d]]
    BY DEF Waiting
  <2> HIDE DEF Waiting
  <2> QED BY <1>11, <1>12, <2>1
<1> QED BY <1>2, <1>9, <1>13

\* A message is handed over: it is the first of the queue.
LEMMA HandOK ==
  ASSUME NEW cs \in ChunkStream, NEW x, Typed, Typed', MessagesArriveAsSent',
         accepted' = accepted, delivered' = [delivered EXCEPT ![cs] = Append(@, x)]
  PROVE  /\ Waiting[cs] # <<>>
         /\ Waiting' = [Waiting EXCEPT ![cs] = Tail(@)]
         /\ Handed' = [Handed EXCEPT ![cs] = Append(@, Head(Waiting[cs]))]
<1>1. /\ accepted \in [ChunkStream -> Messages] /\ delivered \in [ChunkStream -> Messages]
      /\ delivered' \in [ChunkStream -> Messages]
  BY DEF Typed
<1>2. PICK s : s = What(accepted[cs])
  OBVIOUS
<1>3. PICK D : D = delivered[cs]
  OBVIOUS
<1>4. PICK E : E = delivered'[cs]
  OBVIOUS
<1>5. D \in Messages /\ E \in Messages /\ s \in Seq(Content)
  <2>1. accepted[cs] \in Messages
    BY <1>1
  <2> QED BY <1>1, <1>2, <1>3, <1>4, <2>1, WhatOK
<1>6. E = Append(D, x)
  BY <1>1, <1>3, <1>4
<1>7. PICK n \in Nat : n = Len(D)
  <2>1. D \in Messages
    BY <1>5
  <2>2. Len(D) \in Nat
    BY <2>1, LenProperties DEF Messages
  <2> QED BY <2>2
<1>8. Len(E) = n + 1 /\ \A k \in 1..n : E[k] = D[k]
  <2> DEFINE T == [what : Content, time : Nat] \cup {x}
  <2>1. D \in Seq(T)
    <3> DEFINE S == [what : Content, time : Nat]
    <3>1. D \in Seq(S) /\ S \subseteq T
      BY <1>5 DEF Messages
    <3> HIDE DEF S, T
    <3>2. DOMAIN D = 1..Len(D) /\ Len(D) \in Nat /\ \A k \in 1..Len(D) : D[k] \in S
      BY <3>1
    <3>3. D = [k \in 1..Len(D) |-> D[k]] /\ \A k \in 1..Len(D) : D[k] \in T
      BY <3>1, <3>2
    <3> QED BY <3>2, <3>3
  <2>2. x \in T
    OBVIOUS
  <2> HIDE DEF T
  <2> QED BY <1>6, <1>7, <2>1, <2>2
<1>9. PICK d : d = What(D)
  OBVIOUS
<1>10. PICK e : e = What(E)
  OBVIOUS
<1>11. /\ d \in Seq(Content) /\ Len(d) = n /\ \A k \in 1..n : d[k] = D[k].what
       /\ e \in Seq(Content) /\ Len(e) = n + 1 /\ \A k \in 1..(n + 1) : e[k] = E[k].what
  BY <1>5, <1>7, <1>8, <1>9, <1>10, WhatOK
<1>12. n + 1 <= Len(s) /\ e = SubSeq(s, 1, n + 1)
  <2>1. IsPrefixOf(What(delivered'[cs]), What(accepted'[cs]))
    BY DEF MessagesArriveAsSent
  <2>2. IsPrefixOf(e, s)
    <3> HIDE DEF IsPrefixOf, What
    <3> QED BY <1>2, <1>4, <1>10, <2>1
  <2> QED BY <1>11, <2>2 DEF IsPrefixOf
<1>13. e[n + 1] = s[n + 1]
  BY <1>5, <1>12
<1>14. e = Append(d, s[n + 1])
  <2>1. PICK w \in Content : w = s[n + 1]
    BY <1>5, <1>12
  <2>2. PICK f : f = Append(d, w)
    OBVIOUS
  <2>3. f \in Seq(Content) /\ Len(f) = n + 1 /\ f[n + 1] = w /\ \A k \in 1..n : f[k] = d[k]
    BY <1>11, <2>2
  <2>4. \A k \in 1..(n + 1) : k \in 1..n \/ k = n + 1
    OBVIOUS
  <2>5. \A k \in 1..n : e[k] = d[k]
    BY <1>8, <1>11
  <2>6. \A k \in 1..(n + 1) : e[k] = f[k]
    BY <1>13, <2>1, <2>3, <2>4, <2>5
  <2>7. e = f
    BY <1>11, <2>3, <2>6
  <2> QED BY <2>1, <2>2, <2>7
<1>15. /\ Rest(s, n) # <<>> /\ Head(Rest(s, n)) = s[n + 1]
       /\ Tail(Rest(s, n)) = Rest(s, n + 1)
  BY <1>5, <1>12, RestNext
<1>16. Waiting[cs] = Rest(s, n)
  BY <1>2, <1>3, <1>7 DEF Waiting
<1>17. Waiting'[cs] = Rest(s, n + 1)
  BY <1>2, <1>4, <1>8 DEF Waiting
<1>18. Handed[cs] = d /\ Handed'[cs] = e
  BY <1>3, <1>4, <1>9, <1>10 DEF Handed
<1>19. ASSUME NEW c \in ChunkStream, c # cs
       PROVE  Waiting'[c] = Waiting[c] /\ Handed'[c] = Handed[c]
  <2>1. delivered'[c] = delivered[c] /\ accepted'[c] = accepted[c]
    BY <1>1, <1>19
  <2> HIDE DEF What, Rest
  <2>2. Handed'[c] = Handed[c]
    BY <2>1 DEF Handed
  <2>3. /\ Waiting'[c] = Rest(What(accepted'[c]), Len(delivered'[c]))
        /\ Waiting[c] = Rest(What(accepted[c]), Len(delivered[c]))
    BY DEF Waiting
  <2> QED BY <2>1, <2>2, <2>3
<1>20. /\ Waiting = [c \in ChunkStream |-> Waiting[c]] /\ Waiting' = [c \in ChunkStream |-> Waiting'[c]]
       /\ Handed = [c \in ChunkStream |-> Handed[c]] /\ Handed' = [c \in ChunkStream |-> Handed'[c]]
  BY DEF Waiting, Handed
<1> HIDE DEF Waiting, Handed
<1>21. Waiting' = [Waiting EXCEPT ![cs] = Tail(@)]
  BY <1>15, <1>16, <1>17, <1>19, <1>20
<1>22. Handed' = [Handed EXCEPT ![cs] = Append(@, Head(Waiting[cs]))]
  BY <1>14, <1>15, <1>16, <1>18, <1>19, <1>20
<1> QED BY <1>15, <1>16, <1>21, <1>22

\* What Next does to the two histories: it takes all of a message, hands one
\* over, or leaves both alone.
LEMMA Histories ==
  ASSUME Typed, [Next]_vars, call # NoSend => call.msg \in Any
  PROVE  \/ accepted' = accepted /\ delivered' = delivered
         \/ \E cs \in ChunkStream, x \in [what : Content, time : Nat] :
              /\ delivered' = delivered
              /\ accepted' = [accepted EXCEPT ![cs] = Append(@, x)]
         \/ \E cs \in ChunkStream : \E x :
              /\ accepted' = accepted
              /\ delivered' = [delivered EXCEPT ![cs] = Append(@, x)]
<1>1. ASSUME NEW m, NEW n, NEW all, Call(m, n, all) PROVE accepted' = accepted /\ delivered' = delivered
  BY <1>1 DEF Call, receiver
<1>2. ASSUME NEW m, NEW all, Send(m, all) PROVE accepted' = accepted /\ delivered' = delivered
  BY <1>1, <1>2 DEF Send
<1>3. ASSUME NEW m, SendControl(m) PROVE accepted' = accepted /\ delivered' = delivered
  BY <1>1, <1>3 DEF SendControl
<1>4. ASSUME NEW cs, Resume(cs) PROVE accepted' = accepted /\ delivered' = delivered
  BY <1>4 DEF Resume, receiver
<1>5. CASE NoRoom
  BY <1>5 DEF NoRoom, receiver
<1>6. CASE Carry
  BY <1>6 DEF Carry, receiver, sender
<1>7. CASE Pause \/ Unpause
  BY <1>7 DEF Pause, Unpause, sender
<1>8. CASE UNCHANGED vars
  BY <1>8 DEF vars, sender, receiver
<1>9. CASE WriteChunk
  <2>1. call # NoSend /\ delivered' = delivered
    BY <1>9 DEF WriteChunk, receiver
  <2>2. PICK m \in Any : m = call.msg
    BY <2>1
  <2>3. Accepted(m) \/ accepted' = accepted
    BY <1>9, <2>2 DEF WriteChunk
  <2>4. CASE accepted' = accepted
    BY <2>1, <2>4
  <2>5. CASE Accepted(m) /\ m.cs = Control
    BY <2>1, <2>5 DEF Accepted
  <2>6. CASE Accepted(m) /\ m.cs # Control
    <3>1. m \in Message /\ m.time \in Nat /\ m.cs \in ChunkStream
      BY <2>6, AnyOK
    <3>2. PICK w \in Content : w = Received(m.type, m.sid, Payload(m))
      BY <3>1 DEF Content
    <3>3. PICK x \in [what : Content, time : Nat] : x = [what |-> w, time |-> m.time]
      BY <3>1
    <3>4. accepted' = [accepted EXCEPT ![m.cs] = Append(@, x)]
      BY <2>6, <3>2, <3>3 DEF Accepted
    <3> QED BY <2>1, <3>1, <3>4
  <2> QED BY <2>3, <2>4, <2>5, <2>6
<1>10. ASSUME NEW verdict, Service(verdict)
       PROVE  \/ accepted' = accepted /\ delivered' = delivered
              \/ \E cs \in ChunkStream : \E x :
                   /\ accepted' = accepted
                   /\ delivered' = [delivered EXCEPT ![cs] = Append(@, x)]
  <2>1. accepted' = accepted /\ (Recv(verdict) \/ RecvStarved \/ RecvPartial(verdict))
    BY <1>10 DEF Service, sender
  <2>2. CASE RecvStarved
    BY <2>1, <2>2 DEF RecvStarved
  <2>3. ASSUME NEW cs, NEW entry, NEW skip, NEW n, Issue(cs, entry, skip, n, verdict)
        PROVE  \/ delivered' = delivered
               \/ \E c \in ChunkStream : \E x : delivered' = [delivered EXCEPT ![c] = Append(@, x)]
    <3>1. PICK x : delivered' = delivered \/ delivered' = [delivered EXCEPT ![cs] = Append(@, x)]
      <4>1. CASE cs = Control
        <5> USE <2>3, <4>1
        <5> HIDE DEF Obey
        <5>1. delivered' = delivered
          BY DEF Issue
        <5> QED BY <5>1
      <4>2. CASE cs # Control
        <5> DEFINE all == got[cs] \o SubSeq(in, skip + 1, skip + n)
                   x == [what |-> Received(entry.type, entry.sid, all), time |-> entry.time]
        <5>1. delivered' = delivered \/ delivered' = [delivered EXCEPT ![cs] = Append(@, x)]
          <6> HIDE DEF Received, Rest
          <6> QED BY <2>3, <4>2 DEF Issue
        <5> QED BY <5>1
      <4> QED BY <4>1, <4>2
    <3>2. CASE cs \in ChunkStream
      BY <3>1, <3>2
    <3>3. CASE cs \notin ChunkStream
      <4>1. delivered \in [ChunkStream -> Messages]
        BY DEF Typed
      <4>2. [delivered EXCEPT ![cs] = Append(@, x)] = delivered
        BY <3>3, <4>1
      <4> QED BY <3>1, <4>2
    <3> QED BY <3>2, <3>3
  <2>4. CASE Recv(verdict)
    <3> HIDE DEF Issue
    <3>1. \E cs, entry, skip, n : Issue(cs, entry, skip, n, verdict)
      BY <2>4 DEF Recv
    <3> QED BY <2>1, <2>3, <3>1
  <2>5. CASE RecvPartial(verdict)
    <3>1. \E cs, entry, skip, n : Issue(cs, entry, skip, n, verdict)
      BY <2>5 DEF RecvPartial
    <3> QED BY <2>1, <2>3, <3>1
  <2> QED BY <2>1, <2>2, <2>4, <2>5
<1> QED BY <1>2, <1>3, <1>4, <1>5, <1>6, <1>7, <1>8, <1>9, <1>10 DEF Next

LEMMA ChannelStart ==
  ASSUME Init
  PROVE  Channel!Init
<1>1. ASSUME NEW cs \in ChunkStream
      PROVE  What(delivered[cs]) = <<>> /\ Rest(What(accepted[cs]), Len(delivered[cs])) = <<>>
  <2>1. delivered[cs] = <<>> /\ accepted[cs] = <<>>
    BY DEF Init
  <2>2. What(<<>>) = <<>>
    BY WhatNothing
  <2>3. Rest(<<>>, 0) = <<>> /\ Len(<<>>) = 0
    BY DEF Rest
  <2> HIDE DEF What, Rest
  <2> QED BY <2>1, <2>2, <2>3
<1> HIDE DEF What, Rest
<1> QED BY <1>1 DEF Channel!Init

LEMMA ChannelStep ==
  ASSUME Undisturbed, IndInv, IndInv', [Next]_vars,
         MessagesArriveAsSent, MessagesArriveAsSent'
  PROVE  [Channel!Next]_(Channel!vars)
<1>1. Typed /\ Typed'
  BY DEF IndInv
<1>2. MessagesArriveAsSent /\ MessagesArriveAsSent'
  OBVIOUS
<1>3. call # NoSend => call.msg \in Any
  <2>1. PICK h : \E a \in Nat : Explains(h, a)
    BY DEF IndInv
  <2>2. PICK R : Calls(R)
    BY <2>1 DEF Explains
  <2> QED BY <2>2 DEF Calls
<1> HIDE DEF MessagesArriveAsSent, Typed, IndInv
<1>4. CASE accepted' = accepted /\ delivered' = delivered
  <2> HIDE DEF What, Rest
  <2> QED BY <1>4 DEF Channel!vars
<1>5. ASSUME NEW cs \in ChunkStream, NEW x \in [what : Content, time : Nat],
             delivered' = delivered, accepted' = [accepted EXCEPT ![cs] = Append(@, x)]
      PROVE  Channel!Next
  <2>1. Waiting' = [Waiting EXCEPT ![cs] = Append(@, x.what)] /\ Handed' = Handed
    BY <1>1, <1>2, <1>5, AcceptOK
  <2>2. x.what \in Content
    OBVIOUS
  <2>3. Channel!Accept(cs)
    <3> HIDE DEF What, Rest
    <3> QED BY <2>1, <2>2 DEF Channel!Accept, Waiting, Handed, Content
  <2> QED BY <2>3 DEF Channel!Next
<1>6. ASSUME NEW cs \in ChunkStream, NEW x,
             accepted' = accepted, delivered' = [delivered EXCEPT ![cs] = Append(@, x)]
      PROVE  Channel!Next
  <2>1. /\ Waiting[cs] # <<>>
        /\ Waiting' = [Waiting EXCEPT ![cs] = Tail(@)]
        /\ Handed' = [Handed EXCEPT ![cs] = Append(@, Head(Waiting[cs]))]
    BY <1>1, <1>2, <1>6, HandOK
  <2>2. Channel!Hand(cs)
    <3> HIDE DEF What, Rest
    <3> QED BY <2>1 DEF Channel!Hand, Waiting, Handed
  <2> QED BY <2>2 DEF Channel!Next
<1> QED BY <1>1, <1>3, <1>4, <1>5, <1>6, Histories

\* The safety part of ImplementsChannel: every step of the connection is a step
\* of MessageChannel or leaves it alone.  Accept is the commit of a message's
\* last chunk, Hand the call of the chunk callback with a message's last byte.
\* Messages for chunk stream 0 are elements of the queue of Fourth (Orderly).
THEOREM QueueOfMessages ==
  Undisturbed => (Spec => Channel!Init /\ [][Channel!Next]_(Channel!vars))
<1> SUFFICES ASSUME Undisturbed
             PROVE  Spec => Channel!Init /\ [][Channel!Next]_(Channel!vars)
  OBVIOUS
<1>1. Init => Channel!Init
  BY ChannelStart
<1>2. /\ IndInv /\ IndInv' /\ MessagesArriveAsSent /\ MessagesArriveAsSent'
      /\ [Next]_vars
      => [Channel!Next]_(Channel!vars)
  BY ChannelStep
<1>3. Spec => []IndInv
  BY Invariance
<1>4. IndInv => MessagesArriveAsSent
  BY Arrived
<1> QED BY <1>1, <1>2, <1>3, <1>4, PTL DEF Spec
=============================================================================

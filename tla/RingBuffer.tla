----------------------------- MODULE RingBuffer -----------------------------
(***************************************************************************)
(* The circular byte buffer of src/src/util/ringbuffer.c, field for field. *)
(* Every connection owns two of them (what the socket delivered and what   *)
(* it still has to be given), every message assembler one per message      *)
(* being put together.                                                     *)
(*                                                                         *)
(* The operators are the C functions: each takes the struct (a record) and *)
(* returns the struct it leaves behind.  The actions are the calls a user  *)
(* of the buffer makes.  The guards of Next are the discipline of the only *)
(* users there are, rtmp_chunk_conn.c, rtmp_chunk_flow.c, the socket loops *)
(* and rtmp_chunk_assembler.c:                                             *)
(*   - nobody reads a buffer whose writes are frozen;                      *)
(*   - reads are frozen only when there is something to read;              *)
(*   - a buffer only ever grows.                                           *)
(* RingBufferApi drops the last two, which ringbuffer.h does not ask for.  *)
(***************************************************************************)
EXTENDS Integers, Sequences

CONSTANTS
    Byte,       \* the values a byte of payload can take
    Junk,       \* the content of memory nobody has written yet
    InitSize,   \* the size the buffer is created with
    MaxSize,    \* bound: the largest size a resize asks for
    MaxOp       \* bound: the most bytes one call moves

ASSUME SizesAssumption ==
    /\ InitSize \in Nat \ {0}
    /\ MaxSize \in Nat
    /\ InitSize <= MaxSize
    /\ MaxOp \in Nat
ASSUME JunkAssumption == Junk \notin Byte

VARIABLES
    buf,        \* struct ringbuffer
    ret         \* what the last call gave back: a count and the bytes copied out

vars == <<buf, ret>>

Cell == Byte \cup {Junk}
Arrays == UNION {[0..(n - 1) -> Cell] : n \in 1..MaxSize}
Chunks == UNION {[1..n -> Byte] : n \in 0..MaxOp}

Clip(n, limit) == IF n > limit THEN limit ELSE n

Returns(n) == ret' = [count |-> n, bytes |-> <<>>]
Nothing == [count |-> 0, bytes |-> <<>>]
-----------------------------------------------------------------------------
(* The struct and the functions on it. *)

Create(n) ==
    [data |-> [k \in 0..(n - 1) |-> Junk], size |-> n, start |-> 0, len |-> 0,
     readOffset |-> 0, writeOffset |-> 0,
     readFrozen |-> FALSE, writeFrozen |-> FALSE]

Clear(b) ==
    [b EXCEPT !.start = 0, !.len = 0, !.readOffset = 0, !.writeOffset = 0,
              !.readFrozen = FALSE, !.writeFrozen = FALSE]

Count(b) == b.len + b.writeOffset - b.readOffset

\* A contiguous piece of the array: where it starts and how long it may be
\* before it falls off the end.
Segment(b, offset, length) ==
    [offset |-> offset,
     size   |-> IF offset + length < b.size THEN length ELSE b.size - offset]

GetWriteBuf(b) ==
    Segment(b, (b.start + b.len + b.writeOffset) % b.size,
               b.size - b.len - b.writeOffset)

\* Mutant: the bytes already read in this transaction are handed out again.
GetReadBufAtStart(b) == Segment(b, b.start, Count(b))

GetReadBuf(b) ==
    Segment(b, (b.start + b.readOffset) % b.size, Count(b))

CommitWrite(b, n) ==
    IF b.writeFrozen
    THEN [b EXCEPT !.writeOffset = Clip(@ + n, b.size - b.len)]
    ELSE [b EXCEPT !.len = Clip(@ + n, b.size)]

\* What commit_read returns: never more than there is to read.
Readable(b, n) == Clip(n, Count(b))

CommitRead(b, n) ==
    LET k == Readable(b, n)
        after == IF b.readFrozen
                 THEN [b EXCEPT !.readOffset = @ + k]
                 ELSE [b EXCEPT !.start = (@ + k) % b.size, !.len = @ - k]
    IN  IF after.len = 0 THEN Clear(after) ELSE after

\* memcpy into and out of the array.
Store(b, offset, s) ==
    [b EXCEPT !.data = [k \in DOMAIN @ |->
        IF k \in offset..(offset + Len(s) - 1) THEN s[k - offset + 1] ELSE @[k]]]
Load(b, offset, n) == [k \in 1..n |-> b.data[offset + k - 1]]

CopyWrite(b, s) ==
    LET seg1 == GetWriteBuf(b)
        n1   == Clip(Len(s), seg1.size)
        b1   == CommitWrite(Store(b, seg1.offset, SubSeq(s, 1, n1)), n1)
        seg2 == GetWriteBuf(b1)
        n2   == Clip(Len(s) - n1, seg2.size)
        b2   == CommitWrite(Store(b1, seg2.offset, SubSeq(s, n1 + 1, n1 + n2)), n2)
    IN  [buf |-> b2, wrote |-> n1 + n2]

CopyRead(b, n) ==
    LET seg1 == GetReadBuf(b)
        n1   == Clip(n, seg1.size)
        b1   == CommitRead(b, n1)
        seg2 == GetReadBuf(b1)
        n2   == Clip(n - n1, seg2.size)
    IN  [buf   |-> CommitRead(b1, n2),
         bytes |-> Load(b, seg1.offset, n1) \o Load(b1, seg2.offset, n2)]

\* Mutant: the provisional read offset survives the thaw.
UnfreezeReadKeepingOffset(b, commit) ==
    LET thawed == [b EXCEPT !.readFrozen = FALSE]
    IN  IF commit THEN CommitRead(thawed, b.readOffset) ELSE thawed

UnfreezeRead(b, commit) ==
    LET thawed == [b EXCEPT !.readFrozen = FALSE, !.readOffset = 0]
    IN  IF commit THEN CommitRead(thawed, b.readOffset) ELSE thawed

UnfreezeWrite(b, commit) ==
    LET thawed == [b EXCEPT !.writeFrozen = FALSE]
    IN  [(IF commit THEN CommitWrite(thawed, b.writeOffset) ELSE thawed)
            EXCEPT !.writeOffset = 0]

\* memmove inside an array of bytes.
Memmove(data, dst, src, n) ==
    [k \in DOMAIN data |->
        IF k \in dst..(dst + n - 1) THEN data[src + k - dst] ELSE data[k]]

\* Mutant: the size changes, the memory does not.
ReallocForgotten(data, n) == data

\* realloc: what was there stays, what is new is junk.
Realloc(data, n) ==
    [k \in 0..(n - 1) |-> IF k \in DOMAIN data THEN data[k] ELSE Junk]

\* Mutant: only memory is added, the wrapped part stays where it was.
GrowInPlace(b, n) == [b EXCEPT !.data = Realloc(@, n), !.size = n]

Grow(b, n) ==
    LET end     == b.start + b.len + b.writeOffset
        overlap == IF end > b.size THEN end % b.size ELSE 0
        moved   == Clip(overlap, n - b.size)
        grown   == Memmove(Realloc(b.data, n), b.size, 0, moved)
    IN  [b EXCEPT !.data = Memmove(grown, 0, moved, overlap - moved), !.size = n]

Shrink(b, n) ==
    LET t       == CommitRead(b, IF n < b.len + b.writeOffset
                                 THEN b.len + b.writeOffset - n ELSE 0)
        total   == t.len + t.writeOffset
        overlap == (t.start + total) % t.size
        front   == IF t.start + total > t.size
                   THEN Memmove(t.data, total - overlap, 0, overlap) ELSE t.data
    IN  [t EXCEPT !.data = Realloc(Memmove(front, 0, t.start, t.size - t.start), n),
                  !.size = n]

Resize(b, n) ==
    CASE n > b.size -> Grow(b, n)
      [] n < b.size -> Shrink(b, n)
      [] OTHER      -> b
-----------------------------------------------------------------------------
(* The calls. *)

Init == /\ buf = Create(InitSize)
        /\ ret = Nothing

\* ringbuffer_copy_write: takes what fits and returns how much that was.
Write(s) ==
    /\ buf' = CopyWrite(buf, s).buf
    /\ Returns(CopyWrite(buf, s).wrote)

\* The socket loop: recv() straight into the write segment, then commit_write.
WriteInPlace(s) ==
    LET seg == GetWriteBuf(buf)
    IN  /\ Len(s) <= seg.size
        /\ buf' = CommitWrite(Store(buf, seg.offset, s), Len(s))
        /\ Returns(Len(s))

\* ringbuffer_copy_read: removes and returns up to n bytes.
Read(n) ==
    /\ ~buf.writeFrozen
    /\ buf' = CopyRead(buf, n).buf
    /\ ret' = [count |-> Len(CopyRead(buf, n).bytes),
               bytes |-> CopyRead(buf, n).bytes]

\* The socket loop and the chunk reader: use the read segment in place, then
\* commit_read the part of it that was consumed.
ReadInPlace(n) ==
    LET seg == GetReadBuf(buf)
    IN  /\ ~buf.writeFrozen
        /\ n <= seg.size
        /\ buf' = CommitRead(buf, n)
        /\ ret' = [count |-> n, bytes |-> Load(buf, seg.offset, n)]

FreezeRead ==
    /\ ~buf.writeFrozen
    /\ buf' = [buf EXCEPT !.readFrozen = TRUE]
    /\ Returns(0)

ThawRead(commit) ==
    /\ ~buf.writeFrozen
    /\ buf' = UnfreezeRead(buf, commit)
    /\ Returns(IF commit THEN buf.readOffset ELSE 0)

FreezeWrite ==
    /\ buf' = [buf EXCEPT !.writeFrozen = TRUE]
    /\ Returns(0)

ThawWrite(commit) ==
    /\ buf' = UnfreezeWrite(buf, commit)
    /\ Returns(IF commit THEN Clip(buf.writeOffset, buf.size - buf.len) ELSE 0)

ClearAll ==
    /\ buf' = Clear(buf)
    /\ Returns(0)

ResizeTo(n) ==
    /\ buf' = Resize(buf, n)
    /\ Returns(0)

Next ==
    \/ \E s \in Chunks : Write(s) \/ WriteInPlace(s)
    \/ \E n \in 0..MaxOp : Read(n) \/ ReadInPlace(n)
    \/ Count(buf) > 0 /\ FreezeRead
    \/ \E commit \in BOOLEAN : ThawRead(commit) \/ ThawWrite(commit)
    \/ ~buf.readFrozen /\ FreezeWrite
    \/ ClearAll
    \/ \E n \in buf.size..MaxSize : ResizeTo(n)

Spec == Init /\ [][Next]_vars

-----------------------------------------------------------------------------
(* What must hold of the struct. *)

\* The struct keeps its types and the array is as long as size says
\* (ringbuffer_resize reallocates one and assigns the other).
TypeOK ==
    /\ buf \in [data : Arrays, size : 1..MaxSize, start : Nat, len : Nat,
                readOffset : Nat, writeOffset : Nat,
                readFrozen : BOOLEAN, writeFrozen : BOOLEAN]
    /\ DOMAIN buf.data = 0..(buf.size - 1)
    /\ ret.count \in Nat

\* The offsets stay inside the array: committed and pending bytes together never
\* exceed the allocation, the reader never runs ahead of the committed bytes,
\* and pending reads or writes exist only inside the matching transaction.
\* Every memcpy of ringbuffer.c stays in bounds because of it.
IndexInv ==
    /\ buf.start < buf.size
    /\ buf.len + buf.writeOffset <= buf.size
    /\ buf.readOffset <= buf.len
    /\ buf.readOffset > 0 => buf.readFrozen
    /\ buf.writeOffset > 0 => buf.writeFrozen
    /\ ~(buf.readFrozen /\ buf.writeFrozen)

\* The bytes a reader will be given, in order, and those still to be committed.
At(i) == buf.data[(buf.start + i) % buf.size]
Committed == [i \in 1..buf.len |-> At(i - 1)]
Staged == [i \in 1..buf.writeOffset |-> At(buf.len + i - 1)]

\* Nothing a reader can be given is memory that was never written (the
\* reallocations of ringbuffer_resize leave such memory in the array).
NoJunkInContent ==
    \A i \in 1..Count(buf) : At(buf.readOffset + i - 1) \in Byte

\* The buffer is a bounded queue of bytes with two transactions, whatever the
\* wrapping, clipping and moving (ringbuffer.c against the promises of
\* ringbuffer.h).
Queue == INSTANCE TxQueue WITH
    committed <- Committed, staged <- Staged, taken <- buf.readOffset,
    reading <- buf.readFrozen, writing <- buf.writeFrozen,
    capacity <- buf.size, result <- ret
ImplementsTxQueue == Queue!Spec
=============================================================================

------------------------ MODULE RingBufferRefinement ------------------------
(***************************************************************************)
(* For every size, every set of bytes and every length of a call:          *)
(*                                                                         *)
(* First, the struct of ringbuffer.c keeps its offsets inside its array.   *)
(* One lemma per function: a well-formed struct goes in, a well-formed     *)
(* struct comes out; the theorems put them together over RingBuffer!Next.  *)
(*                                                                         *)
(* Second, it implements TxQueue, a queue of bytes with transactions.      *)
(* Held is the byte i behind the start of the content; one lemma for each  *)
(* C function says what it does to the offsets and to Held, a second group *)
(* turns that into the sequences Committed and Staged, and one lemma per   *)
(* call of RingBuffer!Next finds the call of TxQueue!Next it stands for.   *)
(***************************************************************************)
EXTENDS RingBuffer, SequenceTheorems, TLAPS

USE SizesAssumption

Fields == [data : Arrays, size : 1..MaxSize, start : Nat, len : Nat,
           readOffset : Nat, writeOffset : Nat,
           readFrozen : BOOLEAN, writeFrozen : BOOLEAN]

\* The array is as long as the struct says.
ArrayOK(b) == b.data \in [0..(b.size - 1) -> Cell]

\* The offsets stay inside it.
OffsetsOK(b) ==
    /\ b.start < b.size
    /\ b.len + b.writeOffset <= b.size
    /\ b.readOffset <= b.len

\* A struct the functions may be given.
WellFormed(b) == b \in Fields /\ ArrayOK(b) /\ OffsetsOK(b)

\* Pending offsets exist only inside the transaction they belong to.
Transactional(b) ==
    /\ b.readOffset > 0 => b.readFrozen
    /\ b.writeOffset > 0 => b.writeFrozen
    /\ ~(b.readFrozen /\ b.writeFrozen)

\* The array does not depend on the offsets.
LEMMA SameArray == ASSUME NEW b, NEW c, ArrayOK(b), c.data = b.data, c.size = b.size
                   PROVE  ArrayOK(c)
  BY DEF ArrayOK

\* ringbuffer_create.
LEMMA CreateOK == WellFormed(Create(InitSize)) /\ Transactional(Create(InitSize))
<1> DEFINE b == Create(InitSize)
           junk == [k \in 0..(InitSize - 1) |-> Junk]
<1>1. junk \in [0..(InitSize - 1) -> Cell]
  BY DEF Cell
<1>2. junk \in Arrays
  BY <1>1 DEF Arrays
<1>3. b \in Fields /\ OffsetsOK(b) /\ Transactional(b)
  BY <1>2 DEF Create, Fields, OffsetsOK, Transactional
<1>4. ArrayOK(b)
  BY <1>1 DEF Create, ArrayOK
<1> QED BY <1>3, <1>4 DEF WellFormed

\* ringbuffer_clear.
LEMMA ClearOK == ASSUME NEW b, WellFormed(b)
                 PROVE  WellFormed(Clear(b)) /\ Transactional(Clear(b))
<1>1. b \in Fields /\ ArrayOK(b)
  BY DEF WellFormed
<1>2. Clear(b) \in Fields
  BY <1>1 DEF Clear, Fields
<1>3. OffsetsOK(Clear(b)) /\ Clear(b).data = b.data /\ Clear(b).size = b.size
  BY <1>1 DEF Clear, Fields, OffsetsOK
<1>4. Transactional(Clear(b))
  BY <1>1 DEF Clear, Fields, Transactional
<1> QED BY <1>1, <1>2, <1>3, <1>4, SameArray DEF WellFormed

\* The segment to write to: inside the array, no longer than the room left.
LEMMA WriteSegmentOK ==
  ASSUME NEW b, WellFormed(b)
  PROVE  /\ GetWriteBuf(b).offset \in 0..(b.size - 1)
         /\ GetWriteBuf(b).size \in Nat
         /\ GetWriteBuf(b).size <= b.size - b.len - b.writeOffset
         /\ GetWriteBuf(b).offset + GetWriteBuf(b).size <= b.size
<1>1. b \in Fields /\ OffsetsOK(b)
  BY DEF WellFormed
<1> QED BY <1>1 DEF Fields, OffsetsOK, GetWriteBuf, Segment

\* The segment to read from: inside the array, no longer than what is unread.
LEMMA ReadSegmentOK ==
  ASSUME NEW b, WellFormed(b)
  PROVE  /\ GetReadBuf(b).offset \in 0..(b.size - 1)
         /\ GetReadBuf(b).size \in Nat
         /\ GetReadBuf(b).size <= Count(b)
         /\ GetReadBuf(b).offset + GetReadBuf(b).size <= b.size
<1>1. b \in Fields /\ OffsetsOK(b)
  BY DEF WellFormed
<1> QED BY <1>1 DEF Fields, OffsetsOK, GetReadBuf, Segment, Count

\* memcpy into the array changes bytes only.
LEMMA StoreOK ==
  ASSUME NEW b, WellFormed(b), NEW offset \in 0..(b.size - 1),
         NEW n \in Nat, NEW s \in [1..n -> Byte], offset + n <= b.size
  PROVE  /\ WellFormed(Store(b, offset, s))
         /\ Transactional(b) => Transactional(Store(b, offset, s))
         /\ Store(b, offset, s).size = b.size
<1> DEFINE c == Store(b, offset, s)
           cells == [k \in DOMAIN b.data |->
               IF k \in offset..(offset + Len(s) - 1)
               THEN s[k - offset + 1] ELSE b.data[k]]
<1>1. b \in Fields /\ ArrayOK(b) /\ OffsetsOK(b)
  BY DEF WellFormed
<1>2. Len(s) = n
  OBVIOUS
<1>3. cells \in [0..(b.size - 1) -> Cell]
  <2>1. DOMAIN b.data = 0..(b.size - 1) /\ \A k \in DOMAIN b.data : b.data[k] \in Cell
    BY <1>1 DEF ArrayOK
  <2>2. \A k \in offset..(offset + Len(s) - 1) : s[k - offset + 1] \in Cell
    <3> TAKE k \in offset..(offset + Len(s) - 1)
    <3>1. k - offset + 1 \in 1..n
      BY <1>2
    <3> QED BY <3>1 DEF Cell
  <2> QED BY <2>1, <2>2
<1>4. cells \in Arrays
  BY <1>1, <1>3 DEF Arrays, Fields
<1>5. c = [b EXCEPT !.data = cells]
  BY DEF Store
<1> HIDE DEF cells
<1>6. /\ c \in Fields /\ c.data = cells /\ c.size = b.size /\ c.start = b.start
      /\ c.len = b.len /\ c.readOffset = b.readOffset /\ c.writeOffset = b.writeOffset
      /\ c.readFrozen = b.readFrozen /\ c.writeFrozen = b.writeFrozen
  BY <1>1, <1>4, <1>5 DEF Fields
<1>7. ArrayOK(c)
  BY <1>3, <1>6 DEF ArrayOK
<1>8. OffsetsOK(c) /\ (Transactional(b) => Transactional(c))
  BY <1>1, <1>6 DEF OffsetsOK, Transactional
<1> QED BY <1>6, <1>7, <1>8 DEF WellFormed

\* ringbuffer_commit_write, whatever length the caller claims.
LEMMA CommitWriteOK ==
  ASSUME NEW b, WellFormed(b), Transactional(b), NEW n \in Nat
  PROVE  /\ WellFormed(CommitWrite(b, n))
         /\ Transactional(CommitWrite(b, n))
         /\ CommitWrite(b, n).size = b.size
         /\ CommitWrite(b, n).writeFrozen = b.writeFrozen
<1> DEFINE c == CommitWrite(b, n)
<1>1. b \in Fields /\ ArrayOK(b) /\ OffsetsOK(b)
  BY DEF WellFormed
<1>2. CASE b.writeFrozen
  <2>1. Clip(b.writeOffset + n, b.size - b.len) \in b.writeOffset..(b.size - b.len)
    BY <1>1 DEF Clip, Fields, OffsetsOK
  <2>2. c = [b EXCEPT !.writeOffset = Clip(b.writeOffset + n, b.size - b.len)]
    BY <1>1, <1>2 DEF CommitWrite, Fields
  <2>3. /\ c \in Fields /\ c.data = b.data /\ c.size = b.size /\ c.start = b.start
        /\ c.len = b.len /\ c.readOffset = b.readOffset
        /\ c.writeOffset = Clip(b.writeOffset + n, b.size - b.len)
        /\ c.readFrozen = b.readFrozen /\ c.writeFrozen = b.writeFrozen
    BY <1>1, <2>1, <2>2 DEF Fields
  <2>4. OffsetsOK(c) /\ Transactional(c)
    BY <1>1, <1>2, <2>1, <2>3 DEF OffsetsOK, Transactional, Fields
  <2> QED BY <1>1, <2>3, <2>4, SameArray DEF WellFormed
<1>3. CASE ~b.writeFrozen /\ b.writeOffset = 0
  <2>1. Clip(b.len + n, b.size) \in b.len..b.size
    BY <1>1 DEF Clip, Fields, OffsetsOK
  <2>2. c = [b EXCEPT !.len = Clip(b.len + n, b.size)]
    BY <1>1, <1>3 DEF CommitWrite, Fields
  <2>3. /\ c \in Fields /\ c.data = b.data /\ c.size = b.size /\ c.start = b.start
        /\ c.writeOffset = b.writeOffset /\ c.readOffset = b.readOffset
        /\ c.len = Clip(b.len + n, b.size)
        /\ c.readFrozen = b.readFrozen /\ c.writeFrozen = b.writeFrozen
    BY <1>1, <2>1, <2>2 DEF Fields
  <2>4. OffsetsOK(c) /\ Transactional(c)
    BY <1>1, <1>3, <2>1, <2>3 DEF OffsetsOK, Transactional, Fields
  <2> QED BY <1>1, <2>3, <2>4, SameArray DEF WellFormed
<1> QED BY <1>1, <1>2, <1>3 DEF Transactional, Fields

\* ringbuffer_commit_read, whatever length the caller claims, when no write is
\* pending.
LEMMA CommitReadOK ==
  ASSUME NEW b, WellFormed(b), Transactional(b), ~b.writeFrozen, NEW n \in Nat
  PROVE  /\ WellFormed(CommitRead(b, n))
         /\ Transactional(CommitRead(b, n))
         /\ ~CommitRead(b, n).writeFrozen
<1> DEFINE k == Readable(b, n)
           begin == (b.start + k) % b.size
           rest == b.len - k
           frozen == [b EXCEPT !.readOffset = b.readOffset + k]
           plain == [b EXCEPT !.start = begin, !.len = rest]
           after == IF b.readFrozen THEN frozen ELSE plain
<1>1. b \in Fields /\ ArrayOK(b) /\ OffsetsOK(b) /\ b.writeOffset = 0
  BY DEF WellFormed, Transactional, Fields
<1>2. k \in 0..(b.len - b.readOffset)
  BY <1>1 DEF Readable, Count, Clip, Fields, OffsetsOK
<1>3. CommitRead(b, n) = IF after.len = 0 THEN Clear(after) ELSE after
  BY <1>1 DEF CommitRead, Fields
<1> HIDE DEF k
<1>4. WellFormed(after) /\ Transactional(after) /\ ~after.writeFrozen
  <2>1. CASE b.readFrozen
    <3>1. /\ frozen \in Fields /\ frozen.data = b.data /\ frozen.size = b.size
          /\ frozen.start = b.start /\ frozen.len = b.len
          /\ frozen.writeOffset = 0 /\ frozen.readOffset = b.readOffset + k
          /\ frozen.readFrozen = b.readFrozen /\ frozen.writeFrozen = b.writeFrozen
      BY <1>1, <1>2 DEF Fields
    <3>2. OffsetsOK(frozen) /\ Transactional(frozen)
      BY <1>1, <1>2, <2>1, <3>1 DEF OffsetsOK, Transactional, Fields
    <3> QED BY <1>1, <2>1, <3>1, <3>2, SameArray DEF WellFormed
  <2>2. CASE ~b.readFrozen
    <3>1. begin \in 0..(b.size - 1) /\ begin \in Nat
      BY <1>1, <1>2 DEF Fields, OffsetsOK
    <3>2. rest \in Nat /\ rest <= b.len
      BY <1>1, <1>2 DEF Fields, OffsetsOK
    <3>3. b.readOffset = 0
      BY <1>1, <2>2 DEF Transactional, Fields
    <3> HIDE DEF begin, rest
    <3>4. /\ plain.data = b.data /\ plain.size = b.size
          /\ plain.start = begin /\ plain.len = rest
          /\ plain.writeOffset = 0 /\ plain.readOffset = 0
          /\ plain.readFrozen = b.readFrozen /\ plain.writeFrozen = b.writeFrozen
      BY <1>1, <3>3 DEF Fields
    <3>5. plain \in Fields
      BY <1>1, <3>1, <3>2 DEF Fields
    <3>6. OffsetsOK(plain)
      BY <1>1, <3>1, <3>2, <3>4 DEF OffsetsOK, Fields
    <3>7. Transactional(plain)
      BY <2>2, <3>4 DEF Transactional
    <3> QED BY <1>1, <2>2, <3>4, <3>5, <3>6, <3>7, SameArray DEF WellFormed
  <2> QED BY <2>1, <2>2
<1> HIDE DEF after
<1>5. ~Clear(after).writeFrozen
  BY <1>4 DEF Clear, WellFormed, Fields
<1> QED BY <1>3, <1>4, <1>5, ClearOK

\* A sequence of bytes, cut anywhere, is a sequence of bytes.
LEMMA SubSeqOK ==
  ASSUME NEW n \in Nat, NEW s \in [1..n -> Byte], NEW i \in 1..(n + 1), NEW j \in (i - 1)..n
  PROVE  SubSeq(s, i, j) \in [1..(j - i + 1) -> Byte]
<1> DEFINE t == SubSeq(s, i, j)
<1>1. \A k \in i..j : s[k] \in Byte
  OBVIOUS
<1>2. t \in Seq(Byte) /\ Len(t) = j - i + 1
  BY <1>1, SubSeqProperties
<1> HIDE DEF t
<1>3. t \in [1..Len(t) -> Byte]
  BY <1>2
<1> QED BY <1>2, <1>3 DEF t

\* ringbuffer_copy_write: two segments at most.
LEMMA CopyWriteOK ==
  ASSUME NEW b, WellFormed(b), Transactional(b), NEW n \in Nat, NEW s \in [1..n -> Byte]
  PROVE  /\ WellFormed(CopyWrite(b, s).buf)
         /\ Transactional(CopyWrite(b, s).buf)
         /\ CopyWrite(b, s).wrote \in 0..n
<1> DEFINE seg1 == GetWriteBuf(b)
           n1   == Clip(Len(s), seg1.size)
           a1   == Store(b, seg1.offset, SubSeq(s, 1, n1))
           b1   == CommitWrite(a1, n1)
           seg2 == GetWriteBuf(b1)
           n2   == Clip(Len(s) - n1, seg2.size)
           a2   == Store(b1, seg2.offset, SubSeq(s, n1 + 1, n1 + n2))
           b2   == CommitWrite(a2, n2)
<1>1. Len(s) = n /\ CopyWrite(b, s) = [buf |-> b2, wrote |-> n1 + n2]
  BY DEF CopyWrite
<1>2. /\ seg1.offset \in 0..(b.size - 1) /\ seg1.size \in Nat
      /\ seg1.offset + seg1.size <= b.size
  BY WriteSegmentOK
<1> HIDE DEF seg1
<1>3. n1 \in 0..n /\ n1 <= seg1.size
  BY <1>1, <1>2 DEF Clip
<1> HIDE DEF n1
<1>4. WellFormed(a1) /\ Transactional(a1)
  <2>1. SubSeq(s, 1, n1) \in [1..n1 -> Byte]
    BY <1>3, SubSeqOK
  <2>2. n1 \in Nat /\ seg1.offset + n1 <= b.size
    BY <1>2, <1>3 DEF WellFormed, Fields
  <2> QED BY <1>2, <2>1, <2>2, StoreOK DEF Transactional
<1> HIDE DEF a1
<1>5. WellFormed(b1) /\ Transactional(b1)
  BY <1>3, <1>4, CommitWriteOK
<1> HIDE DEF b1
<1>6. /\ seg2.offset \in 0..(b1.size - 1) /\ seg2.size \in Nat
      /\ seg2.offset + seg2.size <= b1.size
  BY <1>5, WriteSegmentOK
<1> HIDE DEF seg2
<1>7. n2 \in 0..(n - n1) /\ n2 <= seg2.size
  BY <1>1, <1>3, <1>6 DEF Clip
<1> HIDE DEF n2
<1>8. WellFormed(a2) /\ Transactional(a2)
  <2>1. SubSeq(s, n1 + 1, n1 + n2) \in [1..n2 -> Byte]
    BY <1>3, <1>7, SubSeqOK, n1 + n2 - (n1 + 1) + 1 = n2
  <2>2. n2 \in Nat /\ seg2.offset + n2 <= b1.size
    <3>1. n1 \in Nat /\ n2 \in Nat /\ b1.size \in Nat
      BY <1>3, <1>5, <1>7 DEF WellFormed, Fields
    <3> QED BY <1>6, <1>7, <3>1
  <2> QED BY <1>5, <1>6, <2>1, <2>2, StoreOK DEF Transactional
<1> HIDE DEF a2
<1>9. WellFormed(b2) /\ Transactional(b2)
  BY <1>7, <1>3, <1>8, CommitWriteOK
<1> QED BY <1>1, <1>3, <1>7, <1>9

\* ringbuffer_copy_read.
LEMMA CopyReadOK ==
  ASSUME NEW b, WellFormed(b), Transactional(b), ~b.writeFrozen, NEW n \in Nat
  PROVE  /\ WellFormed(CopyRead(b, n).buf)
         /\ Transactional(CopyRead(b, n).buf)
         /\ Len(CopyRead(b, n).bytes) \in 0..n
<1> DEFINE seg1 == GetReadBuf(b)
           n1   == Clip(n, seg1.size)
           b1   == CommitRead(b, n1)
           seg2 == GetReadBuf(b1)
           n2   == Clip(n - n1, seg2.size)
           l1   == Load(b, seg1.offset, n1)
           l2   == Load(b1, seg2.offset, n2)
<1>1. CopyRead(b, n) = [buf |-> CommitRead(b1, n2), bytes |-> l1 \o l2]
  BY DEF CopyRead
<1>2. seg1.size \in Nat
  BY ReadSegmentOK
<1>3. n1 \in 0..n
  BY <1>2 DEF Clip
<1>4. WellFormed(b1) /\ Transactional(b1) /\ ~b1.writeFrozen
  BY <1>3, CommitReadOK
<1>5. seg2.size \in Nat
  BY <1>4, ReadSegmentOK
<1>6. n2 \in 0..(n - n1)
  BY <1>3, <1>5 DEF Clip
<1> HIDE DEF n1, n2, b1, seg1, seg2
<1>7. WellFormed(CommitRead(b1, n2)) /\ Transactional(CommitRead(b1, n2))
  BY <1>3, <1>4, <1>6, CommitReadOK
<1>8. Len(l1 \o l2) = n1 + n2
  BY <1>3, <1>6 DEF Load
<1> QED BY <1>1, <1>3, <1>6, <1>7, <1>8

\* ringbuffer_unfreeze_read, keeping or undoing the reads.
LEMMA UnfreezeReadOK ==
  ASSUME NEW b, WellFormed(b), Transactional(b), ~b.writeFrozen, NEW commit \in BOOLEAN
  PROVE  WellFormed(UnfreezeRead(b, commit)) /\ Transactional(UnfreezeRead(b, commit))
<1> DEFINE thawed == [b EXCEPT !.readFrozen = FALSE, !.readOffset = 0]
<1>1. b \in Fields /\ ArrayOK(b) /\ OffsetsOK(b)
  BY DEF WellFormed
<1>2. /\ thawed.data = b.data /\ thawed.size = b.size /\ thawed.start = b.start
      /\ thawed.len = b.len /\ thawed.readOffset = 0
      /\ thawed.writeOffset = b.writeOffset
      /\ thawed.readFrozen = FALSE /\ thawed.writeFrozen = b.writeFrozen
  BY <1>1 DEF Fields
<1>3. thawed \in Fields
  BY <1>1 DEF Fields
<1>4. OffsetsOK(thawed)
  BY <1>1, <1>2 DEF OffsetsOK, Fields
<1>5. Transactional(thawed)
  BY <1>2 DEF Transactional
<1>6. WellFormed(thawed) /\ ~thawed.writeFrozen
  BY <1>1, <1>2, <1>3, <1>4, SameArray DEF WellFormed
<1>7. UnfreezeRead(b, commit) = IF commit THEN CommitRead(thawed, b.readOffset) ELSE thawed
  BY DEF UnfreezeRead
<1>8. b.readOffset \in Nat
  BY <1>1 DEF Fields
<1> HIDE DEF thawed
<1> QED BY <1>5, <1>6, <1>7, <1>8, CommitReadOK

\* ringbuffer_unfreeze_write, keeping or undoing the writes.
LEMMA UnfreezeWriteOK ==
  ASSUME NEW b, WellFormed(b), Transactional(b), NEW commit \in BOOLEAN
  PROVE  WellFormed(UnfreezeWrite(b, commit)) /\ Transactional(UnfreezeWrite(b, commit))
<1> DEFINE c == UnfreezeWrite(b, commit)
           kept == IF commit THEN b.len + b.writeOffset ELSE b.len
           thawed == [b EXCEPT !.writeFrozen = FALSE]
<1>1. b \in Fields /\ ArrayOK(b) /\ OffsetsOK(b)
  BY DEF WellFormed
<1>2. /\ thawed.len = b.len /\ thawed.size = b.size /\ thawed.writeFrozen = FALSE
  BY <1>1 DEF Fields
<1>3. CommitWrite(thawed, b.writeOffset) = [thawed EXCEPT !.len = b.len + b.writeOffset]
  <2>1. Clip(b.len + b.writeOffset, b.size) = b.len + b.writeOffset
    BY <1>1 DEF Clip, OffsetsOK, Fields
  <2> HIDE DEF thawed
  <2> QED BY <1>2, <2>1 DEF CommitWrite
<1>4. kept \in Nat /\ b.len <= kept /\ kept <= b.size
  BY <1>1 DEF Fields, OffsetsOK
<1>5. c = [b EXCEPT !.writeFrozen = FALSE, !.len = kept, !.writeOffset = 0]
  <2>1. CASE commit
    BY <1>1, <1>3, <2>1 DEF UnfreezeWrite, Fields
  <2>2. CASE ~commit
    BY <1>1, <2>2 DEF UnfreezeWrite, Fields
  <2> QED BY <2>1, <2>2
<1> HIDE DEF kept, c
<1>6. /\ c.data = b.data /\ c.size = b.size /\ c.start = b.start /\ c.len = kept
      /\ c.readOffset = b.readOffset /\ c.writeOffset = 0
      /\ c.readFrozen = b.readFrozen /\ c.writeFrozen = FALSE
  BY <1>1, <1>5 DEF Fields
<1>7. c \in Fields
  BY <1>1, <1>4, <1>5 DEF Fields
<1>8. OffsetsOK(c)
  BY <1>1, <1>4, <1>6 DEF OffsetsOK, Fields
<1>9. Transactional(c)
  BY <1>6 DEF Transactional
<1>10. WellFormed(c) /\ Transactional(c)
  BY <1>1, <1>6, <1>7, <1>8, <1>9, SameArray DEF WellFormed
<1> QED BY <1>10 DEF c

\* memmove between two ranges of one array.
LEMMA MemmoveOK ==
  ASSUME NEW n \in Nat, NEW d \in [0..(n - 1) -> Cell],
         NEW dst \in Nat, NEW src \in Nat, NEW m \in Int, src + m <= n
  PROVE  Memmove(d, dst, src, m) \in [0..(n - 1) -> Cell]
<1> SUFFICES ASSUME NEW k \in 0..(n - 1), k \in dst..(dst + m - 1)
             PROVE  d[src + k - dst] \in Cell
  BY DEF Memmove
<1>1. src + k - dst \in 0..(n - 1)
  OBVIOUS
<1> QED BY <1>1

\* ringbuffer_resize when it adds room: the only resize the library makes.
LEMMA GrowOK ==
  ASSUME NEW b, WellFormed(b), Transactional(b), NEW n \in b.size..MaxSize
  PROVE  WellFormed(Resize(b, n)) /\ Transactional(Resize(b, n))
<1> DEFINE end     == b.start + b.len + b.writeOffset
           overlap == IF end > b.size THEN end % b.size ELSE 0
           moved   == Clip(overlap, n - b.size)
           wider   == Realloc(b.data, n)
           grown   == Memmove(wider, b.size, 0, moved)
           cells   == Memmove(grown, 0, moved, overlap - moved)
           c       == Grow(b, n)
<1>1. b \in Fields /\ ArrayOK(b) /\ OffsetsOK(b)
  BY DEF WellFormed
<1>2. n \in 1..MaxSize /\ b.size \in 1..MaxSize /\ b.size <= n
  BY <1>1 DEF Fields
<1>3. overlap \in 0..b.size
  <2>1. end \in Nat
    BY <1>1 DEF Fields
  <2> HIDE DEF end
  <2> QED BY <1>2, <2>1
<1> HIDE DEF overlap
<1>4. moved \in 0..overlap /\ moved <= n - b.size
  BY <1>2, <1>3 DEF Clip
<1> HIDE DEF moved
<1>5. wider \in [0..(n - 1) -> Cell]
  BY <1>1, <1>2 DEF Realloc, ArrayOK, Cell
<1> HIDE DEF wider
<1>6. grown \in [0..(n - 1) -> Cell]
  BY <1>2, <1>3, <1>4, <1>5, MemmoveOK
<1> HIDE DEF grown
<1>7. cells \in [0..(n - 1) -> Cell]
  BY <1>2, <1>3, <1>4, <1>6, MemmoveOK, SMTT(30)
<1>8. c = [b EXCEPT !.data = cells, !.size = n]
  BY DEF Grow, end, overlap, moved, wider, grown
<1> HIDE DEF cells, c
<1>9. cells \in Arrays
  BY <1>2, <1>7 DEF Arrays
<1>10. /\ c.data = cells /\ c.size = n /\ c.start = b.start /\ c.len = b.len
       /\ c.readOffset = b.readOffset /\ c.writeOffset = b.writeOffset
       /\ c.readFrozen = b.readFrozen /\ c.writeFrozen = b.writeFrozen
  BY <1>1, <1>8 DEF Fields
<1>11. c \in Fields
  BY <1>1, <1>2, <1>8, <1>9 DEF Fields
<1>12. ArrayOK(c)
  BY <1>7, <1>10 DEF ArrayOK
<1>13. OffsetsOK(c) /\ Transactional(c)
  BY <1>1, <1>2, <1>10 DEF OffsetsOK, Transactional, Fields
<1>14. WellFormed(c) /\ Transactional(c)
  BY <1>11, <1>12, <1>13 DEF WellFormed
<1>15. Resize(b, n) = IF n > b.size THEN c ELSE b
  BY <1>2 DEF Resize, c
<1> QED BY <1>14, <1>15
-----------------------------------------------------------------------------
\* The inductive invariant: what TypeOK and IndexInv say of the struct.
IndInv == WellFormed(buf) /\ Transactional(buf) /\ ret.count \in Nat

\* The inductive invariant says what TypeOK and IndexInv say.
LEMMA IndInvMeaning == IndInv => TypeOK /\ IndexInv
<1> SUFFICES ASSUME IndInv PROVE TypeOK /\ IndexInv
  OBVIOUS
<1>1. buf \in Fields /\ ArrayOK(buf) /\ OffsetsOK(buf)
  BY DEF IndInv, WellFormed
<1>2. DOMAIN buf.data = 0..(buf.size - 1)
  BY <1>1 DEF ArrayOK
<1>3. TypeOK
  BY <1>1, <1>2 DEF IndInv, TypeOK, Fields
<1>4. IndexInv
  BY <1>1 DEF IndInv, OffsetsOK, Transactional, IndexInv
<1> QED BY <1>3, <1>4

\* Every call of the library on the buffer preserves it.
LEMMA IndInvStep == IndInv /\ [Next]_vars => IndInv'
<1> SUFFICES ASSUME IndInv, [Next]_vars PROVE IndInv'
  OBVIOUS
<1>1. /\ WellFormed(buf) /\ Transactional(buf) /\ ret.count \in Nat
      /\ buf \in Fields /\ OffsetsOK(buf)
  BY DEF IndInv, WellFormed
<1>2. ASSUME NEW s \in Chunks, Write(s) PROVE IndInv'
  <2>1. PICK n \in 0..MaxOp : s \in [1..n -> Byte]
    BY DEF Chunks
  <2>2. n \in Nat
    BY <2>1
  <2>3. /\ WellFormed(CopyWrite(buf, s).buf) /\ Transactional(CopyWrite(buf, s).buf)
        /\ CopyWrite(buf, s).wrote \in 0..n
    BY <1>1, <2>1, <2>2, CopyWriteOK
  <2> QED BY <1>2, <2>2, <2>3 DEF Write, Returns, IndInv
<1>3. ASSUME NEW s \in Chunks, WriteInPlace(s) PROVE IndInv'
  <2> DEFINE seg == GetWriteBuf(buf)
             a   == Store(buf, seg.offset, s)
  <2>1. PICK n \in 0..MaxOp : s \in [1..n -> Byte]
    BY DEF Chunks
  <2>2. n \in Nat /\ Len(s) = n
    BY <2>1
  <2>3. /\ seg.offset \in 0..(buf.size - 1) /\ seg.size \in Nat
        /\ seg.offset + seg.size <= buf.size
    BY <1>1, WriteSegmentOK
  <2>4. n <= seg.size /\ buf' = CommitWrite(a, n) /\ ret'.count = n
    BY <1>3, <2>2 DEF WriteInPlace, Returns
  <2> HIDE DEF seg
  <2>5. seg.offset + n <= buf.size
    BY <1>1, <2>2, <2>3, <2>4 DEF Fields
  <2>6. WellFormed(a) /\ Transactional(a)
    BY <1>1, <2>1, <2>2, <2>3, <2>5, StoreOK
  <2> HIDE DEF a
  <2>7. WellFormed(buf') /\ Transactional(buf')
    BY <2>2, <2>4, <2>6, CommitWriteOK
  <2> QED BY <2>2, <2>4, <2>7 DEF IndInv
<1>4. ASSUME NEW n \in 0..MaxOp, Read(n) PROVE IndInv'
  <2>1. n \in Nat /\ ~buf.writeFrozen
    BY <1>4 DEF Read
  <2>2. /\ WellFormed(CopyRead(buf, n).buf) /\ Transactional(CopyRead(buf, n).buf)
        /\ Len(CopyRead(buf, n).bytes) \in 0..n
    BY <1>1, <2>1, CopyReadOK
  <2> QED BY <1>4, <2>2 DEF Read, IndInv
<1>5. ASSUME NEW n \in 0..MaxOp, ReadInPlace(n) PROVE IndInv'
  <2>1. n \in Nat /\ ~buf.writeFrozen /\ buf' = CommitRead(buf, n) /\ ret'.count = n
    BY <1>5 DEF ReadInPlace
  <2> QED BY <1>1, <2>1, CommitReadOK DEF IndInv
<1>6. ASSUME FreezeRead PROVE IndInv'
  <2>1. /\ ~buf.writeFrozen /\ buf' = [buf EXCEPT !.readFrozen = TRUE] /\ ret'.count = 0
    BY <1>6 DEF FreezeRead, Returns
  <2>2. /\ buf'.data = buf.data /\ buf'.size = buf.size /\ buf'.start = buf.start
        /\ buf'.len = buf.len /\ buf'.readOffset = buf.readOffset
        /\ buf'.writeOffset = buf.writeOffset
        /\ buf'.readFrozen = TRUE /\ buf'.writeFrozen = buf.writeFrozen
    BY <1>1, <2>1 DEF Fields
  <2>3. buf' \in Fields
    BY <1>1, <2>1 DEF Fields
  <2>4. OffsetsOK(buf') /\ ArrayOK(buf')
    BY <1>1, <2>2, SameArray DEF OffsetsOK, WellFormed
  <2>5. Transactional(buf')
    BY <1>1, <2>1, <2>2 DEF Transactional
  <2> QED BY <2>1, <2>3, <2>4, <2>5 DEF IndInv, WellFormed
<1>7. ASSUME ~buf.readFrozen, FreezeWrite PROVE IndInv'
  <2>1. buf' = [buf EXCEPT !.writeFrozen = TRUE] /\ ret'.count = 0
    BY <1>7 DEF FreezeWrite, Returns
  <2>2. /\ buf'.data = buf.data /\ buf'.size = buf.size /\ buf'.start = buf.start
        /\ buf'.len = buf.len /\ buf'.readOffset = buf.readOffset
        /\ buf'.writeOffset = buf.writeOffset
        /\ buf'.readFrozen = buf.readFrozen /\ buf'.writeFrozen = TRUE
    BY <1>1, <2>1 DEF Fields
  <2>3. buf' \in Fields
    BY <1>1, <2>1 DEF Fields
  <2>4. OffsetsOK(buf') /\ ArrayOK(buf')
    BY <1>1, <2>2, SameArray DEF OffsetsOK, WellFormed
  <2>5. Transactional(buf')
    BY <1>1, <1>7, <2>2 DEF Transactional
  <2> QED BY <2>1, <2>3, <2>4, <2>5 DEF IndInv, WellFormed
<1>8. ASSUME NEW commit \in BOOLEAN, ThawRead(commit) PROVE IndInv'
  <2>1. buf.readOffset \in Nat
    BY <1>1 DEF Fields
  <2> QED BY <1>1, <1>8, <2>1, UnfreezeReadOK DEF ThawRead, Returns, IndInv
<1>9. ASSUME NEW commit \in BOOLEAN, ThawWrite(commit) PROVE IndInv'
  <2>1. Clip(buf.writeOffset, buf.size - buf.len) \in Nat
    BY <1>1 DEF Fields, Clip, OffsetsOK
  <2> QED BY <1>1, <1>9, <2>1, UnfreezeWriteOK DEF ThawWrite, Returns, IndInv
<1>10. ASSUME ClearAll PROVE IndInv'
  BY <1>1, <1>10, ClearOK DEF ClearAll, Returns, IndInv
<1>11. ASSUME NEW n \in buf.size..MaxSize, ResizeTo(n) PROVE IndInv'
  BY <1>1, <1>11, GrowOK DEF ResizeTo, Returns, IndInv
<1>12. CASE UNCHANGED vars
  BY <1>12 DEF vars, IndInv
<1> QED BY <1>2, <1>3, <1>4, <1>5, <1>6, <1>7, <1>8, <1>9, <1>10, <1>11, <1>12 DEF Next

\* The struct is always well typed: the array is as long as size says, the
\* offsets are natural numbers.
THEOREM TypeCorrect == Spec => []TypeOK
<1>1. Init => IndInv
  BY CreateOK DEF Init, IndInv, Nothing
<1> QED BY <1>1, IndInvStep, IndInvMeaning, PTL DEF Spec

\* Committed and pending bytes never exceed the allocation, the reader never
\* runs ahead of the committed bytes, and pending reads or writes exist only
\* inside their transaction: ringbuffer.c never leaves its array.
THEOREM IndicesInBounds == Spec => []IndexInv
<1>1. Init => IndInv
  BY CreateOK DEF Init, IndInv, Nothing
<1> QED BY <1>1, IndInvStep, IndInvMeaning, PTL DEF Spec
-----------------------------------------------------------------------------
(* The refinement. *)

HIDE SizesAssumption

\* Within two turns of the array the remainder is a subtraction.
LEMMA Wrap ==
  ASSUME NEW n \in Nat \ {0}, NEW x \in 0..(2 * n - 1)
  PROVE  x % n = IF x < n THEN x ELSE x - n
<1>1. x % n \in 0..(n - 1) /\ x = n * (x \div n) + (x % n)
  OBVIOUS
<1> DEFINE q == x \div n
<1>2. q \in Int
  OBVIOUS
<1>3. q \in {0, 1}
  <2> HIDE DEF q
  <2>1. CASE q >= 2
    BY <1>1, <1>2, <2>1 DEF q
  <2>2. CASE q <= -1
    BY <1>1, <1>2, <2>2 DEF q
  <2> QED BY <1>2, <2>1, <2>2
<1> QED BY <1>1, <1>3

\* What lies i bytes behind the start, whatever the offsets say of it.
Pos(b, i) == (b.start + i) % b.size
Held(b, i) == b.data[Pos(b, i)]

\* The bytes of the queue, those still to be committed behind those that are.
Total(b) == b.len + b.writeOffset
Queued(b) == [i \in 1..Total(b) |-> Held(b, i - 1)]

\* What no call but a freeze, an unfreeze or a resize changes.
Alike(b, c) ==
    /\ c.size = b.size /\ c.readFrozen = b.readFrozen /\ c.writeFrozen = b.writeFrozen

\* The facts of a well-formed struct that the arithmetic below needs.
LEMMA Numbers ==
  ASSUME NEW b, WellFormed(b)
  PROVE  /\ b.size \in Nat \ {0} /\ b.start \in 0..(b.size - 1)
         /\ b.len \in Nat /\ b.writeOffset \in Nat /\ b.readOffset \in 0..b.len
         /\ Total(b) \in 0..b.size /\ Total(b) = b.len + b.writeOffset
         /\ b.readFrozen \in BOOLEAN /\ b.writeFrozen \in BOOLEAN
         /\ b.data \in [0..(b.size - 1) -> Cell]
  BY DEF WellFormed, Fields, ArrayOK, OffsetsOK, Total

\* Where the byte i behind the start is.
LEMMA Place ==
  ASSUME NEW b, WellFormed(b), NEW i \in 0..b.size
  PROVE  /\ Pos(b, i) \in 0..(b.size - 1)
         /\ Pos(b, i) = IF b.start + i < b.size THEN b.start + i ELSE b.start + i - b.size
<1> DEFINE n == b.size
           x == b.start + i
<1>1. n \in Nat \ {0} /\ x \in 0..(2 * n - 1)
  BY Numbers
<1> HIDE DEF n, x
<1>2. x % n = IF x < n THEN x ELSE x - n
  BY <1>1, Wrap
<1>3. x % n \in 0..(n - 1)
  BY <1>1, <1>2
<1>4. Pos(b, i) = x % n
  BY Zenon DEF n, x, Pos
<1>5. Pos(b, i) \in 0..(n - 1) /\ Pos(b, i) = IF x < n THEN x ELSE x - n
  BY <1>2, <1>3, <1>4
<1> QED BY <1>5, Numbers DEF n, x

\* The bytes from t on have places of their own, one after the other as long as
\* they do not reach the end of the array.
LEMMA Apart ==
  ASSUME NEW size \in Nat \ {0}, NEW start \in 0..(size - 1), NEW t \in 0..size,
         NEW n \in Nat, n <= size - t, NEW i \in 0..(t + n - 1), NEW o, NEW p,
         o = IF start + t < size THEN start + t ELSE start + t - size,
         p = IF start + i < size THEN start + i ELSE start + i - size,
         o + n <= size
  PROVE  /\ i < t => p \notin o..(o + n - 1)
         /\ i >= t => p = o + (i - t)
<1>1. CASE start + t < size /\ start + i < size
  BY <1>1
<1>2. CASE start + t < size /\ ~(start + i < size)
  BY <1>2
<1>3. CASE ~(start + t < size) /\ start + i < size
  BY <1>3
<1>4. CASE ~(start + t < size) /\ ~(start + i < size)
  BY <1>4
<1> QED BY <1>1, <1>2, <1>3, <1>4

\* What a function puts behind the content of the queue when it fills the write
\* segment and commits that.
Put(b, s) == CommitWrite(Store(b, GetWriteBuf(b).offset, s), Len(s))

\* memcpy into the array, byte by byte.
LEMMA StoredAt ==
  ASSUME NEW b, WellFormed(b), NEW o \in 0..(b.size - 1), NEW n \in Nat,
         NEW s \in [1..n -> Byte], o + n <= b.size, NEW k \in 0..(b.size - 1)
  PROVE  Store(b, o, s).data[k] = IF k \in o..(o + n - 1) THEN s[k - o + 1] ELSE b.data[k]
<1>1. b \in Fields /\ b.data \in [0..(b.size - 1) -> Cell]
  BY Numbers DEF WellFormed
<1>2. Len(s) = n
  OBVIOUS
<1> DEFINE cells == [j \in DOMAIN b.data |->
               IF j \in o..(o + Len(s) - 1) THEN s[j - o + 1] ELSE b.data[j]]
<1>3. Store(b, o, s) = [b EXCEPT !.data = cells]
  BY DEF Store
<1>4. cells[k] = IF k \in o..(o + n - 1) THEN s[k - o + 1] ELSE b.data[k]
  BY <1>1, <1>2
<1> HIDE DEF cells
<1>5. Store(b, o, s).data = cells
  BY <1>1, <1>3 DEF Fields
<1> QED BY <1>4, <1>5

\* get_write_buf: from the end of the content to the end of the array or to the
\* start of the content, whichever comes first.
LEMMA WriteSegmentAt ==
  ASSUME NEW b, WellFormed(b)
  PROVE  /\ GetWriteBuf(b).offset =
              IF b.start + Total(b) < b.size THEN b.start + Total(b)
                                             ELSE b.start + Total(b) - b.size
         /\ GetWriteBuf(b).size =
              IF GetWriteBuf(b).offset + (b.size - Total(b)) < b.size
              THEN b.size - Total(b) ELSE b.size - GetWriteBuf(b).offset
<1> DEFINE t == Total(b)
<1>1. /\ b.size \in Nat \ {0} /\ b.start \in 0..(b.size - 1)
      /\ b.len \in Nat /\ b.writeOffset \in Nat
      /\ t \in 0..b.size /\ t = b.len + b.writeOffset
  BY Numbers
<1> HIDE DEF t
<1>2. GetWriteBuf(b) = Segment(b, Pos(b, t), b.size - t)
  BY <1>1, b.start + b.len + b.writeOffset = b.start + t,
     b.size - b.len - b.writeOffset = b.size - t DEF GetWriteBuf, Pos
<1>3. Pos(b, t) = IF b.start + t < b.size THEN b.start + t ELSE b.start + t - b.size
  BY <1>1, Place
<1> QED BY <1>2, <1>3 DEF Segment, t

\* c is b with the first n bytes of s behind its content.
Appended(b, s, n, c) ==
    /\ WellFormed(c) /\ Transactional(c) /\ Alike(b, c)
    /\ c.start = b.start /\ c.readOffset = b.readOffset
    /\ IF b.writeFrozen
       THEN c.len = b.len /\ c.writeOffset = b.writeOffset + n
       ELSE c.len = b.len + n /\ c.writeOffset = b.writeOffset
    /\ Total(c) = Total(b) + n
    /\ \A i \in 0..(Total(b) - 1) : Held(c, i) = Held(b, i)
    /\ \A i \in 0..(n - 1) : Held(c, Total(b) + i) = s[i + 1]

\* memcpy and commit_write within the write segment.
LEMMA PutOK ==
  ASSUME NEW b, WellFormed(b), Transactional(b), NEW n \in Nat, NEW s \in [1..n -> Byte],
         n <= GetWriteBuf(b).size
  PROVE  Appended(b, s, n, Put(b, s))
<1> DEFINE seg == GetWriteBuf(b)
           o   == seg.offset
           a   == Store(b, o, s)
           c   == CommitWrite(a, n)
           t   == Total(b)
<1>1. /\ b.size \in Nat \ {0} /\ b.start \in 0..(b.size - 1)
      /\ b.len \in Nat /\ b.writeOffset \in Nat /\ b.readOffset \in 0..b.len
      /\ t \in 0..b.size /\ t = b.len + b.writeOffset
      /\ b.writeFrozen \in BOOLEAN
  BY Numbers
<1>2. Len(s) = n /\ Put(b, s) = c
  BY DEF Put
<1>4. /\ o \in 0..(b.size - 1)
      /\ o = IF b.start + t < b.size THEN b.start + t ELSE b.start + t - b.size
      /\ seg.size = IF o + (b.size - t) < b.size THEN b.size - t ELSE b.size - o
  BY <1>1, WriteSegmentAt, WriteSegmentOK
<1> HIDE DEF seg, o, t
<1>5. n <= b.size - t /\ o + n <= b.size
  BY <1>1, <1>4, SMTT(30) DEF seg
<1>6. WellFormed(a) /\ Transactional(a)
  BY <1>1, <1>4, <1>5, StoreOK
<1>7. /\ a.size = b.size /\ a.start = b.start /\ a.len = b.len
      /\ a.readOffset = b.readOffset /\ a.writeOffset = b.writeOffset
      /\ a.readFrozen = b.readFrozen /\ a.writeFrozen = b.writeFrozen
  BY DEF Store, WellFormed, Fields
<1>8. \A k \in 0..(b.size - 1) :
        a.data[k] = IF k \in o..(o + n - 1) THEN s[k - o + 1] ELSE b.data[k]
  BY <1>4, <1>5, StoredAt, SMTT(30) DEF a
<1> HIDE DEF a
<1>9. WellFormed(c) /\ Transactional(c)
  BY <1>6, CommitWriteOK
<1>10. /\ c.data = a.data /\ c.size = b.size /\ c.start = b.start
       /\ c.readOffset = b.readOffset
       /\ c.readFrozen = b.readFrozen /\ c.writeFrozen = b.writeFrozen
       /\ IF b.writeFrozen
          THEN c.len = b.len /\ c.writeOffset = b.writeOffset + n
          ELSE c.len = b.len + n /\ c.writeOffset = b.writeOffset
  <2>1. a \in Fields
    BY <1>6 DEF WellFormed
  <2>2. CASE b.writeFrozen
    <3>1. Clip(a.writeOffset + n, a.size - a.len) = b.writeOffset + n
      BY <1>1, <1>5, <1>7 DEF Clip
    <3>2. c = [a EXCEPT !.writeOffset = b.writeOffset + n]
      BY <1>7, <2>1, <2>2, <3>1 DEF CommitWrite, Fields
    <3> HIDE DEF c
    <3>3. /\ c.data = a.data /\ c.size = a.size /\ c.start = a.start /\ c.len = a.len
          /\ c.readOffset = a.readOffset /\ c.writeOffset = b.writeOffset + n
          /\ c.readFrozen = a.readFrozen /\ c.writeFrozen = a.writeFrozen
      BY <2>1, <3>2 DEF Fields
    <3> QED BY <1>1, <1>7, <2>2, <3>3
  <2>3. CASE ~b.writeFrozen
    <3>1. b.writeOffset = 0
      BY <1>1, <2>3 DEF Transactional
    <3>2. Clip(a.len + n, a.size) = b.len + n
      BY <1>1, <1>5, <1>7, <3>1 DEF Clip
    <3>3. c = [a EXCEPT !.len = b.len + n]
      BY <1>7, <2>1, <2>3, <3>2 DEF CommitWrite, Fields
    <3> HIDE DEF c
    <3>4. /\ c.data = a.data /\ c.size = a.size /\ c.start = a.start
          /\ c.len = b.len + n /\ c.readOffset = a.readOffset
          /\ c.writeOffset = a.writeOffset
          /\ c.readFrozen = a.readFrozen /\ c.writeFrozen = a.writeFrozen
      BY <2>1, <3>3 DEF Fields
    <3> QED BY <1>1, <1>7, <2>3, <3>4
  <2> QED BY <1>1, <2>2, <2>3
<1> HIDE DEF c
<1>11. Total(c) = t + n
  BY <1>1, <1>10 DEF Total
<1> DEFINE size == b.size
           start == b.start
<1>14. /\ size \in Nat \ {0} /\ start \in 0..(size - 1) /\ t \in 0..size
      /\ o = (IF start + t < size THEN start + t ELSE start + t - size)
      /\ n <= size - t /\ o + n <= size /\ t \in Nat
  BY <1>1, <1>4, <1>5
<1> HIDE DEF size, start
<1>12. ASSUME NEW i \in 0..(t - 1) PROVE Held(c, i) = Held(b, i)
  <2> DEFINE p == Pos(b, i)
  <2>1. /\ p \in 0..(b.size - 1)
        /\ p = IF b.start + i < b.size THEN b.start + i ELSE b.start + i - b.size
    BY <1>1, Place
  <2>2. Held(c, i) = a.data[p] /\ Held(b, i) = b.data[p]
    BY <1>10 DEF Held, Pos
  <2> HIDE DEF p
  <2>4. i \in 0..(t + n - 1) /\ i < t
    BY <1>14
  <2>5. p = IF start + i < size THEN start + i ELSE start + i - size
    BY <2>1 DEF start, size
  <2>3. p \notin o..(o + n - 1)
    BY <1>14, <2>4, <2>5, Apart
  <2> QED BY <1>8, <2>1, <2>2, <2>3
<1>13. ASSUME NEW i \in 0..(n - 1) PROVE Held(c, t + i) = s[i + 1]
  <2> DEFINE p == Pos(b, t + i)
  <2>1. t + i \in 0..b.size
    BY <1>1, <1>5
  <2>2. /\ p \in 0..(b.size - 1)
        /\ p = IF b.start + (t + i) < b.size THEN b.start + (t + i)
                                             ELSE b.start + (t + i) - b.size
    BY <1>1, <2>1, Place
  <2>3. Held(c, t + i) = a.data[p]
    BY <1>10 DEF Held, Pos
  <2> HIDE DEF p
  <2> DEFINE j == t + i
  <2>4. j \in 0..(t + n - 1) /\ j >= t /\ j - t = i
    BY <1>14
  <2>7. p = IF start + j < size THEN start + j ELSE start + j - size
    BY <2>2 DEF start, size
  <2> HIDE DEF j
  <2>5. p = o + i
    <3>1. p = o + (j - t)
      BY <1>14, <2>4, <2>7, Apart
    <3> QED BY <2>4, <3>1
  <2>6. p \in o..(o + n - 1) /\ p - o + 1 = i + 1
    BY <1>4, <2>5
  <2> QED BY <1>8, <2>2, <2>3, <2>6
<1> QED BY <1>2, <1>9, <1>10, <1>11, <1>12, <1>13 DEF Appended, Alike, t
\* Two pieces of s, one behind the other.
LEMMA AppendedTwice ==
  ASSUME NEW b, WellFormed(b), NEW b1, NEW c, NEW n1 \in Nat, NEW n2 \in Nat,
         NEW s, NEW s1, NEW s2, Appended(b, s1, n1, b1), Appended(b1, s2, n2, c),
         \A i \in 1..n1 : s1[i] = s[i], \A i \in 1..n2 : s2[i] = s[n1 + i]
  PROVE  Appended(b, s, n1 + n2, c)
<1> DEFINE t == Total(b)
           t1 == Total(b1)
<1>1. t \in Nat /\ t1 = t + n1 /\ Total(c) = t1 + n2
  BY Numbers DEF Appended
<1>2. /\ \A i \in 0..(t - 1) : Held(b1, i) = Held(b, i)
      /\ \A i \in 0..(n1 - 1) : Held(b1, t + i) = s1[i + 1]
      /\ \A i \in 0..(t1 - 1) : Held(c, i) = Held(b1, i)
      /\ \A i \in 0..(n2 - 1) : Held(c, t1 + i) = s2[i + 1]
  BY DEF Appended
<1> HIDE DEF t, t1
<1>3. ASSUME NEW i \in 0..(t - 1) PROVE Held(c, i) = Held(b, i)
  BY <1>1, <1>2
<1>4. ASSUME NEW i \in 0..(n1 + n2 - 1) PROVE Held(c, t + i) = s[i + 1]
  <2>1. CASE i < n1
    <3> DEFINE j == t + i
    <3>1. j \in 0..(t1 - 1) /\ i \in 0..(n1 - 1) /\ i + 1 \in 1..n1
      BY <1>1, <2>1
    <3>2. Held(b1, j) = s1[i + 1]
      BY <1>2, <3>1
    <3> HIDE DEF j
    <3>3. Held(c, j) = s1[i + 1]
      BY <1>2, <3>1, <3>2
    <3> QED BY <3>1, <3>3 DEF j
  <2>2. CASE ~(i < n1)
    <3> DEFINE k == i - n1
    <3>1. k \in 0..(n2 - 1) /\ k + 1 \in 1..n2 /\ t1 + k = t + i /\ n1 + (k + 1) = i + 1
      BY <1>1, <2>2
    <3> HIDE DEF k
    <3>2. Held(c, t1 + k) = s2[k + 1] /\ s2[k + 1] = s[n1 + (k + 1)]
      BY <1>2, <3>1
    <3> QED BY <3>1, <3>2
  <2> QED BY <2>1, <2>2
<1>5. Total(c) = t + (n1 + n2)
  BY <1>1
<1>6. IF b.writeFrozen
      THEN c.len = b.len /\ c.writeOffset = b.writeOffset + (n1 + n2)
      ELSE c.len = b.len + (n1 + n2) /\ c.writeOffset = b.writeOffset
  <2>1. b.len \in Nat /\ b.writeOffset \in Nat
    BY Numbers
  <2> QED BY <2>1 DEF Appended, Alike
<1> QED BY <1>3, <1>4, <1>5, <1>6 DEF Appended, Alike, t

\* ringbuffer_copy_write: what fits, in two pieces at most.
LEMMA CopyWriteAppends ==
  ASSUME NEW b, WellFormed(b), Transactional(b), NEW n \in Nat, NEW s \in [1..n -> Byte]
  PROVE  /\ CopyWrite(b, s).wrote = Clip(n, b.size - Total(b))
         /\ Appended(b, s, CopyWrite(b, s).wrote, CopyWrite(b, s).buf)
<1> DEFINE seg1 == GetWriteBuf(b)
           n1   == Clip(Len(s), seg1.size)
           s1   == SubSeq(s, 1, n1)
           b1   == CommitWrite(Store(b, seg1.offset, s1), n1)
           seg2 == GetWriteBuf(b1)
           n2   == Clip(Len(s) - n1, seg2.size)
           s2   == SubSeq(s, n1 + 1, n1 + n2)
           b2   == CommitWrite(Store(b1, seg2.offset, s2), n2)
           t    == Total(b)
<1>1. Len(s) = n /\ CopyWrite(b, s) = [buf |-> b2, wrote |-> n1 + n2]
  BY DEF CopyWrite
<1>2. seg1.size \in Nat
  BY WriteSegmentOK
<1>3. n1 \in 0..n /\ n1 <= seg1.size /\ n1 \in Nat /\ n1 = Clip(n, seg1.size)
  BY <1>1, <1>2 DEF Clip
<1> HIDE DEF n1
<1>4. s1 \in [1..n1 -> Byte] /\ Len(s1) = n1 /\ \A i \in 1..n1 : s1[i] = s[i]
  <2>1. s1 \in [1..n1 -> Byte]
    BY <1>3, SubSeqOK
  <2>2. \A i \in 1..n1 : s[i] \in Byte
    BY <1>3
  <2>3. \A i \in 1..(n1 - 1 + 1) : s1[i] = s[1 + i - 1]
    BY <1>3, <2>2, SubSeqProperties
  <2> QED BY <1>3, <2>1, <2>3
<1> HIDE DEF s1
<1>5. Appended(b, s1, n1, b1)
  <2>1. b1 = Put(b, s1)
    BY <1>4 DEF Put
  <2> QED BY <1>3, <1>4, <2>1, PutOK
<1> HIDE DEF b1
<1>6. WellFormed(b1) /\ Transactional(b1)
  BY <1>5 DEF Appended
<1>7. seg2.size \in Nat
  BY <1>6, WriteSegmentOK
<1>8. n2 \in 0..(n - n1) /\ n2 <= seg2.size /\ n2 \in Nat /\ n2 = Clip(n - n1, seg2.size)
  BY <1>1, <1>3, <1>7 DEF Clip
<1> HIDE DEF n2
<1>9. s2 \in [1..n2 -> Byte] /\ Len(s2) = n2 /\ \A i \in 1..n2 : s2[i] = s[n1 + i]
  <2> DEFINE i == n1 + 1
             j == n1 + n2
  <2>1. /\ i \in 1..(n + 1) /\ j \in (i - 1)..n /\ j - i + 1 = n2
        /\ i \in Int /\ j \in Int
        /\ \A k \in 1..n2 : i + k - 1 = n1 + k
    <3>1. n1 \in 0..n /\ n1 \in Nat /\ n2 \in 0..(n - n1) /\ n2 \in Nat
      BY <1>3, <1>8
    <3> QED BY <3>1
  <2>2. s2 = SubSeq(s, i, j)
    BY DEF s2
  <2> HIDE DEF i, j
  <2>3. SubSeq(s, i, j) \in [1..(j - i + 1) -> Byte]
    BY <2>1, SubSeqOK
  <2>4. \A k \in i..j : s[k] \in Byte
    BY <2>1
  <2>5. \A k \in 1..(j - i + 1) : SubSeq(s, i, j)[k] = s[i + k - 1]
    BY <2>1, <2>4, SubSeqProperties
  <2> HIDE DEF s2
  <2>6. s2 \in [1..n2 -> Byte] /\ \A k \in 1..n2 : s2[k] = s[i + k - 1]
    BY <2>1, <2>2, <2>3, <2>5
  <2>7. Len(s2) = n2
    BY <1>8, <2>6
  <2> QED BY <2>1, <2>6, <2>7
<1> HIDE DEF s2
<1>10. Appended(b1, s2, n2, b2)
  <2>1. b2 = Put(b1, s2)
    BY <1>9 DEF Put
  <2> QED BY <1>6, <1>8, <1>9, <2>1, PutOK
<1> HIDE DEF b2
<1>11. Appended(b, s, n1 + n2, b2)
  BY <1>3, <1>4, <1>5, <1>8, <1>9, <1>10, AppendedTwice
<1>12. n1 + n2 = Clip(n, b.size - t)
  <2> DEFINE size  == b.size
             start == b.start
             o1    == seg1.offset
             z1    == seg1.size
             o2    == seg2.offset
             z2    == seg2.size
  <2>1. size \in Nat \ {0} /\ start \in 0..(size - 1) /\ t \in 0..size
    BY Numbers
  <2>2. /\ o1 = IF start + t < size THEN start + t ELSE start + t - size
        /\ z1 = IF o1 + (size - t) < size THEN size - t ELSE size - o1
    BY WriteSegmentAt
  <2>3. b1.size = size /\ b1.start = start /\ Total(b1) = t + n1 /\ t + n1 \in 0..size
    BY <1>5, <1>6, Numbers DEF Appended, Alike
  <2>4. /\ o2 = IF start + (t + n1) < size THEN start + (t + n1) ELSE start + (t + n1) - size
        /\ z2 = IF o2 + (size - (t + n1)) < size THEN size - (t + n1) ELSE size - o2
    BY <1>6, <2>3, WriteSegmentAt
  <2>5. n1 = IF n > z1 THEN z1 ELSE n
    BY <1>3 DEF Clip
  <2>6. n2 = IF n - n1 > z2 THEN z2 ELSE n - n1
    BY <1>8 DEF Clip
  <2> HIDE DEF size, start, t, o1, o2, z1, z2
  <2>7. CASE n <= z1
    <3>1. n1 = n /\ z1 <= size - t
      BY <2>1, <2>2, <2>5, <2>7
    <3>2. n2 = 0
      BY <1>8, <3>1
    <3>3. n1 + n2 = n /\ n <= size - t
      <4>1. z1 \in Nat
        BY <1>2 DEF z1
      <4> QED BY <2>1, <2>7, <3>1, <3>2, <4>1
    <3> QED BY <2>1, <3>3 DEF Clip, size
  <2>8. CASE ~(n <= z1) /\ z1 = size - t
    <3>1. n1 = size - t
      BY <2>1, <2>2, <2>5, <2>8
    <3>2. o2 >= 0 /\ z2 <= 0
      BY <2>1, <2>4, <3>1
    <3>3. n2 = 0
      BY <1>8, <3>2, <1>7 DEF z2
    <3> QED BY <2>1, <2>8, <3>1, <3>3 DEF Clip, size
  <2>9. CASE ~(n <= z1) /\ z1 = size - o1
    <3>1. n1 = size - o1
      BY <2>1, <2>2, <2>5, <2>9
    <3>2. start + (t + n1) = size \/ start + (t + n1) = 2 * size
      BY <2>1, <2>2, <3>1
    <3>3. z2 = size - (t + n1)
      BY <2>1, <2>3, <2>4, <3>2
    <3>4. n1 \in Int /\ z2 \in Int
      BY <2>1, <2>3, <3>3, <1>3
    <3> QED BY <2>1, <2>6, <3>3, <3>4 DEF Clip, size
  <2> QED BY <2>2, <2>7, <2>8, <2>9
<1> QED BY <1>1, <1>11, <1>12
-----------------------------------------------------------------------------
(* The queue that a struct stands for. *)

CommittedOf(b) == [i \in 1..b.len |-> Held(b, i - 1)]
StagedOf(b) == [i \in 1..b.writeOffset |-> Held(b, b.len + i - 1)]

\* All of the content was written.
Filled(b) == \A i \in 0..(Total(b) - 1) : Held(b, i) \in Byte

\* The content is two sequences of bytes.
LEMMA ContentOK ==
  ASSUME NEW b, WellFormed(b), Filled(b)
  PROVE  /\ CommittedOf(b) \in Seq(Byte) /\ Len(CommittedOf(b)) = b.len
         /\ \A i \in 1..b.len : CommittedOf(b)[i] = Held(b, i - 1)
         /\ StagedOf(b) \in Seq(Byte) /\ Len(StagedOf(b)) = b.writeOffset
         /\ \A i \in 1..b.writeOffset : StagedOf(b)[i] = Held(b, b.len + i - 1)
<1> DEFINE m == b.len
           w == b.writeOffset
           t == Total(b)
<1>1. m \in Nat /\ w \in Nat /\ t = m + w
  BY Numbers
<1>2. \A i \in 0..(t - 1) : Held(b, i) \in Byte
  BY DEF Filled
<1> HIDE DEF m, w, t
<1>3. \A i \in 1..m : Held(b, i - 1) \in Byte
  BY <1>1, <1>2
<1>4. \A i \in 1..w : Held(b, m + i - 1) \in Byte
  <2> TAKE i \in 1..w
  <2>1. m + i - 1 \in 0..(t - 1)
    BY <1>1
  <2> QED BY <1>2, <2>1
<1>5. CommittedOf(b) = [i \in 1..m |-> Held(b, i - 1)]
  BY DEF CommittedOf, m
<1>6. StagedOf(b) = [i \in 1..w |-> Held(b, m + i - 1)]
  BY DEF StagedOf, m, w
<1>7. CommittedOf(b) \in [1..m -> Byte] /\ \A i \in 1..m : CommittedOf(b)[i] = Held(b, i - 1)
  BY <1>3, <1>5
<1>8. /\ StagedOf(b) \in [1..w -> Byte]
      /\ \A i \in 1..w : StagedOf(b)[i] = Held(b, m + i - 1)
  BY <1>4, <1>6
<1>9. CommittedOf(b) \in Seq(Byte) /\ Len(CommittedOf(b)) = m
  BY <1>1, <1>7
<1>10. StagedOf(b) \in Seq(Byte) /\ Len(StagedOf(b)) = w
  BY <1>1, <1>8
<1> QED BY <1>7, <1>8, <1>9, <1>10 DEF m, w

\* What is appended goes behind the part of the content that writes are for.
LEMMA AppendedMeans ==
  ASSUME NEW b, WellFormed(b), Transactional(b), Filled(b), NEW k \in Nat,
         NEW s, NEW c, Appended(b, s, k, c), NEW p \in Seq(Byte), Len(p) = k,
         \A i \in 1..k : p[i] = s[i]
  PROVE  /\ Filled(c)
         /\ IF b.writeFrozen
            THEN StagedOf(c) = StagedOf(b) \o p /\ CommittedOf(c) = CommittedOf(b)
            ELSE CommittedOf(c) = CommittedOf(b) \o p /\ StagedOf(c) = StagedOf(b)
<1> DEFINE t == Total(b)
           m == b.len
           w == b.writeOffset
<1>1. m \in Nat /\ w \in Nat /\ t = m + w
  BY Numbers
<1>2. Total(c) = t + k /\ WellFormed(c)
  BY DEF Appended
<1>3. /\ \A i \in 0..(t - 1) : Held(c, i) = Held(b, i) /\ Held(b, i) \in Byte
      /\ \A i \in 0..(k - 1) : Held(c, t + i) = p[i + 1]
  <2>1. \A i \in 0..(k - 1) : i + 1 \in 1..k
    OBVIOUS
  <2> QED BY <2>1 DEF Appended, Filled
<1>4. \A i \in 1..k : p[i] \in Byte
  OBVIOUS
<1> HIDE DEF t
<1>5. Filled(c)
  <2> SUFFICES ASSUME NEW i \in 0..(Total(c) - 1) PROVE Held(c, i) \in Byte
    BY DEF Filled
  <2>3. i \in 0..(t + k - 1)
    BY <1>1, <1>2
  <2>1. CASE i < t
    BY <1>1, <1>3, <2>1, <2>3
  <2>2. CASE ~(i < t)
    <3> DEFINE j == i - t
    <3>1. j \in 0..(k - 1) /\ t + j = i /\ j + 1 \in 1..k
      BY <1>1, <2>2, <2>3
    <3> HIDE DEF j
    <3> QED BY <1>3, <1>4, <3>1
  <2> QED BY <2>1, <2>2
<1>6. /\ CommittedOf(b) \in Seq(Byte) /\ Len(CommittedOf(b)) = m
      /\ \A i \in 1..m : CommittedOf(b)[i] = Held(b, i - 1)
      /\ StagedOf(b) \in Seq(Byte) /\ Len(StagedOf(b)) = w
      /\ \A i \in 1..w : StagedOf(b)[i] = Held(b, m + i - 1)
  BY ContentOK
<1>7. /\ CommittedOf(c) \in Seq(Byte) /\ Len(CommittedOf(c)) = c.len
      /\ \A i \in 1..c.len : CommittedOf(c)[i] = Held(c, i - 1)
      /\ StagedOf(c) \in Seq(Byte) /\ Len(StagedOf(c)) = c.writeOffset
      /\ \A i \in 1..c.writeOffset : StagedOf(c)[i] = Held(c, c.len + i - 1)
  BY <1>2, <1>5, ContentOK
<1> HIDE DEF m, w
<1>8. CASE b.writeFrozen
  <2>1. c.len = m /\ c.writeOffset = w + k
    BY <1>8 DEF Appended, m, w
  <2>2. CommittedOf(c) = CommittedOf(b)
    <3>1. ASSUME NEW i \in 1..m PROVE CommittedOf(c)[i] = CommittedOf(b)[i]
      <4>1. i - 1 \in 0..(t - 1)
        BY <1>1
      <4> QED BY <1>3, <1>6, <1>7, <2>1, <4>1
    <3> QED BY <1>6, <1>7, <2>1, <3>1, SeqEqual
  <2>3. StagedOf(c) = StagedOf(b) \o p
    <3> DEFINE q == StagedOf(b) \o p
    <3>1. /\ q \in Seq(Byte) /\ Len(q) = w + k
          /\ \A i \in 1..(w + k) : q[i] = IF i <= w THEN StagedOf(b)[i] ELSE p[i - w]
      <4> DEFINE x == StagedOf(b)
      <4>1. x \in Seq(Byte) /\ Len(x) = w
        BY <1>6
      <4> HIDE DEF x
      <4>2. /\ x \o p \in Seq(Byte) /\ Len(x \o p) = Len(x) + Len(p)
            /\ \A i \in 1..(Len(x) + Len(p)) :
                  (x \o p)[i] = IF i <= Len(x) THEN x[i] ELSE p[i - Len(x)]
        BY <4>1, ConcatProperties, Zenon
      <4> QED BY <4>1, <4>2, Zenon DEF x
    <3> HIDE DEF q
    <3>2. ASSUME NEW i \in 1..(w + k) PROVE StagedOf(c)[i] = q[i]
      <4>1. StagedOf(c)[i] = Held(c, m + i - 1)
        BY <1>7, <2>1
      <4>2. CASE i <= w
        <5>1. m + i - 1 \in 0..(t - 1) /\ i \in 1..w
          BY <1>1, <4>2
        <5> QED BY <1>3, <1>6, <3>1, <4>1, <4>2, <5>1
      <4>3. CASE ~(i <= w)
        <5> DEFINE j == i - w - 1
        <5>1. j \in 0..(k - 1) /\ t + j = m + i - 1 /\ j + 1 = i - w
          BY <1>1, <4>3
        <5> HIDE DEF j
        <5>2. Held(c, t + j) = p[j + 1]
          BY <1>3, <5>1
        <5> QED BY <3>1, <4>1, <4>3, <5>1, <5>2
      <4> QED BY <4>2, <4>3
    <3>3. Len(StagedOf(c)) = w + k /\ StagedOf(c) \in Seq(Byte)
      BY <1>7, <2>1
    <3>4. StagedOf(c) = q
      BY <3>1, <3>2, <3>3, SeqEqual
    <3> QED BY <3>4 DEF q
  <2> QED BY <1>5, <1>8, <2>2, <2>3
<1>9. CASE ~b.writeFrozen
  <2>1. w = 0 /\ c.len = m + k /\ c.writeOffset = 0 /\ t = m
    BY <1>1, <1>9 DEF Appended, Transactional, m, w
  <2>2. StagedOf(c) = StagedOf(b)
    <3>1. StagedOf(c) = <<>> /\ StagedOf(b) = <<>>
      BY <1>6, <1>7, <2>1
    <3> QED BY <3>1
  <2>3. CommittedOf(c) = CommittedOf(b) \o p
    <3> DEFINE q == CommittedOf(b) \o p
    <3>1. /\ q \in Seq(Byte) /\ Len(q) = m + k
          /\ \A i \in 1..(m + k) : q[i] = IF i <= m THEN CommittedOf(b)[i] ELSE p[i - m]
      <4> DEFINE x == CommittedOf(b)
      <4>1. x \in Seq(Byte) /\ Len(x) = m
        BY <1>6
      <4> HIDE DEF x
      <4>2. /\ x \o p \in Seq(Byte) /\ Len(x \o p) = Len(x) + Len(p)
            /\ \A i \in 1..(Len(x) + Len(p)) :
                  (x \o p)[i] = IF i <= Len(x) THEN x[i] ELSE p[i - Len(x)]
        BY <4>1, ConcatProperties, Zenon
      <4> QED BY <4>1, <4>2, Zenon DEF x
    <3> HIDE DEF q
    <3>2. ASSUME NEW i \in 1..(m + k) PROVE CommittedOf(c)[i] = q[i]
      <4>1. CommittedOf(c)[i] = Held(c, i - 1)
        BY <1>7, <2>1
      <4>2. CASE i <= m
        <5>1. i - 1 \in 0..(t - 1) /\ i \in 1..m
          BY <1>1, <2>1, <4>2
        <5> QED BY <1>3, <1>6, <3>1, <4>1, <4>2, <5>1
      <4>3. CASE ~(i <= m)
        <5> DEFINE j == i - m - 1
        <5>1. j \in 0..(k - 1) /\ t + j = i - 1 /\ j + 1 = i - m
          BY <1>1, <2>1, <4>3
        <5> HIDE DEF j
        <5>2. Held(c, t + j) = p[j + 1]
          BY <1>3, <5>1
        <5> QED BY <3>1, <4>1, <4>3, <5>1, <5>2
      <4> QED BY <4>2, <4>3
    <3>3. Len(CommittedOf(c)) = m + k /\ CommittedOf(c) \in Seq(Byte)
      BY <1>7, <2>1
    <3>4. CommittedOf(c) = q
      BY <3>1, <3>2, <3>3, SeqEqual
    <3> QED BY <3>4 DEF q
  <2> QED BY <1>5, <1>9, <2>2, <2>3
<1> QED BY <1>8, <1>9
-----------------------------------------------------------------------------
(* Reading. *)

\* What lies unread in b from its start on, n bytes of it, is gone from c, or
\* noted as read when reads are frozen.
Taken(b, n, c) ==
    /\ WellFormed(c) /\ Transactional(c) /\ Alike(b, c)
    /\ c.writeOffset = b.writeOffset
    /\ IF b.readFrozen
       THEN /\ c.len = b.len /\ c.readOffset = b.readOffset + n
            /\ \A i \in 0..(b.len - 1) : Held(c, i) = Held(b, i)
       ELSE /\ c.len = b.len - n /\ c.readOffset = b.readOffset
            /\ \A i \in 0..(b.len - n - 1) : Held(c, i) = Held(b, n + i)

\* A transaction of reads begins with something to read and takes nothing away.
Unemptied(b) == b.readFrozen => b.len > 0

\* get_read_buf: from the first unread byte to the end of the array or of what is
\* unread, whichever comes first.
LEMMA ReadSegmentAt ==
  ASSUME NEW b, WellFormed(b), Transactional(b), ~b.writeFrozen
  PROVE  /\ GetReadBuf(b).offset = Pos(b, b.readOffset)
         /\ Count(b) = b.len - b.readOffset
         /\ GetReadBuf(b).size =
              IF GetReadBuf(b).offset + (b.len - b.readOffset) < b.size
              THEN b.len - b.readOffset ELSE b.size - GetReadBuf(b).offset
<1>1. /\ b.size \in Nat \ {0} /\ b.start \in 0..(b.size - 1)
      /\ b.len \in Nat /\ b.readOffset \in 0..b.len /\ b.writeOffset \in Nat
  BY Numbers
<1>2. b.writeOffset = 0
  BY <1>1 DEF Transactional
<1>3. Count(b) = b.len - b.readOffset
  BY <1>1, <1>2 DEF Count
<1>4. GetReadBuf(b) = Segment(b, Pos(b, b.readOffset), b.len - b.readOffset)
  BY <1>3 DEF GetReadBuf, Pos
<1> QED BY <1>3, <1>4 DEF Segment

\* commit_read of no more than what is unread.
LEMMA TakenOK ==
  ASSUME NEW b, WellFormed(b), Transactional(b), ~b.writeFrozen, Unemptied(b),
         NEW n \in Nat, n <= b.len - b.readOffset
  PROVE  Taken(b, n, CommitRead(b, n))
<1> DEFINE c == CommitRead(b, n)
           frozen == [b EXCEPT !.readOffset = b.readOffset + n]
           plain == [b EXCEPT !.start = Pos(b, n), !.len = b.len - n]
           after == IF b.readFrozen THEN frozen ELSE plain
<1>1. /\ b.size \in Nat \ {0} /\ b.start \in 0..(b.size - 1) /\ b.len <= b.size
      /\ b.len \in Nat /\ b.readOffset \in 0..b.len /\ b.writeOffset \in Nat
  BY Numbers
<1>2. b.writeOffset = 0 /\ (~b.readFrozen => b.readOffset = 0) /\ b \in Fields
  BY <1>1 DEF Transactional, WellFormed
<1>3. Readable(b, n) = n
  <2>1. Count(b) = b.len - b.readOffset
    BY ReadSegmentAt
  <2> QED BY <1>1, <2>1 DEF Readable, Clip
<1>4. c = IF after.len = 0 THEN Clear(after) ELSE after
  BY <1>2, <1>3 DEF CommitRead, Fields, Pos
<1>5. WellFormed(c) /\ Transactional(c)
  BY CommitReadOK
<1> SUFFICES Taken(b, n, c)
  OBVIOUS
<1> HIDE DEF c
<1>6. CASE b.readFrozen
  <2>1. /\ after.data = b.data /\ after.size = b.size /\ after.start = b.start
        /\ after.len = b.len /\ after.writeOffset = b.writeOffset
        /\ after.readOffset = b.readOffset + n
        /\ after.readFrozen = b.readFrozen /\ after.writeFrozen = b.writeFrozen
    BY <1>2, <1>6 DEF Fields
  <2>2. c = after
    BY <1>1, <1>4, <1>6, <2>1 DEF Unemptied
  <2> HIDE DEF after
  <2>3. \A i \in 0..(b.len - 1) : Held(c, i) = Held(b, i)
    BY <2>1, <2>2 DEF Held, Pos
  <2>4. /\ c.size = b.size /\ c.len = b.len /\ c.writeOffset = b.writeOffset
        /\ c.readOffset = b.readOffset + n
        /\ c.readFrozen = b.readFrozen /\ c.writeFrozen = b.writeFrozen
    BY <2>1, <2>2
  <2> QED BY <1>5, <1>6, <2>3, <2>4, Zenon DEF Taken, Alike
<1>7. CASE ~b.readFrozen
  <2>1. Pos(b, n) \in 0..(b.size - 1) /\ Pos(b, n) \in Nat
    BY <1>1, Place
  <2>2. /\ plain.data = b.data /\ plain.size = b.size /\ plain.start = Pos(b, n)
        /\ plain.len = b.len - n /\ plain.writeOffset = b.writeOffset
        /\ plain.readOffset = b.readOffset
        /\ plain.readFrozen = b.readFrozen /\ plain.writeFrozen = b.writeFrozen
    BY <1>2 DEF Fields
  <2>3. after = plain
    BY <1>7
  <2> HIDE DEF plain, after
  <2>4. CASE b.len = n
    <3>1. plain.len = 0
      BY <1>1, <2>2, <2>4
    <3>2. c = Clear(plain)
      BY <1>4, <2>3, <3>1
    <3>3. plain \in Fields
      <4>1. b.len - n \in Nat
        BY <1>1, <2>4
      <4> QED BY <1>2, <2>1, <4>1 DEF Fields, plain
    <3>4. /\ c.size = b.size /\ c.len = 0 /\ c.readOffset = 0 /\ c.writeOffset = 0
          /\ c.readFrozen = FALSE /\ c.writeFrozen = FALSE
      BY <2>2, <3>2, <3>3 DEF Clear, Fields
    <3>5. b.readFrozen = FALSE /\ b.writeFrozen = FALSE
      BY <1>7, Numbers
    <3>6. \A i \in 0..(b.len - n - 1) : Held(c, i) = Held(b, n + i)
      <4>1. 0..(b.len - n - 1) = {}
        BY <1>1, <2>4
      <4> QED BY <4>1
    <3>7. /\ c.len = b.len - n /\ c.writeOffset = b.writeOffset
          /\ c.readOffset = b.readOffset
          /\ c.readFrozen = b.readFrozen /\ c.writeFrozen = b.writeFrozen
      <4>1. b.len - n = 0
        BY <1>1, <2>4
      <4>2. b.readOffset = 0
        BY <1>2, <1>7
      <4> QED BY <1>2, <3>4, <3>5, <4>1, <4>2
    <3> QED BY <1>5, <1>7, <3>4, <3>6, <3>7, Zenon DEF Taken, Alike
  <2>5. CASE b.len # n
    <3>1. c = plain
      BY <1>1, <1>4, <2>2, <2>3, <2>5
    <3>2. ASSUME NEW i \in 0..(b.len - n - 1) PROVE Held(c, i) = Held(b, n + i)
      <4> DEFINE j == n + i
      <4>1. i \in 0..b.size /\ j \in 0..b.size
        BY <1>1, <1>2, <1>7
      <4>2. Pos(c, i) = IF c.start + i < c.size THEN c.start + i ELSE c.start + i - c.size
        BY <1>5, <2>2, <3>1, <4>1, Place
      <4>3. Pos(b, j) = IF b.start + j < b.size THEN b.start + j ELSE b.start + j - b.size
        BY <4>1, Place
      <4>4. Pos(b, n) = IF b.start + n < b.size THEN b.start + n ELSE b.start + n - b.size
        BY <1>1, Place
      <4>5. Pos(c, i) = Pos(b, j)
        BY <1>1, <1>2, <1>7, <2>1, <2>2, <3>1, <4>2, <4>3, <4>4
      <4> QED BY <2>2, <3>1, <4>5 DEF Held
    <3>3. /\ c.size = b.size /\ c.len = b.len - n /\ c.writeOffset = b.writeOffset
          /\ c.readOffset = b.readOffset
          /\ c.readFrozen = b.readFrozen /\ c.writeFrozen = b.writeFrozen
      BY <2>2, <3>1
    <3> QED BY <1>5, <1>7, <3>2, <3>3, Zenon DEF Taken, Alike
  <2> QED BY <2>4, <2>5
<1> QED BY <1>6, <1>7

\* A load from within the read segment gives the oldest unread bytes.
LEMMA LoadOK ==
  ASSUME NEW b, WellFormed(b), Transactional(b), ~b.writeFrozen,
         NEW n \in Nat, n <= GetReadBuf(b).size
  PROVE  /\ n <= b.len - b.readOffset
         /\ Len(Load(b, GetReadBuf(b).offset, n)) = n
         /\ \A i \in 1..n :
              Load(b, GetReadBuf(b).offset, n)[i] = Held(b, b.readOffset + i - 1)
<1> DEFINE o == GetReadBuf(b).offset
           z == GetReadBuf(b).size
           r == b.readOffset
           size == b.size
           start == b.start
           m == b.len
<1>1. /\ size \in Nat \ {0} /\ start \in 0..(size - 1) /\ m \in 0..size /\ r \in 0..m
  BY Numbers
<1>2. o = Pos(b, r) /\ z = IF o + (m - r) < size THEN m - r ELSE size - o
  BY ReadSegmentAt
<1>3. o = IF start + r < size THEN start + r ELSE start + r - size
  BY <1>1, <1>2, Place
<1>4. Load(b, o, n) = [k \in 1..n |-> b.data[o + k - 1]]
  BY DEF Load
<1>5. Len(Load(b, o, n)) = n /\ \A i \in 1..n : Load(b, o, n)[i] = b.data[o + i - 1]
  BY <1>4
<1>6. n <= z
  OBVIOUS
<1> HIDE DEF o, z, r, size, start, m
<1>7. n <= m - r /\ o + n <= size
  BY <1>1, <1>2, <1>3, <1>6
<1>8. ASSUME NEW i \in 1..n PROVE Pos(b, r + i - 1) = o + i - 1
  <2> DEFINE j == r + i - 1
  <2>1. j \in 0..size
    BY <1>1, <1>7
  <2>2. Pos(b, j) = IF start + j < size THEN start + j ELSE start + j - size
    BY <2>1, Place DEF size, start
  <2>3. o \in Nat
    BY <1>1, <1>3
  <2> QED BY <1>1, <1>3, <1>7, <2>1, <2>2, <2>3
<1> QED BY <1>5, <1>7, <1>8 DEF Held, o, r, m
\* Where the rest of the content begins after a commit_read.
LEMMA TakenFrom ==
  ASSUME NEW b, WellFormed(b), Transactional(b), ~b.writeFrozen, Unemptied(b),
         NEW n \in Nat, n <= b.len - b.readOffset
  PROVE  /\ b.readFrozen => CommitRead(b, n).start = b.start
         /\ ~b.readFrozen /\ n < b.len => CommitRead(b, n).start = Pos(b, n)
<1> DEFINE frozen == [b EXCEPT !.readOffset = b.readOffset + n]
           plain == [b EXCEPT !.start = Pos(b, n), !.len = b.len - n]
           after == IF b.readFrozen THEN frozen ELSE plain
<1>1. b.len \in Nat /\ b.readOffset \in 0..b.len /\ b \in Fields
  BY Numbers DEF WellFormed
<1>2. Readable(b, n) = n
  <2>1. Count(b) = b.len - b.readOffset
    BY ReadSegmentAt
  <2> QED BY <1>1, <2>1 DEF Readable, Clip
<1>3. CommitRead(b, n) = IF after.len = 0 THEN Clear(after) ELSE after
  BY <1>1, <1>2 DEF CommitRead, Fields, Pos
<1>4. CASE b.readFrozen
  <2>1. after.start = b.start /\ after.len = b.len
    BY <1>1, <1>4 DEF Fields
  <2> HIDE DEF after
  <2> QED BY <1>1, <1>3, <1>4, <2>1 DEF Unemptied
<1>5. CASE ~b.readFrozen /\ n < b.len
  <2>1. after.start = Pos(b, n) /\ after.len = b.len - n
    BY <1>1, <1>5 DEF Fields
  <2>2. b.len - n # 0
    BY <1>1, <1>5
  <2> HIDE DEF after
  <2> QED BY <1>3, <1>5, <2>1, <2>2
<1> QED BY <1>4, <1>5

\* What is unread afterwards is what was unread before, less n bytes.
LEMMA TakenRest ==
  ASSUME NEW b, WellFormed(b), Transactional(b), Unemptied(b), NEW n \in Nat,
         n <= b.len - b.readOffset, NEW c, Taken(b, n, c)
  PROVE  /\ c.len - c.readOffset = b.len - b.readOffset - n /\ Unemptied(c)
         /\ \A i \in 0..(b.len - b.readOffset - n - 1) :
              Held(c, c.readOffset + i) = Held(b, b.readOffset + n + i)
<1> DEFINE m == b.len
           r == b.readOffset
<1>1. m \in Nat /\ r \in 0..m /\ (~b.readFrozen => r = 0)
  BY Numbers DEF Transactional
<1>2. n <= m - r
  OBVIOUS
<1>3. CASE b.readFrozen
  <2>1. /\ c.len = m /\ c.readOffset = r + n
        /\ \A i \in 0..(m - 1) : Held(c, i) = Held(b, i)
    BY <1>3 DEF Taken
  <2> HIDE DEF m, r
  <2>2. ASSUME NEW i \in 0..(m - r - n - 1)
        PROVE  Held(c, c.readOffset + i) = Held(b, r + n + i)
    BY <1>1, <1>2, <2>1, r + n + i \in 0..(m - 1)
  <2>3. c.len - c.readOffset = m - r - n
    BY <1>1, <2>1
  <2>4. Unemptied(c)
    BY <1>3, <2>1 DEF Unemptied, m
  <2> QED BY <2>2, <2>3, <2>4 DEF m, r
<1>4. CASE ~b.readFrozen
  <2>1. /\ c.len = m - n /\ c.readOffset = r /\ c.readFrozen = b.readFrozen
        /\ \A i \in 0..(m - n - 1) : Held(c, i) = Held(b, n + i)
    BY <1>4 DEF Taken, Alike
  <2> HIDE DEF m, r
  <2>2. ASSUME NEW i \in 0..(m - r - n - 1)
        PROVE  Held(c, c.readOffset + i) = Held(b, r + n + i)
    BY <1>1, <1>2, <1>4, <2>1, c.readOffset + i = i, r + n + i = n + i
  <2>3. c.len - c.readOffset = m - r - n
    BY <1>1, <1>4, <2>1
  <2>4. Unemptied(c)
    BY <1>4, <2>1 DEF Unemptied
  <2> QED BY <2>2, <2>3, <2>4 DEF m, r
<1> QED BY <1>3, <1>4

\* One commit_read after the other.
LEMMA TakenTwice ==
  ASSUME NEW b, WellFormed(b), NEW n1 \in Nat, NEW n2 \in Nat, NEW b1, NEW c,
         Taken(b, n1, b1), Taken(b1, n2, c), n1 + n2 <= b.len - b.readOffset
  PROVE  Taken(b, n1 + n2, c)
<1> DEFINE m == b.len
           r == b.readOffset
<1>1. m \in Nat /\ r \in 0..m /\ n1 + n2 <= m - r
  BY Numbers
<1>2. /\ WellFormed(c) /\ Transactional(c) /\ Alike(b, c) /\ c.writeOffset = b.writeOffset
      /\ b1.readFrozen = b.readFrozen
  BY DEF Taken, Alike
<1>3. CASE b.readFrozen
  <2>1. /\ b1.len = m /\ b1.readOffset = r + n1
        /\ \A i \in 0..(m - 1) : Held(b1, i) = Held(b, i)
    BY <1>3 DEF Taken
  <2>2. /\ c.len = b1.len /\ c.readOffset = b1.readOffset + n2
        /\ \A i \in 0..(b1.len - 1) : Held(c, i) = Held(b1, i)
    BY <1>2, <1>3 DEF Taken
  <2> HIDE DEF m, r
  <2>3. /\ c.len = m /\ c.readOffset = r + (n1 + n2)
        /\ \A i \in 0..(m - 1) : Held(c, i) = Held(b, i)
    BY <1>1, <2>1, <2>2
  <2> QED BY <1>2, <1>3, <2>3 DEF Taken, m, r
<1>4. CASE ~b.readFrozen
  <2>1. /\ b1.len = m - n1 /\ b1.readOffset = r
        /\ \A i \in 0..(m - n1 - 1) : Held(b1, i) = Held(b, n1 + i)
    BY <1>4 DEF Taken
  <2>2. /\ c.len = b1.len - n2 /\ c.readOffset = b1.readOffset
        /\ \A i \in 0..(b1.len - n2 - 1) : Held(c, i) = Held(b1, n2 + i)
    BY <1>2, <1>4 DEF Taken
  <2> HIDE DEF m, r
  <2>3. c.len = m - (n1 + n2) /\ c.readOffset = r
    BY <1>1, <2>1, <2>2
  <2>4. ASSUME NEW i \in 0..(m - (n1 + n2) - 1)
        PROVE  Held(c, i) = Held(b, (n1 + n2) + i)
    <3>1. i \in 0..(b1.len - n2 - 1)
      BY <1>1, <2>1
    <3>2. n2 + i \in 0..(m - n1 - 1) /\ n1 + (n2 + i) = (n1 + n2) + i
      BY <1>1
    <3>3. Held(b1, n2 + i) = Held(b, n1 + (n2 + i))
      BY <2>1, <3>2
    <3> QED BY <2>2, <3>1, <3>2, <3>3
  <2> QED BY <1>2, <1>4, <2>3, <2>4 DEF Taken, m, r
<1> QED BY <1>3, <1>4
\* ringbuffer_copy_read: what there is, in two pieces at most.
LEMMA CopyReadTakes ==
  ASSUME NEW b, WellFormed(b), Transactional(b), ~b.writeFrozen, Unemptied(b), Filled(b),
         NEW n \in Nat, NEW k, k = Clip(n, b.len - b.readOffset)
  PROVE  /\ Taken(b, k, CopyRead(b, n).buf)
         /\ CopyRead(b, n).bytes \in Seq(Byte) /\ Len(CopyRead(b, n).bytes) = k
         /\ \A i \in 1..k : CopyRead(b, n).bytes[i] = Held(b, b.readOffset + i - 1)
<1> DEFINE seg1 == GetReadBuf(b)
           n1   == Clip(n, seg1.size)
           b1   == CommitRead(b, n1)
           seg2 == GetReadBuf(b1)
           n2   == Clip(n - n1, seg2.size)
           l1   == Load(b, seg1.offset, n1)
           l2   == Load(b1, seg2.offset, n2)
           b2   == CommitRead(b1, n2)
           m    == b.len
           r    == b.readOffset
           size == b.size
           start == b.start
<1>1. CopyRead(b, n) = [buf |-> b2, bytes |-> l1 \o l2]
  BY DEF CopyRead
<1>2. /\ size \in Nat \ {0} /\ start \in 0..(size - 1) /\ m \in 0..size /\ r \in 0..m
      /\ ~b.readFrozen => r = 0
  BY Numbers DEF Transactional
<1>3. seg1.size \in Nat
  BY ReadSegmentOK
<1>4. n1 \in 0..n /\ n1 <= seg1.size /\ n1 \in Nat /\ n1 = Clip(n, seg1.size)
  BY <1>3 DEF Clip
<1> HIDE DEF n1
<1>5. n1 <= m - r /\ Len(l1) = n1 /\ \A i \in 1..n1 : l1[i] = Held(b, r + i - 1)
  BY <1>4, LoadOK
<1>6. Taken(b, n1, b1)
  BY <1>4, <1>5, TakenOK
<1>7. /\ b.readFrozen => b1.start = start
      /\ ~b.readFrozen /\ n1 < m => b1.start = Pos(b, n1)
  BY <1>4, <1>5, TakenFrom
<1> HIDE DEF b1
<1>8. /\ WellFormed(b1) /\ Transactional(b1) /\ ~b1.writeFrozen /\ Unemptied(b1)
      /\ b1.len - b1.readOffset = m - r - n1 /\ b1.size = size
      /\ \A i \in 0..(m - r - n1 - 1) : Held(b1, b1.readOffset + i) = Held(b, r + n1 + i)
  BY <1>4, <1>5, <1>6, TakenRest DEF Taken, Alike
<1>9. seg2.size \in Nat
  BY <1>8, ReadSegmentOK
<1>10. n2 \in 0..(n - n1) /\ n2 <= seg2.size /\ n2 \in Nat /\ n2 = Clip(n - n1, seg2.size)
  BY <1>4, <1>9 DEF Clip
<1> HIDE DEF n2
<1>11. /\ n2 <= b1.len - b1.readOffset /\ Len(l2) = n2
       /\ \A i \in 1..n2 : l2[i] = Held(b1, b1.readOffset + i - 1)
  BY <1>8, <1>10, LoadOK
<1>12. Taken(b1, n2, b2)
  BY <1>8, <1>10, <1>11, TakenOK
<1> HIDE DEF b2, m, r, size, start
<1>13. n1 + n2 <= m - r
  BY <1>2, <1>4, <1>5, <1>8, <1>10, <1>11
<1>14. Taken(b, n1 + n2, b2)
  BY <1>4, <1>6, <1>10, <1>12, <1>13, TakenTwice DEF m, r
<1>15. n1 + n2 = k
  <2> DEFINE o1 == seg1.offset
             z1 == seg1.size
             o2 == seg2.offset
             z2 == seg2.size
             u  == m - r
  <2>1. o1 = Pos(b, r) /\ z1 = IF o1 + u < size THEN u ELSE size - o1
    BY ReadSegmentAt DEF m, r, size
  <2>2. /\ o2 = Pos(b1, b1.readOffset)
        /\ z2 = IF o2 + (u - n1) < size THEN u - n1 ELSE size - o2
    BY <1>8, ReadSegmentAt
  <2>3. u \in 0..size /\ n1 <= u
    BY <1>2, <1>5
  <2>4. o1 \in 0..(size - 1) /\ o1 = IF start + r < size THEN start + r ELSE start + r - size
    BY <1>2, <2>1, Place DEF size, start
  <2>5. k = IF n > u THEN u ELSE n
    BY DEF Clip, m, r
  <2>6. z1 \in Nat /\ z2 \in Nat
    BY <1>3, <1>9
  <2> HIDE DEF u, z1, z2, o1, o2
  <2>7. n1 = IF n > z1 THEN z1 ELSE n
    BY <1>4 DEF Clip, z1
  <2>8. n2 = IF n - n1 > z2 THEN z2 ELSE n - n1
    BY <1>10 DEF Clip, z2
  <2>9. CASE n <= z1
    <3>1. n1 = n /\ n <= u
      BY <2>3, <2>6, <2>7, <2>9
    <3>2. n2 = 0
      BY <1>10, <3>1
    <3> QED BY <2>3, <2>5, <3>1, <3>2
  <2>10. CASE ~(n <= z1) /\ z1 = u
    <3>1. n1 = u
      BY <2>3, <2>6, <2>7, <2>10
    <3>2. n2 <= 0
      BY <1>8, <1>11, <3>1, <2>3 DEF u
    <3>3. n2 = 0
      BY <1>10, <3>2
    <3> QED BY <2>3, <2>5, <2>10, <3>1, <3>3
  <2>11. CASE ~(n <= z1) /\ z1 # u
    <3>1. z1 = size - o1 /\ n1 = z1 /\ n1 < u
      <4>1. z1 = size - o1 /\ ~(o1 + u < size)
        BY <2>1, <2>11
      <4>2. o1 \in Nat /\ u \in Nat /\ size \in Nat
        BY <1>2, <2>3, <2>4
      <4>3. z1 < u
        BY <2>6, <2>11, <4>1, <4>2
      <4>4. n1 = z1
        BY <2>6, <2>7, <2>11
      <4> QED BY <4>1, <4>3, <4>4
    <3>2. r + n1 \in 0..size /\ n1 \in 0..size
      BY <1>2, <2>3, <3>1, <1>4 DEF u
    <3>3. o2 = 0
      <4>1. CASE b.readFrozen
        <5>1. b1.readOffset = r + n1 /\ b1.start = start
          BY <1>6, <1>7, <4>1 DEF Taken, r
        <5>2. o2 = Pos(b, r + n1)
          BY <1>8, <2>2, <5>1 DEF Pos, start, size
        <5>3. Pos(b, r + n1) = IF start + (r + n1) < size THEN start + (r + n1)
                                                         ELSE start + (r + n1) - size
          BY <3>2, Place DEF size, start
        <5>4. start + (r + n1) = size \/ start + (r + n1) = 2 * size
          BY <1>2, <2>4, <3>1
        <5>5. r + n1 < size
          BY <1>2, <2>3, <3>1 DEF u
        <5> QED BY <1>2, <3>2, <5>2, <5>3, <5>4, <5>5
      <4>2. CASE ~b.readFrozen
        <5>1. r = 0 /\ b1.readOffset = 0
          BY <1>2, <1>6, <4>2 DEF Taken, r
        <5>2. n1 < m
          BY <1>2, <3>1, <5>1 DEF u
        <5>3. b1.start = Pos(b, n1)
          BY <1>7, <4>2, <5>2
        <5>4. Pos(b, n1) = IF start + n1 < size THEN start + n1 ELSE start + n1 - size
          BY <3>2, Place DEF size, start
        <5>5. b1.start = 0
          BY <1>2, <1>4, <2>4, <3>1, <5>1, <5>3, <5>4
        <5>6. 0 \in 0..b1.size
          BY <1>2, <1>8
        <5>7. Pos(b1, 0) = IF b1.start + 0 < b1.size THEN b1.start + 0
                                                     ELSE b1.start + 0 - b1.size
          BY <1>8, <5>6, Place
        <5> QED BY <1>2, <1>8, <2>2, <5>1, <5>5, <5>7
      <4> QED BY <4>1, <4>2
    <3>4. z2 = u - n1
      BY <1>2, <1>4, <2>2, <2>3, <3>3
    <3> QED BY <1>2, <1>4, <2>3, <2>5, <2>6, <2>8, <3>4
  <2> QED BY <2>9, <2>10, <2>11
<1>16. \A i \in 0..(m - 1) : Held(b, i) \in Byte
  BY <1>2, Numbers DEF Filled, m
<1>17. l1 \in Seq(Byte)
  <2> HIDE DEF l1
  <2>1. \A i \in 1..n1 : l1[i] \in Byte
    BY <1>2, <1>4, <1>5, <1>16
  <2>2. l1 \in [1..n1 -> Byte]
    <3>1. l1 = [i \in 1..n1 |-> l1[i]]
      BY <1>4 DEF l1, Load
    <3> QED BY <2>1, <3>1
  <2> QED BY <1>4, <2>2
<1>18. ASSUME NEW i \in 1..n2 PROVE l2[i] = Held(b, r + n1 + i - 1)
  <2> DEFINE j == i - 1
  <2>1. j \in 0..(m - r - n1 - 1)
    BY <1>2, <1>4, <1>10, <1>13
  <2>2. b1.readOffset + i - 1 = b1.readOffset + j /\ r + n1 + i - 1 = r + n1 + j
    <3>1. b1.readOffset \in Nat
      BY <1>8, Numbers
    <3> QED BY <1>2, <1>4, <3>1
  <2> HIDE DEF j
  <2> QED BY <1>8, <1>11, <2>1, <2>2
<1>19. l2 \in Seq(Byte)
  <2> HIDE DEF l2
  <2>1. ASSUME NEW i \in 1..n2 PROVE l2[i] \in Byte
    <3>1. r + n1 + i - 1 \in 0..(m - 1)
      BY <1>2, <1>4, <1>10, <1>13
    <3> QED BY <1>16, <1>18, <3>1
  <2>2. l2 \in [1..n2 -> Byte]
    <3>1. l2 = [i \in 1..n2 |-> l2[i]]
      BY <1>10 DEF l2, Load
    <3> QED BY <2>1, <3>1
  <2> QED BY <1>10, <2>2
<1> HIDE DEF l1, l2
<1>20. /\ l1 \o l2 \in Seq(Byte) /\ Len(l1 \o l2) = n1 + n2
       /\ \A i \in 1..(n1 + n2) : (l1 \o l2)[i] = IF i <= n1 THEN l1[i] ELSE l2[i - n1]
  BY <1>5, <1>11, <1>17, <1>19, ConcatProperties
<1>21. ASSUME NEW i \in 1..(n1 + n2) PROVE (l1 \o l2)[i] = Held(b, r + i - 1)
  <2>1. CASE i <= n1
    BY <1>4, <1>5, <1>20, <2>1
  <2>2. CASE ~(i <= n1)
    <3>1. i - n1 \in 1..n2 /\ r + n1 + (i - n1) - 1 = r + i - 1
      BY <1>2, <1>4, <1>10, <2>2
    <3>2. l2[i - n1] = Held(b, r + n1 + (i - n1) - 1)
      BY <1>18, <3>1
    <3> QED BY <1>20, <2>2, <3>1, <3>2
  <2> QED BY <2>1, <2>2
<1> QED BY <1>1, <1>14, <1>15, <1>20, <1>21 DEF r
-----------------------------------------------------------------------------
(* Growing and the calls that move nothing. *)

\* memmove, byte by byte.
LEMMA MovedTo ==
  ASSUME NEW n \in Nat, NEW d \in [0..(n - 1) -> Cell], NEW dst \in Nat, NEW src \in Nat,
         NEW m \in Int, NEW k \in 0..(n - 1)
  PROVE  Memmove(d, dst, src, m)[k] =
           IF k \in dst..(dst + m - 1) THEN d[src + k - dst] ELSE d[k]
  BY DEF Memmove

\* A resize that adds room leaves the content as it is, wrapped or not.
LEMMA GrowKeeps ==
  ASSUME NEW b, WellFormed(b), Transactional(b), NEW n \in b.size..MaxSize, n > b.size
  PROVE  /\ Grow(b, n).size = n /\ Grow(b, n).len = b.len
         /\ Grow(b, n).readOffset = b.readOffset /\ Grow(b, n).writeOffset = b.writeOffset
         /\ Grow(b, n).readFrozen = b.readFrozen /\ Grow(b, n).writeFrozen = b.writeFrozen
         /\ \A i \in 0..(Total(b) - 1) : Held(Grow(b, n), i) = Held(b, i)
<1> DEFINE size    == b.size
           start   == b.start
           t       == Total(b)
           end     == b.start + b.len + b.writeOffset
           overlap == IF end > size THEN end % size ELSE 0
           moved   == Clip(overlap, n - size)
           wider   == Realloc(b.data, n)
           grown   == Memmove(wider, size, 0, moved)
           cells   == Memmove(grown, 0, moved, overlap - moved)
           c       == Grow(b, n)
<1>1. /\ size \in Nat \ {0} /\ start \in 0..(size - 1) /\ t \in 0..size
      /\ b.len \in Nat /\ b.writeOffset \in Nat /\ t = b.len + b.writeOffset
      /\ b.data \in [0..(size - 1) -> Cell]
  BY Numbers
<1>2. n \in Nat /\ n > size
  BY <1>1
<1>3. end = start + t /\ end % size = Pos(b, t)
  <2>1. end = start + t
    BY <1>1
  <2> HIDE DEF end
  <2> QED BY <2>1 DEF Pos
<1>4. Pos(b, t) = IF start + t < size THEN start + t ELSE start + t - size
  BY <1>1, Place
<1>5. c = [b EXCEPT !.data = cells, !.size = n]
  BY DEF Grow
<1> HIDE DEF end
<1>6. overlap = IF start + t > size THEN start + t - size ELSE 0
  <2> HIDE DEF t, start, size
  <2> QED BY <1>1, <1>3, <1>4
<1>7. overlap \in 0..start
  <2> HIDE DEF t, start, size, overlap
  <2> QED BY <1>1, <1>6
<1> HIDE DEF overlap
<1>8. moved \in 0..overlap /\ moved <= n - size /\ (moved # overlap => moved = n - size)
  <2> HIDE DEF size
  <2> QED BY <1>1, <1>2, <1>7 DEF Clip
<1> HIDE DEF moved
<1>9. wider \in [0..(n - 1) -> Cell] /\ \A k \in 0..(size - 1) : wider[k] = b.data[k]
  <2> HIDE DEF size
  <2>1. DOMAIN b.data = 0..(size - 1) /\ \A k \in 0..(size - 1) : k \in 0..(n - 1)
    BY <1>1, <1>2
  <2>2. \A k \in 0..(n - 1) : wider[k] = IF k \in 0..(size - 1) THEN b.data[k] ELSE Junk
    BY <2>1 DEF Realloc
  <2> QED BY <1>1, <2>1, <2>2 DEF Realloc, Cell
<1> HIDE DEF wider
<1>10. /\ grown \in [0..(n - 1) -> Cell]
       /\ \A k \in 0..(n - 1) :
            grown[k] = IF k \in size..(size + moved - 1) THEN wider[0 + k - size] ELSE wider[k]
  <2> HIDE DEF size
  <2>1. size \in Nat /\ moved \in Int /\ 0 + moved <= n
    BY <1>1, <1>2, <1>7, <1>8
  <2>2. grown \in [0..(n - 1) -> Cell]
    BY <1>2, <1>9, <2>1, MemmoveOK
  <2>3. ASSUME NEW k \in 0..(n - 1)
        PROVE  grown[k] = IF k \in size..(size + moved - 1)
                          THEN wider[0 + k - size] ELSE wider[k]
    BY <1>2, <1>9, <2>1, MovedTo
  <2> QED BY <2>2, <2>3
<1> HIDE DEF grown
<1>11. /\ cells \in [0..(n - 1) -> Cell]
       /\ \A k \in 0..(n - 1) :
            cells[k] = IF k \in 0..(0 + (overlap - moved) - 1)
                       THEN grown[moved + k - 0] ELSE grown[k]
  <2> HIDE DEF size, start
  <2>1. /\ moved \in Nat /\ overlap - moved \in Int /\ moved + (overlap - moved) <= n
    BY <1>1, <1>2, <1>7, <1>8
  <2>2. cells \in [0..(n - 1) -> Cell]
    BY <1>2, <1>10, <2>1, MemmoveOK
  <2>3. ASSUME NEW k \in 0..(n - 1)
        PROVE  cells[k] = IF k \in 0..(0 + (overlap - moved) - 1)
                          THEN grown[moved + k - 0] ELSE grown[k]
    <3> DEFINE e == overlap - moved
    <3>1. grown \in [0..(n - 1) -> Cell] /\ 0 \in Nat /\ moved \in Nat /\ e \in Int
      BY <1>10, <2>1
    <3> HIDE DEF e
    <3>2. Memmove(grown, 0, moved, e)[k] =
            IF k \in 0..(0 + e - 1) THEN grown[moved + k - 0] ELSE grown[k]
      BY <1>2, <3>1, MovedTo
    <3> QED BY <3>2, Zenon DEF e, cells
  <2> QED BY <2>2, <2>3
<1> HIDE DEF cells
<1>12. /\ c.data = cells /\ c.size = n /\ c.start = start /\ c.len = b.len
       /\ c.readOffset = b.readOffset /\ c.writeOffset = b.writeOffset
       /\ c.readFrozen = b.readFrozen /\ c.writeFrozen = b.writeFrozen
  BY <1>5 DEF WellFormed, Fields
<1>13. WellFormed(c)
  <2>1. c = Resize(b, n)
    BY <1>1, <1>2 DEF Resize
  <2> QED BY <2>1, GrowOK
<1> HIDE DEF c
<1>14. ASSUME NEW i \in 0..(t - 1) PROVE Held(c, i) = Held(b, i)
  <2> DEFINE p == Pos(b, i)
             q == Pos(c, i)
  <2>1. /\ p \in 0..(size - 1)
        /\ p = IF start + i < size THEN start + i ELSE start + i - size
    BY <1>1, Place
  <2>2. /\ q \in 0..(n - 1)
        /\ q = IF start + i < n THEN start + i ELSE start + i - n
    <3>1. i \in 0..c.size
      BY <1>1, <1>2, <1>12
    <3> QED BY <1>12, <1>13, <3>1, Place
  <2>3. Held(c, i) = cells[q] /\ Held(b, i) = b.data[p]
    BY <1>12 DEF Held
  <2> HIDE DEF p, q, size, start, t
  <2>4. cells[q] = b.data[p]
    <3>1. CASE start + i < size
      <4>1. q = start + i /\ p = q /\ q < size
        BY <1>1, <1>2, <2>1, <2>2, <3>1
      <4>2. q \notin 0..(0 + (overlap - moved) - 1) /\ q \notin size..(size + moved - 1)
        BY <1>1, <1>7, <1>8, <4>1
      <4>3. cells[q] = grown[q] /\ grown[q] = wider[q]
        BY <1>10, <1>11, <2>2, <4>2
      <4> QED BY <1>9, <2>1, <4>1, <4>3
    <3>2. CASE ~(start + i < size)
      <4>1. p = start + i - size /\ overlap = start + t - size /\ p < overlap
        BY <1>1, <1>6, <2>1, <3>2, SMTT(30)
      <4>2. CASE p < moved
        <5>1. q = size + p
          BY <1>1, <1>2, <1>7, <1>8, <2>1, <2>2, <4>1, <4>2
        <5>2. q \notin 0..(0 + (overlap - moved) - 1) /\ q \in size..(size + moved - 1)
          BY <1>1, <1>7, <1>8, <2>1, <4>2, <5>1
        <5>3. cells[q] = grown[q] /\ grown[q] = wider[0 + q - size]
          BY <1>10, <1>11, <2>2, <5>2
        <5>4. 0 + q - size = p
          BY <1>1, <2>1, <5>1
        <5> QED BY <1>9, <2>1, <5>3, <5>4
      <4>3. CASE ~(p < moved)
        <5>1. moved = n - size
          BY <1>7, <1>8, <2>1, <4>1, <4>3
        <5>2. q = p - moved
          BY <1>1, <1>2, <2>1, <2>2, <4>1, <4>3, <5>1
        <5>3. q \in 0..(0 + (overlap - moved) - 1) /\ moved + q - 0 = p
          BY <1>7, <1>8, <2>1, <4>1, <4>3, <5>2
        <5>4. cells[q] = grown[p]
          BY <1>11, <2>2, <5>3
        <5>5. p \in 0..(n - 1) /\ p \notin size..(size + moved - 1)
          BY <1>1, <1>2, <2>1
        <5>6. grown[p] = wider[p]
          BY <1>10, <5>5
        <5> QED BY <1>9, <2>1, <5>4, <5>6
      <4> QED BY <4>2, <4>3
    <3> QED BY <3>1, <3>2
  <2> QED BY <2>3, <2>4
<1> QED BY <1>12, <1>14 DEF c, t
-----------------------------------------------------------------------------
(* Every call of the buffer is a call of the queue. *)

\* What else the refinement needs of the struct between two calls: a reader's
\* transaction has something to read, and the content was written.
QueueInv == IndInv /\ Unemptied(buf) /\ Filled(buf)

\* The refinement mapping, before and after a call.
LEMMA Mapping ==
    /\ Committed = CommittedOf(buf) /\ Staged = StagedOf(buf)
    /\ Committed' = CommittedOf(buf') /\ Staged' = StagedOf(buf')
  BY DEF Committed, Staged, At, CommittedOf, StagedOf, Held, Pos

\* What the lemmas above ask of a struct.
LEMMA QueueInvMeaning ==
  ASSUME QueueInv
  PROVE  /\ WellFormed(buf) /\ Transactional(buf) /\ Unemptied(buf) /\ Filled(buf)
         /\ Committed \in Seq(Byte) /\ Len(Committed) = buf.len
         /\ \A i \in 1..buf.len : Committed[i] = Held(buf, i - 1)
         /\ Staged \in Seq(Byte) /\ Len(Staged) = buf.writeOffset
  BY Mapping, ContentOK DEF QueueInv, IndInv

\* A struct with the same bytes in it stands for the same sequences.
LEMMA SameContent ==
  ASSUME NEW b, WellFormed(b), NEW c, c.len = b.len, c.writeOffset = b.writeOffset,
         \A i \in 0..(Total(b) - 1) : Held(c, i) = Held(b, i)
  PROVE  /\ CommittedOf(c) = CommittedOf(b) /\ StagedOf(c) = StagedOf(b)
         /\ Filled(b) => Filled(c)
<1> DEFINE m == b.len
           w == b.writeOffset
           t == Total(b)
<1>1. m \in Nat /\ w \in Nat /\ t = m + w
  BY Numbers
<1>2. Total(c) = t
  BY DEF Total
<1> HIDE DEF m, w, t
<1>3. ASSUME NEW i \in 1..m PROVE Held(c, i - 1) = Held(b, i - 1)
  <2>1. i - 1 \in 0..(t - 1)
    BY <1>1
  <2> QED BY <2>1 DEF t
<1>4. ASSUME NEW i \in 1..w PROVE Held(c, m + i - 1) = Held(b, m + i - 1)
  <2>1. m + i - 1 \in 0..(t - 1)
    BY <1>1
  <2> QED BY <2>1 DEF t
<1>5. /\ CommittedOf(c) = [i \in 1..m |-> Held(c, i - 1)]
      /\ CommittedOf(b) = [i \in 1..m |-> Held(b, i - 1)]
      /\ StagedOf(c) = [i \in 1..w |-> Held(c, m + i - 1)]
      /\ StagedOf(b) = [i \in 1..w |-> Held(b, m + i - 1)]
  BY DEF CommittedOf, StagedOf, m, w
<1>6. CommittedOf(c) = CommittedOf(b)
  BY <1>3, <1>5
<1>7. StagedOf(c) = StagedOf(b)
  BY <1>4, <1>5
<1>8. Filled(b) => Filled(c)
  BY <1>2 DEF Filled, t
<1> QED BY <1>6, <1>7, <1>8

\* A commit_read drops the oldest bytes, or none while reads are frozen.
LEMMA TakenMeans ==
  ASSUME NEW b, WellFormed(b), Transactional(b), Filled(b), ~b.writeFrozen,
         NEW n \in Nat, n <= b.len - b.readOffset, NEW c, Taken(b, n, c)
  PROVE  /\ Filled(c) /\ StagedOf(c) = StagedOf(b)
         /\ CommittedOf(c) = IF b.readFrozen THEN CommittedOf(b)
                             ELSE SubSeq(CommittedOf(b), n + 1, Len(CommittedOf(b)))
<1> DEFINE m == b.len
<1>1. /\ m \in Nat /\ b.readOffset \in 0..m /\ b.writeOffset = 0 /\ Total(b) = m
      /\ ~b.readFrozen => b.readOffset = 0
  BY Numbers DEF Transactional
<1>2. WellFormed(c) /\ c.writeOffset = 0
  BY <1>1 DEF Taken
<1>3. \A i \in 0..(m - 1) : Held(b, i) \in Byte
  BY <1>1 DEF Filled
<1>4. CASE b.readFrozen
  <2>1. c.len = m /\ \A i \in 0..(m - 1) : Held(c, i) = Held(b, i)
    BY <1>4 DEF Taken
  <2>2. \A i \in 0..(Total(b) - 1) : Held(c, i) = Held(b, i)
    BY <1>1, <2>1
  <2> QED BY <1>1, <1>2, <1>4, <2>1, <2>2, SameContent
<1>5. CASE ~b.readFrozen
  <2>1. c.len = m - n /\ \A i \in 0..(m - n - 1) : Held(c, i) = Held(b, n + i)
    BY <1>5 DEF Taken
  <2> DEFINE s == CommittedOf(b)
             d == SubSeq(s, n + 1, Len(s))
             g == CommittedOf(c)
  <2>2. s \in Seq(Byte) /\ Len(s) = m /\ \A i \in 1..m : s[i] = Held(b, i - 1)
    BY ContentOK
  <2>3. n <= m
    BY <1>1, <1>5
  <2> HIDE DEF s, m
  <2>4. Total(c) = m - n
    BY <1>1, <1>2, <2>1, <2>3 DEF Total
  <2>5. Filled(c)
    <3> SUFFICES ASSUME NEW i \in 0..(Total(c) - 1) PROVE Held(c, i) \in Byte
      BY DEF Filled
    <3>1. i \in 0..(m - n - 1) /\ n + i \in 0..(m - 1)
      BY <1>1, <2>3, <2>4
    <3> QED BY <1>3, <2>1, <3>1
  <2>6. g \in Seq(Byte) /\ Len(g) = m - n /\ \A i \in 1..(m - n) : g[i] = Held(c, i - 1)
    BY <1>2, <2>1, <2>5, ContentOK
  <2>7. \A i \in (n + 1)..m : s[i] \in Byte
    BY <1>1, <2>2
  <2>8. /\ d \in Seq(Byte) /\ Len(d) = m - n
        /\ \A i \in 1..(m - n) : d[i] = s[n + 1 + i - 1]
    <3> DEFINE j == n + 1
    <3>1. j \in Int /\ m \in Int /\ m - j + 1 = m - n /\ (~(j <= m) => m - n = 0)
      BY <1>1, <2>3
    <3>2. d = SubSeq(s, j, m) /\ \A i \in j..m : s[i] \in Byte
      BY <2>2, <2>7
    <3> HIDE DEF j, d
    <3>3. /\ SubSeq(s, j, m) \in Seq(Byte)
          /\ Len(SubSeq(s, j, m)) = IF j <= m THEN m - j + 1 ELSE 0
          /\ \A i \in 1..(m - j + 1) : SubSeq(s, j, m)[i] = s[j + i - 1]
      BY <3>1, <3>2, SubSeqProperties
    <3>4. \A i \in 1..(m - n) : d[i] = s[j + i - 1]
      BY <3>1, <3>2, <3>3
    <3> QED BY <3>1, <3>2, <3>3, <3>4 DEF j
  <2>9. ASSUME NEW i \in 1..(m - n) PROVE g[i] = d[i]
    <3>1. /\ i - 1 \in 0..(m - n - 1) /\ n + 1 + i - 1 = n + i
          /\ n + i \in 1..m /\ n + i - 1 = n + (i - 1)
      BY <1>1, <2>3
    <3>2. g[i] = Held(b, n + (i - 1))
      BY <2>1, <2>6, <3>1
    <3> QED BY <2>2, <2>8, <3>1, <3>2
  <2> HIDE DEF g, d
  <2>10. g = d
    BY <2>6, <2>8, <2>9, SeqEqual
  <2>11. StagedOf(c) = StagedOf(b)
    BY <1>1, <1>2, <2>5, ContentOK, StagedOf(b) = <<>>, StagedOf(c) = <<>>
  <2> QED BY <1>5, <2>5, <2>10, <2>11 DEF g, d, s
<1> QED BY <1>4, <1>5
\* The bytes that fit, as one sequence.
LEMMA FrontOf ==
  ASSUME NEW n \in Nat, NEW s \in [1..n -> Byte], NEW k \in 0..n
  PROVE  /\ SubSeq(s, 1, k) \in Seq(Byte) /\ Len(SubSeq(s, 1, k)) = k
         /\ \A i \in 1..k : SubSeq(s, 1, k)[i] = s[i]
<1>1. \A i \in 1..k : s[i] \in Byte
  OBVIOUS
<1>2. /\ SubSeq(s, 1, k) \in Seq(Byte)
      /\ Len(SubSeq(s, 1, k)) = IF 1 <= k THEN k - 1 + 1 ELSE 0
      /\ \A i \in 1..(k - 1 + 1) : SubSeq(s, 1, k)[i] = s[1 + i - 1]
  BY <1>1, SubSeqProperties
<1>3. k - 1 + 1 = k /\ (~(1 <= k) => k = 0) /\ \A i \in 1..k : 1 + i - 1 = i
  OBVIOUS
<1> QED BY <1>2, <1>3

\* A write that appends k bytes is a Put of the queue.
LEMMA PutStep ==
  ASSUME QueueInv, NEW n \in 0..MaxOp, NEW s \in [1..n -> Byte], NEW k,
         k = Clip(n, buf.size - Total(buf)), Appended(buf, s, k, buf'), Returns(k)
  PROVE  Queue!Next /\ Unemptied(buf') /\ Filled(buf')
<1> DEFINE p == SubSeq(s, 1, k)
<1>1. /\ WellFormed(buf) /\ Transactional(buf) /\ Unemptied(buf) /\ Filled(buf)
      /\ Len(Committed) = buf.len /\ Len(Staged) = buf.writeOffset
  BY QueueInvMeaning
<1>2. /\ buf.len \in Nat /\ buf.writeOffset \in Nat /\ buf.size \in Nat
      /\ Total(buf) = buf.len + buf.writeOffset /\ Total(buf) \in 0..buf.size
  BY <1>1, Numbers
<1>3. n \in Nat /\ Len(s) = n
  OBVIOUS
<1>4. k \in 0..n
  BY <1>2, <1>3 DEF Clip
<1>5. p \in Seq(Byte) /\ Len(p) = k /\ \A i \in 1..k : p[i] = s[i]
  BY <1>3, <1>4, FrontOf
<1> HIDE DEF p
<1>6. /\ Filled(buf')
      /\ IF buf.writeFrozen
         THEN StagedOf(buf') = StagedOf(buf) \o p /\ CommittedOf(buf') = CommittedOf(buf)
         ELSE CommittedOf(buf') = CommittedOf(buf) \o p /\ StagedOf(buf') = StagedOf(buf)
  BY <1>1, <1>4, <1>5, AppendedMeans
<1>7. Unemptied(buf')
  BY <1>1, <1>2, <1>4 DEF Unemptied, Appended, Alike
<1>8. p = SubSeq(s, 1, Queue!Least(Len(s), buf.size - Len(Committed) - Len(Staged)))
  <2>1. Queue!Least(Len(s), buf.size - Len(Committed) - Len(Staged)) = k
    BY <1>1, <1>2, <1>3 DEF Queue!Least, Clip
  <2> QED BY <2>1 DEF p
<1>9. /\ buf'.readOffset = buf.readOffset /\ buf'.size = buf.size
      /\ buf'.readFrozen = buf.readFrozen /\ buf'.writeFrozen = buf.writeFrozen
  BY DEF Appended, Alike
<1>10. ret' = [count |-> Len(p), bytes |-> <<>>]
  BY <1>5 DEF Returns
<1>11. IF buf.writeFrozen
       THEN Staged' = Staged \o p /\ Committed' = Committed
       ELSE Committed' = Committed \o p /\ Staged' = Staged
  BY <1>6, Mapping
<1>12. Queue!Put(s)
  BY <1>8, <1>9, <1>10, <1>11, Zenon DEF Queue!Put, Queue!Counted
<1> QED BY <1>6, <1>7, <1>12 DEF Queue!Next

\* ringbuffer_copy_write.
LEMMA WriteStep ==
  ASSUME QueueInv, NEW s \in Chunks, Write(s)
  PROVE  Queue!Next /\ Unemptied(buf') /\ Filled(buf')
<1>1. PICK n \in 0..MaxOp : s \in [1..n -> Byte]
  BY DEF Chunks
<1>2. WellFormed(buf) /\ Transactional(buf)
  BY QueueInvMeaning
<1> DEFINE k == CopyWrite(buf, s).wrote
<1>3. n \in Nat
  OBVIOUS
<1>4. k = Clip(n, buf.size - Total(buf)) /\ Appended(buf, s, k, CopyWrite(buf, s).buf)
  BY <1>1, <1>2, <1>3, CopyWriteAppends
<1>5. buf' = CopyWrite(buf, s).buf /\ Returns(k)
  BY DEF Write
<1> HIDE DEF k
<1> QED BY <1>1, <1>4, <1>5, PutStep

\* The socket loop's recv and commit_write.
LEMMA WriteInPlaceStep ==
  ASSUME QueueInv, NEW s \in Chunks, WriteInPlace(s)
  PROVE  Queue!Next /\ Unemptied(buf') /\ Filled(buf')
<1>1. PICK n \in 0..MaxOp : s \in [1..n -> Byte]
  BY DEF Chunks
<1>2. WellFormed(buf) /\ Transactional(buf)
  BY QueueInvMeaning
<1>3. n \in Nat /\ Len(s) = n
  BY <1>1
<1>4. n <= GetWriteBuf(buf).size /\ buf' = Put(buf, s) /\ Returns(n)
  BY <1>3 DEF WriteInPlace, Put
<1>5. Appended(buf, s, n, buf')
  BY <1>1, <1>2, <1>3, <1>4, PutOK
<1>6. n = Clip(n, buf.size - Total(buf))
  <2> DEFINE z == GetWriteBuf(buf).size
  <2>1. /\ z \in Nat /\ z <= buf.size - buf.len - buf.writeOffset
    BY <1>2, WriteSegmentOK
  <2>2. /\ buf.len \in Nat /\ buf.writeOffset \in Nat /\ buf.size \in Nat
        /\ Total(buf) = buf.len + buf.writeOffset
    BY <1>2, Numbers
  <2>3. n <= z
    BY <1>4
  <2> HIDE DEF z
  <2> QED BY <1>3, <2>1, <2>2, <2>3 DEF Clip
<1> QED BY <1>1, <1>4, <1>5, <1>6, PutStep

\* A read of the k oldest unread bytes is a Take of the queue.
LEMMA TakeStep ==
  ASSUME QueueInv, ~buf.writeFrozen, NEW n \in 0..MaxOp, NEW k, NEW s \in Seq(Byte),
         k = Clip(n, buf.len - buf.readOffset), Taken(buf, k, buf'),
         Len(s) = k, \A i \in 1..k : s[i] = Held(buf, buf.readOffset + i - 1),
         ret' = [count |-> k, bytes |-> s]
  PROVE  Queue!Next /\ Unemptied(buf') /\ Filled(buf')
<1> DEFINE r == buf.readOffset
           m == buf.len
           d == SubSeq(Committed, r + 1, r + k)
<1>1. /\ WellFormed(buf) /\ Transactional(buf) /\ Unemptied(buf) /\ Filled(buf)
      /\ Committed \in Seq(Byte) /\ Len(Committed) = m
      /\ \A i \in 1..m : Committed[i] = Held(buf, i - 1)
  BY QueueInvMeaning
<1>2. m \in Nat /\ r \in 0..m
  BY <1>1, Numbers
<1>3. k \in Nat /\ k <= m - r /\ k = Clip(n, m - r)
  BY <1>2 DEF Clip
<1>4. Unemptied(buf')
  BY <1>1, <1>3, TakenRest
<1>5. /\ Filled(buf') /\ StagedOf(buf') = StagedOf(buf)
      /\ CommittedOf(buf') = IF buf.readFrozen THEN CommittedOf(buf)
                             ELSE SubSeq(CommittedOf(buf), k + 1, Len(CommittedOf(buf)))
  BY <1>1, <1>3, TakenMeans
<1>6. k = Queue!Least(n, Len(Committed) - r)
  BY <1>1, <1>2 DEF Queue!Least, Clip
<1>7. /\ buf'.size = buf.size /\ buf'.readFrozen = buf.readFrozen
      /\ buf'.writeFrozen = buf.writeFrozen
      /\ IF buf.readFrozen THEN buf'.readOffset = r + k ELSE buf'.readOffset = r
  BY DEF Taken, Alike
<1>8. s = d
  <2> HIDE DEF r, m
  <2>1. \A i \in (r + 1)..(r + k) : i \in 1..m
    BY <1>2, <1>3
  <2>2. \A i \in (r + 1)..(r + k) : Committed[i] \in Byte
    BY <1>1, <2>1
  <2> DEFINE a == r + 1
             z == r + k
  <2>3. /\ a \in Int /\ z \in Int /\ z - a + 1 = k /\ (~(a <= z) => k = 0)
        /\ d = SubSeq(Committed, a, z) /\ \A i \in a..z : Committed[i] \in Byte
    BY <1>2, <1>3, <2>2
  <2> HIDE DEF a, z, d
  <2>4. /\ SubSeq(Committed, a, z) \in Seq(Byte)
        /\ Len(SubSeq(Committed, a, z)) = IF a <= z THEN z - a + 1 ELSE 0
        /\ \A i \in 1..(z - a + 1) : SubSeq(Committed, a, z)[i] = Committed[a + i - 1]
    BY <2>3, SubSeqProperties
  <2>5. /\ d \in Seq(Byte) /\ Len(d) = k /\ \A i \in 1..k : d[i] = Committed[a + i - 1]
    BY <2>3, <2>4
  <2>6. ASSUME NEW i \in 1..k PROVE s[i] = d[i]
    <3>1. a + i - 1 = r + i /\ r + i \in 1..m
      BY <1>2, <1>3 DEF a
    <3>2. Committed[r + i] = Held(buf, r + i - 1)
      BY <1>1, <1>2, <3>1
    <3> QED BY <2>5, <3>1, <3>2 DEF r
  <2> QED BY <2>5, <2>6, SeqEqual
<1>9. ret' = [count |-> k, bytes |-> d]
  BY <1>8
<1>10. /\ IF buf.readFrozen
          THEN buf'.readOffset = r + k /\ Committed' = Committed
          ELSE Committed' = SubSeq(Committed, k + 1, Len(Committed)) /\ buf'.readOffset = r
       /\ Staged' = Staged
  BY <1>5, <1>7, Mapping
<1>11. Queue!Take(n)
  <2> HIDE DEF m
  <2> QED BY <1>6, <1>7, <1>9, <1>10, Zenon DEF Queue!Take, Queue!Drop
<1> QED BY <1>4, <1>5, <1>11 DEF Queue!Next
\* ringbuffer_copy_read.
LEMMA ReadStep ==
  ASSUME QueueInv, NEW n \in 0..MaxOp, Read(n)
  PROVE  Queue!Next /\ Unemptied(buf') /\ Filled(buf')
<1> DEFINE k == Clip(n, buf.len - buf.readOffset)
           s == CopyRead(buf, n).bytes
<1>1. WellFormed(buf) /\ Transactional(buf) /\ Unemptied(buf) /\ Filled(buf)
  BY QueueInvMeaning
<1>2. n \in Nat /\ ~buf.writeFrozen
  BY DEF Read
<1> HIDE DEF k
<1>3. /\ Taken(buf, k, CopyRead(buf, n).buf) /\ s \in Seq(Byte) /\ Len(s) = k
      /\ \A i \in 1..k : s[i] = Held(buf, buf.readOffset + i - 1)
  BY <1>1, <1>2, CopyReadTakes DEF k
<1>4. buf' = CopyRead(buf, n).buf /\ ret' = [count |-> Len(s), bytes |-> s]
  BY DEF Read
<1> HIDE DEF s
<1>5. Taken(buf, k, buf') /\ ret' = [count |-> k, bytes |-> s]
  BY <1>3, <1>4
<1> QED BY <1>2, <1>3, <1>5, TakeStep DEF k

\* The use of the read segment in place and commit_read.
LEMMA ReadInPlaceStep ==
  ASSUME QueueInv, NEW n \in 0..MaxOp, ReadInPlace(n)
  PROVE  Queue!Next /\ Unemptied(buf') /\ Filled(buf')
<1> DEFINE s == Load(buf, GetReadBuf(buf).offset, n)
           m == buf.len
           r == buf.readOffset
<1>1. WellFormed(buf) /\ Transactional(buf) /\ Unemptied(buf) /\ Filled(buf)
  BY QueueInvMeaning
<1>2. /\ n \in Nat /\ ~buf.writeFrozen /\ n <= GetReadBuf(buf).size
      /\ buf' = CommitRead(buf, n) /\ ret' = [count |-> n, bytes |-> s]
  BY DEF ReadInPlace
<1>3. /\ n <= m - r /\ Len(s) = n
      /\ \A i \in 1..n : s[i] = Held(buf, r + i - 1)
  BY <1>1, <1>2, LoadOK
<1>4. Taken(buf, n, buf')
  BY <1>1, <1>2, <1>3, TakenOK
<1>5. m \in Nat /\ r \in 0..m /\ Total(buf) = m
  BY <1>1, <1>2, Numbers DEF Transactional
<1>6. n = Clip(n, m - r)
  <2> HIDE DEF m, r
  <2> QED BY <1>2, <1>3, <1>5 DEF Clip
<1>7. s \in Seq(Byte)
  <2>1. s = [i \in 1..n |-> s[i]]
    BY DEF Load
  <2> HIDE DEF s, m, r
  <2>2. ASSUME NEW i \in 1..n PROVE s[i] \in Byte
    <3>1. r + i - 1 \in 0..(m - 1)
      BY <1>2, <1>3, <1>5
    <3>2. Held(buf, r + i - 1) \in Byte
      BY <1>1, <1>5, <3>1 DEF Filled
    <3> QED BY <1>3, <3>2
  <2>3. s \in [1..n -> Byte]
    BY <2>1, <2>2
  <2> QED BY <1>2, <2>3
<1> HIDE DEF s
<1> QED BY <1>2, <1>3, <1>4, <1>6, <1>7, TakeStep

\* ringbuffer_freeze_read, where there is something to read.
LEMMA FreezeReadStep ==
  ASSUME QueueInv, Count(buf) > 0, FreezeRead
  PROVE  Queue!Next /\ Unemptied(buf') /\ Filled(buf')
<1>1. /\ WellFormed(buf) /\ Transactional(buf) /\ Filled(buf) /\ buf \in Fields
      /\ Len(Committed) = buf.len
  BY QueueInvMeaning DEF WellFormed
<1>2. /\ buf.len \in Nat /\ buf.readOffset \in 0..buf.len /\ buf.writeOffset \in Nat
      /\ ~buf.writeFrozen /\ buf.writeFrozen \in BOOLEAN
  BY <1>1, Numbers DEF FreezeRead
<1>3. Count(buf) = buf.len - buf.readOffset
  BY <1>1, <1>2, ReadSegmentAt
<1>4. buf.len > buf.readOffset /\ buf.len > 0
  BY <1>2, <1>3
<1>5. /\ buf'.data = buf.data /\ buf'.size = buf.size /\ buf'.start = buf.start
      /\ buf'.len = buf.len /\ buf'.readOffset = buf.readOffset
      /\ buf'.writeOffset = buf.writeOffset
      /\ buf'.readFrozen = TRUE /\ buf'.writeFrozen = buf.writeFrozen
  BY <1>1 DEF FreezeRead, Fields
<1>6. \A i \in 0..(Total(buf) - 1) : Held(buf', i) = Held(buf, i)
  BY <1>5 DEF Held, Pos
<1>7. Committed' = Committed /\ Staged' = Staged /\ Filled(buf')
  BY <1>1, <1>5, <1>6, SameContent, Mapping
<1>8. Unemptied(buf')
  BY <1>4, <1>5 DEF Unemptied
<1>9. Queue!BeginRead
  <2>1. buf.readOffset < Len(Committed)
    BY <1>1, <1>2, <1>4
  <2>2. ret' = [count |-> 0, bytes |-> <<>>]
    BY DEF FreezeRead, Returns
  <2> QED BY <1>2, <1>5, <1>7, <2>1, <2>2, Zenon DEF Queue!BeginRead, Queue!Counted
<1> QED BY <1>7, <1>8, <1>9 DEF Queue!Next

\* ringbuffer_freeze_write.
LEMMA FreezeWriteStep ==
  ASSUME QueueInv, ~buf.readFrozen, FreezeWrite
  PROVE  Queue!Next /\ Unemptied(buf') /\ Filled(buf')
<1>1. /\ WellFormed(buf) /\ Transactional(buf) /\ Filled(buf) /\ buf \in Fields
  BY QueueInvMeaning DEF WellFormed
<1>2. /\ buf'.data = buf.data /\ buf'.size = buf.size /\ buf'.start = buf.start
      /\ buf'.len = buf.len /\ buf'.readOffset = buf.readOffset
      /\ buf'.writeOffset = buf.writeOffset
      /\ buf'.readFrozen = buf.readFrozen /\ buf'.writeFrozen = TRUE
  BY <1>1 DEF FreezeWrite, Fields
<1>3. \A i \in 0..(Total(buf) - 1) : Held(buf', i) = Held(buf, i)
  BY <1>2 DEF Held, Pos
<1>4. Committed' = Committed /\ Staged' = Staged /\ Filled(buf')
  BY <1>1, <1>2, <1>3, SameContent, Mapping
<1>5. Unemptied(buf')
  BY <1>2 DEF Unemptied
<1>6. Queue!BeginWrite
  <2>1. ret' = [count |-> 0, bytes |-> <<>>]
    BY DEF FreezeWrite, Returns
  <2> QED BY <1>2, <1>4, <2>1, Zenon DEF Queue!BeginWrite, Queue!Counted
<1> QED BY <1>4, <1>5, <1>6 DEF Queue!Next

\* ringbuffer_clear.
LEMMA ClearStep ==
  ASSUME QueueInv, ClearAll
  PROVE  Queue!Next /\ Unemptied(buf') /\ Filled(buf')
<1>1. buf \in Fields
  BY QueueInvMeaning DEF WellFormed
<1>2. /\ buf'.size = buf.size /\ buf'.len = 0 /\ buf'.readOffset = 0
      /\ buf'.writeOffset = 0 /\ buf'.readFrozen = FALSE /\ buf'.writeFrozen = FALSE
  BY <1>1 DEF ClearAll, Clear, Fields
<1>3. Unemptied(buf') /\ Filled(buf')
  BY <1>2 DEF Unemptied, Filled, Total
<1>4. Committed' = <<>> /\ Staged' = <<>>
  BY <1>2, Mapping DEF CommittedOf, StagedOf
<1>5. ret' = [count |-> 0, bytes |-> <<>>]
  BY DEF ClearAll, Returns
<1>6. Queue!Empty
  BY <1>2, <1>4, <1>5, Zenon DEF Queue!Empty, Queue!Counted
<1> QED BY <1>3, <1>6 DEF Queue!Next

\* ringbuffer_resize to no less than there is.
LEMMA ResizeStep ==
  ASSUME QueueInv, NEW n \in buf.size..MaxSize, ResizeTo(n)
  PROVE  Queue!Next /\ Unemptied(buf') /\ Filled(buf')
<1>1. WellFormed(buf) /\ Transactional(buf) /\ Filled(buf) /\ Unemptied(buf)
  BY QueueInvMeaning
<1>2. buf.size \in Nat /\ n \in Nat /\ n >= buf.size
  BY <1>1, Numbers
<1>3. ret' = [count |-> 0, bytes |-> <<>>]
  BY DEF ResizeTo, Returns
<1>4. /\ buf'.size = n /\ buf'.len = buf.len
      /\ buf'.readOffset = buf.readOffset /\ buf'.writeOffset = buf.writeOffset
      /\ buf'.readFrozen = buf.readFrozen /\ buf'.writeFrozen = buf.writeFrozen
      /\ \A i \in 0..(Total(buf) - 1) : Held(buf', i) = Held(buf, i)
  <2>1. CASE n > buf.size
    <3>1. buf' = Grow(buf, n)
      BY <1>2, <2>1 DEF ResizeTo, Resize
    <3> QED BY <1>1, <2>1, <3>1, GrowKeeps
  <2>2. CASE n = buf.size
    <3>1. buf' = buf
      BY <1>2, <2>2 DEF ResizeTo, Resize
    <3> QED BY <2>2, <3>1
  <2> QED BY <1>2, <2>1, <2>2
<1>5. Committed' = Committed /\ Staged' = Staged /\ Filled(buf')
  BY <1>1, <1>4, SameContent, Mapping
<1>6. Unemptied(buf')
  BY <1>1, <1>4 DEF Unemptied
<1>7. Queue!Enlarge(n)
  BY <1>3, <1>4, <1>5, Zenon DEF Queue!Enlarge, Queue!Counted
<1> QED BY <1>5, <1>6, <1>7 DEF Queue!Next
\* ringbuffer_unfreeze_read, keeping or undoing the reads.
LEMMA ThawReadStep ==
  ASSUME QueueInv, NEW commit \in BOOLEAN, ThawRead(commit)
  PROVE  Queue!Next /\ Unemptied(buf') /\ Filled(buf')
<1> DEFINE b == [buf EXCEPT !.readFrozen = FALSE, !.readOffset = 0]
           r == buf.readOffset
<1>1. /\ WellFormed(buf) /\ Transactional(buf) /\ Filled(buf) /\ buf \in Fields
      /\ ArrayOK(buf) /\ OffsetsOK(buf)
  BY QueueInvMeaning DEF WellFormed
<1>2. /\ buf.len \in Nat /\ r \in 0..buf.len /\ r \in Nat /\ ~buf.writeFrozen
  BY <1>1, Numbers DEF ThawRead
<1>3. /\ b.data = buf.data /\ b.size = buf.size /\ b.start = buf.start
      /\ b.len = buf.len /\ b.readOffset = 0 /\ b.writeOffset = buf.writeOffset
      /\ b.readFrozen = FALSE /\ b.writeFrozen = buf.writeFrozen /\ b \in Fields
  BY <1>1 DEF Fields
<1>4. /\ buf' = IF commit THEN CommitRead(b, r) ELSE b
      /\ ret' = [count |-> IF commit THEN r ELSE 0, bytes |-> <<>>]
  BY DEF ThawRead, UnfreezeRead, Returns
<1> HIDE DEF b
<1>5. WellFormed(b) /\ Transactional(b) /\ Unemptied(b)
  <2>1. ArrayOK(b)
    BY <1>1, <1>3, SameArray
  <2>2. OffsetsOK(b) /\ Transactional(b) /\ Unemptied(b)
    BY <1>1, <1>2, <1>3 DEF OffsetsOK, Transactional, Unemptied, Fields
  <2> QED BY <1>3, <2>1, <2>2 DEF WellFormed
<1>6. \A i \in 0..(Total(buf) - 1) : Held(b, i) = Held(buf, i)
  BY <1>3 DEF Held, Pos
<1>7. CommittedOf(b) = Committed /\ StagedOf(b) = Staged /\ Filled(b)
  BY <1>1, <1>3, <1>6, SameContent, Mapping
<1>8. /\ Filled(buf') /\ Unemptied(buf') /\ Staged' = Staged
      /\ Committed' = IF commit THEN SubSeq(Committed, r + 1, Len(Committed)) ELSE Committed
      /\ buf'.readOffset = 0 /\ buf'.readFrozen = FALSE
      /\ buf'.writeFrozen = buf.writeFrozen /\ buf'.size = buf.size
  <2>1. CASE commit
    <3>1. buf' = CommitRead(b, r) /\ r <= b.len - b.readOffset
      BY <1>2, <1>3, <1>4, <2>1
    <3>2. Taken(b, r, buf')
      BY <1>2, <1>3, <1>5, <3>1, TakenOK
    <3>3. /\ Filled(buf') /\ StagedOf(buf') = StagedOf(b)
          /\ CommittedOf(buf') = SubSeq(CommittedOf(b), r + 1, Len(CommittedOf(b)))
      BY <1>2, <1>3, <1>5, <1>7, <3>1, <3>2, TakenMeans
    <3>4. Unemptied(buf')
      BY <1>2, <1>5, <3>1, <3>2, TakenRest
    <3>5. /\ buf'.readOffset = 0 /\ buf'.readFrozen = FALSE
          /\ buf'.writeFrozen = buf.writeFrozen /\ buf'.size = buf.size
      BY <1>3, <3>2 DEF Taken, Alike
    <3> QED BY <1>7, <2>1, <3>3, <3>4, <3>5, Mapping
  <2>2. CASE ~commit
    <3>1. buf' = b
      BY <1>4, <2>2
    <3> QED BY <1>3, <1>5, <1>7, <2>2, <3>1, Mapping
  <2> QED BY <2>1, <2>2
<1>9. Queue!EndRead(commit)
  BY <1>2, <1>4, <1>8, Zenon DEF Queue!EndRead, Queue!Counted, Queue!Drop
<1> QED BY <1>8, <1>9 DEF Queue!Next

\* Bytes that are committed stand behind those that were.
LEMMA CommittedTogether ==
  ASSUME NEW b, WellFormed(b), Filled(b), NEW c, WellFormed(c), c.writeOffset = 0,
         c.len = Total(b), \A i \in 0..(Total(b) - 1) : Held(c, i) = Held(b, i)
  PROVE  /\ Filled(c) /\ StagedOf(c) = <<>>
         /\ CommittedOf(c) = CommittedOf(b) \o StagedOf(b)
<1> DEFINE m == b.len
           w == b.writeOffset
           t == Total(b)
           q == CommittedOf(b) \o StagedOf(b)
<1>1. m \in Nat /\ w \in Nat /\ t = m + w /\ Total(c) = t
  BY Numbers
<1>2. Filled(c)
  BY <1>1 DEF Filled
<1>3. /\ CommittedOf(b) \in Seq(Byte) /\ Len(CommittedOf(b)) = m
      /\ \A i \in 1..m : CommittedOf(b)[i] = Held(b, i - 1)
      /\ StagedOf(b) \in Seq(Byte) /\ Len(StagedOf(b)) = w
      /\ \A i \in 1..w : StagedOf(b)[i] = Held(b, m + i - 1)
  BY ContentOK
<1>4. /\ CommittedOf(c) \in Seq(Byte) /\ Len(CommittedOf(c)) = t
      /\ \A i \in 1..t : CommittedOf(c)[i] = Held(c, i - 1)
      /\ StagedOf(c) \in Seq(Byte) /\ Len(StagedOf(c)) = 0
  BY <1>2, ContentOK
<1>5. /\ q \in Seq(Byte) /\ Len(q) = m + w
      /\ \A i \in 1..(m + w) : q[i] = IF i <= m THEN CommittedOf(b)[i] ELSE StagedOf(b)[i - m]
  <2> HIDE DEF m, w, t
  <2>1. /\ q \in Seq(Byte) /\ Len(q) = Len(CommittedOf(b)) + Len(StagedOf(b))
        /\ \A i \in 1..(Len(CommittedOf(b)) + Len(StagedOf(b))) :
             q[i] = IF i <= Len(CommittedOf(b)) THEN CommittedOf(b)[i]
                    ELSE StagedOf(b)[i - Len(CommittedOf(b))]
    BY <1>3, ConcatProperties, Zenon
  <2> HIDE DEF q
  <2> QED BY <1>3, <2>1
<1>6. \A i \in 0..(t - 1) : Held(c, i) = Held(b, i)
  OBVIOUS
<1> HIDE DEF m, w, t, q
<1>7. ASSUME NEW i \in 1..t PROVE CommittedOf(c)[i] = q[i]
  <2>1. CommittedOf(c)[i] = Held(b, i - 1)
    BY <1>1, <1>4, <1>6, i - 1 \in 0..(t - 1)
  <2>2. CASE i <= m
    BY <1>1, <1>3, <1>5, <2>1, <2>2, i \in 1..m
  <2>3. CASE ~(i <= m)
    <3>1. i - m \in 1..w /\ m + (i - m) - 1 = i - 1
      BY <1>1, <2>3
    <3>2. StagedOf(b)[i - m] = Held(b, i - 1)
      BY <1>3, <3>1
    <3> QED BY <1>1, <1>5, <2>1, <2>3, <3>2
  <2> QED BY <2>2, <2>3
<1>8. CommittedOf(c) = q
  BY <1>1, <1>4, <1>5, <1>7, SeqEqual
<1>9. StagedOf(c) = <<>>
  BY <1>4
<1> QED BY <1>2, <1>8, <1>9 DEF q

\* ringbuffer_unfreeze_write, keeping or undoing the writes.
LEMMA ThawWriteStep ==
  ASSUME QueueInv, IndInv', NEW commit \in BOOLEAN, ThawWrite(commit)
  PROVE  Queue!Next /\ Unemptied(buf') /\ Filled(buf')
<1> DEFINE kept == IF commit THEN buf.len + buf.writeOffset ELSE buf.len
           thawed == [buf EXCEPT !.writeFrozen = FALSE]
<1>1. /\ WellFormed(buf) /\ Transactional(buf) /\ Filled(buf) /\ Unemptied(buf)
      /\ buf \in Fields /\ Len(Staged) = buf.writeOffset /\ WellFormed(buf')
  BY QueueInvMeaning DEF WellFormed, IndInv
<1>2. /\ buf.len \in Nat /\ buf.writeOffset \in Nat /\ buf.size \in Nat
      /\ Total(buf) = buf.len + buf.writeOffset /\ Total(buf) <= buf.size
      /\ buf.readFrozen \in BOOLEAN
  BY <1>1, Numbers
<1>3. CommitWrite(thawed, buf.writeOffset) = [thawed EXCEPT !.len = buf.len + buf.writeOffset]
  <2>1. Clip(buf.len + buf.writeOffset, buf.size) = buf.len + buf.writeOffset
    BY <1>2 DEF Clip
  <2>2. thawed.len = buf.len /\ thawed.size = buf.size /\ thawed.writeFrozen = FALSE
    BY <1>1 DEF Fields
  <2> HIDE DEF thawed
  <2> QED BY <2>1, <2>2 DEF CommitWrite
<1>4. buf' = [buf EXCEPT !.writeFrozen = FALSE, !.len = kept, !.writeOffset = 0]
  <2>1. buf' = UnfreezeWrite(buf, commit)
    BY DEF ThawWrite
  <2>2. CASE commit
    BY <1>1, <1>3, <2>1, <2>2 DEF UnfreezeWrite, Fields
  <2>3. CASE ~commit
    BY <1>1, <2>1, <2>3 DEF UnfreezeWrite, Fields
  <2> QED BY <2>2, <2>3
<1> HIDE DEF kept
<1>5. /\ buf'.data = buf.data /\ buf'.size = buf.size /\ buf'.start = buf.start
      /\ buf'.len = kept /\ buf'.writeOffset = 0 /\ buf'.readOffset = buf.readOffset
      /\ buf'.readFrozen = buf.readFrozen /\ buf'.writeFrozen = FALSE
  BY <1>1, <1>4 DEF Fields
<1>6. \A i : Held(buf', i) = Held(buf, i)
  BY <1>5 DEF Held, Pos
<1>7. ret' = [count |-> IF commit THEN Len(Staged) ELSE 0, bytes |-> <<>>]
  <2>1. Clip(buf.writeOffset, buf.size - buf.len) = buf.writeOffset
    BY <1>2 DEF Clip
  <2> QED BY <1>1, <2>1 DEF ThawWrite, Returns
<1>8. Unemptied(buf')
  BY <1>1, <1>2, <1>5 DEF Unemptied, kept
<1>9. /\ Filled(buf') /\ Staged' = <<>>
      /\ Committed' = IF commit THEN Committed \o Staged ELSE Committed
  <2>1. CASE commit
    <3>1. buf'.len = Total(buf)
      BY <1>2, <1>5, <2>1 DEF kept
    <3>2. /\ Filled(buf') /\ StagedOf(buf') = <<>>
          /\ CommittedOf(buf') = CommittedOf(buf) \o StagedOf(buf)
      BY <1>1, <1>5, <1>6, <3>1, CommittedTogether
    <3> QED BY <2>1, <3>2, Mapping
  <2>2. CASE ~commit
    <3>1. buf'.len = buf.len
      BY <1>5, <2>2 DEF kept
    <3>2. CommittedOf(buf') = CommittedOf(buf)
      BY <1>6, <3>1 DEF CommittedOf
    <3>3. StagedOf(buf') = <<>>
      BY <1>5 DEF StagedOf
    <3>4. Total(buf') = buf.len
      BY <1>2, <1>5, <3>1 DEF Total
    <3>5. Filled(buf')
      <4> SUFFICES ASSUME NEW i \in 0..(Total(buf') - 1) PROVE Held(buf', i) \in Byte
        BY DEF Filled
      <4>1. i \in 0..(Total(buf) - 1)
        BY <1>2, <3>4
      <4> QED BY <1>1, <1>6, <4>1 DEF Filled
    <3> QED BY <2>2, <3>2, <3>3, <3>5, Mapping
  <2> QED BY <2>1, <2>2
<1>10. Queue!EndWrite(commit)
  BY <1>5, <1>7, <1>9, Zenon DEF Queue!EndWrite, Queue!Counted
<1> QED BY <1>8, <1>9, <1>10 DEF Queue!Next

\* Init of the buffer is Init of the queue.
LEMMA QueueInit == Init => QueueInv /\ Queue!Init
<1> SUFFICES ASSUME Init PROVE QueueInv /\ Queue!Init
  OBVIOUS
<1>1. IndInv
  BY CreateOK DEF Init, IndInv, Nothing
<1>2. /\ buf.size = InitSize /\ buf.len = 0 /\ buf.readOffset = 0
      /\ buf.writeOffset = 0 /\ buf.readFrozen = FALSE /\ buf.writeFrozen = FALSE
  BY DEF Init, Create
<1>3. Unemptied(buf) /\ Filled(buf)
  BY <1>2 DEF Unemptied, Filled, Total
<1>4. Committed = <<>> /\ Staged = <<>>
  BY <1>2 DEF Committed, Staged
<1>5. ret = [count |-> 0, bytes |-> <<>>]
  BY DEF Init, Nothing
<1> QED BY <1>1, <1>2, <1>3, <1>4, <1>5 DEF QueueInv, Queue!Init

\* Every call of the library on the buffer is a call of the queue, and leaves
\* what the next one needs.
LEMMA QueueStep == QueueInv /\ [Next]_vars => QueueInv' /\ [Queue!Next]_(Queue!vars)
<1> SUFFICES ASSUME QueueInv, [Next]_vars PROVE QueueInv' /\ [Queue!Next]_(Queue!vars)
  OBVIOUS
<1>1. IndInv'
  BY IndInvStep DEF QueueInv
<1>2. CASE UNCHANGED vars
  <2>1. buf' = buf /\ ret' = ret
    BY <1>2 DEF vars
  <2>2. Committed' = Committed /\ Staged' = Staged
    BY <2>1, Mapping
  <2>3. UNCHANGED Queue!vars
    BY <2>1, <2>2 DEF Queue!vars
  <2> QED BY <1>1, <2>1, <2>3 DEF QueueInv
<1>3. CASE Next
  <2> SUFFICES Queue!Next /\ Unemptied(buf') /\ Filled(buf')
    BY <1>1 DEF QueueInv
  <2>1. CASE \E s \in Chunks : Write(s) \/ WriteInPlace(s)
    BY <2>1, WriteStep, WriteInPlaceStep
  <2>2. CASE \E n \in 0..MaxOp : Read(n) \/ ReadInPlace(n)
    BY <2>2, ReadStep, ReadInPlaceStep
  <2>3. CASE Count(buf) > 0 /\ FreezeRead
    BY <2>3, FreezeReadStep
  <2>4. CASE \E commit \in BOOLEAN : ThawRead(commit) \/ ThawWrite(commit)
    BY <1>1, <2>4, ThawReadStep, ThawWriteStep
  <2>5. CASE ~buf.readFrozen /\ FreezeWrite
    BY <2>5, FreezeWriteStep
  <2>6. CASE ClearAll
    BY <2>6, ClearStep
  <2>7. CASE \E n \in buf.size..MaxSize : ResizeTo(n)
    BY <2>7, ResizeStep
  <2> QED BY <1>3, <2>1, <2>2, <2>3, <2>4, <2>5, <2>6, <2>7 DEF Next
<1> QED BY <1>2, <1>3
-----------------------------------------------------------------------------
\* Whatever the buffer's offsets, its wrapping and its growth, each call of the
\* library on it does what the call does on a queue of bytes with a transaction
\* of reads and one of writes (what ringbuffer.h promises).
THEOREM BufferIsAQueue == Spec => ImplementsTxQueue
<1>1. Spec => Queue!Spec
  BY QueueInit, QueueStep, PTL DEF Spec, Queue!Spec
<1> QED BY <1>1 DEF ImplementsTxQueue

\* No reader is given memory that was never written, the part that realloc adds
\* to the array included.
THEOREM OnlyWrittenBytes == Spec => []NoJunkInContent
<1>1. QueueInv => NoJunkInContent
  <2> SUFFICES ASSUME QueueInv, NEW i \in 1..Count(buf)
               PROVE  At(buf.readOffset + i - 1) \in Byte
    BY DEF NoJunkInContent
  <2>1. WellFormed(buf) /\ Filled(buf)
    BY QueueInvMeaning
  <2>2. /\ buf.len \in Nat /\ buf.writeOffset \in Nat /\ buf.readOffset \in 0..buf.len
        /\ Total(buf) = buf.len + buf.writeOffset
    BY <2>1, Numbers
  <2>3. buf.readOffset + i - 1 \in 0..(Total(buf) - 1)
    BY <2>2 DEF Count
  <2> QED BY <2>1, <2>3 DEF Filled, Held, Pos, At
<1> QED BY <1>1, QueueInit, QueueStep, PTL DEF Spec
=============================================================================

--------------------------- MODULE RingBufferApi ----------------------------
(***************************************************************************)
(* RingBuffer driven by everything ringbuffer.h offers instead of by the   *)
(* calls the library makes: reads may be frozen while the buffer is empty, *)
(* and the buffer may shrink.  Calls that leave the struct undefined (a    *)
(* read while writes are frozen, a resize inside a transaction) stay out.  *)
(***************************************************************************)
EXTENDS RingBuffer

IsSuffixOf(s, t) == Len(s) <= Len(t) /\ s = SubSeq(t, Len(t) - Len(s) + 1, Len(t))

ApiResize(n) == ~buf.readFrozen /\ ~buf.writeFrozen /\ ResizeTo(n)

ApiNext ==
    \/ \E s \in Chunks : Write(s)
    \/ \E n \in 0..MaxOp : Read(n)
    \/ FreezeRead \/ FreezeWrite \/ ClearAll
    \/ \E commit \in BOOLEAN : ThawRead(commit) \/ ThawWrite(commit)
    \/ \E n \in 1..MaxSize : ApiResize(n)

ApiSpec == Init /\ [][ApiNext]_vars

\* ringbuffer.h:63 on a resize: "This might trim data from the start of the
\* buffer" - what is left is the rest of what was there, in order.
ResizeTrimsOnlyTheStart ==
    [][buf'.size # buf.size => IsSuffixOf(Committed', Committed)]_vars
=============================================================================

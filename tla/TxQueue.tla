------------------------------ MODULE TxQueue ------------------------------
(***************************************************************************)
(* What src/include/openrtmp/util/ringbuffer.h promises: a bounded queue   *)
(* of bytes whose reads and whose writes can each be made provisional      *)
(* (freeze) and later kept or undone (unfreeze).  No array, no wrapping.   *)
(***************************************************************************)
EXTENDS Integers, Sequences

CONSTANTS
    Byte,       \* the values a byte can take
    InitSize,   \* the capacity the queue is created with
    MaxSize,    \* bound: the largest capacity asked for
    MaxOp       \* bound: the most bytes one call moves

VARIABLES
    committed,  \* the bytes in the queue, oldest first
    staged,     \* bytes written since writes were frozen
    taken,      \* how many committed bytes were read since reads were frozen
    reading,    \* reads are frozen
    writing,    \* writes are frozen
    capacity,   \* how many bytes, committed and staged, fit
    result      \* what the last call returned

vars == <<committed, staged, taken, reading, writing, capacity, result>>

Least(m, n) == IF m < n THEN m ELSE n
Drop(s, n) == SubSeq(s, n + 1, Len(s))
Counted(n) == result' = [count |-> n, bytes |-> <<>>]

Init ==
    /\ committed = <<>> /\ staged = <<>> /\ taken = 0
    /\ reading = FALSE /\ writing = FALSE
    /\ capacity = InitSize
    /\ result = [count |-> 0, bytes |-> <<>>]

\* As much of s as there is room for is appended.
Put(s) ==
    LET room == capacity - Len(committed) - Len(staged)
        kept == SubSeq(s, 1, Least(Len(s), room))
    IN  /\ IF writing
           THEN staged' = staged \o kept /\ UNCHANGED committed
           ELSE committed' = committed \o kept /\ UNCHANGED staged
        /\ Counted(Len(kept))
        /\ UNCHANGED <<taken, reading, writing, capacity>>

\* As many as there are of the n oldest unread bytes are read.
Take(n) ==
    LET k == Least(n, Len(committed) - taken)
    IN  /\ ~writing
        /\ IF reading
           THEN taken' = taken + k /\ UNCHANGED committed
           ELSE committed' = Drop(committed, k) /\ UNCHANGED taken
        /\ result' = [count |-> k, bytes |-> SubSeq(committed, taken + 1, taken + k)]
        /\ UNCHANGED <<staged, reading, writing, capacity>>

BeginRead ==
    /\ ~writing
    /\ taken < Len(committed)
    /\ reading' = TRUE
    /\ Counted(0)
    /\ UNCHANGED <<committed, staged, taken, writing, capacity>>

EndRead(commit) ==
    /\ ~writing
    /\ committed' = IF commit THEN Drop(committed, taken) ELSE committed
    /\ Counted(IF commit THEN taken ELSE 0)
    /\ taken' = 0
    /\ reading' = FALSE
    /\ UNCHANGED <<staged, writing, capacity>>

BeginWrite ==
    /\ ~reading
    /\ writing' = TRUE
    /\ Counted(0)
    /\ UNCHANGED <<committed, staged, taken, reading, capacity>>

EndWrite(commit) ==
    /\ committed' = IF commit THEN committed \o staged ELSE committed
    /\ Counted(IF commit THEN Len(staged) ELSE 0)
    /\ staged' = <<>>
    /\ writing' = FALSE
    /\ UNCHANGED <<taken, reading, capacity>>

Empty ==
    /\ committed' = <<>> /\ staged' = <<>> /\ taken' = 0
    /\ reading' = FALSE /\ writing' = FALSE
    /\ Counted(0)
    /\ UNCHANGED capacity

Enlarge(n) ==
    /\ capacity' = n
    /\ Counted(0)
    /\ UNCHANGED <<committed, staged, taken, reading, writing>>

Next ==
    \/ \E n \in 0..MaxOp : \E s \in [1..n -> Byte] : Put(s)
    \/ \E n \in 0..MaxOp : Take(n)
    \/ BeginRead \/ BeginWrite \/ Empty
    \/ \E commit \in BOOLEAN : EndRead(commit) \/ EndWrite(commit)
    \/ \E n \in capacity..MaxSize : Enlarge(n)

Spec == Init /\ [][Next]_vars
=============================================================================

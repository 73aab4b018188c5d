-------------------------- MODULE ReceptionProofs ---------------------------
(***************************************************************************)
(* What a receiver makes of chunks, for every number of chunk streams, any *)
(* chunk size and any limits of the assembler.                             *)
(*                                                                         *)
(* Two things the code gets wrong are kept out by hypotheses of the        *)
(* theorems: a second chunk stream in the dynamic part of the cache, whose *)
(* insertion moves too little (OneDynamic), and a callback that fails,     *)
(* upon which the counts are not restored (NeverFails).  The runs of       *)
(* ReceptionCache.cfg and ReceptionRetry.cfg show what happens otherwise.  *)
(***************************************************************************)
EXTENDS Reception, FunctionTheorems, FiniteSetTheorems, SequenceTheorems, TLAPS

OneDynamic == \A c, d \in Ids : c >= StaticSize /\ d >= StaticSize => c = d
NeverFails == "error" \notin Verdicts

Entries == [id : Nat, len : Nat, sid : Nat, processed : Int]
Byte == Ids \X BOOLEAN \X Nat
Buffer == [chunk : Ids \cup {0}, msg : Nat, held : Seq(Byte)]
Calls == [data : Seq(Byte), remaining : Int]
Sending == [odd : BOOLEAN, sid : Sids \cup {0}, len : Lengths \cup {0}, at : Nat]
-----------------------------------------------------------------------------
(* The inductive invariant. *)

\* The dynamic part of the cache, when one chunk stream uses it at most.
Dynamic(s) ==
    /\ s \in Seq(Entries) /\ Len(s) <= 1 /\ Len(s) <= DynamicMax
    /\ \A i \in DOMAIN s : s[i].id \in Ids /\ s[i].id >= StaticSize

Assembly(all) ==
    /\ all \in Seq(Buffer) /\ Len(all) <= Hard + 1
    /\ \A i \in DOMAIN all : Len(all[i].held) <= BufferSize

\* What is still to come of a chunk is part of what is still to come of its
\* message.
Partial(p) ==
    p # NoChunk =>
        /\ p \in [id : Ids, left : 1..ChunkSize]
        /\ p.left <= peer[p.id].len - peer[p.id].at

TypesOK ==
    /\ peer \in [Ids -> Sending] /\ \A c \in Ids : peer[c].at <= peer[c].len
    /\ begun \in 0..MaxMessages
    /\ static \in [0..(StaticSize - 1) -> Entries]
    /\ \A i \in 0..(StaticSize - 1) : static[i].id = i
    /\ Dynamic(dynamic)
    /\ Partial(partial)
    /\ Assembly(buffers)
    /\ aligned \in BOOLEAN /\ open \in BOOLEAN
    /\ heard \in [Ids -> Seq(Calls)]

\* How much of a message of length n its first j calls gave, and that each of
\* them gives what comes next.
Upto(h, n, j) == IF j = 0 THEN 0 ELSE n - h[j].remaining
Piece(c, odd, from, n) == [k \in 1..n |-> <<c, odd, from + k>>]
InSequence(h, c, odd, n) ==
    \A j \in DOMAIN h :
        /\ h[j].remaining \in 0..n
        /\ Upto(h, n, j) = Upto(h, n, j - 1) + Len(h[j].data)
        /\ h[j].data = Piece(c, odd, Upto(h, n, j - 1), Len(h[j].data))

Heard(c) == Upto(heard[c], peer[c].len, Len(heard[c]))

\* A message that fits an assembly buffer is not handed over before its end.
HeardOf(c) ==
    /\ InSequence(heard[c], c, peer[c].odd, peer[c].len)
    /\ peer[c].at = peer[c].len => Heard(c) = peer[c].len
    /\ peer[c].len <= BufferSize =>
          /\ Len(heard[c]) <= 1
          /\ Underway(c) => heard[c] = <<>>
HeardOK == \A c \in Ids : HeardOf(c)

\* The cache knows what is still to come of a message in progress, and nothing
\* of others.
Cached(c) == c < StaticSize \/ dynamic # <<>>
Known(c) == IF c < StaticSize THEN static[c] ELSE dynamic[1]
CacheOf(c) ==
    IF c \in InProgress
    THEN /\ Cached(c)
         /\ Known(c) = [id |-> c, len |-> peer[c].len, sid |-> peer[c].sid,
                                 processed |-> peer[c].len - peer[c].at]
    ELSE Cached(c) => Known(c).processed = 0
CacheOK == \A c \in Ids : CacheOf(c)

\* A message in progress has one buffer, and it holds what the peer's message
\* has that was not handed over.
Holding(all, c) == {i \in DOMAIN all : all[i].chunk = c}
Alone(all, c, i) == Holding(all, c) = {i}
BufferOf(c) ==
    IF c \in InProgress
    THEN \E i \in DOMAIN buffers :
            /\ Alone(buffers, c, i)
            /\ buffers[i].msg = peer[c].sid
            /\ Heard(c) <= peer[c].at
            /\ buffers[i].held = Piece(c, peer[c].odd, Heard(c), peer[c].at - Heard(c))
    ELSE Holding(buffers, c) = {} /\ Heard(c) = peer[c].at
BufferOK == \A c \in Ids : BufferOf(c)

IndInv ==
    /\ TypesOK
    /\ aligned
    /\ HeardOK
    /\ open => CacheOK /\ BufferOK

\* The assumptions on the constants, typed for arithmetic.
LEMMA Sizes ==
  /\ Ids \subseteq Nat /\ 0 \notin Ids /\ Sids \subseteq Nat
  /\ Lengths \subseteq Nat /\ 0 \notin Lengths
  /\ ChunkSize \in Nat /\ ChunkSize >= 1 /\ BufferSize \in Nat /\ BufferSize >= 1
  /\ StaticSize \in Nat /\ DynamicMax \in Nat /\ Hard \in Nat /\ Soft \in Nat
  /\ MaxMessages \in Nat
  BY ReceptionAssumption
-----------------------------------------------------------------------------
(* The cache. *)

\* A set of natural numbers has a least one.
LEMMA MinIn ==
  ASSUME NEW S \in SUBSET Nat, S # {}
  PROVE  Min(S) \in S /\ \A y \in S : Min(S) <= y
<1> DEFINE T == {1..n : n \in S}
           R == StrictSubsetOrdering(Nat)
           F == FiniteSubsetsOf(Nat)
<1>1. T \subseteq F /\ T # {}
  <2>1. \A n \in S : 1..n \in SUBSET Nat /\ IsFiniteSet(1..n)
    BY FS_Interval
  <2> QED BY <2>1 DEF FiniteSubsetsOf
<1>2. IsWellFoundedOn(R, F)
  BY FS_StrictSubsetOrderingWellFounded
<1>3. \E x \in T : \A y \in T : ~ (<<y, x>> \in R)
  <2> HIDE DEF T, R, F
  <2> QED BY <1>1, <1>2, WFMin
<1>4. PICK m \in S : \A n \in S : ~ (<<1..n, 1..m>> \in R)
  BY <1>3
<1>5. ASSUME NEW n \in S, n < m PROVE FALSE
  <2>1. 1..n \subseteq 1..m /\ m \in 1..m /\ m \notin 1..n
    BY <1>5
  <2>2. 1..n \in SUBSET Nat /\ 1..m \in SUBSET Nat
    OBVIOUS
  <2>3. <<1..n, 1..m>> \in R
    BY <2>1, <2>2 DEF StrictSubsetOrdering
  <2> QED BY <2>3, <1>4
<1>6. \A n \in S : m <= n
  BY <1>5
<1> QED BY <1>6 DEF Min

\* The binary search in a dynamic part without an entry, and with one.
LEMMA SearchNone == ASSUME NEW s, Len(s) = 0, NEW id PROVE Search(s, id) = 0
<1> DEFINE D == (0..Len(s)) \X (0..Len(s)) \X (0..Len(s))
           Mid(b) == b[1] + (b[2] - b[1]) \div 2
           Body(look, b) == IF b[1] >= b[2] THEN b[3]
              ELSE IF id < s[Mid(b) + 1].id THEN look[<<b[1], Mid(b), Mid(b)>>]
              ELSE IF id > s[Mid(b) + 1].id THEN look[<<Mid(b) + 1, b[2], Mid(b)>>]
              ELSE Mid(b)
           f == CHOOSE look : look = [b \in D |-> Body(look, b)]
           g == [b \in D |-> 0]
<1>1. Search(s, id) = f[<<0, Len(s), 0>>]
  BY DEF Search
<1>2. \A look : [b \in D |-> Body(look, b)] = g
  <2>1. \A b \in D : b[1] = 0 /\ b[2] = 0 /\ b[3] = 0
    OBVIOUS
  <2>2. \A look : \A b \in D : Body(look, b) = 0
    BY <2>1
  <2> QED BY <2>2
<1>3. f = g
  <2> HIDE DEF Body, g, D
  <2> QED BY <1>2
<1>4. <<0, Len(s), 0>> \in D
  OBVIOUS
<1>5. g[<<0, Len(s), 0>>] = 0
  <2> HIDE DEF D
  <2> QED BY <1>4
<1> QED BY <1>1, <1>3, <1>5

\* With one entry the index is 0, whatever the comparison says.
LEMMA SearchOne ==
  ASSUME NEW s, Len(s) = 1, NEW id \in Nat, s[1].id \in Nat
  PROVE  Search(s, id) = 0
<1> DEFINE D == (0..Len(s)) \X (0..Len(s)) \X (0..Len(s))
           Mid(b) == b[1] + (b[2] - b[1]) \div 2
           Body(look, b) == IF b[1] >= b[2] THEN b[3]
              ELSE IF id < s[Mid(b) + 1].id THEN look[<<b[1], Mid(b), Mid(b)>>]
              ELSE IF id > s[Mid(b) + 1].id THEN look[<<Mid(b) + 1, b[2], Mid(b)>>]
              ELSE Mid(b)
           f == CHOOSE look : look = [b \in D |-> Body(look, b)]
           g == [b \in D |-> IF b[1] >= b[2] THEN b[3] ELSE 0]
<1>1. Search(s, id) = f[<<0, Len(s), 0>>]
  BY DEF Search
<1>2. g = [b \in D |-> Body(g, b)]
  <2>1. ASSUME NEW b \in D, b[1] < b[2]
        PROVE  Mid(b) = 0 /\ b[1] = 0 /\ b[2] = 1
    BY <2>1
  <2>2. g[<<0, 0, 0>>] = 0 /\ g[<<1, 1, 0>>] = 0
    OBVIOUS
  <2>3. \A b \in D : g[b] = Body(g, b)
    <3> SUFFICES ASSUME NEW b \in D PROVE g[b] = Body(g, b)
      OBVIOUS
    <3>1. CASE b[1] >= b[2]
      BY <3>1
    <3>2. CASE b[1] < b[2]
      <4> HIDE DEF g
      <4>1. Mid(b) = 0 /\ b[1] = 0 /\ b[2] = 1 /\ ~(b[1] >= b[2])
        BY <3>2, <2>1
      <4> HIDE DEF Mid
      <4>2. g[b] = 0
        BY <4>1 DEF g
      <4> QED BY <4>1, <4>2, <2>2
    <3> QED BY <3>1, <3>2
  <2> QED BY <2>3
<1>3. f = [b \in D |-> Body(f, b)]
  <2> HIDE DEF Body, g, D
  <2> QED BY <1>2
<1> HIDE DEF f, g
<1>4. \A b \in D : f[b] = Body(f, b)
  BY <1>3
<1>5. <<0, 1, 0>> \in D /\ <<0, 0, 0>> \in D /\ <<1, 1, 0>> \in D
  OBVIOUS
<1>6. f[<<0, 0, 0>>] = 0 /\ f[<<1, 1, 0>>] = 0
  <2> HIDE DEF D
  <2>1. f[<<0, 0, 0>>] = Body(f, <<0, 0, 0>>) /\ f[<<1, 1, 0>>] = Body(f, <<1, 1, 0>>)
    BY <1>4, <1>5
  <2> QED BY <2>1
<1>7. Mid(<<0, 1, 0>>) = 0
  OBVIOUS
<1>8. f[<<0, 1, 0>>] = 0
  <2> HIDE DEF D
  <2>1. f[<<0, 1, 0>>] = Body(f, <<0, 1, 0>>)
    BY <1>4, <1>5
  <2> QED BY <2>1, <1>6, <1>7
<1> QED BY <1>1, <1>8

\* The smaller of two.
LEMMA MinOfTwo ==
  ASSUME NEW a \in Nat, NEW b \in Nat
  PROVE  Min({a, b}) = (IF a <= b THEN a ELSE b)
<1>1. Min({a, b}) \in {a, b} /\ \A y \in {a, b} : Min({a, b}) <= y
  BY MinIn
<1> QED BY <1>1

\* A dynamic part is empty or has one entry.
LEMMA DynamicLen ==
  ASSUME NEW s, Dynamic(s)
  PROVE  /\ s \in Seq(Entries) /\ Len(s) \in {0, 1} /\ (Len(s) = 0 <=> s = <<>>)
         /\ Len(s) = 1 => s[1] \in Entries /\ s[1].id \in Ids /\ s[1].id >= StaticSize
<1>1. s \in Seq(Entries) /\ Len(s) <= 1
  BY DEF Dynamic
<1>2. Len(s) \in Nat
  BY <1>1
<1>3. Len(s) = 0 <=> s = <<>>
  BY <1>1
<1>4. ASSUME Len(s) = 1
      PROVE  s[1] \in Entries /\ s[1].id \in Ids /\ s[1].id >= StaticSize
  <2>1. 1 \in DOMAIN s
    BY <1>1, <1>4
  <2> QED BY <2>1, <1>1 DEF Dynamic
<1>5. Len(s) \in {0, 1}
  <2> DEFINE n == Len(s)
  <2>1. n \in Nat /\ n <= 1
    BY <1>1, <1>2
  <2> HIDE DEF n
  <2>2. n \in {0, 1}
    BY <2>1
  <2> QED BY <2>2 DEF n
<1> QED BY <1>1, <1>3, <1>4, <1>5

\* A pointer into a cache of which one chunk stream uses the dynamic part: that
\* part is as it was for the others, and has the one entry for this one.
Place(g, c) ==
    IF c < StaticSize THEN g.entries = dynamic
    ELSE Dynamic(g.entries) /\ Len(g.entries) = 1 /\ g.at = 1

\* What is there is found, and nothing is inserted.
LEMMA GetThere ==
  ASSUME OneDynamic, NEW s, Dynamic(s), NEW c \in Ids, c < StaticSize \/ s # <<>>
  PROVE  Get(s, c) = {[entries |-> s, at |-> IF c < StaticSize THEN 0 ELSE 1]}
<1>1. c \in Nat /\ s \in Seq(Entries) /\ Len(s) \in {0, 1}
  BY Sizes, DynamicLen
<1>2. CASE c < StaticSize
  BY <1>2 DEF Get
<1>3. CASE ~(c < StaticSize)
  <2>1. Len(s) = 1 /\ s[1].id \in Ids /\ s[1].id >= StaticSize
    BY <1>1, <1>3, DynamicLen
  <2>2. s[1].id = c
    <3>1. c >= StaticSize
      BY <1>1, <1>3, Sizes
    <3> QED BY <2>1, <3>1 DEF OneDynamic
  <2>3. Search(s, c) = 0
    BY <2>1, <2>2, <1>1, SearchOne
  <2> QED BY <2>1, <2>2, <2>3, <1>3 DEF Get
<1> QED BY <1>2, <1>3

\* rtmp_cache_get where one chunk stream uses the dynamic part: nothing is moved.
LEMMA GetOK ==
  ASSUME OneDynamic, Dynamic(dynamic), NEW c \in Ids, NEW g \in Get(dynamic, c)
  PROVE  /\ Place(g, c) /\ Dynamic(g.entries)
         /\ c < StaticSize => g.entries = dynamic
         /\ c >= StaticSize => /\ Len(g.entries) = 1 /\ g.entries[1].id = c
                               /\ \/ g.entries = dynamic
                                  \/ dynamic = <<>> /\ g.entries = <<Entry(c)>>
<1>1. c \in Nat /\ dynamic \in Seq(Entries) /\ Len(dynamic) \in {0, 1}
  BY Sizes, DynamicLen
<1>2. CASE c < StaticSize
  <2>1. g = [entries |-> dynamic, at |-> 0]
    BY <1>2, GetThere
  <2> QED BY <2>1, <1>1, <1>2, Sizes DEF Place
<1>3. CASE c >= StaticSize /\ Len(dynamic) = 1
  <2>1. dynamic[1].id = c
    BY <1>3, DynamicLen DEF OneDynamic
  <2>2. ~(c < StaticSize) /\ dynamic # <<>>
    <3>1. ~(c < StaticSize)
      BY <1>1, <1>3, Sizes
    <3>2. Len(dynamic) # 0
      BY <1>3
    <3> QED BY <3>1, <3>2, DynamicLen
  <2>3. g = [entries |-> dynamic, at |-> 1]
    BY <2>2, GetThere
  <2> QED BY <2>1, <2>2, <2>3, <1>1, <1>3, Sizes DEF Place
<1>4. CASE c >= StaticSize /\ Len(dynamic) = 0
  <2>1. dynamic = <<>> /\ Search(dynamic, c) = 0
    BY <1>1, <1>4, SearchNone
  <2>2. ~(c < StaticSize) /\ ~(Search(dynamic, c) < Len(dynamic))
    BY <2>1, <1>1, <1>4, Sizes
  <2>3. PICK grown \in Inserted(dynamic, 0, c) : g = [entries |-> grown, at |-> 1]
    BY <2>1, <2>2, Sizes, <1>4 DEF Get
  <2>4. Len(dynamic) < DynamicMax
    BY <2>1, <2>2, Sizes, <1>4 DEF Get
  <2>5. grown = <<Entry(c)>>
    BY <2>1, <2>3, <1>4 DEF Inserted
  <2>6. Entry(c) \in Entries /\ Entry(c).id = c
    BY <1>1 DEF Entry, Entries
  <2>7. Dynamic(grown)
    BY <2>4, <2>5, <2>6, <1>4, Sizes DEF Dynamic
  <2> QED BY <2>1, <2>2, <2>3, <2>5, <2>6, <2>7, <1>1, <1>4, Sizes DEF Place
<1> QED BY <1>1, <1>2, <1>3, <1>4, Sizes

\* A pointer is to the entry of its chunk stream.
LEMMA FoundOK ==
  ASSUME OneDynamic, static \in [0..(StaticSize - 1) -> Entries],
         \A i \in 0..(StaticSize - 1) : static[i].id = i,
         NEW c \in Ids, NEW g, Place(g, c)
  PROVE  /\ Found(g, c) \in Entries /\ Found(g, c).id = c
         /\ Found(g, c) = IF c < StaticSize THEN static[c] ELSE g.entries[1]
<1>1. c \in Nat /\ StaticSize \in Nat
  BY Sizes
<1>2. CASE c < StaticSize
  BY <1>1, <1>2 DEF Found
<1>3. CASE ~(c < StaticSize)
  <2>1. Len(g.entries) = 1 /\ g.at = 1 /\ Dynamic(g.entries)
    BY <1>3 DEF Place
  <2>2. g.entries[1] \in Entries /\ g.entries[1].id \in Ids /\ g.entries[1].id >= StaticSize
    BY <2>1, DynamicLen
  <2>3. c >= StaticSize
    BY <1>1, <1>3
  <2>4. g.entries[1].id = c
    BY <2>2, <2>3 DEF OneDynamic
  <2> QED BY <2>1, <2>2, <2>4, <1>3 DEF Found
<1> QED BY <1>2, <1>3

\* An entry is changed where it is, and nothing else changes.
LEMMA StoredOK ==
  ASSUME OneDynamic, TypesOK, NEW c \in Ids, NEW g, Place(g, c),
         NEW e \in Entries, e.id = c, Stored(g, c, e)
  PROVE  /\ static' \in [0..(StaticSize - 1) -> Entries]
         /\ \A i \in 0..(StaticSize - 1) : static'[i].id = i
         /\ Dynamic(dynamic')
         /\ Cached(c)' /\ Known(c)' = e
         /\ \A d \in Ids : d # c =>
               /\ Cached(d)' <=> Cached(d)
               /\ Cached(d) => Known(d)' = Known(d)
<1>1. /\ static \in [0..(StaticSize - 1) -> Entries]
      /\ \A i \in 0..(StaticSize - 1) : static[i].id = i
      /\ Dynamic(dynamic)
  BY DEF TypesOK
<1>2. c \in Nat /\ \A d \in Ids : d \in Nat
  BY Sizes
<1>3. CASE c < StaticSize
  <2>1. /\ static' = [static EXCEPT ![c] = e] /\ dynamic' = dynamic
        /\ c \in 0..(StaticSize - 1)
    BY <1>2, <1>3, Sizes DEF Stored, Place
  <2>2. /\ static' \in [0..(StaticSize - 1) -> Entries] /\ static'[c] = e
        /\ \A i \in 0..(StaticSize - 1) : i # c => static'[i] = static[i]
    BY <2>1, <1>1
  <2>3. \A i \in 0..(StaticSize - 1) : static'[i].id = i
    BY <2>2, <1>1
  <2>4. Dynamic(dynamic')
    BY <2>1, <1>1
  <2>5. Cached(c)' /\ Known(c)' = e
    BY <2>1, <2>2, <1>3 DEF Cached, Known
  <2>6. ASSUME NEW d \in Ids, d # c
        PROVE  /\ Cached(d)' <=> Cached(d)
               /\ Cached(d) => Known(d)' = Known(d)
    <3>1. d < StaticSize => static'[d] = static[d]
      BY <2>2, <2>6, <1>2, Sizes
    <3> QED BY <2>1, <3>1 DEF Cached, Known
  <2> QED BY <2>2, <2>3, <2>4, <2>5, <2>6
<1>4. CASE ~(c < StaticSize)
  <2>1. Len(g.entries) = 1 /\ Dynamic(g.entries) /\ g.at = 1
    BY <1>4 DEF Place
  <2>3. static' = static /\ dynamic' = [g.entries EXCEPT ![1] = e]
    BY <2>1, <1>4 DEF Stored
  <2>4. dynamic' \in Seq(Entries) /\ Len(dynamic') = 1 /\ dynamic'[1] = e
    BY <2>1, <2>3 DEF Dynamic
  <2>5. Dynamic(dynamic')
    BY <2>1, <2>4, <1>2, <1>4, Sizes DEF Dynamic
  <2>7. Cached(c)' /\ Known(c)' = e
    BY <2>4, <1>4 DEF Cached, Known
  <2>8. ASSUME NEW d \in Ids, d # c
        PROVE  /\ Cached(d)' <=> Cached(d)
               /\ Cached(d) => Known(d)' = Known(d)
    <3>1. d < StaticSize
      BY <2>8, <1>2, <1>4, Sizes DEF OneDynamic
    <3> QED BY <2>3, <3>1 DEF Cached, Known
  <2> QED BY <2>3, <2>5, <2>7, <2>8, <1>1
<1> QED BY <1>3, <1>4
-----------------------------------------------------------------------------
(* The assembler. *)

\* A sequence without its element i.
LEMMA RemoveAtOK ==
  ASSUME NEW T, NEW s \in Seq(T), NEW i \in 1..Len(s)
  PROVE  /\ RemoveAt(s, i) \in Seq(T) /\ Len(RemoveAt(s, i)) = Len(s) - 1
         /\ \A j \in 1..(Len(s) - 1) :
              RemoveAt(s, i)[j] = IF j < i THEN s[j] ELSE s[j + 1]
<1> DEFINE a == SubSeq(s, 1, i - 1)
           b == SubSeq(s, i + 1, Len(s))
           n == Len(s)
<1>1. n \in Nat /\ i \in Nat /\ 1 <= i /\ i <= n
  OBVIOUS
<1>2. /\ a \in Seq(T) /\ Len(a) = i - 1
      /\ \A j \in 1..(i - 1) : a[j] = s[j]
  BY <1>1, SubSeqProperties
<1>3. /\ b \in Seq(T) /\ Len(b) = n - i
      /\ \A j \in 1..(n - i) : b[j] = s[i + j]
  BY <1>1, SubSeqProperties
<1> HIDE DEF a, b, n
<1>4. /\ a \o b \in Seq(T) /\ Len(a \o b) = n - 1
      /\ \A j \in 1..(n - 1) : (a \o b)[j] = IF j <= i - 1 THEN a[j] ELSE b[j - (i - 1)]
  <2> DEFINE t == a \o b
  <2>1. /\ t \in Seq(T) /\ Len(t) = Len(a) + Len(b)
        /\ \A j \in 1..(Len(a) + Len(b)) : t[j] = IF j <= Len(a) THEN a[j] ELSE b[j - Len(a)]
    BY <1>2, <1>3, ConcatProperties, Zenon
  <2> HIDE DEF t
  <2>2. Len(a) + Len(b) = n - 1
    BY <1>1, <1>2, <1>3
  <2>3. t \in Seq(T) /\ Len(t) = n - 1
    BY <2>1, <2>2
  <2>4. \A j \in 1..(n - 1) : t[j] = IF j <= i - 1 THEN a[j] ELSE b[j - (i - 1)]
    BY <2>1, <2>2, <1>2
  <2> QED BY <2>3, <2>4 DEF t
<1>5. ASSUME NEW j \in 1..(n - 1)
      PROVE  (a \o b)[j] = IF j < i THEN s[j] ELSE s[j + 1]
  <2>1. CASE j < i
    BY <2>1, <1>1, <1>2, <1>4
  <2>2. CASE ~(j < i)
    <3>1. j - (i - 1) \in 1..(n - i) /\ i + (j - (i - 1)) = j + 1 /\ ~(j <= i - 1)
      BY <2>2, <1>1
    <3> QED BY <2>2, <3>1, <1>3, <1>4
  <2> QED BY <2>1, <2>2
<1> QED BY <1>4, <1>5 DEF RemoveAt, a, b, n

\* One list of buffers after another, as the message of a chunk stream sees them:
\* it keeps its one buffer, though not the place, or stays without.
Kept(all, new, c) ==
    /\ Holding(all, c) = {} => Holding(new, c) = {}
    /\ \A i \in DOMAIN all : Alone(all, c, i) =>
          \E j \in DOMAIN new : Alone(new, c, j) /\ new[j] = all[i]

\* When the elements of a list that belong to a chunk stream stay where they are.
LEMMA SamePlace ==
  ASSUME NEW all, NEW new, NEW c,
         \A i \in DOMAIN all : all[i].chunk = c => i \in DOMAIN new /\ new[i] = all[i],
         \A i \in DOMAIN new : new[i].chunk = c => i \in DOMAIN all /\ all[i].chunk = c
  PROVE  Kept(all, new, c)
<1>1. Holding(new, c) = Holding(all, c)
  BY DEF Holding, Alone
<1>2. \A i \in Holding(all, c) : i \in DOMAIN new /\ new[i] = all[i]
  BY DEF Holding, Alone
<1>3. \A i : Alone(all, c, i) <=> Alone(new, c, i)
  BY <1>1 DEF Alone
<1>4. \A i : Alone(all, c, i) => i \in Holding(all, c)
  BY DEF Alone
<1> QED BY <1>1, <1>2, <1>3, <1>4 DEF Kept

\* What GetBuffer answers: every chunk stream but the one it is for keeps its
\* buffer, and that one has its own, or a fresh one.
LEMMA GetBufferOK ==
  ASSUME Assembly(buffers), NEW c \in Ids, NEW s \in Nat, NEW g, g = GetBuffer(c, s)
  PROVE  /\ Assembly(g.all) /\ g.at \in 0..Len(g.all)
         /\ \A d \in Ids : d # c => Kept(buffers, g.all, d)
         /\ g.at # 0 => g.all[g.at].chunk = c /\ g.all[g.at].msg = s
         /\ Holding(buffers, c) = {} /\ g.at # 0 =>
               Alone(g.all, c, g.at) /\ g.all[g.at].held = <<>>
         /\ \A i \in DOMAIN buffers :
               Alone(buffers, c, i) /\ buffers[i].msg = s => g = [all |-> buffers, at |-> i]
<1> DEFINE same == {i \in DOMAIN buffers : buffers[i].chunk = c /\ buffers[i].msg = s}
           free == {i \in DOMAIN buffers \ {1} : buffers[i].chunk = 0}
<1>1. /\ buffers \in Seq(Buffer) /\ DOMAIN buffers = 1..Len(buffers) /\ Len(buffers) \in Nat
      /\ Len(buffers) <= Hard + 1 /\ c \in Nat /\ c # 0
      /\ \A i \in DOMAIN buffers : Len(buffers[i].held) <= BufferSize
  BY Sizes DEF Assembly
<1>2. same \in SUBSET Nat /\ free \in SUBSET Nat
  BY <1>1
<1>3. Fresh(c, s) \in Buffer /\ Fresh(c, s).held = <<>> /\ Len(Fresh(c, s).held) <= BufferSize
      /\ Fresh(c, s).chunk = c /\ Fresh(c, s).msg = s
  BY Sizes DEF Fresh, Buffer
<1>4. CASE same # {}
  <2>1. g = [all |-> buffers, at |-> Min(same)]
    BY <1>4 DEF GetBuffer
  <2>2. Min(same) \in same
    BY <1>2, <1>4, MinIn
  <2> HIDE DEF same
  <2>3. Min(same) \in DOMAIN buffers /\ buffers[Min(same)].chunk = c /\ buffers[Min(same)].msg = s
    BY <2>2 DEF same
  <2>4. \A d \in Ids : Kept(buffers, buffers, d)
    BY SamePlace
  <2>5. Min(same) \in Holding(buffers, c)
    BY <2>3 DEF Holding
  <2>6. \A i : Alone(buffers, c, i) => i = Min(same)
    BY <2>5 DEF Alone
  <2>7. Min(same) \in 0..Len(buffers)
    BY <2>3, <1>1
  <2> QED BY <2>1, <2>3, <2>4, <2>5, <2>6, <2>7, <1>1
<1>5. CASE same = {} /\ free # {}
  <2> DEFINE k == Min(free)
             new == [buffers EXCEPT ![k] = Fresh(c, s)]
  <2>1. g = [all |-> new, at |-> k]
    BY <1>5 DEF GetBuffer
  <2>2. k \in DOMAIN buffers /\ buffers[k].chunk = 0
    <3>1. k \in free
      BY <1>2, <1>5, MinIn
    <3> QED BY <3>1
  <2> HIDE DEF k
  <2>3. /\ new \in Seq(Buffer) /\ Len(new) = Len(buffers) /\ DOMAIN new = DOMAIN buffers
        /\ new[k] = Fresh(c, s) /\ \A i \in DOMAIN buffers : i # k => new[i] = buffers[i]
    BY <2>2, <1>1, <1>3
  <2> HIDE DEF new
  <2>4. Assembly(new)
    BY <2>3, <1>1, <1>3 DEF Assembly
  <2>5. \A d \in Ids : d # c => Kept(buffers, new, d)
    <3> SUFFICES ASSUME NEW d \in Ids, d # c PROVE Kept(buffers, new, d)
      OBVIOUS
    <3>1. d # 0
      BY Sizes
    <3>2. \A i \in DOMAIN buffers : buffers[i].chunk = d => i # k
      BY <3>1, <2>2
    <3>3. \A i \in DOMAIN new : new[i].chunk = d => i # k
      BY <2>3, <1>3
    <3> QED BY <3>2, <3>3, <2>3, SamePlace
  <2>6. Holding(buffers, c) = {} => Alone(new, c, k)
    BY <2>2, <2>3, <1>3 DEF Holding, Alone
  <2>7. \A i \in DOMAIN buffers : ~(Alone(buffers, c, i) /\ buffers[i].msg = s)
    BY <1>5 DEF Holding, Alone
  <2>8. k \in 0..Len(new)
    BY <2>2, <2>3, <1>1
  <2> QED BY <2>1, <2>3, <2>4, <2>5, <2>6, <2>7, <2>8, <1>3
<1>6. CASE same = {} /\ free = {} /\ Len(buffers) > Hard
  <2>1. g = [all |-> buffers, at |-> 0]
    BY <1>6 DEF GetBuffer
  <2>2. \A d \in Ids : Kept(buffers, buffers, d)
    BY SamePlace
  <2>3. \A i \in DOMAIN buffers : ~(Alone(buffers, c, i) /\ buffers[i].msg = s)
    BY <1>6 DEF Holding, Alone
  <2>4. g.all = buffers /\ g.at = 0 /\ 0 \in 0..Len(g.all)
    BY <2>1, <1>1
  <2> QED BY <2>2, <2>3, <2>4, <1>1
<1>7. CASE same = {} /\ free = {} /\ ~(Len(buffers) > Hard)
  <2> DEFINE n == Len(buffers)
             new == Append(buffers, Fresh(c, s))
  <2>1. g = [all |-> new, at |-> n + 1]
    BY <1>7 DEF GetBuffer
  <2>2. /\ new \in Seq(Buffer) /\ Len(new) = n + 1 /\ DOMAIN new = 1..(n + 1)
        /\ new[n + 1] = Fresh(c, s) /\ \A i \in 1..n : new[i] = buffers[i]
    BY <1>1, <1>3
  <2> HIDE DEF new
  <2>3. n + 1 <= Hard + 1 /\ n \in Nat
    BY <1>1, <1>7, Sizes
  <2> HIDE DEF n
  <2>4. \A i \in 1..(n + 1) : i \in 1..n \/ i = n + 1
    BY <2>3
  <2>5. Assembly(new)
    BY <2>2, <2>3, <2>4, <1>1, <1>3 DEF Assembly, n
  <2>6. \A d \in Ids : d # c => Kept(buffers, new, d)
    <3> SUFFICES ASSUME NEW d \in Ids, d # c PROVE Kept(buffers, new, d)
      OBVIOUS
    <3>1. \A i \in DOMAIN new : new[i].chunk = d => i \in 1..n
      BY <2>2, <2>4, <1>3
    <3>2. DOMAIN buffers = 1..n /\ 1..n \subseteq DOMAIN new
      BY <2>2, <2>3, <1>1 DEF n
    <3> QED BY <3>1, <3>2, <2>2, SamePlace
  <2>7. Holding(buffers, c) = {} => Alone(new, c, n + 1)
    <3>1. DOMAIN buffers = 1..n /\ n + 1 \in DOMAIN new
      BY <2>2, <2>3, <1>1 DEF n
    <3> QED BY <3>1, <2>2, <2>4, <1>3 DEF Holding, Alone
  <2>8. \A i \in DOMAIN buffers : ~(Alone(buffers, c, i) /\ buffers[i].msg = s)
    BY <1>7 DEF Holding, Alone
  <2>9. n + 1 \in 0..Len(new)
    BY <2>2, <2>3
  <2> QED BY <2>1, <2>2, <2>5, <2>6, <2>7, <2>8, <2>9, <1>3
<1> QED BY <1>4, <1>5, <1>6, <1>7

\* Two changes one after the other.
LEMMA KeptTwice ==
  ASSUME NEW a, NEW b, NEW c, NEW d, Kept(a, b, d), Kept(b, c, d)
  PROVE  Kept(a, c, d)
<1>1. ASSUME NEW i \in DOMAIN a, Alone(a, d, i)
      PROVE  \E j \in DOMAIN c : Alone(c, d, j) /\ c[j] = a[i]
  <2>1. PICK j \in DOMAIN b : Alone(b, d, j) /\ b[j] = a[i]
    BY <1>1 DEF Kept
  <2> QED BY <2>1 DEF Kept
<1> QED BY <1>1 DEF Kept

\* A buffer that is given other bytes.
LEMMA HeldOK ==
  ASSUME NEW all, Assembly(all), NEW at \in DOMAIN all, NEW c \in Ids, all[at].chunk = c,
         NEW h \in Seq(Byte), Len(h) <= BufferSize,
         NEW new, new = [all EXCEPT ![at].held = h]
  PROVE  /\ Assembly(new)
         /\ \A d \in Ids : d # c => Kept(all, new, d)
         /\ Alone(all, c, at) => Alone(new, c, at)
         /\ at \in DOMAIN new /\ new[at].held = h /\ new[at].msg = all[at].msg
<1>1. /\ all \in Seq(Buffer) /\ Len(all) <= Hard + 1
      /\ \A i \in DOMAIN all : Len(all[i].held) <= BufferSize
  BY DEF Assembly
<1>2. /\ all[at] \in Buffer
      /\ [all[at] EXCEPT !.held = h] \in Buffer
      /\ [all[at] EXCEPT !.held = h].held = h
      /\ [all[at] EXCEPT !.held = h].chunk = c
      /\ [all[at] EXCEPT !.held = h].msg = all[at].msg
  <2>1. all[at] \in Buffer
    BY <1>1
  <2> QED BY <2>1 DEF Buffer
<1>3. new = [all EXCEPT ![at] = [all[at] EXCEPT !.held = h]]
  OBVIOUS
<1>4. /\ new \in Seq(Buffer) /\ Len(new) = Len(all) /\ DOMAIN new = DOMAIN all
      /\ \A i \in DOMAIN all : i # at => new[i] = all[i]
  BY <1>1, <1>2, <1>3
<1>5. new[at].held = h /\ new[at].chunk = c /\ new[at].msg = all[at].msg
  BY <1>2, <1>3
<1>6. Assembly(new)
  BY <1>1, <1>4, <1>5 DEF Assembly
<1>7. ASSUME NEW d \in Ids, d # c PROVE Kept(all, new, d)
  <2>1. /\ \A i \in DOMAIN all : all[i].chunk = d => i \in DOMAIN new /\ new[i] = all[i]
        /\ \A i \in DOMAIN new : new[i].chunk = d => i \in DOMAIN all /\ all[i].chunk = d
    BY <1>4, <1>5, <1>7
  <2> QED BY <2>1, SamePlace
<1>8. Alone(all, c, at) => Alone(new, c, at)
  BY <1>4, <1>5 DEF Holding, Alone
<1> QED BY <1>4, <1>5, <1>6, <1>7, <1>8

\* A buffer that is released, or removed from the list: its message has none left.
LEMMA RmBufferOK ==
  ASSUME NEW all, Assembly(all), NEW at \in DOMAIN all, NEW c \in Ids, all[at].chunk = c,
         NEW new, new = RmBuffer(all, at)
  PROVE  /\ Assembly(new)
         /\ \A d \in Ids : d # c => Kept(all, new, d)
         /\ Alone(all, c, at) => Holding(new, c) = {}
<1>1. /\ all \in Seq(Buffer) /\ Len(all) <= Hard + 1 /\ Len(all) \in Nat
      /\ \A i \in DOMAIN all : Len(all[i].held) <= BufferSize
      /\ DOMAIN all = 1..Len(all)
  BY DEF Assembly
<1>2. CASE ~(Len(all) > Soft)
  <2>1. /\ all[at] \in Buffer
        /\ [all[at] EXCEPT !.held = <<>>, !.chunk = 0] \in Buffer
        /\ [all[at] EXCEPT !.held = <<>>, !.chunk = 0].chunk = 0
        /\ [all[at] EXCEPT !.held = <<>>, !.chunk = 0].held = <<>>
    <3>1. all[at] \in Buffer /\ <<>> \in Seq(Byte)
      BY <1>1
    <3> QED BY <3>1 DEF Buffer
  <2>2. new = [all EXCEPT ![at] = [all[at] EXCEPT !.held = <<>>, !.chunk = 0]]
    BY <1>2 DEF RmBuffer
  <2>3. /\ new \in Seq(Buffer) /\ Len(new) = Len(all) /\ DOMAIN new = DOMAIN all
        /\ \A i \in DOMAIN all : i # at => new[i] = all[i]
    BY <2>1, <2>2, <1>1
  <2>4. new[at].chunk = 0 /\ Len(new[at].held) <= BufferSize
    <3>1. new[at].chunk = 0 /\ new[at].held = <<>>
      BY <2>1, <2>2
    <3>2. Len(<<>>) = 0 /\ 0 <= BufferSize
      BY Sizes
    <3> QED BY <3>1, <3>2
  <2>5. Assembly(new)
    BY <1>1, <2>3, <2>4 DEF Assembly
  <2>6. ASSUME NEW d \in Ids, d # c PROVE Kept(all, new, d)
    <3>1. d # 0
      BY Sizes
    <3>2. /\ \A i \in DOMAIN all : all[i].chunk = d => i \in DOMAIN new /\ new[i] = all[i]
          /\ \A i \in DOMAIN new : new[i].chunk = d => i \in DOMAIN all /\ all[i].chunk = d
      BY <3>1, <2>3, <2>4, <2>6
    <3> QED BY <3>2, SamePlace
  <2>7. c # 0
    BY Sizes
  <2>8. Alone(all, c, at) => Holding(new, c) = {}
    BY <2>3, <2>4, <2>7 DEF Holding, Alone
  <2> QED BY <2>5, <2>6, <2>8
<1>3. CASE Len(all) > Soft
  <2> DEFINE n == Len(all)
             From(j) == IF j < at THEN j ELSE j + 1
  <2>1. new = RemoveAt(all, at)
    BY <1>3 DEF RmBuffer
  <2>2. n \in Nat /\ at \in 1..n /\ n <= Hard + 1
    BY <1>1
  <2>3. /\ new \in Seq(Buffer) /\ Len(new) = n - 1
        /\ \A j \in 1..(n - 1) : new[j] = all[From(j)]
    BY <2>1, <2>2, <1>1, RemoveAtOK
  <2> HIDE DEF n
  <2>4. DOMAIN new = 1..(n - 1) /\ DOMAIN all = 1..n
    BY <2>2, <2>3, <1>1 DEF n
  <2>5. /\ \A j \in 1..(n - 1) : From(j) \in 1..n /\ From(j) # at
        /\ \A j, k \in 1..(n - 1) : From(j) = From(k) => j = k
        /\ \A i \in 1..n : i # at => \E j \in 1..(n - 1) : From(j) = i
    <3>1. \A j \in 1..(n - 1) : From(j) \in 1..n /\ From(j) # at
      BY <2>2
    <3>2. \A j, k \in 1..(n - 1) : From(j) = From(k) => j = k
      BY <2>2
    <3>3. ASSUME NEW i \in 1..n, i # at PROVE \E j \in 1..(n - 1) : From(j) = i
      <4>1. CASE i < at
        <5>1. i \in 1..(n - 1) /\ From(i) = i
          BY <4>1, <2>2
        <5> QED BY <5>1
      <4>2. CASE i > at
        <5>1. i - 1 \in 1..(n - 1) /\ From(i - 1) = i
          BY <4>2, <2>2
        <5> QED BY <5>1
      <4> QED BY <4>1, <4>2, <3>3, <2>2
    <3> QED BY <3>1, <3>2, <3>3
  <2> HIDE DEF From
  <2>6. Assembly(new)
    <3>1. \A i \in DOMAIN new : Len(new[i].held) <= BufferSize
      BY <2>3, <2>4, <2>5, <1>1
    <3>2. n - 1 <= Hard + 1
      BY <2>2, Sizes
    <3> QED BY <3>1, <3>2, <2>3 DEF Assembly
  <2>7. ASSUME NEW d \in Ids, d # c PROVE Kept(all, new, d)
    <3>1. Holding(all, d) = {} => Holding(new, d) = {}
      BY <2>3, <2>4, <2>5 DEF Holding, Alone
    <3>2. ASSUME NEW i \in DOMAIN all, Alone(all, d, i)
          PROVE  \E j \in DOMAIN new : Alone(new, d, j) /\ new[j] = all[i]
      <4>1. i # at
        BY <3>2, <2>7 DEF Holding, Alone
      <4>2. PICK j \in 1..(n - 1) : From(j) = i
        BY <4>1, <2>4, <2>5
      <4>3. new[j] = all[i] /\ all[i].chunk = d
        BY <4>2, <2>3, <3>2 DEF Holding, Alone
      <4>4. \A k \in 1..(n - 1) : new[k].chunk = d => k = j
        BY <4>2, <2>3, <2>4, <2>5, <3>2 DEF Holding, Alone
      <4>5. Alone(new, d, j)
        BY <4>3, <4>4, <2>4 DEF Holding, Alone
      <4> QED BY <4>3, <4>5, <2>4
    <3> QED BY <3>1, <3>2 DEF Kept
  <2>8. Alone(all, c, at) => Holding(new, c) = {}
    BY <2>3, <2>4, <2>5 DEF Holding, Alone
  <2> QED BY <2>6, <2>7, <2>8
<1> QED BY <1>2, <1>3
-----------------------------------------------------------------------------
(* What is handed over. *)

\* The bytes of a stretch of a message: how many there are, and which.
LEMMA PieceOK ==
  ASSUME NEW c \in Ids, NEW odd \in BOOLEAN, NEW g \in Nat, NEW n \in Nat
  PROVE  /\ Piece(c, odd, g, n) \in Seq(Byte) /\ Len(Piece(c, odd, g, n)) = n
         /\ DOMAIN Piece(c, odd, g, n) = 1..n
         /\ n = 0 => Piece(c, odd, g, n) = <<>>
<1>1. \A k \in 1..n : <<c, odd, g + k>> \in Byte
  BY DEF Byte
<1>2. Piece(c, odd, g, n) \in [1..n -> Byte]
  BY <1>1 DEF Piece
<1>3. n = 0 => 1..n = {}
  OBVIOUS
<1> QED BY <1>2, <1>3 DEF Piece

\* The byte at a place of a stretch.
LEMMA PieceAt ==
  ASSUME NEW c, NEW odd, NEW g, NEW n, NEW k \in 1..n
  PROVE  Piece(c, odd, g, n)[k] = <<c, odd, g + k>>
BY DEF Piece

\* Names for what the provers would otherwise take apart.
Joined(x, y) == x \o y
First(s, b) == SubSeq(s, 1, b)
Rest(s, b, n) == SubSeq(s, b + 1, n)
Plus(x, y, z) == x + y = z

\* Two that follow each other are one.
LEMMA PieceJoins ==
  ASSUME NEW c, NEW odd, NEW g, NEW a, NEW n, NEW f,
         c \in Ids, odd \in BOOLEAN, g \in Nat, a \in Nat, n \in Nat, f \in Nat, Plus(g, a, f)
  PROVE  Joined(Piece(c, odd, g, a), Piece(c, odd, f, n)) = Piece(c, odd, g, a + n)
<1> DEFINE x == Piece(c, odd, g, a)
           y == Piece(c, odd, f, n)
           m == a + n
           z == Piece(c, odd, g, m)
           t == x \o y
<1>1. /\ x \in Seq(Byte) /\ Len(x) = a /\ \A k \in 1..a : x[k] = <<c, odd, g + k>>
      /\ y \in Seq(Byte) /\ Len(y) = n /\ \A k \in 1..n : y[k] = <<c, odd, f + k>>
      /\ z \in Seq(Byte) /\ Len(z) = m /\ \A k \in 1..m : z[k] = <<c, odd, g + k>>
  <2>1. f \in Nat /\ m \in Nat
    OBVIOUS
  <2>2. x \in Seq(Byte) /\ Len(x) = a
    BY <2>1, PieceOK
  <2>7. y \in Seq(Byte) /\ Len(y) = n
    BY <2>1, PieceOK
  <2>3. z \in Seq(Byte) /\ Len(z) = m
    BY <2>1, PieceOK
  <2>4. \A k \in 1..a : x[k] = <<c, odd, g + k>>
    BY DEF Piece
  <2>5. \A k \in 1..n : y[k] = <<c, odd, f + k>>
    BY DEF Piece
  <2>6. \A k \in 1..m : z[k] = <<c, odd, g + k>>
    BY DEF Piece
  <2> QED BY <2>2, <2>3, <2>4, <2>5, <2>6, <2>7
<1>m. m \in Nat /\ a + n = m /\ g + a = f
  BY DEF Plus
<1> HIDE DEF x, y, z, m
<1>2. /\ t \in Seq(Byte) /\ Len(t) = Len(x) + Len(y)
      /\ \A k \in 1..(Len(x) + Len(y)) : t[k] = IF k <= Len(x) THEN x[k] ELSE y[k - Len(x)]
  BY <1>1, ConcatProperties, Zenon
<1> HIDE DEF t
<1>3. \A k \in 1..m : t[k] = z[k]
  <2> SUFFICES ASSUME NEW k \in 1..m PROVE t[k] = z[k]
    OBVIOUS
  <2>1. CASE k <= a
    <3>1. k \in 1..a /\ k <= a
      BY <2>1, <1>m
    <3>2. k \in 1..(Len(x) + Len(y))
      BY <1>m, <1>1
    <3> QED BY <3>1, <3>2, <1>1, <1>2
  <2>2. CASE ~(k <= a)
    <3>1. k - a \in 1..n /\ f + (k - a) = g + k /\ ~(k <= a)
      BY <2>2, <1>m
    <3>2. k \in 1..(Len(x) + Len(y))
      BY <1>m, <1>1
    <3> QED BY <3>1, <3>2, <1>1, <1>2
  <2> QED BY <2>1, <2>2
<1>4. t = z
  BY <1>m, <1>1, <1>2, <1>3, SeqEqual
<1> QED BY <1>4 DEF t, x, y, z, m, Joined

\* A sequence up to an element, and from the next one on.
LEMMA PartOK ==
  ASSUME NEW T, NEW s \in Seq(T), NEW n \in Nat, Len(s) = n, NEW b \in 0..n
  PROVE  /\ SubSeq(s, 1, b) \in Seq(T) /\ Len(SubSeq(s, 1, b)) = b
         /\ \A k \in 1..b : SubSeq(s, 1, b)[k] = s[k]
         /\ SubSeq(s, b + 1, n) \in Seq(T) /\ Len(SubSeq(s, b + 1, n)) = n - b
         /\ \A k \in 1..(n - b) : SubSeq(s, b + 1, n)[k] = s[b + k]
<1>1. /\ b \in Int /\ 1 \in Int /\ b + 1 \in Int /\ n \in Int
      /\ \A i \in 1..b : s[i] \in T
      /\ \A i \in (b + 1)..n : s[i] \in T
      /\ \A i \in 1..n : s[i] \in T
  OBVIOUS
<1>2. /\ SubSeq(s, 1, b) \in Seq(T)
      /\ Len(SubSeq(s, 1, b)) = IF 1 <= b THEN b - 1 + 1 ELSE 0
      /\ \A k \in 1..(b - 1 + 1) : SubSeq(s, 1, b)[k] = s[1 + k - 1]
  BY <1>1, SubSeqProperties
<1>3. /\ SubSeq(s, b + 1, n) \in Seq(T)
      /\ Len(SubSeq(s, b + 1, n)) = IF b + 1 <= n THEN n - (b + 1) + 1 ELSE 0
      /\ \A k \in 1..(n - (b + 1) + 1) : SubSeq(s, b + 1, n)[k] = s[(b + 1) + k - 1]
  BY <1>1, SubSeqProperties
<1> DEFINE u == SubSeq(s, 1, b)
           v == SubSeq(s, b + 1, n)
<1> HIDE DEF u, v
<1>4. Len(u) = b /\ \A k \in 1..b : u[k] = s[k]
  <2>1. (IF 1 <= b THEN b - 1 + 1 ELSE 0) = b /\ b - 1 + 1 = b /\ \A k \in 1..b : 1 + k - 1 = k
    OBVIOUS
  <2> QED BY <2>1, <1>2 DEF u
<1>5. Len(v) = n - b /\ \A k \in 1..(n - b) : v[k] = s[b + k]
  <2>1. /\ (IF b + 1 <= n THEN n - (b + 1) + 1 ELSE 0) = n - b /\ n - (b + 1) + 1 = n - b
        /\ \A k \in 1..(n - b) : (b + 1) + k - 1 = b + k
    OBVIOUS
  <2> QED BY <2>1, <1>3 DEF v
<1> QED BY <1>2, <1>3, <1>4, <1>5 DEF u, v

\* The first b bytes of a stretch.
LEMMA PieceFirst ==
  ASSUME NEW c, NEW odd, NEW g, NEW n, NEW b,
         c \in Ids, odd \in BOOLEAN, g \in Nat, n \in Nat, b \in 0..n
  PROVE  First(Piece(c, odd, g, n), b) = Piece(c, odd, g, b)
<1> DEFINE z == Piece(c, odd, g, n)
           x == Piece(c, odd, g, b)
           u == SubSeq(z, 1, b)
<1>1. x \in Seq(Byte) /\ Len(x) = b /\ b \in Nat
  BY PieceOK
<1>2. z \in Seq(Byte) /\ Len(z) = n
  BY PieceOK
<1>3. u \in Seq(Byte) /\ Len(u) = b /\ \A k \in 1..b : u[k] = z[k]
  BY <1>2, PartOK
<1>4. ASSUME NEW k \in 1..b PROVE u[k] = x[k]
  <2>1. k \in 1..n
    BY <1>1
  <2>2. z[k] = <<c, odd, g + k>> /\ x[k] = <<c, odd, g + k>>
    BY <2>1, PieceAt
  <2> HIDE DEF u, x, z
  <2> QED BY <1>3, <2>2
<1> HIDE DEF u, x, z
<1>5. u = x
  BY <1>1, <1>3, <1>4, SeqEqual
<1> QED BY <1>5 DEF u, x, z, First

\* The rest of a stretch after its first b bytes.
LEMMA PieceRest ==
  ASSUME NEW c, NEW odd, NEW g, NEW n, NEW b, NEW f, NEW l,
         c \in Ids, odd \in BOOLEAN, g \in Nat, n \in Nat, b \in 0..n, f \in Nat, l \in Nat,
         Plus(g, b, f), Plus(b, l, n)
  PROVE  Rest(Piece(c, odd, g, n), b, n) = Piece(c, odd, f, l)
<1> DEFINE z == Piece(c, odd, g, n)
           y == Piece(c, odd, f, l)
           v == SubSeq(z, b + 1, n)
<1>0. g + b = f /\ n - b = l
  BY DEF Plus
<1>1. y \in Seq(Byte) /\ Len(y) = l
  BY PieceOK
<1>2. z \in Seq(Byte) /\ Len(z) = n
  BY PieceOK
<1>3. v \in Seq(Byte) /\ Len(v) = l /\ \A k \in 1..l : v[k] = z[b + k]
  BY <1>0, <1>2, PartOK
<1>4. ASSUME NEW k \in 1..l PROVE v[k] = y[k]
  <2>1. b + k \in 1..n /\ g + (b + k) = f + k
    BY <1>0
  <2>2. z[b + k] = <<c, odd, g + (b + k)>> /\ y[k] = <<c, odd, f + k>>
    BY <2>1, PieceAt
  <2> HIDE DEF v, y
  <2> QED BY <1>3, <2>1, <2>2
<1> HIDE DEF v, y, z
<1>5. v = y
  BY <1>1, <1>3, <1>4, SeqEqual
<1> QED BY <1>5 DEF v, y, z, Rest

\* What the assembler hands over when it holds the a bytes of a message from g on
\* and is given n more: nothing where all still fit and more is to come,
\* everything where all fit and this is the end, and otherwise two pieces.
Turn(c, odd, g, a, n, left) == Handed(Piece(c, odd, g, a), Piece(c, odd, g + a, n), left)

\* Which of the three it is.
LEMMA HandedOK ==
  ASSUME NEW c, NEW odd, NEW g, NEW a, NEW n, NEW left,
         c \in Ids, odd \in BOOLEAN, g \in Nat, a \in Nat, n \in Nat, left \in Nat,
         a <= BufferSize, n > 0 \/ left > 0
  PROVE  /\ a + n <= BufferSize /\ left > 0 => Turn(c, odd, g, a, n, left) = <<>>
         /\ a + n <= BufferSize /\ left = 0 =>
              Turn(c, odd, g, a, n, left) = <<Call(Piece(c, odd, g, a + n), 0)>>
         /\ a + n > BufferSize =>
              Turn(c, odd, g, a, n, left)
                = <<Call(Piece(c, odd, g, BufferSize), left + ((a + n) - BufferSize)),
                    Call(Piece(c, odd, g + BufferSize, (a + n) - BufferSize), left)>>
<1> DEFINE m == a + n
           f == g + a
           calls == Turn(c, odd, g, a, n, left)
<1>f. f \in Nat /\ m \in Nat /\ a + n = m /\ Plus(g, a, f)
  BY DEF Plus
<1>t. calls = Handed(Piece(c, odd, g, a), Piece(c, odd, f, n), left)
  BY DEF Turn
<1>0. Joined(Piece(c, odd, g, a), Piece(c, odd, f, n)) = Piece(c, odd, g, m)
  BY <1>f, PieceJoins
<1> HIDE DEF f, m, calls
<1> DEFINE all == Piece(c, odd, g, m)
           bytes == Piece(c, odd, f, n)
           first == First(all, BufferSize)
           rest == Rest(all, BufferSize, m)
<1>1. /\ Piece(c, odd, g, a) \o bytes = all /\ Len(all) = m /\ all \in Seq(Byte)
      /\ m \in Nat /\ BufferSize \in Nat
      /\ Len(bytes) = n
  <2>1. f \in Nat /\ m \in Nat
    BY <1>f
  <2>2. Piece(c, odd, g, a) \o bytes = all
    BY <1>0 DEF Joined
  <2>3. Len(all) = m /\ all \in Seq(Byte)
    BY <2>1, PieceOK
  <2>4. Len(bytes) = n
    BY <2>1, PieceOK
  <2> QED BY <2>1, <2>2, <2>3, <2>4, Sizes
<1> HIDE DEF all, bytes
<1>2. ~(bytes = <<>> /\ left = 0)
  BY <1>1
<1>3. calls = IF m <= BufferSize /\ left > 0 THEN <<>>
              ELSE IF rest = <<>> THEN <<Call(all, left)>>
              ELSE <<Call(first, left + Len(rest)), Call(rest, left)>>
  BY <1>1, <1>2, <1>t DEF Handed, bytes, First, Rest
<1>4. ASSUME m <= BufferSize PROVE rest = <<>>
  <2>1. BufferSize + 1 > m
    BY <1>1, <1>4
  <2> QED BY <2>1, <1>1, SubSeqEmpty DEF Rest
<1>5. ASSUME m > BufferSize
      PROVE  /\ first = Piece(c, odd, g, BufferSize)
             /\ rest = Piece(c, odd, g + BufferSize, m - BufferSize)
             /\ Len(rest) = m - BufferSize /\ rest # <<>>
  <2> DEFINE p == g + BufferSize
             l == m - BufferSize
  <2>1. BufferSize \in 0..m /\ BufferSize \in Nat /\ l \in Nat /\ l # 0 /\ p \in Nat
        /\ Plus(g, BufferSize, p) /\ Plus(BufferSize, l, m)
    BY <1>1, <1>5 DEF Plus
  <2>2. all = Piece(c, odd, g, m)
    BY DEF all
  <2>6. first = Piece(c, odd, g, BufferSize)
    BY <1>f, <2>1, <2>2, PieceFirst
  <2>7. rest = Piece(c, odd, p, l)
    <3> HIDE DEF p, l
    <3> QED BY <1>f, <2>1, <2>2, PieceRest
  <2>3. first = Piece(c, odd, g, BufferSize) /\ rest = Piece(c, odd, p, l)
    BY <2>6, <2>7
  <2> HIDE DEF rest, first, p, l
  <2>4. Len(rest) = l
    BY <2>1, <2>3, PieceOK
  <2>5. rest # <<>>
    BY <2>1, <2>4
  <2> QED BY <2>3, <2>4, <2>5 DEF p, l
<1> HIDE DEF first, rest
<1>6. ASSUME m <= BufferSize, left > 0 PROVE calls = <<>>
  BY <1>1, <1>3, <1>6
<1>7. ASSUME m <= BufferSize, left = 0 PROVE calls = <<Call(Piece(c, odd, g, m), 0)>>
  <2>1. calls = <<Call(all, 0)>>
    BY <1>1, <1>3, <1>4, <1>7
  <2> QED BY <2>1 DEF all
<1>8. ASSUME m > BufferSize
      PROVE  calls = <<Call(Piece(c, odd, g, BufferSize), left + (m - BufferSize)),
                       Call(Piece(c, odd, g + BufferSize, m - BufferSize), left)>>
  <2>1. calls = <<Call(first, left + Len(rest)), Call(rest, left)>>
    BY <1>1, <1>3, <1>5, <1>8
  <2> QED BY <2>1, <1>5, <1>8
<1> QED BY <1>6, <1>7, <1>8 DEF m, calls
-----------------------------------------------------------------------------
(* What the callback was given. *)

\* What was given is part of the message.
LEMMA UptoOK ==
  ASSUME NEW c, NEW odd, NEW len \in Nat, NEW h \in Seq(Calls), InSequence(h, c, odd, len),
         NEW j \in 0..Len(h)
  PROVE  Upto(h, len, j) \in 0..len
<1>1. CASE j = 0
  BY <1>1 DEF Upto
<1>2. CASE j # 0
  <2>1. h[j].remaining \in 0..len
    <3>1. j \in DOMAIN h
      BY <1>2
    <3> QED BY <3>1 DEF InSequence
  <2> QED BY <1>2, <2>1 DEF Upto
<1> QED BY <1>1, <1>2

\* A call that goes on where the last one ended.
After(h, c, odd, g, k, r) == Append(h, Call(Piece(c, odd, g, k), r))

\* A call with the next k bytes, r more to come, after g that were given.
Follows(c, odd, len, h, g, k, r) ==
    /\ c \in Ids /\ odd \in BOOLEAN /\ len \in Nat /\ h \in Seq(Calls) /\ g \in Nat
    /\ k \in Nat /\ r \in Nat
    /\ InSequence(h, c, odd, len) /\ Upto(h, len, Len(h)) = g /\ len - r = g + k

\* It keeps the history in sequence.
LEMMA GiveOne ==
  ASSUME NEW c, NEW odd, NEW len, NEW h, NEW g, NEW k, NEW r, Follows(c, odd, len, h, g, k, r)
  PROVE  /\ After(h, c, odd, g, k, r) \in Seq(Calls)
         /\ InSequence(After(h, c, odd, g, k, r), c, odd, len)
         /\ Upto(After(h, c, odd, g, k, r), len, Len(After(h, c, odd, g, k, r))) = g + k
<1> DEFINE new == After(h, c, odd, g, k, r)
           q == Len(h)
           p == Piece(c, odd, g, k)
           x == Call(p, r)
<1>0. /\ c \in Ids /\ odd \in BOOLEAN /\ len \in Nat /\ h \in Seq(Calls) /\ g \in Nat
      /\ k \in Nat /\ r \in Nat
      /\ InSequence(h, c, odd, len) /\ Upto(h, len, Len(h)) = g /\ len - r = g + k
  BY DEF Follows
<1> USE <1>0
<1>1. q \in Nat /\ r \in 0..len
  OBVIOUS
<1>2. p \in Seq(Byte) /\ Len(p) = k
  BY PieceOK
<1>3. p = Piece(c, odd, g, Len(p))
  BY <1>2
<1> HIDE DEF p
<1>4. x \in Calls /\ x.data = p /\ x.remaining = r
  BY <1>1, <1>2 DEF Call, Calls
<1>5. new = Append(h, x)
  BY DEF p, After
<1> HIDE DEF x, new
<1>6. /\ new \in Seq(Calls) /\ Len(new) = q + 1 /\ DOMAIN new = 1..(q + 1)
      /\ new[q + 1] = x /\ \A j \in 1..q : new[j] = h[j]
  BY <1>4, <1>5
<1>7. g = Upto(h, len, q) /\ DOMAIN h = 1..q
  OBVIOUS
<1> HIDE DEF q
<1>8. \A j \in 0..q : Upto(new, len, j) = Upto(h, len, j)
  <2> SUFFICES ASSUME NEW j \in 0..q PROVE Upto(new, len, j) = Upto(h, len, j)
    OBVIOUS
  <2>1. j = 0 \/ j \in 1..q
    BY <1>1
  <2> QED BY <2>1, <1>6 DEF Upto
<1>9. Upto(new, len, q + 1) = g + k
  <2>1. q + 1 # 0
    BY <1>1
  <2>2. Upto(new, len, q + 1) = len - r
    BY <2>1, <1>4, <1>6 DEF Upto
  <2> QED BY <2>2
<1>10. ASSUME NEW j \in DOMAIN new
       PROVE  /\ new[j].remaining \in 0..len
              /\ Upto(new, len, j) = Upto(new, len, j - 1) + Len(new[j].data)
              /\ new[j].data = Piece(c, odd, Upto(new, len, j - 1), Len(new[j].data))
  <2>1. CASE j \in 1..q
    <3>1. /\ h[j].remaining \in 0..len
          /\ Upto(h, len, j) = Upto(h, len, j - 1) + Len(h[j].data)
          /\ h[j].data = Piece(c, odd, Upto(h, len, j - 1), Len(h[j].data))
      BY <2>1, <1>7 DEF InSequence
    <3>2. j \in 0..q /\ j - 1 \in 0..q
      BY <2>1, <1>1
    <3>3. Upto(new, len, j) = Upto(h, len, j) /\ Upto(new, len, j - 1) = Upto(h, len, j - 1)
      BY <3>2, <1>8
    <3>4. new[j] = h[j]
      BY <2>1, <1>6
    <3> QED BY <3>1, <3>3, <3>4
  <2>2. CASE j = q + 1
    <3>1. j - 1 = q /\ q \in 0..q
      BY <2>2, <1>1
    <3>2. Upto(new, len, j - 1) = g
      BY <3>1, <1>7, <1>8
    <3>3. new[j].data = p /\ new[j].remaining = r
      BY <2>2, <1>4, <1>6
    <3> QED BY <3>2, <3>3, <2>2, <1>1, <1>2, <1>3, <1>9
  <2> QED BY <2>1, <2>2, <1>1, <1>6
<1> QED BY <1>6, <1>9, <1>10 DEF InSequence, q, new

\* A history with none, one or two calls more.
LEMMA Longer ==
  ASSUME NEW T, NEW h \in Seq(T)
  PROVE  /\ Joined(h, <<>>) = h
         /\ \A x \in T : Joined(h, <<x>>) = Append(h, x)
         /\ \A x, y \in T : Joined(h, <<x, y>>) = Append(Append(h, x), y)
<1>1. h \o <<>> = h
  OBVIOUS
<1>2. ASSUME NEW x \in T PROVE h \o <<x>> = Append(h, x)
  OBVIOUS
<1>3. ASSUME NEW x \in T, NEW y \in T PROVE h \o <<x, y>> = Append(Append(h, x), y)
  OBVIOUS
<1> QED BY <1>1, <1>2, <1>3 DEF Joined

\* The calls the callback accepted.
Made(calls, failed) == IF failed = 0 THEN calls ELSE SubSeq(calls, 1, failed - 1)

\* All of them, none of them, the first of two.
LEMMA MadeOK ==
  /\ \A calls : Made(calls, 0) = calls
  /\ \A calls : Made(calls, 1) = <<>>
  /\ \A x, y : Made(<<x, y>>, 2) = <<x>>
<1>1. \A calls : Made(calls, 0) = calls
  BY DEF Made
<1>2. ASSUME NEW calls PROVE Made(calls, 1) = <<>>
  <2>1. SubSeq(calls, 1, 0) = <<>>
    BY SubSeqEmpty
  <2> QED BY <2>1 DEF Made
<1>3. ASSUME NEW x, NEW y PROVE Made(<<x, y>>, 2) = <<x>>
  <2> DEFINE s == <<x, y>>
             u == SubSeq(s, 1, 1)
  <2>1. s \in Seq({x, y}) /\ Len(s) = 2 /\ s[1] = x
    OBVIOUS
  <2>2. u \in Seq({x, y}) /\ Len(u) = 1 /\ u[1] = x
    <3> HIDE DEF s
    <3>1. 1 \in 0..2 /\ 1 \in 1..1
      OBVIOUS
    <3>2. u \in Seq({x, y}) /\ Len(u) = 1 /\ \A k \in 1..1 : u[k] = s[k]
      BY <2>1, <3>1, PartOK
    <3> QED BY <3>1, <3>2, <2>1
  <2> HIDE DEF u
  <2>3. u = <<x>>
    BY <2>2
  <2> QED BY <2>3 DEF Made, u
<1> QED BY <1>1, <1>2, <1>3

\* A turn that takes n bytes and leaves left to come, where g were given before
\* and a are held; the callback named by failed does not accept.
Gives(c, odd, at, n, left, len, h, g, a, calls, failed, new) ==
    /\ c \in Ids /\ odd \in BOOLEAN /\ at \in Nat /\ n \in Nat /\ left \in Nat /\ len \in Nat
    /\ h \in Seq(Calls) /\ g \in Nat /\ a \in Nat
    /\ n > 0 \/ left > 0
    /\ len - left = at + n
    /\ InSequence(h, c, odd, len) /\ Upto(h, len, Len(h)) = g
    /\ Plus(g, a, at) /\ a <= BufferSize
    /\ calls = Turn(c, odd, g, a, n, left)
    /\ failed \in {0} \cup DOMAIN calls /\ new = Joined(h, Made(calls, failed))

\* The callback of one turn of the service loop: what the history is afterwards.
LEMMA GivenOK ==
  ASSUME NEW c, NEW odd, NEW at, NEW n, NEW left, NEW len, NEW h, NEW g, NEW a, NEW calls,
         NEW failed, NEW new, Gives(c, odd, at, n, left, len, h, g, a, calls, failed, new)
  PROVE  /\ new \in Seq(Calls) /\ InSequence(new, c, odd, len)
         /\ calls = <<>> => new = h /\ a + n <= BufferSize /\ left > 0
         /\ calls # <<>> /\ failed = 0 => Upto(new, len, Len(new)) = at + n
         /\ len <= BufferSize /\ h = <<>> =>
               Len(new) <= 1 /\ (left > 0 \/ failed # 0 => new = <<>>)
<1> DEFINE m == a + n
           b == BufferSize
<1>g. /\ c \in Ids /\ odd \in BOOLEAN /\ at \in Nat /\ n \in Nat /\ left \in Nat /\ len \in Nat
      /\ h \in Seq(Calls) /\ g \in Nat /\ a \in Nat
      /\ n > 0 \/ left > 0
      /\ len - left = at + n
      /\ InSequence(h, c, odd, len) /\ Upto(h, len, Len(h)) = g
      /\ Plus(g, a, at) /\ a <= BufferSize
      /\ calls = Turn(c, odd, g, a, n, left)
      /\ failed \in {0} \cup DOMAIN calls /\ new = Joined(h, Made(calls, failed))
  BY DEF Gives
<1>h. h \in Seq(Calls)
  BY <1>g
<1>4. /\ Joined(h, <<>>) = h
      /\ \A x \in Calls : Joined(h, <<x>>) = Append(h, x)
      /\ \A x, y \in Calls : Joined(h, <<x, y>>) = Append(Append(h, x), y)
  BY <1>h, Longer
<1> USE <1>g
<1>1. m \in Nat /\ b \in Nat /\ g + m = at + n
  BY Sizes DEF Plus
<1>2. /\ m <= b /\ left > 0 => calls = <<>>
      /\ m <= b /\ left = 0 => calls = <<Call(Piece(c, odd, g, m), 0)>>
      /\ m > b => calls = <<Call(Piece(c, odd, g, b), left + (m - b)),
                            Call(Piece(c, odd, g + b, m - b), left)>>
  BY HandedOK
<1>3. len <= b /\ h = <<>> => m <= b
  <2>1. h = <<>> => g = 0
    BY DEF Upto
  <2> QED BY <2>1, <1>1
<1>m. a + n = m
  OBVIOUS
<1> HIDE DEF m, b
<1>5. CASE m <= b /\ left > 0
  <2>1. calls = <<>>
    BY <1>2, <1>5
  <2>2. failed = 0
    BY <2>1
  <2>3. new = h
    BY <2>1, <2>2, <1>4, MadeOK
  <2> QED BY <2>1, <2>3, <1>5, <1>m DEF b
<1>6. CASE m <= b /\ left = 0
  <2> DEFINE x == Call(Piece(c, odd, g, m), 0)
  <2>0. calls = <<Call(Piece(c, odd, g, m), 0)>>
    BY <1>2, <1>6
  <2>1. calls = <<x>> /\ calls # <<>>
    BY <2>0
  <2>2. x \in Calls
    BY <1>1, PieceOK DEF Call, Calls
  <2>3. CASE failed = 0
    <3>1. new = After(h, c, odd, g, m, 0)
      BY <2>1, <2>2, <2>3, <1>4, MadeOK DEF After
    <3>2. len - 0 = g + m
      BY <1>1, <1>6
    <3>3. /\ new \in Seq(Calls) /\ InSequence(new, c, odd, len)
          /\ Upto(new, len, Len(new)) = g + m
      <4>1. Follows(c, odd, len, h, g, m, 0)
        BY <3>2, <1>1 DEF Follows
      <4>2. new \in Seq(Calls) /\ InSequence(new, c, odd, len)
        BY <3>1, <4>1, GiveOne
      <4>3. Upto(new, len, Len(new)) = g + m
        BY <3>1, <4>1, GiveOne
      <4> QED BY <4>2, <4>3
    <3>4. h = <<>> => Len(new) <= 1
      BY <3>1 DEF After
    <3> QED BY <3>3, <3>4, <2>1, <2>3, <1>1, <1>6
  <2>4. CASE failed # 0
    <3>1. failed = 1
      BY <2>1, <2>4
    <3>3. new = h
      BY <3>1, <1>4, MadeOK
    <3> QED BY <3>3, <2>1, <2>4, <1>6
  <2> QED BY <2>3, <2>4
<1>7. CASE m > b
  <2> DEFINE r == left + (m - b)
             f == g + b
             k == m - b
             x == Call(Piece(c, odd, g, b), r)
             y == Call(Piece(c, odd, f, k), left)
             one == After(h, c, odd, g, b, r)
             two == After(one, c, odd, f, k, left)
  <2>0. calls = <<Call(Piece(c, odd, g, b), left + (m - b)),
                  Call(Piece(c, odd, g + b, m - b), left)>>
    BY <1>2, <1>7
  <2>1. calls = <<x, y>> /\ calls # <<>>
    BY <2>0
  <2>2. /\ r \in Nat /\ f \in Nat /\ k \in Nat /\ len - r = g + b
        /\ len - left = f + k /\ f + k = at + n /\ g + b = f
    BY <1>1, <1>7
  <2> HIDE DEF r, f, k
  <2>b. b \in Nat
    BY <1>1
  <2>3. x \in Calls
    BY <1>1, <2>2, PieceOK DEF Call, Calls
  <2>4. y \in Calls
    BY <1>1, <2>2, PieceOK DEF Call, Calls
  <2>5. /\ one \in Seq(Calls) /\ InSequence(one, c, odd, len)
        /\ Upto(one, len, Len(one)) = f
    <3>1. Follows(c, odd, len, h, g, b, r)
      BY <2>2, <2>b DEF Follows
    <3>2. one = After(h, c, odd, g, b, r)
      OBVIOUS
    <3> HIDE DEF one
    <3>3. one \in Seq(Calls) /\ InSequence(one, c, odd, len)
      BY <3>1, <3>2, GiveOne
    <3>4. Upto(one, len, Len(one)) = g + b
      BY <3>1, <3>2, GiveOne
    <3> QED BY <3>3, <3>4, <2>2
  <2> HIDE DEF one
  <2>6. /\ two \in Seq(Calls) /\ InSequence(two, c, odd, len)
        /\ Upto(two, len, Len(two)) = at + n
    <3>1. Follows(c, odd, len, one, f, k, left)
      BY <2>2, <2>5 DEF Follows
    <3>2. two = After(one, c, odd, f, k, left)
      OBVIOUS
    <3> HIDE DEF two
    <3>3. two \in Seq(Calls) /\ InSequence(two, c, odd, len)
      BY <3>1, <3>2, GiveOne
    <3>4. Upto(two, len, Len(two)) = f + k
      BY <3>1, <3>2, GiveOne
    <3> QED BY <3>3, <3>4, <2>2
  <2>7. ~(len <= b /\ h = <<>>)
    BY <1>1, <1>3, <1>7
  <2> HIDE DEF two
  <2>8. CASE failed = 0
    <3>1. new = two
      BY <2>1, <2>3, <2>4, <2>8, <1>4, MadeOK DEF one, two, After
    <3> QED BY <3>1, <2>1, <2>6, <2>7, <2>8 DEF b
  <2>9. CASE failed = 1
    <3>2. new = h
      BY <2>9, <1>4, MadeOK
    <3> QED BY <3>2, <2>1, <2>7, <2>9 DEF b
  <2>10. CASE failed = 2
    <3> HIDE DEF x, y
    <3>1. Made(calls, failed) = <<x>>
      BY <2>1, <2>10, MadeOK
    <3>2. new = one
      BY <3>1, <2>3, <1>4 DEF one, After, x
    <3> QED BY <3>2, <2>1, <2>5, <2>7, <2>10 DEF b
  <2>11. failed \in {0, 1, 2}
    BY <2>1
  <2> QED BY <2>8, <2>9, <2>10, <2>11
<1> QED BY <1>1, <1>5, <1>6, <1>7
-----------------------------------------------------------------------------
(* One turn of the service loop. *)

\* The message of a chunk stream that is in the middle of one, typed.
LEMMA PeerOK ==
  ASSUME TypesOK, NEW c \in Ids
  PROVE  /\ peer[c].odd \in BOOLEAN /\ peer[c].sid \in Nat /\ peer[c].len \in Nat
         /\ peer[c].at \in Nat /\ peer[c].at <= peer[c].len /\ peer[c] \in Sending
<1>1. peer[c] \in Sending /\ peer[c].at <= peer[c].len
  BY DEF TypesOK
<1>2. /\ peer[c].odd \in BOOLEAN /\ peer[c].sid \in Sids \cup {0}
      /\ peer[c].len \in Lengths \cup {0} /\ peer[c].at \in Nat
  BY <1>1 DEF Sending
<1>3. peer[c].sid \in Nat /\ peer[c].len \in Nat
  <2>1. \A x \in Sids \cup {0} : x \in Nat
    BY Sizes
  <2>2. \A x \in Lengths \cup {0} : x \in Nat
    BY Sizes
  <2> QED BY <1>2, <2>1, <2>2
<1> QED BY <1>1, <1>2, <1>3

\* What was handed over of a message is a part of it.
LEMMA HeardIn ==
  ASSUME TypesOK, HeardOK, NEW c \in Ids
  PROVE  Heard(c) \in Nat /\ Heard(c) <= peer[c].len /\ heard[c] \in Seq(Calls)
<1>1. heard[c] \in Seq(Calls) /\ InSequence(heard[c], c, peer[c].odd, peer[c].len)
  BY DEF TypesOK, HeardOK, HeardOf
<1>2. peer[c].len \in Nat
  BY PeerOK
<1>3. Len(heard[c]) \in 0..Len(heard[c])
  BY <1>1
<1>4. Heard(c) \in 0..peer[c].len
  BY <1>1, <1>2, <1>3, UptoOK DEF Heard
<1> QED BY <1>1, <1>2, <1>4

\* The buffer that takes the bytes of a message.
LEMMA TakesOK ==
  ASSUME TypesOK, HeardOK, BufferOK, NEW c \in Ids, Underway(c),
         NEW g, g = GetBuffer(c, peer[c].sid), g.at # 0
  PROVE  /\ Assembly(g.all) /\ g.at \in DOMAIN g.all /\ Alone(g.all, c, g.at)
         /\ g.all[g.at].chunk = c /\ g.all[g.at].msg = peer[c].sid
         /\ Heard(c) <= peer[c].at /\ peer[c].at - Heard(c) <= BufferSize
         /\ g.all[g.at].held = Piece(c, peer[c].odd, Heard(c), peer[c].at - Heard(c))
         /\ \A d \in Ids : d # c => Kept(buffers, g.all, d)
<1> DEFINE a == peer[c].at - Heard(c)
           p == Piece(c, peer[c].odd, Heard(c), a)
<1>1. /\ peer[c].odd \in BOOLEAN /\ peer[c].sid \in Nat /\ peer[c].len \in Nat
      /\ peer[c].at \in Nat /\ Assembly(buffers) /\ Heard(c) \in Nat
  BY PeerOK, HeardIn DEF TypesOK
<1>2. /\ Assembly(g.all) /\ g.at \in 0..Len(g.all)
      /\ g.all[g.at].chunk = c /\ g.all[g.at].msg = peer[c].sid
      /\ Holding(buffers, c) = {} =>
               Alone(g.all, c, g.at) /\ g.all[g.at].held = <<>>
      /\ \A i \in DOMAIN buffers :
               Alone(buffers, c, i) /\ buffers[i].msg = peer[c].sid =>
                  g = [all |-> buffers, at |-> i]
  <2>1. Assembly(g.all) /\ g.at \in 0..Len(g.all)
    BY <1>1, GetBufferOK
  <2>2. g.all[g.at].chunk = c /\ g.all[g.at].msg = peer[c].sid
    BY <1>1, GetBufferOK
  <2>3. Holding(buffers, c) = {} =>
               Alone(g.all, c, g.at) /\ g.all[g.at].held = <<>>
    BY <1>1, GetBufferOK
  <2>4. \A i \in DOMAIN buffers :
               Alone(buffers, c, i) /\ buffers[i].msg = peer[c].sid =>
                  g = [all |-> buffers, at |-> i]
    BY <1>1, GetBufferOK
  <2> QED BY <2>1, <2>2, <2>3, <2>4
<1>3. g.at \in DOMAIN g.all
  BY <1>2 DEF Assembly
<1>0. \A d \in Ids : d # c => Kept(buffers, g.all, d)
  BY <1>1, GetBufferOK
<1>4. CASE c \in InProgress
  <2>1. PICK i \in DOMAIN buffers :
          /\ Alone(buffers, c, i) /\ buffers[i].msg = peer[c].sid
          /\ Heard(c) <= peer[c].at /\ buffers[i].held = p
    BY <1>4 DEF BufferOK, BufferOf
  <2>2. g.all = buffers /\ g.at = i
    <3>1. g = [all |-> buffers, at |-> i]
      BY <2>1, <1>2, Zenon
    <3> QED BY <3>1
  <2>3. a \in Nat
    BY <2>1, <1>1
  <2> HIDE DEF a
  <2>4. Len(p) = a /\ Len(buffers[i].held) <= BufferSize
    <3>1. Len(p) = a
      BY <2>3, <1>1, PieceOK
    <3> QED BY <3>1, <1>1 DEF Assembly
  <2>5. a <= BufferSize
    <3> HIDE DEF p
    <3> QED BY <2>1, <2>4
  <2> QED BY <1>0, <1>2, <1>3, <2>1, <2>2, <2>5 DEF a
<1>5. CASE c \notin InProgress
  <2>1. Holding(buffers, c) = {} /\ Heard(c) = peer[c].at
    BY <1>5 DEF BufferOK, BufferOf
  <2>2. a = 0 /\ Heard(c) <= peer[c].at /\ a <= BufferSize
    BY <2>1, <1>1, Sizes
  <2> HIDE DEF a
  <2>3. p = <<>>
    BY <2>2, <1>1, PieceOK
  <2> QED BY <1>0, <1>2, <1>3, <2>1, <2>2, <2>3 DEF a
<1> QED BY <1>4, <1>5

\* The buffers when the callback has returned from a turn.
Leaves(c, g, bytes, left, calls, failed, new) ==
    /\ Assembly(g.all) /\ g.at \in DOMAIN g.all
    /\ g.all[g.at].chunk = c /\ Alone(g.all, c, g.at)
    /\ calls = <<>> => /\ g.all[g.at].held \o bytes \in Seq(Byte)
                       /\ Len(g.all[g.at].held \o bytes) <= BufferSize
    /\ new = Left(g, bytes, left, calls, failed)

\* Its message keeps its buffer while more is to come.
LEMMA LeftOK ==
  ASSUME NEW c \in Ids, NEW g, NEW bytes, NEW left, NEW calls, NEW failed, NEW new,
         Leaves(c, g, bytes, left, calls, failed, new)
  PROVE  /\ Assembly(new)
         /\ \A d \in Ids : d # c => Kept(g.all, new, d)
         /\ calls = <<>> =>
               /\ g.at \in DOMAIN new /\ Alone(new, c, g.at)
               /\ new[g.at].msg = g.all[g.at].msg
               /\ new[g.at].held = g.all[g.at].held \o bytes
         /\ calls # <<>> /\ failed = 0 /\ left = 0 => Holding(new, c) = {}
         /\ calls # <<>> /\ failed = 0 /\ left # 0 =>
               /\ g.at \in DOMAIN new /\ Alone(new, c, g.at)
               /\ new[g.at].msg = g.all[g.at].msg /\ new[g.at].held = <<>>
<1>g1. Assembly(g.all) /\ g.at \in DOMAIN g.all
  BY DEF Leaves
<1>g2. g.all[g.at].chunk = c /\ Alone(g.all, c, g.at)
  BY DEF Leaves
<1>g3. calls = <<>> => /\ g.all[g.at].held \o bytes \in Seq(Byte)
                       /\ Len(g.all[g.at].held \o bytes) <= BufferSize
  BY DEF Leaves
<1>g4. new = Left(g, bytes, left, calls, failed)
  BY DEF Leaves
<1>1. CASE calls = <<>>
  <2> DEFINE h == g.all[g.at].held \o bytes
  <2>1. h \in Seq(Byte) /\ Len(h) <= BufferSize
    BY <1>1, <1>g3
  <2>2. new = [g.all EXCEPT ![g.at].held = h]
    BY <1>1, <1>g4 DEF Left
  <2> HIDE DEF h
  <2>3. /\ Assembly(new)
        /\ \A d \in Ids : d # c => Kept(g.all, new, d)
        /\ Alone(new, c, g.at)
        /\ g.at \in DOMAIN new /\ new[g.at].held = h /\ new[g.at].msg = g.all[g.at].msg
    BY <1>g1, <1>g2, <2>1, <2>2, HeldOK
  <2> QED BY <2>3, <1>1 DEF h
<1>2. CASE calls # <<>> /\ (left = 0 \/ failed = 1)
  <2>1. new = RmBuffer(g.all, g.at)
    BY <1>2, <1>g4 DEF Left
  <2>2. /\ Assembly(new)
        /\ \A d \in Ids : d # c => Kept(g.all, new, d)
        /\ Holding(new, c) = {}
    BY <1>g1, <1>g2, <2>1, RmBufferOK
  <2>3. failed = 0 => left = 0
    BY <1>2
  <2> QED BY <2>2, <2>3, <1>2
<1>3. CASE calls # <<>> /\ ~(left = 0 \/ failed = 1)
  <2>1. new = [g.all EXCEPT ![g.at].held = <<>>]
    BY <1>3, <1>g4 DEF Left
  <2> DEFINE h == <<>>
  <2>2. h \in Seq(Byte) /\ Len(h) <= BufferSize
    BY Sizes
  <2>4. new = [g.all EXCEPT ![g.at].held = h]
    BY <2>1
  <2> HIDE DEF h
  <2>3. /\ Assembly(new)
        /\ \A d \in Ids : d # c => Kept(g.all, new, d)
        /\ Alone(new, c, g.at)
        /\ g.at \in DOMAIN new /\ new[g.at].held = h /\ new[g.at].msg = g.all[g.at].msg
    BY <1>g1, <1>g2, <2>2, <2>4, HeldOK
  <2> QED BY <2>3, <1>3 DEF h
<1> QED BY <1>1, <1>2, <1>3
\* A chunk stream whose message, entry and buffer a step leaves alone.
LEMMA OthersOK ==
  ASSUME NEW d \in Ids, HeardOf(d), CacheOf(d), BufferOf(d),
         peer'[d] = peer[d], heard'[d] = heard[d], partial'.id = d <=> partial.id = d,
         Cached(d)' <=> Cached(d), Cached(d) => Known(d)' = Known(d),
         Kept(buffers, buffers', d)
  PROVE  HeardOf(d)' /\ CacheOf(d)' /\ BufferOf(d)'
<1>1. (d \in InProgress)' <=> d \in InProgress
  BY DEF InProgress, Underway
<1>2. Heard(d)' = Heard(d)
  BY DEF Heard
<1>3. HeardOf(d)'
  BY <1>2 DEF HeardOf, Underway
<1>4. CacheOf(d)'
  BY <1>1 DEF CacheOf
<1>5. BufferOf(d)'
  <2>1. CASE d \in InProgress
    <3>1. PICK i \in DOMAIN buffers :
            /\ Alone(buffers, d, i) /\ buffers[i].msg = peer[d].sid
            /\ Heard(d) <= peer[d].at
            /\ buffers[i].held = Piece(d, peer[d].odd, Heard(d), peer[d].at - Heard(d))
      BY <2>1 DEF BufferOf
    <3>2. PICK j \in DOMAIN buffers' : Alone(buffers', d, j) /\ buffers'[j] = buffers[i]
      BY <3>1 DEF Kept
    <3> QED BY <2>1, <3>1, <3>2, <1>1, <1>2 DEF BufferOf
  <2>2. CASE d \notin InProgress
    <3>1. Holding(buffers, d) = {} /\ Heard(d) = peer[d].at
      BY <2>2 DEF BufferOf
    <3>2. Holding(buffers', d) = {}
      BY <3>1 DEF Kept
    <3> QED BY <2>2, <3>1, <3>2, <1>1, <1>2 DEF BufferOf
  <2> QED BY <2>1, <2>2
<1> QED BY <1>3, <1>4, <1>5
\* The assembler calls at most twice.
LEMMA CallsMade ==
  ASSUME NEW held, NEW bytes, NEW left, NEW calls, calls = Handed(held, bytes, left)
  PROVE  DOMAIN calls = 1..Len(calls) /\ (calls = <<>> => Len(calls) = 0)
<1>1. \E x, y : calls = <<>> \/ calls = <<x>> \/ calls = <<x, y>>
  BY DEF Handed
<1> QED BY <1>1

\* One turn of the service loop that takes n bytes and leaves left to come: the
\* buffer it takes, the calls it makes, what was given afterwards, the buffers.
Turns(c, n, left, g, calls, failed, new, all) ==
    /\ g = GetBuffer(c, peer[c].sid) /\ g.at # 0
    /\ n \in Nat /\ left \in Nat /\ (n > 0 \/ left > 0)
    /\ peer[c].len - left = peer[c].at + n
    /\ calls = Handed(g.all[g.at].held, Bytes(c, n), left)
    /\ failed \in 0..Len(calls)
    /\ new = Joined(heard[c], Made(calls, failed))
    /\ all = Left(g, Bytes(c, n), left, calls, failed)

\* It gives bytes in order and keeps the rest.
LEMMA TurnOK ==
  ASSUME TypesOK, HeardOK, BufferOK, NEW c \in Ids, Underway(c),
         NEW n, NEW left, NEW g, NEW calls, NEW failed, NEW new, NEW all,
         Turns(c, n, left, g, calls, failed, new, all)
  PROVE  /\ new \in Seq(Calls) /\ InSequence(new, c, peer[c].odd, peer[c].len)
         /\ peer[c].len <= BufferSize =>
               Len(new) <= 1 /\ (left > 0 \/ failed # 0 => new = <<>>)
         /\ Assembly(all)
         /\ \A d \in Ids : d # c => Kept(buffers, all, d)
         /\ failed = 0 /\ left = 0 =>
               Holding(all, c) = {} /\ Upto(new, peer[c].len, Len(new)) = peer[c].at + n
         /\ failed = 0 /\ left > 0 =>
               \E i \in DOMAIN all :
                  /\ Alone(all, c, i) /\ all[i].msg = peer[c].sid
                  /\ Upto(new, peer[c].len, Len(new)) <= peer[c].at + n
                  /\ all[i].held = Piece(c, peer[c].odd, Upto(new, peer[c].len, Len(new)),
                                         (peer[c].at + n) - Upto(new, peer[c].len, Len(new)))
<1> DEFINE at == peer[c].at
           len == peer[c].len
           odd == peer[c].odd
           sid == peer[c].sid
           h == heard[c]
           u == Heard(c)
           a == at - u
           bytes == Bytes(c, n)
           held == g.all[g.at].held
<1>1. /\ odd \in BOOLEAN /\ sid \in Nat /\ len \in Nat /\ at \in Nat /\ at <= len
      /\ Assembly(buffers) /\ u \in Nat /\ u <= len /\ h \in Seq(Calls)
      /\ InSequence(h, c, odd, len) /\ at < len
      /\ len <= BufferSize => h = <<>>
  <2>1. odd \in BOOLEAN /\ sid \in Nat /\ len \in Nat /\ at \in Nat /\ at <= len
    BY PeerOK
  <2>2. Assembly(buffers)
    BY DEF TypesOK
  <2>3. u \in Nat /\ u <= len /\ h \in Seq(Calls)
    BY HeardIn
  <2>4. InSequence(h, c, odd, len) /\ (len <= BufferSize => h = <<>>)
    BY DEF HeardOK, HeardOf
  <2> QED BY <2>1, <2>2, <2>3, <2>4 DEF Underway
<1>0. g = GetBuffer(c, sid) /\ g.at # 0
  BY DEF Turns
<1>2. Upto(h, len, Len(h)) = u
  BY DEF Heard
<1>n. n \in Nat /\ left \in Nat /\ (n > 0 \/ left > 0) /\ len - left = at + n
  BY DEF Turns
<1>3. /\ Assembly(g.all) /\ g.at \in DOMAIN g.all /\ Alone(g.all, c, g.at)
      /\ g.all[g.at].chunk = c /\ g.all[g.at].msg = sid
      /\ u <= at /\ a <= BufferSize
      /\ held = Piece(c, odd, u, a)
  <2>1. Assembly(g.all) /\ g.at \in DOMAIN g.all /\ Alone(g.all, c, g.at)
    BY <1>0, TakesOK
  <2>2. g.all[g.at].chunk = c /\ g.all[g.at].msg = sid
    BY <1>0, TakesOK
  <2>3. u <= at /\ a <= BufferSize
    BY <1>0, TakesOK
  <2>4. held = Piece(c, odd, u, a)
    BY <1>0, TakesOK
  <2> QED BY <2>1, <2>2, <2>3, <2>4
<1>4. bytes = Piece(c, odd, at, n)
  BY DEF Bytes, Piece
<1>a. at - u = a
  OBVIOUS
<1>6. new = Joined(h, Made(calls, failed)) /\ all = Left(g, bytes, left, calls, failed)
  BY DEF Turns
<1>7. \A d \in Ids : d # c => Kept(buffers, g.all, d)
  BY <1>0, TakesOK
<1>8. calls = Handed(held, bytes, left) /\ failed \in 0..Len(calls)
  BY DEF Turns
<1> HIDE DEF at, len, odd, sid, h, u, a, bytes, held
<1>5. a \in Nat /\ u + a = at /\ Plus(u, a, at)
  <2>1. at \in Nat /\ u \in Nat /\ u <= at
    BY <1>1, <1>3
  <2>2. a \in Nat /\ u + a = at
    BY <2>1, <1>a
  <2> QED BY <2>2 DEF Plus
<1>9. calls = Turn(c, odd, u, a, n, left)
  <2>1. u + a = at
    BY <1>5
  <2> QED BY <2>1, <1>3, <1>4, <1>8 DEF Turn
<1>10. failed \in {0} \cup DOMAIN calls
  BY <1>8, CallsMade
<1>11. /\ new \in Seq(Calls) /\ InSequence(new, c, odd, len)
       /\ calls = <<>> => new = h /\ a + n <= BufferSize /\ left > 0
       /\ calls # <<>> /\ failed = 0 => Upto(new, len, Len(new)) = at + n
       /\ len <= BufferSize /\ h = <<>> =>
             Len(new) <= 1 /\ (left > 0 \/ failed # 0 => new = <<>>)
  <2>0. Gives(c, odd, at, n, left, len, h, u, a, calls, failed, new)
    BY <1>n, <1>1, <1>2, <1>3, <1>5, <1>6, <1>9, <1>10 DEF Gives
  <2>1. new \in Seq(Calls) /\ InSequence(new, c, odd, len)
    BY <2>0, GivenOK
  <2>2. calls = <<>> => new = h /\ a + n <= BufferSize /\ left > 0
    BY <2>0, GivenOK
  <2>3. calls # <<>> /\ failed = 0 => Upto(new, len, Len(new)) = at + n
    BY <2>0, GivenOK
  <2>4. len <= BufferSize /\ h = <<>> =>
             Len(new) <= 1 /\ (left > 0 \/ failed # 0 => new = <<>>)
    BY <2>0, GivenOK
  <2> QED BY <2>1, <2>2, <2>3, <2>4
<1>12. Joined(held, bytes) = Piece(c, odd, u, a + n)
  BY <1>n, <1>1, <1>3, <1>4, <1>5, PieceJoins
<1>13. calls = <<>> => held \o bytes \in Seq(Byte) /\ Len(held \o bytes) <= BufferSize
  <2>1. a + n \in Nat
    BY <1>n, <1>5
  <2>2. held \o bytes = Piece(c, odd, u, a + n)
    BY <1>12 DEF Joined
  <2>3. Piece(c, odd, u, a + n) \in Seq(Byte) /\ Len(Piece(c, odd, u, a + n)) = a + n
    <3> DEFINE m == a + n
    <3>1. m \in Nat
      BY <2>1
    <3> HIDE DEF m
    <3>2. Piece(c, odd, u, m) \in Seq(Byte)
      BY <1>1, <3>1, PieceOK
    <3>3. Len(Piece(c, odd, u, m)) = m
      BY <1>1, <3>1, PieceOK
    <3> QED BY <3>2, <3>3 DEF m
  <2> QED BY <2>2, <2>3, <1>11
<1>14. /\ Assembly(all)
       /\ \A d \in Ids : d # c => Kept(g.all, all, d)
       /\ calls = <<>> =>
             /\ g.at \in DOMAIN all /\ Alone(all, c, g.at)
             /\ all[g.at].msg = g.all[g.at].msg
             /\ all[g.at].held = held \o bytes
       /\ calls # <<>> /\ failed = 0 /\ left = 0 => Holding(all, c) = {}
       /\ calls # <<>> /\ failed = 0 /\ left # 0 =>
             /\ g.at \in DOMAIN all /\ Alone(all, c, g.at)
             /\ all[g.at].msg = g.all[g.at].msg /\ all[g.at].held = <<>>
  <2>0. Leaves(c, g, bytes, left, calls, failed, all)
    BY <1>3, <1>6, <1>13 DEF held, Leaves
  <2>1. Assembly(all) /\ \A d \in Ids : d # c => Kept(g.all, all, d)
    BY <2>0, LeftOK
  <2>2. calls = <<>> =>
             /\ g.at \in DOMAIN all /\ Alone(all, c, g.at)
             /\ all[g.at].msg = g.all[g.at].msg
             /\ all[g.at].held = held \o bytes
    BY <2>0, LeftOK DEF held
  <2>3. calls # <<>> /\ failed = 0 /\ left = 0 => Holding(all, c) = {}
    BY <2>0, LeftOK
  <2>4. calls # <<>> /\ failed = 0 /\ left # 0 =>
             /\ g.at \in DOMAIN all /\ Alone(all, c, g.at)
             /\ all[g.at].msg = g.all[g.at].msg /\ all[g.at].held = <<>>
    BY <2>0, LeftOK
  <2> QED BY <2>1, <2>2, <2>3, <2>4
<1>15. ASSUME NEW d \in Ids, d # c PROVE Kept(buffers, all, d)
  BY <1>7, <1>14, <1>15, KeptTwice
<1>16. ASSUME failed = 0, left = 0
       PROVE  Holding(all, c) = {} /\ Upto(new, len, Len(new)) = at + n
  BY <1>11, <1>14, <1>16
<1>17. ASSUME failed = 0, left > 0
       PROVE  \E i \in DOMAIN all :
                /\ Alone(all, c, i) /\ all[i].msg = sid
                /\ Upto(new, len, Len(new)) <= at + n
                /\ all[i].held = Piece(c, odd, Upto(new, len, Len(new)),
                                       (at + n) - Upto(new, len, Len(new)))
  <2> DEFINE v == Upto(new, len, Len(new))
             m == at + n
             i == g.at
  <2>m. m \in Nat /\ at + n = m
    BY <1>n, <1>1
  <2>1. CASE calls = <<>>
    <3>1. v = u
      BY <1>2, <1>11, <2>1
    <3> HIDE DEF v, m
    <3>2. v <= m /\ m - v = a + n
      BY <3>1, <2>m, <1>n, <1>1, <1>5
    <3>3. all[i].held = Piece(c, odd, v, m - v)
      BY <3>1, <3>2, <2>1, <1>12, <1>14 DEF Joined
    <3>4. i \in DOMAIN all /\ Alone(all, c, i) /\ all[i].msg = sid
      BY <2>1, <1>3, <1>14
    <3> QED BY <3>2, <3>3, <3>4 DEF v, m
  <2>2. CASE calls # <<>>
    <3>1. v = at + n
      BY <1>11, <1>17, <2>2
    <3> HIDE DEF v, m
    <3>2. v <= m /\ m - v = 0 /\ v \in Nat
      BY <3>1, <2>m
    <3>3. Piece(c, odd, v, m - v) = <<>>
      BY <3>2, <1>1, PieceOK
    <3>4. i \in DOMAIN all /\ Alone(all, c, i) /\ all[i].msg = sid /\ all[i].held = <<>>
      BY <2>2, <1>n, <1>3, <1>14, <1>17
    <3> QED BY <3>2, <3>3, <3>4 DEF v, m
  <2> QED BY <2>1, <2>2
<1> QED BY <1>11, <1>14, <1>15, <1>16, <1>17, <1>1 DEF at, len, odd, sid, h
\* What the cache is given back, with what is then still to come, and what it
\* needs to be of the right types.
LEMMA RestOK ==
  ASSUME TypesOK, NEW c \in Ids, NEW n \in Nat, NEW left \in Nat,
         n + left = peer[c].len - peer[c].at,
         NEW e, e = [id |-> c, len |-> peer[c].len, sid |-> peer[c].sid,
                     processed |-> peer[c].len - peer[c].at]
  PROVE  /\ [e EXCEPT !.processed = left] \in Entries /\ [e EXCEPT !.processed = left].id = c
         /\ [e EXCEPT !.processed = left].processed = left
         /\ [e EXCEPT !.processed = left]
              = [id |-> c, len |-> peer[c].len, sid |-> peer[c].sid, processed |-> left]
         /\ e.sid = peer[c].sid /\ e.processed - n = left
<1>1. /\ peer[c].sid \in Nat /\ peer[c].len \in Nat /\ c \in Nat
  BY PeerOK, Sizes
<1>2. [e EXCEPT !.processed = left]
        = [id |-> c, len |-> peer[c].len, sid |-> peer[c].sid, processed |-> left]
  OBVIOUS
<1>3. [id |-> c, len |-> peer[c].len, sid |-> peer[c].sid, processed |-> left] \in Entries
  BY <1>1 DEF Entries
<1>4. e.processed - n = left
  <2> DEFINE p == peer[c].len - peer[c].at
  <2>1. e.processed = p /\ n + left = p
    OBVIOUS
  <2> HIDE DEF p
  <2>2. p - n = left
    BY <2>1
  <2> QED BY <2>1, <2>2
<1> QED BY <1>2, <1>3, <1>4

\* Issue, with the names of TurnOK: either no buffer is found, or the callback
\* accepts everything, or it ends the connection.
Issued(c, n, left, rest) ==
    /\ partial' = rest /\ begun' = begun
    /\ \/ open' = FALSE /\ aligned' = TRUE /\ UNCHANGED <<peer, buffers, heard>>
       \/ \E g, calls, failed, new, all :
             /\ Turns(c, n, left, g, calls, failed, new, all)
             /\ buffers' = all /\ heard' = [heard EXCEPT ![c] = new] /\ aligned' = TRUE
             /\ \/ failed = 0 /\ open' = TRUE /\ peer' = [peer EXCEPT ![c].at = @ + n]
                \/ failed # 0 /\ open' = FALSE /\ peer' = peer

\* It is one of these.
LEMMA IssueCases ==
  ASSUME TypesOK, NeverFails, open, aligned, NEW c \in Ids, NEW n \in Nat, NEW left \in Nat,
         n > 0 \/ left > 0, n + left = peer[c].len - peer[c].at,
         NEW e, e = [id |-> c, len |-> peer[c].len, sid |-> peer[c].sid,
                     processed |-> peer[c].len - peer[c].at],
         NEW m, m.sid = peer[c].sid, NEW place, NEW rest, NEW again,
         Issue(c, m, place, e, n, rest, again), begun' = begun
  PROVE  Issued(c, n, left, rest) /\ Stored(place, c, [e EXCEPT !.processed = left])
<1> DEFINE g == GetBuffer(c, m.sid)
           bytes == Bytes(c, n)
           calls == Handed(g.all[g.at].held, bytes, left)
<1>1. m.sid = peer[c].sid /\ e.processed - n = left
  BY RestOK
<1>2. /\ Stored(place, c, [e EXCEPT !.processed = left])
      /\ partial' = rest
      /\ g.at = 0 => open' = FALSE /\ UNCHANGED <<peer, buffers, heard, aligned>>
      /\ g.at # 0 =>
            \E failed \in 0..Len(calls), v \in Verdicts :
               /\ (v = "continue") <=> (failed = 0)
               /\ buffers' = Left(g, bytes, left, calls, failed)
               /\ Give(c, IF failed = 0 THEN calls ELSE SubSeq(calls, 1, failed - 1))
               /\ open' = (v # "abort")
               /\ peer' = IF v = "continue" THEN [peer EXCEPT ![c].at = @ + n] ELSE peer
               /\ aligned' = (v # "error" \/ (again /\ rest = NoChunk))
  <2> DEFINE l == e.processed - n
             made == Handed(g.all[g.at].held, bytes, l)
  <2>1. /\ Stored(place, c, [e EXCEPT !.processed = l])
        /\ partial' = rest
        /\ IF g.at = 0
           THEN open' = FALSE /\ UNCHANGED <<peer, buffers, heard, aligned>>
           ELSE \E failed \in 0..Len(made), v \in Verdicts :
                  /\ (v = "continue") <=> (failed = 0)
                  /\ buffers' = Left(g, bytes, l, made, failed)
                  /\ Give(c, IF failed = 0 THEN made ELSE SubSeq(made, 1, failed - 1))
                  /\ open' = (v # "abort")
                  /\ peer' = IF v = "continue" THEN [peer EXCEPT ![c].at = @ + n] ELSE peer
                  /\ aligned' = (v # "error" \/ (again /\ rest = NoChunk))
    BY DEF Issue
  <2>2. l = left
    BY <1>1
  <2> HIDE DEF bytes, g, l
  <2> QED BY <2>1, <2>2
<1>3. CASE g.at = 0
  <2> HIDE DEF g
  <2> QED BY <1>2, <1>3 DEF Issued
<1>4. CASE g.at # 0
  <2> HIDE DEF g, bytes, calls
  <2>1. PICK failed \in 0..Len(calls), v \in Verdicts :
               /\ (v = "continue") <=> (failed = 0)
               /\ buffers' = Left(g, bytes, left, calls, failed)
               /\ Give(c, IF failed = 0 THEN calls ELSE SubSeq(calls, 1, failed - 1))
               /\ open' = (v # "abort")
               /\ peer' = IF v = "continue" THEN [peer EXCEPT ![c].at = @ + n] ELSE peer
               /\ aligned' = (v # "error" \/ (again /\ rest = NoChunk))
    BY <1>2, <1>4
  <2> DEFINE new == Joined(heard[c], Made(calls, failed))
             all == Left(g, bytes, left, calls, failed)
  <2>2. v = "continue" \/ v = "abort"
    BY ReceptionAssumption DEF NeverFails
  <2>3. heard' = [heard EXCEPT ![c] = new]
    BY <2>1 DEF Give, Joined, Made
  <2>4. Turns(c, n, left, g, calls, failed, new, all)
    <3>1. peer[c].len - left = peer[c].at + n
      <4> DEFINE l == peer[c].len
                 t == peer[c].at
      <4>1. l \in Nat /\ t \in Nat /\ n + left = l - t
        BY PeerOK
      <4> HIDE DEF l, t
      <4>2. l - left = t + n
        BY <4>1
      <4> QED BY <4>2 DEF l, t
    <3>2. g = GetBuffer(c, peer[c].sid) /\ calls = Handed(g.all[g.at].held, Bytes(c, n), left)
      BY <1>1 DEF g, calls, bytes
    <3> QED BY <3>1, <3>2, <1>4 DEF Turns, bytes
  <2>5. aligned' = TRUE
    BY <2>1, <2>2
  <2> HIDE DEF new, all
  <2>6. CASE v = "continue"
    <3>1. failed = 0 /\ open' = TRUE /\ peer' = [peer EXCEPT ![c].at = @ + n]
      BY <2>1, <2>6
    <3>2. buffers' = all
      BY <2>1 DEF all
    <3> QED BY <3>1, <3>2, <1>2, <2>3, <2>4, <2>5 DEF Issued
  <2>7. CASE v = "abort"
    <3>1. failed # 0 /\ open' = FALSE /\ peer' = peer
      BY <2>1, <2>7
    <3>2. buffers' = all
      BY <2>1 DEF all
    <3> QED BY <3>1, <3>2, <1>2, <2>3, <2>4, <2>5 DEF Issued
  <2> QED BY <2>2, <2>6, <2>7
<1> QED BY <1>2, <1>3, <1>4
\* n and left are what is still to come of the message, and rest the part of it
\* that is still to come of the chunk.
ToCome(c, n, left, rest) ==
    /\ n \in Nat /\ left \in Nat /\ (n > 0 \/ left > 0)
    /\ n + left = peer[c].len - peer[c].at
    /\ rest # NoChunk => /\ rest \in [id : Ids, left : 1..ChunkSize]
                         /\ rest.id = c /\ rest.left <= left
    /\ n > 0 \/ rest # NoChunk

\* The invariant after it.
LEMMA IssuedOK ==
  ASSUME OneDynamic, IndInv, open, NEW c \in Ids, Underway(c), NEW place, Place(place, c),
         NEW n, NEW left, NEW rest, ToCome(c, n, left, rest),
         partial = NoChunk \/ partial.id = c,
         NEW e, e = [id |-> c, len |-> peer[c].len, sid |-> peer[c].sid, processed |-> left],
         e \in Entries, Stored(place, c, e), Issued(c, n, left, rest)
  PROVE  IndInv'
<1> DEFINE odd == peer[c].odd
           len == peer[c].len
           at == peer[c].at
           sid == peer[c].sid
<1>1. TypesOK /\ aligned /\ HeardOK /\ CacheOK /\ BufferOK
  BY DEF IndInv
<1>2. /\ odd \in BOOLEAN /\ sid \in Nat /\ len \in Nat /\ at \in Nat /\ at < len
      /\ peer[c] \in Sending /\ peer \in [Ids -> Sending]
  BY <1>1, PeerOK DEF Underway, TypesOK
<1>n. /\ n \in Nat /\ left \in Nat /\ (n > 0 \/ left > 0) /\ n + left = len - at
      /\ n > 0 \/ rest # NoChunk
  BY DEF ToCome
<1>r. rest # NoChunk => /\ rest \in [id : Ids, left : 1..ChunkSize]
                        /\ rest.id = c /\ rest.left <= left
  BY DEF ToCome
<1>3. /\ static' \in [0..(StaticSize - 1) -> Entries]
      /\ \A i \in 0..(StaticSize - 1) : static'[i].id = i
      /\ Dynamic(dynamic')
  BY <1>1, StoredOK
<1>4. Cached(c)' /\ Known(c)' = e
  BY <1>1, StoredOK
<1>5. ASSUME NEW d \in Ids, d # c
      PROVE  /\ Cached(d)' <=> Cached(d)
             /\ Cached(d) => Known(d)' = Known(d)
  BY <1>1, <1>5, StoredOK
<1>6. /\ partial' = rest /\ begun' = begun /\ aligned'
      /\ open' \in BOOLEAN /\ aligned' \in BOOLEAN /\ begun' \in 0..MaxMessages
  BY <1>1 DEF Issued, TypesOK
<1>7. ASSUME NEW d \in Ids, d # c PROVE partial'.id = d <=> partial.id = d
  <2>1. rest.id \in {0, c} /\ partial.id \in {0, c} /\ d # 0
    BY <1>r, Sizes DEF NoChunk
  <2> QED BY <2>1, <1>6, <1>7
<1>8. CASE open' = FALSE /\ aligned' = TRUE /\ UNCHANGED <<peer, buffers, heard>>
  <2>1. Partial(partial)'
    <3>1. ASSUME rest # NoChunk PROVE rest.left <= len - at
      <4>1. rest.left \in Nat /\ rest.left <= left
        BY <3>1, <1>r, Sizes
      <4> HIDE DEF len, at
      <4> QED BY <4>1, <1>n, <1>2
    <3> QED BY <3>1, <1>r, <1>6, <1>8 DEF Partial
  <2>2. TypesOK'
    BY <2>1, <1>1, <1>3, <1>6, <1>8 DEF TypesOK
  <2>3. HeardOK'
    BY <1>1, <1>8 DEF HeardOK, HeardOf, Heard, Underway
  <2> QED BY <2>2, <2>3, <1>6, <1>8 DEF IndInv
<1>9. ASSUME NEW g, NEW calls, NEW failed, NEW new, NEW all,
             Turns(c, n, left, g, calls, failed, new, all),
             buffers' = all, heard' = [heard EXCEPT ![c] = new], aligned' = TRUE,
             \/ failed = 0 /\ open' = TRUE /\ peer' = [peer EXCEPT ![c].at = @ + n]
             \/ failed # 0 /\ open' = FALSE /\ peer' = peer
      PROVE  IndInv'
  <2>1. /\ new \in Seq(Calls) /\ InSequence(new, c, odd, len)
        /\ len <= BufferSize => Len(new) <= 1 /\ (left > 0 \/ failed # 0 => new = <<>>)
    BY <1>1, <1>9, TurnOK
  <2>2. Assembly(all) /\ \A d \in Ids : d # c => Kept(buffers, all, d)
    BY <1>1, <1>9, TurnOK
  <2>3. failed = 0 /\ left = 0 =>
               Holding(all, c) = {} /\ Upto(new, len, Len(new)) = at + n
    BY <1>1, <1>9, TurnOK
  <2>4. failed = 0 /\ left > 0 =>
               \E i \in DOMAIN all :
                  /\ Alone(all, c, i) /\ all[i].msg = sid
                  /\ Upto(new, len, Len(new)) <= at + n
                  /\ all[i].held = Piece(c, odd, Upto(new, len, Len(new)),
                                         (at + n) - Upto(new, len, Len(new)))
    BY <1>1, <1>9, TurnOK
  <2>5. heard' \in [Ids -> Seq(Calls)] /\ heard'[c] = new
        /\ \A d \in Ids : d # c => heard'[d] = heard[d]
    BY <2>1, <1>1, <1>9 DEF TypesOK
  <2> DEFINE to == IF failed = 0 THEN at + n ELSE at
  <2>6. /\ to \in Nat /\ to <= len /\ (failed = 0 => to = at + n) /\ (failed # 0 => to < len)
        /\ (failed = 0 => (left > 0 <=> to < len)) /\ left <= len - to
        /\ (failed = 0 => len - to = left)
    <3> HIDE DEF len, at
    <3> QED BY <1>2, <1>n
  <2> HIDE DEF to
  <2>7. /\ peer' \in [Ids -> Sending] /\ \A d \in Ids : d # c => peer'[d] = peer[d]
        /\ peer'[c].at = to /\ peer'[c].odd = odd /\ peer'[c].len = len /\ peer'[c].sid = sid
    <3>1. peer' = [peer EXCEPT ![c] = [peer[c] EXCEPT !.at = to]]
      <4>1. CASE failed = 0
        <5>1. peer' = [peer EXCEPT ![c].at = at + n]
          BY <4>1, <1>9
        <5>2. to = at + n
          BY <4>1, <2>6
        <5> QED BY <5>1, <5>2
      <4>2. CASE failed # 0
        <5>1. peer' = peer /\ to = at
          BY <4>2, <1>9 DEF to
        <5>2. [peer[c] EXCEPT !.at = at] = peer[c]
          BY <1>2 DEF Sending
        <5> QED BY <5>1, <5>2, <1>2
      <4> QED BY <4>1, <4>2
    <3> DEFINE m == [peer[c] EXCEPT !.at = to]
    <3>2. m \in Sending /\ m.at = to /\ m.odd = odd /\ m.len = len /\ m.sid = sid
      BY <1>2, <2>6 DEF Sending
    <3> HIDE DEF m
    <3>3. peer' = [peer EXCEPT ![c] = m]
      BY <3>1 DEF m
    <3>4. peer'[c] = m
      BY <3>3, <1>2
    <3> QED BY <3>2, <3>3, <3>4, <1>2
  <2>8. TypesOK'
    <3>1. \A d \in Ids : peer'[d].at <= peer'[d].len
      BY <2>6, <2>7, <1>1 DEF TypesOK
    <3>2. Partial(partial)'
      <4>1. ASSUME rest # NoChunk PROVE rest.left <= len - to
        <5>1. rest.left \in Nat /\ rest.left <= left
          BY <4>1, <1>r, Sizes
        <5> HIDE DEF len
        <5> QED BY <5>1, <1>n, <1>2, <2>6
      <4>2. rest # NoChunk => peer'[rest.id].len = len /\ peer'[rest.id].at = to
        BY <1>r, <2>7
      <4> QED BY <4>1, <4>2, <1>r, <1>6 DEF Partial
    <3>3. Assembly(buffers')
      BY <2>2, <1>9
    <3> QED BY <3>1, <3>2, <3>3, <2>5, <2>7, <1>3, <1>6 DEF TypesOK
  <2> DEFINE v == Upto(new, len, Len(new))
  <2>v. Heard(c)' = v
    BY <2>5, <2>7 DEF Heard
  <2>9. HeardOf(c)'
    <3>1. to = len => v = len
      <4> HIDE DEF v, len, at
      <4> QED BY <2>3, <2>6, <1>2, <1>n DEF v
    <3>2. len <= BufferSize => Len(new) <= 1 /\ (to < len => new = <<>>)
      <4> HIDE DEF len, at
      <4> QED BY <2>1, <2>6
    <3> HIDE DEF v
    <3> QED BY <2>1, <2>5, <2>7, <2>v, <3>1, <3>2 DEF HeardOf, Underway
  <2>10. ASSUME failed = 0 PROVE CacheOf(c)' /\ BufferOf(c)'
    <3>1. (c \in InProgress)' <=> left > 0
      <4>1. to > 0 \/ rest.id = c
        <5>1. n > 0 => to > 0
          <6> HIDE DEF at, len
          <6> QED BY <2>6, <2>10, <1>2, <1>n
        <5> QED BY <5>1, <1>n, <1>r
      <4> QED BY <4>1, <2>6, <2>7, <2>10, <1>6 DEF InProgress, Underway
    <3>2. CacheOf(c)'
      <4>1. left > 0 =>
              e = [id |-> c, len |-> peer'[c].len, sid |-> peer'[c].sid,
                   processed |-> peer'[c].len - peer'[c].at]
        <5>1. len - to = left
          BY <2>6, <2>10
        <5> HIDE DEF len, sid
        <5> QED BY <5>1, <2>7 DEF len, sid
      <4>2. ~(left > 0) => e.processed = 0
        BY <1>n
      <4> QED BY <3>1, <4>1, <4>2, <1>4 DEF CacheOf
    <3>3. BufferOf(c)'
      <4>1. CASE left > 0
        <5>1. PICK i \in DOMAIN all :
                  /\ Alone(all, c, i) /\ all[i].msg = sid
                  /\ v <= at + n /\ all[i].held = Piece(c, odd, v, (at + n) - v)
          BY <2>4, <2>10, <4>1
        <5>2. to = at + n
          BY <2>6, <2>10
        <5> HIDE DEF v, at, len
        <5>3. v <= to /\ all[i].held = Piece(c, odd, v, to - v)
          BY <5>1, <5>2
        <5> QED BY <3>1, <4>1, <5>1, <5>3, <2>7, <2>v, <1>9 DEF BufferOf
      <4>2. CASE ~(left > 0)
        <5>1. Holding(all, c) = {} /\ v = to
          BY <2>3, <2>6, <2>10, <4>2, <1>n
        <5> HIDE DEF v
        <5> QED BY <3>1, <4>2, <5>1, <2>7, <2>v, <1>9 DEF BufferOf
      <4> QED BY <4>1, <4>2
    <3> QED BY <3>2, <3>3
  <2>11. ASSUME NEW d \in Ids, d # c PROVE HeardOf(d)' /\ CacheOf(d)' /\ BufferOf(d)'
    <3>1. HeardOf(d) /\ CacheOf(d) /\ BufferOf(d)
      BY <1>1 DEF HeardOK, CacheOK, BufferOK
    <3>2. peer'[d] = peer[d] /\ heard'[d] = heard[d] /\ (partial'.id = d <=> partial.id = d)
      BY <2>5, <2>7, <2>11, <1>7
    <3>3. Kept(buffers, buffers', d)
      BY <2>2, <2>11, <1>9
    <3> QED BY <3>1, <3>2, <3>3, <1>5, <2>11, OthersOK
  <2>12. HeardOK'
    BY <2>9, <2>11 DEF HeardOK
  <2>13. open' => failed = 0
    BY <1>9
  <2>14. open' => CacheOK' /\ BufferOK'
    BY <2>10, <2>11, <2>13 DEF CacheOK, BufferOK
  <2> QED
    BY <2>8, <2>12, <2>14, <1>6 DEF IndInv
<1> QED BY <1>8, <1>9, <1>6 DEF Issued
\* Issue keeps the invariant, given the entry of a message it knows the rest of.
LEMMA IssueOK ==
  ASSUME OneDynamic, NeverFails, IndInv, open, NEW c \in Ids, Underway(c),
         NEW place, Place(place, c), NEW n, NEW left, NEW rest, ToCome(c, n, left, rest),
         partial = NoChunk \/ partial.id = c,
         NEW e, e = [id |-> c, len |-> peer[c].len, sid |-> peer[c].sid,
                     processed |-> peer[c].len - peer[c].at],
         NEW m, m.sid = peer[c].sid, NEW again, Issue(c, m, place, e, n, rest, again),
         begun' = begun
  PROVE  IndInv'
<1> DEFINE f == [e EXCEPT !.processed = left]
<1>1. TypesOK /\ aligned
  BY DEF IndInv
<1>2. /\ n \in Nat /\ left \in Nat /\ (n > 0 \/ left > 0)
      /\ n + left = peer[c].len - peer[c].at
  BY DEF ToCome
<1>3. Issued(c, n, left, rest) /\ Stored(place, c, f)
  BY <1>1, <1>2, IssueCases
<1>4. f \in Entries /\ f = [id |-> c, len |-> peer[c].len, sid |-> peer[c].sid,
                            processed |-> left]
  BY <1>1, <1>2, RestOK
<1> HIDE DEF f
<1> QED BY <1>3, <1>4, IssuedOK

\* A chunk that has not all arrived belongs to a message in progress.
LEMMA PartialOK ==
  ASSUME TypesOK
  PROVE  /\ partial.left \in Nat /\ (partial.left = 0 <=> partial = NoChunk)
         /\ partial # NoChunk => /\ partial.id \in InProgress /\ Underway(partial.id)
                                 /\ partial.id \in Ids /\ partial.left \in 1..ChunkSize
                                 /\ partial.left <= peer[partial.id].len - peer[partial.id].at
         /\ partial = NoChunk => partial.id \notin Ids /\ partial.id = 0
<1>1. CASE partial = NoChunk
  BY <1>1, Sizes DEF NoChunk
<1>2. CASE partial # NoChunk
  <2> DEFINE c == partial.id
  <2>1. partial \in [id : Ids, left : 1..ChunkSize] /\ partial.left <= peer[c].len - peer[c].at
    BY <1>2 DEF TypesOK, Partial
  <2>2. c \in Ids /\ partial.left \in 1..ChunkSize
    BY <2>1
  <2>3. peer[c].at < peer[c].len
    <3> DEFINE l == peer[c].len
               t == peer[c].at
               p == partial.left
    <3>1. l \in Nat /\ t \in Nat
      BY <2>2, PeerOK
    <3>3. p <= l - t /\ p \in Nat /\ p >= 1
      BY <2>1, <2>2, Sizes
    <3> HIDE DEF l, t, p
    <3>2. t < l
      BY <3>1, <3>3
    <3> QED BY <3>2 DEF t, l
  <2>4. partial.left \in Nat /\ partial.left # 0
    BY <2>2, Sizes
  <2> QED BY <1>2, <2>1, <2>2, <2>3, <2>4 DEF InProgress, Underway
<1> QED BY <1>1, <1>2

\* What the cache has of a message, before and after room is made for its entry.
LEMMA EntryOK ==
  ASSUME OneDynamic, TypesOK, CacheOK, NEW c \in Ids, NEW g \in Get(dynamic, c)
  PROVE  /\ Found(g, c) \in Entries /\ Found(g, c).id = c
         /\ c \in InProgress =>
              Found(g, c) = [id |-> c, len |-> peer[c].len, sid |-> peer[c].sid,
                             processed |-> peer[c].len - peer[c].at]
         /\ c \notin InProgress => Found(g, c).processed = 0
<1>1. /\ static \in [0..(StaticSize - 1) -> Entries]
      /\ \A i \in 0..(StaticSize - 1) : static[i].id = i
      /\ Dynamic(dynamic) /\ c \in Nat /\ StaticSize \in Nat
  BY Sizes DEF TypesOK
<1>2. /\ Place(g, c)
      /\ c < StaticSize => g.entries = dynamic
      /\ ~(c < StaticSize) => \/ g.entries = dynamic
                              \/ dynamic = <<>> /\ g.entries = <<Entry(c)>>
  <2>1. Place(g, c) /\ (c < StaticSize => g.entries = dynamic)
    BY <1>1, GetOK
  <2>2. c >= StaticSize => \/ g.entries = dynamic
                           \/ dynamic = <<>> /\ g.entries = <<Entry(c)>>
    BY <1>1, GetOK
  <2>3. ~(c < StaticSize) => c >= StaticSize
    BY <1>1
  <2> QED BY <2>1, <2>2, <2>3, Zenon
<1>3. /\ Found(g, c) \in Entries /\ Found(g, c).id = c
      /\ Found(g, c) = IF c < StaticSize THEN static[c] ELSE g.entries[1]
  BY <1>1, <1>2, FoundOK
<1>4. CacheOf(c)
  BY DEF CacheOK
<1>5. CASE Cached(c)
  <2>1. g.entries = dynamic
    BY <1>2, <1>5 DEF Cached
  <2>2. Found(g, c) = Known(c)
    BY <2>1, <1>3 DEF Known
  <2> QED BY <2>2, <1>3, <1>4, <1>5 DEF CacheOf
<1>6. CASE ~Cached(c)
  <2>1. ~(c < StaticSize) /\ dynamic = <<>>
    BY <1>6 DEF Cached
  <2>2. g.entries = <<Entry(c)>>
    <3>1. Len(g.entries) = 1
      BY <2>1, <1>2 DEF Place
    <3>2. g.entries # dynamic
      BY <3>1, <2>1
    <3> QED BY <3>2, <2>1, <1>2, Zenon
  <2>3. Found(g, c).processed = 0
    BY <2>1, <2>2, <1>3 DEF Entry
  <2> QED BY <2>3, <1>3, <1>4, <1>6 DEF CacheOf
<1> QED BY <1>5, <1>6
\* The peer begins a message.
LEMMA BeginOK ==
  ASSUME IndInv, NEW c \in Ids, Begin(c)
  PROVE  IndInv'
<1>1. TypesOK /\ aligned /\ open /\ HeardOK /\ CacheOK /\ BufferOK
  BY DEF IndInv, Begin
<1>2. PICK s \in Sids, n \in Lengths :
        peer' = [peer EXCEPT ![c] = [odd |-> ~@.odd, sid |-> s, len |-> n, at |-> 0]]
  BY DEF Begin
<1>3. /\ ~Underway(c) /\ begun < MaxMessages /\ begun' = begun + 1
      /\ heard' = [heard EXCEPT ![c] = <<>>]
      /\ UNCHANGED <<static, dynamic, partial, buffers, aligned, open>>
  BY DEF Begin
<1> DEFINE m == [odd |-> ~peer[c].odd, sid |-> s, len |-> n, at |-> 0]
<1>4. /\ m \in Sending /\ m.at = 0 /\ m.len = n /\ n \in Nat /\ n # 0
      /\ peer \in [Ids -> Sending]
  BY <1>1, Sizes, PeerOK DEF Sending, TypesOK
<1> HIDE DEF m
<1>5. /\ peer' \in [Ids -> Sending] /\ peer'[c] = m
      /\ \A d \in Ids : d # c => peer'[d] = peer[d]
  <2>1. peer' = [peer EXCEPT ![c] = m]
    BY <1>2 DEF m
  <2> QED BY <2>1, <1>4
<1>6. partial.id # c /\ c \notin InProgress
  BY <1>1, <1>3, PartialOK DEF InProgress
<1>7. /\ heard' \in [Ids -> Seq(Calls)] /\ heard'[c] = <<>>
      /\ \A d \in Ids : d # c => heard'[d] = heard[d]
  BY <1>1, <1>3 DEF TypesOK
<1>8. TypesOK'
  <2>1. \A d \in Ids : peer'[d].at <= peer'[d].len
    <3> SUFFICES ASSUME NEW d \in Ids PROVE peer'[d].at <= peer'[d].len
      OBVIOUS
    <3>1. CASE d = c
      BY <3>1, <1>4, <1>5
    <3>2. CASE d # c
      BY <3>2, <1>5, <1>1 DEF TypesOK
    <3> QED BY <3>1, <3>2
  <2>2. Partial(partial)'
    <3>1. partial # NoChunk => peer'[partial.id] = peer[partial.id]
      BY <1>1, <1>5, <1>6, PartialOK
    <3> QED BY <3>1, <1>1, <1>3 DEF Partial, TypesOK
  <2>3. begun' \in 0..MaxMessages
    BY <1>1, <1>3, Sizes DEF TypesOK
  <2> QED BY <2>1, <2>2, <2>3, <1>1, <1>3, <1>5, <1>7 DEF TypesOK
<1>9. Heard(c)' = 0
  <2>1. Len(<<>>) = 0
    OBVIOUS
  <2> QED BY <2>1, <1>7 DEF Heard, Upto
<1>10. HeardOf(c)'
  <2>1. DOMAIN heard'[c] = {} /\ Len(heard'[c]) = 0
    BY <1>7
  <2>2. InSequence(heard'[c], c, peer'[c].odd, peer'[c].len)
    BY <2>1 DEF InSequence
  <2> QED BY <2>1, <2>2, <1>4, <1>5, <1>7 DEF HeardOf
<1>11. (c \notin InProgress)'
  BY <1>3, <1>4, <1>5, <1>6 DEF InProgress
<1>12. CacheOf(c)'
  <2>1. CacheOf(c)
    BY <1>1 DEF CacheOK
  <2> QED BY <2>1, <1>3, <1>6, <1>11 DEF CacheOf, Cached, Known
<1>13. BufferOf(c)'
  <2>1. BufferOf(c)
    BY <1>1 DEF BufferOK
  <2> QED BY <2>1, <1>3, <1>4, <1>5, <1>6, <1>9, <1>11 DEF BufferOf
<1>14. ASSUME NEW d \in Ids, d # c PROVE HeardOf(d)' /\ CacheOf(d)' /\ BufferOf(d)'
  <2>1. HeardOf(d) /\ CacheOf(d) /\ BufferOf(d)
    BY <1>1 DEF HeardOK, CacheOK, BufferOK
  <2>2. /\ Cached(d)' <=> Cached(d)
        /\ Cached(d) => Known(d)' = Known(d)
    BY <1>3 DEF Cached, Known
  <2>3. Kept(buffers, buffers', d)
    BY <1>3, SamePlace
  <2>4. peer'[d] = peer[d] /\ heard'[d] = heard[d] /\ partial' = partial
    BY <1>3, <1>5, <1>7, <1>14
  <2> QED BY <2>1, <2>2, <2>3, <2>4, OthersOK
<1> QED BY <1>1, <1>3, <1>8, <1>10, <1>12, <1>13, <1>14 DEF IndInv, HeardOK, CacheOK, BufferOK
\* The peer aborts a message, and the assembler drops it.
LEMMA AbortOK ==
  ASSUME OneDynamic, IndInv, NEW c \in Ids, Abort(c)
  PROVE  IndInv'
<1>1. TypesOK /\ aligned /\ open /\ HeardOK /\ CacheOK /\ BufferOK
  BY DEF IndInv, Abort
<1>2. PICK place \in Get(dynamic, c) :
        LET e == Found(place, c)
            g == GetBuffer(c, e.sid)
        IN  /\ Stored(place, c, [e EXCEPT !.processed = 0])
            /\ buffers' = IF g.at = 0 THEN g.all ELSE RmBuffer(g.all, g.at)
  BY DEF Abort
<1>3. /\ partial.left = 0 /\ Underway(c) /\ peer[c].at > 0
      /\ peer' = [peer EXCEPT ![c].len = 0, ![c].at = 0]
      /\ heard' = [heard EXCEPT ![c] = <<>>]
      /\ UNCHANGED <<begun, partial, aligned, open>>
  BY DEF Abort
<1> DEFINE e == Found(place, c)
           f == [e EXCEPT !.processed = 0]
           g == GetBuffer(c, peer[c].sid)
           m == [peer[c] EXCEPT !.len = 0, !.at = 0]
<1>4. c \in InProgress /\ partial = NoChunk
  BY <1>1, <1>3, PartialOK DEF InProgress
<1>5. e \in Entries /\ e.id = c /\ e.sid = peer[c].sid
  BY <1>1, <1>4, EntryOK
<1>p. Place(place, c)
  BY <1>1, GetOK DEF TypesOK
<1>6. Stored(place, c, f) /\ buffers' = IF g.at = 0 THEN g.all ELSE RmBuffer(g.all, g.at)
  BY <1>2, <1>5
<1> HIDE DEF e
<1>7. f \in Entries /\ f.id = c /\ f.processed = 0
  BY <1>5 DEF Entries
<1> HIDE DEF f
<1>8. /\ static' \in [0..(StaticSize - 1) -> Entries]
      /\ \A i \in 0..(StaticSize - 1) : static'[i].id = i
      /\ Dynamic(dynamic')
  BY <1>1, <1>p, <1>6, <1>7, StoredOK
<1>9. Cached(c)' /\ Known(c)' = f
  BY <1>1, <1>p, <1>6, <1>7, StoredOK
<1>10. ASSUME NEW d \in Ids, d # c
       PROVE  /\ Cached(d)' <=> Cached(d)
              /\ Cached(d) => Known(d)' = Known(d)
  BY <1>1, <1>p, <1>6, <1>7, <1>10, StoredOK
<1>11. /\ Assembly(buffers') /\ Holding(buffers', c) = {}
       /\ \A d \in Ids : d # c => Kept(buffers, buffers', d)
  <2>1. g.at # 0
    <3>1. PICK i \in DOMAIN buffers : Alone(buffers, c, i) /\ buffers[i].msg = peer[c].sid
      BY <1>1, <1>4 DEF BufferOK, BufferOf
    <3>2. Assembly(buffers) /\ peer[c].sid \in Nat
      BY <1>1, PeerOK DEF TypesOK
    <3>3. g = [all |-> buffers, at |-> i]
      BY <3>1, <3>2, GetBufferOK
    <3>4. i # 0
      BY <3>2 DEF Assembly
    <3> QED BY <3>3, <3>4
  <2>2. /\ Assembly(g.all) /\ g.at \in DOMAIN g.all /\ Alone(g.all, c, g.at)
        /\ g.all[g.at].chunk = c
    BY <1>1, <1>3, <2>1, TakesOK
  <2>3. \A d \in Ids : d # c => Kept(buffers, g.all, d)
    BY <1>1, <1>3, <2>1, TakesOK
  <2>4. buffers' = RmBuffer(g.all, g.at)
    BY <2>1, <1>6
  <2> HIDE DEF g
  <2>5. /\ Assembly(buffers') /\ Holding(buffers', c) = {}
        /\ \A d \in Ids : d # c => Kept(g.all, buffers', d)
    BY <2>2, <2>4, RmBufferOK
  <2>6. ASSUME NEW d \in Ids, d # c PROVE Kept(buffers, buffers', d)
    BY <2>3, <2>5, <2>6, KeptTwice
  <2> QED BY <2>5, <2>6
<1>12. m \in Sending /\ m.at = 0 /\ m.len = 0 /\ peer \in [Ids -> Sending]
  BY <1>1, PeerOK DEF Sending, TypesOK
<1>13. peer' = [peer EXCEPT ![c] = m]
  BY <1>3
<1> HIDE DEF m
<1>14. /\ peer' \in [Ids -> Sending] /\ peer'[c] = m
       /\ \A d \in Ids : d # c => peer'[d] = peer[d]
  BY <1>12, <1>13
<1>15. /\ heard' \in [Ids -> Seq(Calls)] /\ heard'[c] = <<>>
       /\ \A d \in Ids : d # c => heard'[d] = heard[d]
  BY <1>1, <1>3 DEF TypesOK
<1>16. TypesOK'
  <2>1. \A d \in Ids : peer'[d].at <= peer'[d].len
    <3> SUFFICES ASSUME NEW d \in Ids PROVE peer'[d].at <= peer'[d].len
      OBVIOUS
    <3>1. CASE d = c
      BY <3>1, <1>12, <1>14
    <3>2. CASE d # c
      BY <3>2, <1>14, <1>1 DEF TypesOK
    <3> QED BY <3>1, <3>2
  <2>2. Partial(partial)'
    BY <1>3, <1>4 DEF Partial
  <2> QED BY <2>1, <2>2, <1>1, <1>3, <1>8, <1>11, <1>14, <1>15 DEF TypesOK
<1>17. Heard(c)' = 0
  <2>1. Len(<<>>) = 0
    OBVIOUS
  <2> QED BY <2>1, <1>15 DEF Heard, Upto
<1>18. HeardOf(c)'
  <2>1. DOMAIN heard'[c] = {} /\ Len(heard'[c]) = 0
    BY <1>15
  <2>2. InSequence(heard'[c], c, peer'[c].odd, peer'[c].len)
    BY <2>1 DEF InSequence
  <2> QED BY <2>1, <2>2, <1>12, <1>14, <1>15, <1>17 DEF HeardOf
<1>19. (c \notin InProgress)'
  BY <1>12, <1>14 DEF InProgress, Underway
<1>20. CacheOf(c)'
  BY <1>7, <1>9, <1>19 DEF CacheOf
<1>21. BufferOf(c)'
  BY <1>11, <1>12, <1>14, <1>17, <1>19 DEF BufferOf
<1>22. ASSUME NEW d \in Ids, d # c PROVE HeardOf(d)' /\ CacheOf(d)' /\ BufferOf(d)'
  <2>1. HeardOf(d) /\ CacheOf(d) /\ BufferOf(d)
    BY <1>1 DEF HeardOK, CacheOK, BufferOK
  <2>2. /\ peer'[d] = peer[d] /\ heard'[d] = heard[d] /\ partial' = partial
        /\ Kept(buffers, buffers', d)
    BY <1>3, <1>11, <1>14, <1>15, <1>22
  <2> QED BY <2>1, <2>2, <1>10, <1>22, OthersOK
<1> QED BY <1>1, <1>3, <1>16, <1>18, <1>20, <1>21, <1>22
        DEF IndInv, HeardOK, CacheOK, BufferOK

\* An entry that takes length and stream from a header.
Telling(old, x, y) == [old EXCEPT !.len = x, !.sid = y]

\* It has these and is otherwise what it was.
LEMMA ToldOK ==
  ASSUME NEW old \in Entries, NEW x \in Nat, NEW y \in Nat
  PROVE  Telling(old, x, y)
           = [id |-> old.id, len |-> x, sid |-> y, processed |-> old.processed]
<1> DEFINE f == [old EXCEPT !.len = x, !.sid = y]
<1>1. /\ f \in Entries /\ f.id = old.id /\ f.len = x /\ f.sid = y
      /\ f.processed = old.processed
  BY DEF Entries
<1> HIDE DEF f
<1>2. f = [id |-> f.id, len |-> f.len, sid |-> f.sid, processed |-> f.processed]
  BY <1>1 DEF Entries
<1>3. f = [id |-> old.id, len |-> x, sid |-> y, processed |-> old.processed]
  BY <1>1, <1>2, Zenon
<1> QED BY <1>3 DEF f, Telling

\* A chunk begins to arrive.
LEMMA ChunkOK ==
  ASSUME OneDynamic, NeverFails, IndInv, NEW c \in Ids, Chunk(c)
  PROVE  IndInv'
<1>1. TypesOK /\ aligned /\ open /\ HeardOK /\ CacheOK /\ BufferOK
  BY DEF IndInv, Chunk
<1>2. Underway(c) /\ partial.left = 0 /\ begun' = begun
  BY DEF Chunk
<1>3. partial = NoChunk /\ partial.id # c
  BY <1>1, <1>2, PartialOK
<1>4. CASE Get(dynamic, c) = {}
  <2>1. open' = FALSE /\ UNCHANGED <<peer, static, dynamic, partial, buffers, aligned, heard>>
    BY <1>4 DEF Chunk, Refuse
  <2>2. TypesOK'
    BY <2>1, <1>1, <1>2 DEF TypesOK, Partial
  <2>3. HeardOK'
    BY <2>1, <1>1 DEF HeardOK, HeardOf, Heard, Underway
  <2> QED BY <2>1, <2>2, <2>3, <1>1 DEF IndInv
<1>5. CASE Get(dynamic, c) # {}
  <2> DEFINE M(g) ==
                IF peer[c].at = 0
                THEN [Found(g, c) EXCEPT !.len = peer[c].len, !.sid = peer[c].sid]
                ELSE Found(g, c)
             Told(g) == IF c < StaticSize THEN g.entries ELSE [g.entries EXCEPT ![g.at] = M(g)]
  <2>1. PICK g \in Get(dynamic, c) :
          IF Get(Told(g), c) = {} THEN Refuse(Told(g))
          ELSE \E h \in Get(Told(g), c) : Payload(c, M(g), h, h.entries # Told(g))
    BY <1>5 DEF Chunk
  <2> DEFINE m == M(g)
             told == Told(g)
             e == [id |-> c, len |-> peer[c].len, sid |-> peer[c].sid,
                   processed |-> peer[c].len - peer[c].at]
             toCome == peer[c].len - peer[c].at
  <2>t. toCome \in Nat /\ toCome > 0 /\ (peer[c].at = 0 => toCome = peer[c].len)
    <3> DEFINE l == peer[c].len
               a == peer[c].at
    <3>1. l \in Nat /\ a \in Nat /\ a < l
      BY <1>1, <1>2, PeerOK DEF Underway
    <3> HIDE DEF l, a
    <3>2. l - a \in Nat /\ l - a > 0 /\ (a = 0 => l - a = l)
      BY <3>1
    <3> QED BY <3>2 DEF l, a
  <2>m. /\ m \in Entries /\ m.id = c /\ m.sid = peer[c].sid
        /\ (IF m.processed = 0 THEN [m EXCEPT !.processed = m.len] ELSE m) = e
    <3>1. CASE peer[c].at = 0
      <4> DEFINE old == Found(g, c)
                 l == peer[c].len
                 s == peer[c].sid
      <4>1. c \notin InProgress
        BY <3>1, <1>3 DEF InProgress
      <4>2. old \in Entries /\ old.id = c /\ old.processed = 0
        BY <4>1, <1>1, EntryOK
      <4>3. l \in Nat /\ s \in Nat /\ c \in Nat
        BY <1>1, PeerOK, Sizes
      <4>4. m = Telling(old, l, s)
        BY <3>1 DEF Telling
      <4> HIDE DEF old, m, l, s
      <4>5. m = [id |-> c, len |-> l, sid |-> s, processed |-> 0]
        BY <4>2, <4>3, <4>4, ToldOK
      <4>6. e = [id |-> c, len |-> l, sid |-> s, processed |-> l]
        BY <2>t, <3>1 DEF l, s
      <4> HIDE DEF e
      <4> QED BY <4>3, <4>5, <4>6 DEF Entries, s
    <3>2. CASE peer[c].at # 0
      <4>1. c \in InProgress
        <5>1. peer[c].at \in Nat
          BY <1>1, PeerOK
        <5> QED BY <5>1, <3>2, <1>2 DEF InProgress
      <4>2. Found(g, c) = e /\ Found(g, c) \in Entries /\ Found(g, c).id = c
        BY <4>1, <1>1, EntryOK
      <4>3. e.processed # 0 /\ e.sid = peer[c].sid
        <5> HIDE DEF toCome
        <5>1. e.processed = toCome
          BY DEF toCome
        <5> QED BY <5>1, <2>t
      <4>4. m = Found(g, c)
        BY <3>2
      <4> HIDE DEF e, m
      <4> QED BY <4>2, <4>3, <4>4
    <3> QED BY <3>1, <3>2
  <2> HIDE DEF m
  <2>p. Place(g, c) /\ Dynamic(g.entries) /\ c \in Nat /\ StaticSize \in Nat
    BY <1>1, GetOK, Sizes DEF TypesOK
  <2>w. /\ told = IF c < StaticSize THEN g.entries ELSE [g.entries EXCEPT ![g.at] = m]
        /\ Dynamic(told)
        /\ ~(c < StaticSize) => Len(told) = 1 /\ told[1] = m /\ told # <<>>
        /\ c < StaticSize => told = dynamic
    <3>1. told = IF c < StaticSize THEN g.entries ELSE [g.entries EXCEPT ![g.at] = m]
      BY DEF m
    <3> HIDE DEF told
    <3>2. CASE c < StaticSize
      BY <3>1, <3>2, <2>p DEF Place
    <3>3. CASE ~(c < StaticSize)
      <4>1. Len(g.entries) = 1 /\ g.at = 1 /\ g.entries \in Seq(Entries) /\ 1 <= DynamicMax
        BY <3>3, <2>p DEF Place, Dynamic
      <4>2. told = [g.entries EXCEPT ![1] = m]
        BY <3>1, <3>3, <4>1
      <4>3. told \in Seq(Entries) /\ Len(told) = 1 /\ told[1] = m
        BY <4>1, <4>2, <2>m
      <4>4. c >= StaticSize /\ m.id = c
        BY <3>3, <2>p, <2>m
      <4>5. Dynamic(told)
        BY <4>1, <4>3, <4>4 DEF Dynamic
      <4> QED BY <3>1, <3>3, <4>3, <4>5
    <3> QED BY <3>2, <3>3
  <2> HIDE DEF told
  <2> DEFINE h == [entries |-> told, at |-> IF c < StaticSize THEN 0 ELSE 1]
  <2>2. Get(told, c) = {h}
    BY <2>w, GetThere
  <2>h. /\ Place(h, c) /\ h.entries = told
        /\ (IF c < StaticSize THEN m ELSE h.entries[h.at]) = m
    <3>1. h.entries = told /\ (~(c < StaticSize) => h.at = 1)
      OBVIOUS
    <3> HIDE DEF h
    <3> QED BY <3>1, <2>w DEF Place
  <2>3. Payload(c, m, h, FALSE)
    <3>1. Get(told, c) # {} => \E x \in Get(told, c) : Payload(c, m, x, x.entries # told)
      BY <2>1 DEF m, told
    <3> HIDE DEF h
    <3>2. Payload(c, m, h, h.entries # told)
      BY <3>1, <2>2
    <3>3. (h.entries # told) = FALSE
      BY <2>h
    <3> QED BY <3>2, <3>3
  <2> HIDE DEF h
  <2> DEFINE there == Min({toCome, ChunkSize})
  <2>4. PICK n \in 0..there :
           Issue(c, m, h, e, n,
                 IF n < there THEN [id |-> c, left |-> there - n] ELSE NoChunk, TRUE)
    <3> DEFINE known == IF c < StaticSize THEN m ELSE h.entries[h.at]
               f == IF known.processed = 0 THEN [known EXCEPT !.processed = m.len] ELSE known
               size == Min({f.processed, ChunkSize})
    <3>1. IF FALSE \/ size # there
          THEN /\ aligned' = FALSE /\ dynamic' = h.entries
               /\ UNCHANGED <<peer, static, partial, buffers, open, heard>>
          ELSE \E n \in 0..size :
               Issue(c, m, h, f, n,
                     IF n < size THEN [id |-> c, left |-> size - n] ELSE NoChunk, TRUE)
      BY <2>3 DEF Payload
    <3>2. known = m
      BY <2>h
    <3>3. f = e
      <4> HIDE DEF known, e
      <4> QED BY <3>2, <2>m
    <3>4. e.processed = toCome
      OBVIOUS
    <3>5. size = there
      <4> HIDE DEF f, e, toCome
      <4> QED BY <3>3, <3>4
    <3> HIDE DEF f, e, size, there
    <3> QED BY <3>1, <3>3, <3>5
  <2> DEFINE left == toCome - n
             rest == IF n < there THEN [id |-> c, left |-> there - n] ELSE NoChunk
  <2>5. ToCome(c, n, left, rest)
    <3> HIDE DEF e, toCome
    <3>1. there \in Nat /\ there > 0 /\ there <= toCome /\ there <= ChunkSize
      <4>1. there = Min({toCome, ChunkSize})
        OBVIOUS
      <4> HIDE DEF there
      <4>2. there = IF toCome <= ChunkSize THEN toCome ELSE ChunkSize
        BY <4>1, <2>t, Sizes, MinOfTwo
      <4> QED BY <4>2, <2>t, Sizes
    <3> HIDE DEF there
    <3>2. n \in Nat /\ n <= there
      BY <3>1
    <3>3. left \in Nat /\ n + left = toCome /\ (n > 0 \/ left > 0) /\ there - n <= left
      BY <3>1, <3>2, <2>t
    <3> HIDE DEF left
    <3>4. rest # NoChunk => /\ rest \in [id : Ids, left : 1..ChunkSize]
                            /\ rest.id = c /\ rest.left <= left
      <4>1. n < there => there - n \in 1..ChunkSize
        BY <3>1, <3>2, Sizes
      <4> QED BY <4>1, <3>3
    <3>5. n > 0 \/ rest # NoChunk
      <4>1. c # 0
        BY Sizes
      <4>2. n = 0 => n < there
        BY <3>1
      <4> QED BY <4>1, <4>2, <3>2 DEF NoChunk
    <3> HIDE DEF rest
    <3> QED BY <3>2, <3>3, <3>4, <3>5 DEF ToCome, toCome
  <2>6. Issue(c, m, h, e, n, rest, TRUE)
    BY <2>4
  <2> HIDE DEF e, there, left, rest
  <2> QED BY <2>5, <2>6, <2>h, <2>m, <1>1, <1>2, <1>3, IssueOK DEF e
<1> QED BY <1>4, <1>5
\* More of a chunk arrives.
LEMMA RestOfChunkOK ==
  ASSUME OneDynamic, NeverFails, IndInv, RestOfChunk
  PROVE  IndInv'
<1> DEFINE c == partial.id
           e == [id |-> c, len |-> peer[c].len, sid |-> peer[c].sid,
                 processed |-> peer[c].len - peer[c].at]
           Rst(n) == IF n < partial.left THEN [partial EXCEPT !.left = @ - n] ELSE NoChunk
<1>1. TypesOK /\ aligned /\ open /\ HeardOK /\ CacheOK /\ BufferOK
  BY DEF IndInv, RestOfChunk
<1>2. partial.left > 0 /\ begun' = begun
  BY DEF RestOfChunk
<1>3. /\ c \in InProgress /\ Underway(c) /\ c \in Ids
      /\ partial.left \in 1..ChunkSize /\ partial.left <= peer[c].len - peer[c].at
      /\ partial # NoChunk /\ partial \in [id : Ids, left : 1..ChunkSize]
  <2>1. partial # NoChunk
    BY <1>1, <1>2, PartialOK
  <2> QED BY <2>1, <1>1, PartialOK DEF TypesOK, Partial
<1>4. PICK g \in Get(dynamic, c), n \in 1..partial.left :
        Issue(c, Found(g, c), g, Found(g, c), n, Rst(n), FALSE)
  BY DEF RestOfChunk
<1>5. Found(g, c) = e /\ e.sid = peer[c].sid
  BY <1>1, <1>3, EntryOK
<1>p. Place(g, c)
  BY <1>1, <1>3, GetOK DEF TypesOK
<1> DEFINE left == (peer[c].len - peer[c].at) - n
           rest == Rst(n)
<1>6. Issue(c, e, g, e, n, rest, FALSE)
  <2> HIDE DEF e, Rst
  <2> QED BY <1>4, <1>5
<1>7. ToCome(c, n, left, rest)
  <2> DEFINE toCome == peer[c].len - peer[c].at
             p == partial.left
  <2>1. p \in Nat /\ p <= ChunkSize /\ n \in Nat /\ n >= 1 /\ n <= p /\ ChunkSize \in Nat
    BY <1>3, Sizes
  <2>2. toCome \in Nat /\ p <= toCome
    <3> DEFINE l == peer[c].len
               a == peer[c].at
    <3>1. l \in Nat /\ a \in Nat /\ a < l
      BY <1>1, <1>3, PeerOK DEF Underway
    <3> HIDE DEF l, a
    <3>2. l - a \in Nat
      BY <3>1
    <3> QED BY <3>2, <1>3 DEF l, a
  <2>3. rest = IF n < p THEN [partial EXCEPT !.left = p - n] ELSE NoChunk
    OBVIOUS
  <2> HIDE DEF toCome, p, rest, Rst
  <2>4. toCome - n \in Nat /\ n + (toCome - n) = toCome /\ p - n <= toCome - n
        /\ (n < p => p - n \in 1..ChunkSize)
    BY <2>1, <2>2
  <2>5. ASSUME NEW x \in 1..ChunkSize
        PROVE  /\ [partial EXCEPT !.left = x] \in [id : Ids, left : 1..ChunkSize]
               /\ [partial EXCEPT !.left = x].id = c /\ [partial EXCEPT !.left = x].left = x
    BY <1>3
  <2>6. rest # NoChunk => /\ rest \in [id : Ids, left : 1..ChunkSize]
                          /\ rest.id = c /\ rest.left <= toCome - n
    BY <2>3, <2>4, <2>5
  <2> QED BY <2>1, <2>4, <2>6 DEF ToCome, toCome
<1> HIDE DEF left, rest, Rst
<1> QED BY <1>1, <1>2, <1>3, <1>5, <1>p, <1>6, <1>7, IssueOK DEF e
-----------------------------------------------------------------------------
(* The invariant. *)

\* It holds initially.
LEMMA InitOK == Init => IndInv
<1> SUFFICES ASSUME Init PROVE IndInv
  OBVIOUS
<1>1. /\ peer = [c \in Ids |-> NoMessage] /\ begun = 0
      /\ static = [i \in 0..(StaticSize - 1) |-> Entry(i)]
      /\ dynamic = <<>> /\ partial = NoChunk /\ buffers = <<>>
      /\ aligned = TRUE /\ open = TRUE /\ heard = [c \in Ids |-> <<>>]
  BY DEF Init
<1>2. /\ NoMessage \in Sending /\ NoMessage.at = 0 /\ NoMessage.len = 0
  BY DEF NoMessage, Sending
<1>3. \A c \in Ids : peer[c] = NoMessage /\ heard[c] = <<>>
  BY <1>1
<1>4. \A i \in 0..(StaticSize - 1) : static[i] = Entry(i)
  BY <1>1
<1>5. \A i \in Nat : Entry(i) \in Entries /\ Entry(i).id = i /\ Entry(i).processed = 0
  BY DEF Entry, Entries
<1>6. TypesOK
  <2>1. peer \in [Ids -> Sending] /\ \A c \in Ids : peer[c].at <= peer[c].len
    BY <1>1, <1>2, <1>3
  <2>2. static \in [0..(StaticSize - 1) -> Entries]
        /\ \A i \in 0..(StaticSize - 1) : static[i].id = i
    BY <1>1, <1>4, <1>5, Sizes
  <2>3. Dynamic(dynamic) /\ Assembly(buffers)
    BY <1>1, Sizes DEF Dynamic, Assembly
  <2>4. Partial(partial) /\ begun \in 0..MaxMessages
    BY <1>1, Sizes DEF Partial
  <2>5. heard \in [Ids -> Seq(Calls)]
    BY <1>1
  <2> QED BY <2>1, <2>2, <2>3, <2>4, <2>5, <1>1 DEF TypesOK
<1>7. ASSUME NEW c \in Ids
      PROVE  c \notin InProgress /\ Heard(c) = 0 /\ ~Underway(c)
  <2>1. ~Underway(c)
    BY <1>2, <1>3 DEF Underway
  <2>2. Heard(c) = 0
    <3>1. Len(<<>>) = 0
      OBVIOUS
    <3> QED BY <3>1, <1>3 DEF Heard, Upto
  <2> QED BY <2>1, <2>2 DEF InProgress
<1>8. ASSUME NEW c \in Ids PROVE HeardOf(c) /\ CacheOf(c) /\ BufferOf(c)
  <2>1. HeardOf(c)
    <3>1. DOMAIN heard[c] = {} /\ Len(heard[c]) = 0
      BY <1>3
    <3>2. InSequence(heard[c], c, peer[c].odd, peer[c].len)
      BY <3>1 DEF InSequence
    <3> QED BY <3>1, <3>2, <1>2, <1>3, <1>7 DEF HeardOf
  <2>2. CacheOf(c)
    <3>1. Cached(c) => c < StaticSize
      BY <1>1 DEF Cached
    <3>2. c < StaticSize => Known(c).processed = 0
      BY <1>4, <1>5, Sizes DEF Known
    <3> QED BY <3>1, <3>2, <1>7 DEF CacheOf
  <2>3. BufferOf(c)
    <3>1. DOMAIN buffers = {}
      BY <1>1
    <3> QED BY <3>1, <1>2, <1>3, <1>7 DEF BufferOf, Holding
  <2> QED BY <2>1, <2>2, <2>3
<1> QED BY <1>1, <1>6, <1>8 DEF IndInv, HeardOK, CacheOK, BufferOK

\* Every step keeps it.
LEMMA IndInvStep ==
  ASSUME OneDynamic, NeverFails, IndInv, [Next]_vars
  PROVE  IndInv'
<1>1. CASE RestOfChunk
  BY <1>1, RestOfChunkOK
<1>2. ASSUME NEW c \in Ids, Chunk(c) PROVE IndInv'
  BY <1>2, ChunkOK
<1>3. ASSUME NEW c \in Ids, Begin(c) PROVE IndInv'
  BY <1>3, BeginOK
<1>4. ASSUME NEW c \in Ids, Abort(c) PROVE IndInv'
  BY <1>4, AbortOK
<1>5. CASE UNCHANGED vars
  <2>1. /\ peer' = peer /\ begun' = begun /\ static' = static /\ dynamic' = dynamic
        /\ partial' = partial /\ buffers' = buffers /\ aligned' = aligned /\ open' = open
        /\ heard' = heard
    BY <1>5 DEF vars
  <2>2. TypesOK' <=> TypesOK
    BY <2>1 DEF TypesOK, Partial
  <2>3. HeardOK' <=> HeardOK
    BY <2>1 DEF HeardOK, HeardOf, Heard, Underway
  <2>4. InProgress' = InProgress
    BY <2>1 DEF InProgress, Underway
  <2>5. CacheOK' <=> CacheOK
    BY <2>1, <2>4 DEF CacheOK, CacheOf, Cached, Known
  <2>6. BufferOK' <=> BufferOK
    BY <2>1, <2>4 DEF BufferOK, BufferOf, Heard
  <2> QED BY <2>1, <2>2, <2>3, <2>5, <2>6 DEF IndInv
<1> QED BY <1>1, <1>2, <1>3, <1>4, <1>5 DEF Next

\* It is an invariant of every receiver these hypotheses are about.
LEMMA Invariance ==
  ASSUME OneDynamic, NeverFails
  PROVE  Spec => []IndInv
<1>1. IndInv /\ [Next]_vars => IndInv'
  BY IndInvStep
<1> QED BY <1>1, InitOK, PTL DEF Spec
-----------------------------------------------------------------------------
(* The theorems. *)

\* Every variable keeps its type, and buffers and cache their capacity.
THEOREM TypeCorrect ==
  ASSUME OneDynamic, NeverFails
  PROVE  Spec => []TypeOK
<1>1. IndInv => TypeOK
  <2> SUFFICES ASSUME IndInv PROVE TypeOK
    OBVIOUS
  <2>1. TypesOK
    BY DEF IndInv
  <2>2. ASSUME NEW c \in Ids
        PROVE  /\ peer[c] \in [odd : BOOLEAN, sid : Sids \cup {0}, len : Lengths \cup {0},
                               at : Nat]
               /\ peer[c].at <= peer[c].len
    BY <2>1, PeerOK DEF Sending
  <2>3. begun \in 0..MaxMessages /\ DOMAIN static = 0..(StaticSize - 1)
    BY <2>1 DEF TypesOK
  <2>4. Len(dynamic) <= DynamicMax
    BY <2>1 DEF TypesOK, Dynamic
  <2>5. partial.left \in 0..ChunkSize
    <3>1. partial = NoChunk => partial.left = 0
      BY DEF NoChunk
    <3> QED BY <3>1, <2>1, PartialOK, Sizes
  <2>6. Len(buffers) <= Hard + 1 /\ \A i \in DOMAIN buffers : Len(buffers[i].held) <= BufferSize
    BY <2>1 DEF TypesOK, Assembly
  <2>7. {aligned, open} \subseteq BOOLEAN
    BY <2>1 DEF TypesOK
  <2> QED BY <2>2, <2>3, <2>4, <2>5, <2>6, <2>7 DEF TypeOK
<1> QED BY <1>1, Invariance, PTL

\* However chunks of several messages alternate and are split, the stream's
\* callback is given the bytes of each message in order, every byte once, with the
\* right count of what is still to come, and all of them once the last has arrived;
\* the service loop takes no byte of payload for a header or the reverse.
THEOREM InOrder ==
  ASSUME OneDynamic, NeverFails
  PROVE  Spec => []HandedInOrder
<1>1. IndInv => HandedInOrder
  <2> SUFFICES ASSUME IndInv PROVE HandedInOrder
    OBVIOUS
  <2>1. TypesOK /\ aligned /\ HeardOK
    BY DEF IndInv
  <2> SUFFICES ASSUME NEW c \in Ids
               PROVE  /\ \A j \in DOMAIN heard[c] :
                           /\ Given(c, j) = Given(c, j - 1) + Len(heard[c][j].data)
                           /\ heard[c][j].data = [k \in DOMAIN heard[c][j].data |->
                                       <<c, peer[c].odd, Given(c, j - 1) + k>>]
                      /\ peer[c].at = peer[c].len => Given(c, Len(heard[c])) = peer[c].len
    BY <2>1 DEF HandedInOrder
  <2>2. \A j : Given(c, j) = Upto(heard[c], peer[c].len, j)
    BY DEF Given, Upto
  <2>3. HeardOf(c) /\ heard[c] \in Seq(Calls)
    BY <2>1 DEF HeardOK, TypesOK
  <2>4. ASSUME NEW j \in DOMAIN heard[c]
        PROVE  /\ Given(c, j) = Given(c, j - 1) + Len(heard[c][j].data)
               /\ heard[c][j].data = [k \in DOMAIN heard[c][j].data |->
                                       <<c, peer[c].odd, Given(c, j - 1) + k>>]
    <3> DEFINE data == heard[c][j].data
               from == Given(c, j - 1)
    <3>1. /\ Given(c, j) = from + Len(data)
          /\ data = Piece(c, peer[c].odd, from, Len(data))
      BY <2>2, <2>3 DEF HeardOf, InSequence
    <3>2. DOMAIN data = 1..Len(data)
      <4>1. heard[c][j] \in Calls
        BY <2>3
      <4>2. data \in Seq(Byte)
        BY <4>1 DEF Calls
      <4> QED BY <4>2
    <3> HIDE DEF data, from
    <3>3. data = [k \in DOMAIN data |-> <<c, peer[c].odd, from + k>>]
      BY <3>1, <3>2, Zenon DEF Piece
    <3> QED BY <3>1, <3>3 DEF data, from
  <2>5. peer[c].at = peer[c].len => Given(c, Len(heard[c])) = peer[c].len
    BY <2>2, <2>3 DEF HeardOf, Heard
  <2> QED BY <2>4, <2>5
<1> QED BY <1>1, Invariance, PTL

\* A message no longer than an assembly buffer is handed over in one piece: the
\* stream gives up the connection over a command that is not.
THEOREM WholeMessages ==
  ASSUME OneDynamic, NeverFails
  PROVE  Spec => []WholeIfItFits
<1>1. IndInv => WholeIfItFits
  BY DEF IndInv, HeardOK, HeardOf, WholeIfItFits
<1> QED BY <1>1, Invariance, PTL

\* What the cache gives for a message in progress is how long it is, where it
\* belongs and how much of it is still to come; no other message is remembered.
THEOREM CacheKnows ==
  ASSUME OneDynamic, NeverFails
  PROVE  Spec => []CacheRemembers
<1>1. IndInv => CacheRemembers
  <2> SUFFICES ASSUME IndInv, open, NEW c \in Ids
               PROVE  IF c \in InProgress
                      THEN /\ Get(dynamic, c) # {}
                           /\ \A g \in Get(dynamic, c) :
                                LET e == Found(g, c)
                                IN  <<e.id, e.len, e.sid, e.processed>>
                                 = <<c, peer[c].len, peer[c].sid, peer[c].len - peer[c].at>>
                      ELSE c < StaticSize => static[c].processed = 0
    BY DEF CacheRemembers
  <2>1. CacheOf(c)
    BY DEF IndInv, CacheOK
  <2>2. CASE c \in InProgress
    <3>1. Cached(c) /\ Dynamic(dynamic)
      BY <2>1, <2>2 DEF CacheOf, IndInv, TypesOK
    <3>2. Get(dynamic, c) # {}
      BY <3>1, GetThere DEF Cached
    <3>3. ASSUME NEW g \in Get(dynamic, c)
          PROVE  Found(g, c) = [id |-> c, len |-> peer[c].len, sid |-> peer[c].sid,
                                processed |-> peer[c].len - peer[c].at]
      BY <2>2, EntryOK DEF IndInv
    <3> QED BY <2>2, <3>2, <3>3
  <2>3. CASE c \notin InProgress
    BY <2>1, <2>3 DEF CacheOf, Cached, Known
  <2> QED BY <2>2, <2>3
<1> QED BY <1>1, Invariance, PTL

\* Buffers are held by the messages in progress and by nothing else, one each:
\* none is lost to a message that ended or was aborted.
THEOREM NoBufferLost ==
  ASSUME OneDynamic, NeverFails
  PROVE  Spec => []BuffersInUse
<1>1. IndInv => BuffersInUse
  <2> SUFFICES ASSUME IndInv, open PROVE BuffersInUse
    BY DEF BuffersInUse
  <2> DEFINE used == {i \in DOMAIN buffers : buffers[i].chunk # 0}
             f == [i \in used |-> buffers[i].chunk]
  <2>1. BufferOK /\ buffers \in Seq(Buffer) /\ 0 \notin Ids
    BY Sizes DEF IndInv, TypesOK, Assembly
  <2>2. ASSUME NEW i \in used
        PROVE  /\ buffers[i].chunk \in InProgress
               /\ Alone(buffers, buffers[i].chunk, i)
               /\ buffers[i].msg = peer[buffers[i].chunk].sid
    <3> DEFINE c == buffers[i].chunk
    <3>1. c \in Ids /\ i \in Holding(buffers, c)
      <4>1. i \in DOMAIN buffers /\ c # 0
        OBVIOUS
      <4>2. buffers[i] \in Buffer
        BY <4>1, <2>1
      <4>3. c \in Ids \cup {0}
        BY <4>2 DEF Buffer
      <4> QED BY <4>1, <4>3 DEF Holding
    <3> HIDE DEF c
    <3>2. c \in InProgress
      BY <2>1, <3>1 DEF BufferOK, BufferOf
    <3>3. PICK j \in DOMAIN buffers : Alone(buffers, c, j) /\ buffers[j].msg = peer[c].sid
      BY <2>1, <3>1, <3>2 DEF BufferOK, BufferOf
    <3>4. j = i
      BY <3>1, <3>3 DEF Alone
    <3> QED BY <3>2, <3>3, <3>4 DEF c
  <2>3. ASSUME NEW c \in InProgress
        PROVE  \E i \in used : buffers[i].chunk = c /\ buffers[i].msg = peer[c].sid
    <3>1. c \in Ids /\ c # 0
      BY <2>1 DEF InProgress
    <3>2. PICK i \in DOMAIN buffers : Alone(buffers, c, i) /\ buffers[i].msg = peer[c].sid
      BY <2>1, <2>3, <3>1 DEF BufferOK, BufferOf
    <3>3. buffers[i].chunk = c
      BY <3>2 DEF Alone, Holding
    <3> QED BY <3>1, <3>2, <3>3
  <2>4. {<<buffers[i].chunk, buffers[i].msg>> : i \in used}
          = {<<c, peer[c].sid>> : c \in InProgress}
    <3> HIDE DEF used
    <3> QED BY <2>2, <2>3
  <2>5. Cardinality(used) = Cardinality(InProgress)
    <3>1. IsFiniteSet(used)
      <4> DEFINE n == Len(buffers)
      <4>1. n \in Nat /\ used \subseteq 1..n
        BY <2>1
      <4> HIDE DEF n, used
      <4>2. IsFiniteSet(1..n)
        BY <4>1, FS_Interval
      <4> QED BY <4>1, <4>2, FS_Subset
    <3>2. f \in [used -> InProgress]
      BY <2>2
    <3>3. \A i, j \in used : f[i] = f[j] => i = j
      <4> SUFFICES ASSUME NEW i \in used, NEW j \in used, f[i] = f[j] PROVE i = j
        OBVIOUS
      <4>1. buffers[i].chunk = buffers[j].chunk
        OBVIOUS
      <4> HIDE DEF used, f
      <4> QED BY <4>1, <2>2 DEF Alone
    <3>4. \A c \in InProgress : \E i \in used : f[i] = c
      BY <2>3
    <3>5. f \in Bijection(used, InProgress)
      <4> HIDE DEF used, f
      <4> QED BY <3>2, <3>3, <3>4 DEF Bijection, Injection, Surjection, IsInjective
    <3> HIDE DEF used, f
    <3>6. ExistsBijection(used, InProgress)
      BY <3>5 DEF ExistsBijection
    <3> QED BY <3>1, <3>6, FS_Bijection
  <2> QED BY <2>4, <2>5 DEF BuffersInUse
<1> QED BY <1>1, Invariance, PTL
=============================================================================

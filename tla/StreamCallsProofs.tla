------------------------- MODULE StreamCallsProofs --------------------------
(***************************************************************************)
(* For any number of calls, commands, callbacks, verdicts and any room: a  *)
(* call waits until its callback accepted a reply in time, and, as long as *)
(* only one end issues calls, a callback is given the reply to its own     *)
(* call and nothing else.                                                  *)
(***************************************************************************)
EXTENDS StreamCalls, SequenceTheorems, FiniteSetTheorems, TLAPS

Entry == [seq : 1..MaxCalls, issued : 0..MaxClock]
Run == [seq : 1..MaxCalls, own : BOOLEAN, content : BOOLEAN]
Tables == [msg : Seq(Listener), amf : Seq(Listener), usr : Seq(Listener)]

Queue == {q \in Seq(Message) : Len(q) <= Room}
QueuesOK == calls \in [End -> Seq(Entry)] /\ inbox \in [End -> Queue]

CountersOK ==
    /\ seqNum \in [End -> 1..(MaxCalls + 1)]
    /\ paused \in [End -> BOOLEAN] /\ open \in BOOLEAN
    /\ clock \in 0..MaxClock /\ told \in 0..MaxTold /\ late \in 0..MaxLate
    /\ faults \in 0..MaxFaults

HistoryOK ==
    /\ asked \in [End -> SUBSET (1..MaxCalls)]
    /\ settled \in [End -> SUBSET (1..MaxCalls)]
    /\ ran \in [End -> SUBSET Run]

\* No table has more callbacks than were registered at the start and later on.
TablesOK ==
    /\ listeners \in [End -> Tables]
    /\ \A e \in End : \A t \in {"msg", "amf", "usr"} :
         Len(listeners[e][t]) <= Cardinality(Names) + 1 + late

WalkOK == walk \in [End -> (1..3) \X (1..(MaxCalls + MaxLate + Cardinality(Names) + 2))]

\* Every waiting call has a number of its own, smaller than the next one (n), and
\* waits because it was asked (a) and is not settled (s).
Nums(q) == {q[i].seq : i \in DOMAIN q}
Distinct(q) == \A i, j \in DOMAIN q : q[i].seq = q[j].seq => i = j
Waiting(q, n, a, s) ==
    /\ q \in Seq(Entry) /\ Len(q) < n /\ Distinct(q)
    /\ a \subseteq 1..(n - 1) /\ s \subseteq a
    /\ Nums(q) = a \ s
NumbersOK == \A e \in End : Waiting(calls[e], seqNum[e], asked[e], settled[e])

\* Where one end alone issues calls, what it is sent with a number is a reply.
OneCaller == \A c, d \in Callers : c = d
Answers(q) == \A i \in DOMAIN q : q[i].num # 0 => q[i].answer
AnswersOK ==
    OneCaller =>
        /\ \A e \in Callers : Answers(inbox[e])
        /\ \A e \in End \ Callers : calls[e] = <<>>
        /\ OwnReplyOnly

IndInv ==
    /\ QueuesOK /\ CountersOK /\ HistoryOK /\ TablesOK /\ WalkOK
    /\ NumbersOK /\ AnswersOK
-----------------------------------------------------------------------------
(* Constants, messages and tables. *)

\* The assumptions on the bounds, typed for arithmetic.
LEMMA SizesOK ==
    /\ Room \in Nat /\ Timeout \in Nat /\ MaxClock \in Nat /\ MaxCalls \in Nat
    /\ MaxTold \in Nat /\ MaxLate \in Nat /\ MaxFaults \in Nat
    /\ Cardinality(Names) \in Nat /\ Callers \subseteq End /\ Served \subseteq Names
<1>1. {Room, Timeout, MaxClock, MaxCalls, MaxTold, MaxLate, MaxFaults} \subseteq Nat
  BY CallsAssumption
<1>2. IsFiniteSet(Names) /\ Callers \subseteq End /\ Served \subseteq Names
  BY CallsAssumption
<1>3. Cardinality(Names) \in Nat
  BY <1>2, FS_CardinalityType
<1> QED BY <1>1, <1>2, <1>3

\* There are two ends.
LEMMA PeerOK ==
  ASSUME NEW e \in End
  PROVE  Peer(e) \in End /\ Peer(e) # e
<1>1. \E x \in End : x # e
  <2> SUFFICES ASSUME End = {e} PROVE FALSE
    OBVIOUS
  <2>1. Cardinality(End) = 1
    BY FS_Singleton
  <2> QED BY <2>1, CallsAssumption
<1> QED BY <1>1 DEF Peer

\* Commands, replies and notices are messages.
LEMMA MessagesOK ==
    /\ Tidings \subseteq Message /\ \A m \in Tidings : m.num = 0
    /\ \A name \in Served, n \in 1..MaxCalls : Command(name, n) \in Message
    /\ \A m \in Message : Reply(m) \in Message /\ Reply(m).answer
<1>1. /\ Tidings \subseteq [kind : {"dat", "usr", "av"}, name : Names, num : {0},
                            answer : {FALSE}, cut : BOOLEAN]
      /\ MaxCalls \in Nat /\ Served \subseteq Names
  BY SizesOK, CallsAssumption
<1>2. ASSUME NEW m \in Tidings PROVE m \in Message /\ m.num = 0
  <2>1. m \in [kind : {"dat", "usr", "av"}, name : Names, num : {0}, answer : {FALSE},
               cut : BOOLEAN]
    BY <1>1
  <2>2. 0 \in 0..MaxCalls
    BY <1>1
  <2> QED BY <2>1, <2>2 DEF Message
<1>3. \A name \in Served, n \in 1..MaxCalls : Command(name, n) \in Message
  BY <1>1 DEF Message, Command
<1>4. \A m \in Message : Reply(m) \in Message /\ Reply(m).answer
  BY DEF Message, Reply
<1> QED BY <1>2, <1>3, <1>4

\* A message goes through one to three tables.
LEMMA PlanOK ==
  ASSUME NEW m \in Message
  PROVE  /\ Len(Plan(m)) \in 1..3
         /\ \A k \in 1..Len(Plan(m)) : Plan(m)[k] \in {"msg", "call", "amf", "usr"}
<1>1. m.kind \in {"cmd", "dat", "usr", "av"}
  BY DEF Message
<1>2. CASE m.kind \in {"cmd", "dat"}
  BY <1>2 DEF Plan
<1>3. CASE m.kind = "usr"
  BY <1>3 DEF Plan
<1>4. CASE m.kind = "av"
  BY <1>4 DEF Plan
<1> QED BY <1>1, <1>2, <1>3, <1>4

\* The position the walk comes to is that of a callback in its table.
LEMMA ComingOK ==
  ASSUME QueuesOK, WalkOK, NEW e \in End, inbox[e] # <<>>, NEW p \in Coming(e)
  PROVE  /\ p = <<p[1], p[2]>> /\ p[1] \in 1..3
         /\ Table(e, p) \in {"msg", "call", "amf", "usr"}
         /\ Table(e, p) = "call" => /\ p[2] \in DOMAIN calls[e]
                                   /\ calls[e][p[2]].seq = Head(inbox[e]).num
         /\ Table(e, p) # "call" => p[2] \in DOMAIN listeners[e][Table(e, p)]
<1> DEFINE m == Head(inbox[e])
           Wants(k) ==
             IF k > 1 /\ m.cut THEN {}
             ELSE IF Plan(m)[k] = "call"
             THEN {i \in DOMAIN calls[e] : Awaits(calls[e][i], m)}
             ELSE {i \in DOMAIN listeners[e][Plan(m)[k]] : Hears(listeners[e][Plan(m)[k]][i], m)}
<1>1. m \in Message /\ walk[e][1] \in 1..3
  BY DEF QueuesOK, Queue, WalkOK
<1>2. p \in Due(e)
  BY DEF Coming
<1>3. \E k \in walk[e][1]..Len(Plan(m)) : \E i \in Wants(k) : p = <<k, i>>
  BY <1>2 DEF Due
<1> PICK k \in walk[e][1]..Len(Plan(m)) : \E i \in Wants(k) : p = <<k, i>>
  BY <1>3
<1>4. PICK i \in Wants(k) : p = <<k, i>>
  OBVIOUS
<1>5. k \in 1..Len(Plan(m)) /\ k \in 1..3 /\ p[1] = k /\ p[2] = i /\ Table(e, p) = Plan(m)[k]
  BY <1>1, <1>4, PlanOK DEF Table
<1>6. Plan(m)[k] \in {"msg", "call", "amf", "usr"}
  BY <1>1, <1>5, PlanOK
<1>7. /\ Plan(m)[k] = "call" => i \in DOMAIN calls[e] /\ calls[e][i].seq = m.num
      /\ Plan(m)[k] # "call" => i \in DOMAIN listeners[e][Plan(m)[k]]
  BY DEF Awaits
<1> QED BY <1>4, <1>5, <1>6, <1>7
-----------------------------------------------------------------------------
(* Queues. *)

\* What joining and leaving does to a queue of messages, and to one that is all answers.
LEMMA QueueOK ==
  ASSUME NEW q \in Queue
  PROVE  /\ <<>> \in Queue /\ Answers(<<>>)
         /\ q # <<>> => /\ Tail(q) \in Queue /\ Head(q) \in Message
                        /\ Answers(q) => /\ Answers(Tail(q))
                                         /\ Head(q).num # 0 => Head(q).answer
         /\ \A m \in Message :
              Len(q) < Room => /\ Append(q, m) \in Queue
                               /\ Answers(q) /\ (m.num # 0 => m.answer) => Answers(Append(q, m))
<1>1. <<>> \in Queue /\ Answers(<<>>)
  BY SizesOK DEF Queue, Answers
<1>2. q \in Seq(Message) /\ Len(q) \in Nat /\ Len(q) <= Room /\ Room \in Nat
  BY SizesOK DEF Queue
<1>3. ASSUME q # <<>>
      PROVE  /\ Tail(q) \in Queue /\ Head(q) \in Message
             /\ Answers(q) => /\ Answers(Tail(q))
                              /\ Head(q).num # 0 => Head(q).answer
  <2>1. /\ Tail(q) \in Seq(Message) /\ Len(Tail(q)) = Len(q) - 1 /\ Head(q) = q[1]
        /\ 1 \in DOMAIN q /\ q[1] \in Message
        /\ \A i \in DOMAIN Tail(q) : i + 1 \in DOMAIN q /\ Tail(q)[i] = q[i + 1]
    BY <1>2, <1>3
  <2>2. Len(Tail(q)) <= Room
    BY <2>1, <1>2
  <2> QED BY <2>1, <2>2 DEF Queue, Answers
<1>4. ASSUME NEW m \in Message, Len(q) < Room
      PROVE  /\ Append(q, m) \in Queue
             /\ Answers(q) /\ (m.num # 0 => m.answer) => Answers(Append(q, m))
  <2>1. /\ Append(q, m) \in Seq(Message) /\ Len(Append(q, m)) = Len(q) + 1
        /\ \A i \in DOMAIN Append(q, m) : Append(q, m)[i] = m \/ (i \in DOMAIN q /\ Append(q, m)[i] = q[i])
    BY <1>2
  <2>2. Len(Append(q, m)) <= Room
    BY <2>1, <1>2, <1>4
  <2> QED BY <2>1, <2>2 DEF Queue, Answers
<1> QED BY <1>1, <1>3, <1>4

\* After a send every queue still fits, and only the peer's has something new.
LEMMA PostedOK ==
  ASSUME inbox \in [End -> Queue], NEW e \in End, NEW m \in Message
  PROVE  /\ Posted(e, m) \in [End -> Queue]
         /\ \A d \in End : d # Peer(e) => Posted(e, m)[d] = inbox[d]
         /\ Answers(inbox[Peer(e)]) /\ (m.num # 0 => m.answer) => Answers(Posted(e, m)[Peer(e)])
<1> DEFINE p == Peer(e)
<1>1. p \in End /\ inbox[p] \in Queue
  BY PeerOK
<1> HIDE DEF p
<1>2. CASE HasRoom(e)
  <2>1. Len(inbox[p]) < Room
    BY <1>2 DEF HasRoom, p
  <2>2. /\ Append(inbox[p], m) \in Queue
        /\ Answers(inbox[p]) /\ (m.num # 0 => m.answer) => Answers(Append(inbox[p], m))
    BY <1>1, <2>1, QueueOK
  <2>3. Posted(e, m) = [inbox EXCEPT ![p] = Append(inbox[p], m)]
    BY <1>2 DEF Posted, p
  <2> QED BY <1>1, <2>2, <2>3 DEF p
<1>3. CASE ~HasRoom(e)
  BY <1>3 DEF Posted
<1> QED BY <1>2, <1>3

\* What a verdict leaves of the queues and where the walk is.
LEMMA OutcomeOK ==
  ASSUME CountersOK, NEW e \in End, NEW v, NEW next, NEW queues \in [End -> Queue],
         walk \in [End -> (1..3) \X (1..(MaxCalls + MaxLate + Cardinality(Names) + 2))],
         next \in (1..3) \X (1..(MaxCalls + MaxLate + Cardinality(Names) + 2)),
         Outcome(e, v, next, queues)
  PROVE  /\ inbox' \in [End -> Queue]
         /\ \A d \in End : inbox'[d] = queues[d] \/ inbox'[d] = <<>>
         /\ WalkOK'
         /\ paused' \in [End -> BOOLEAN] /\ open' \in BOOLEAN /\ faults' \in 0..MaxFaults
<1>1. <<>> \in Queue
  BY QueueOK
<1>2. /\ inbox' \in [End -> Queue]
      /\ \A d \in End : inbox'[d] = queues[d] \/ inbox'[d] = <<>>
  <2>1. inbox' = queues \/ inbox' = [queues EXCEPT ![e] = <<>>]
    BY DEF Outcome
  <2> QED BY <1>1, <2>1
<1>3. WalkOK'
  <2>1. <<1, 1>> \in (1..3) \X (1..(MaxCalls + MaxLate + Cardinality(Names) + 2))
    BY SizesOK
  <2>2. walk' = [walk EXCEPT ![e] = next] \/ walk' = [walk EXCEPT ![e] = <<1, 1>>]
    BY DEF Outcome
  <2> DEFINE W == (1..3) \X (1..(MaxCalls + MaxLate + Cardinality(Names) + 2))
  <2> HIDE DEF W
  <2>3. walk' \in [End -> W]
    BY <2>1, <2>2 DEF W
  <2> QED BY <2>3 DEF WalkOK, W
<1>4. paused' \in [End -> BOOLEAN] /\ open' \in BOOLEAN
  BY DEF Outcome, CountersOK
<1>5. faults' \in 0..MaxFaults
  BY SizesOK DEF Outcome, CountersOK
<1> QED BY <1>2, <1>3, <1>4, <1>5
-----------------------------------------------------------------------------
(* Waiting calls. *)

\* An entry goes, and with it its number.
LEMMA WithoutOK ==
  ASSUME NEW q \in Seq(Entry), Distinct(q), NEW i \in DOMAIN q
  PROVE  /\ Without(q, i) \in Seq(Entry) /\ Len(Without(q, i)) = Len(q) - 1
         /\ Distinct(Without(q, i))
         /\ Nums(Without(q, i)) = Nums(q) \ {q[i].seq}
<1> DEFINE a == SubSeq(q, 1, i - 1)
           b == SubSeq(q, i + 1, Len(q))
           r == Without(q, i)
           l == Len(q)
<1>1. /\ l \in Nat /\ DOMAIN q = 1..l /\ i \in Nat /\ 1 <= i /\ i <= l
      /\ \A k \in 1..l : q[k] \in Entry
  OBVIOUS
<1> HIDE DEF l
<1>2. /\ a \in Seq(Entry) /\ Len(a) = i - 1 /\ \A k \in 1..(i - 1) : a[k] = q[k]
  <2>1. \A k \in 1..(i - 1) : q[k] \in Entry
    BY <1>1
  <2>2. /\ a \in Seq(Entry)
        /\ Len(a) = IF 1 <= i - 1 THEN (i - 1) - 1 + 1 ELSE 0
        /\ \A k \in 1..((i - 1) - 1 + 1) : a[k] = q[1 + k - 1]
    BY <2>1, <1>1, SubSeqProperties
  <2> HIDE DEF a
  <2>3. Len(a) = i - 1
    BY <2>2, <1>1
  <2>4. ASSUME NEW k \in 1..(i - 1) PROVE a[k] = q[k]
    <3>1. k \in 1..((i - 1) - 1 + 1) /\ 1 + k - 1 = k
      BY <1>1
    <3> QED BY <3>1, <2>2
  <2> QED BY <2>2, <2>3, <2>4
<1>3. /\ b \in Seq(Entry) /\ Len(b) = l - i /\ \A k \in 1..(l - i) : b[k] = q[i + k]
  <2>0. b = SubSeq(q, i + 1, l)
    BY DEF l
  <2>1. \A k \in (i + 1)..l : q[k] \in Entry
    BY <1>1
  <2> HIDE DEF b
  <2>2. /\ b \in Seq(Entry)
        /\ Len(b) = IF i + 1 <= l THEN l - (i + 1) + 1 ELSE 0
        /\ \A k \in 1..(l - (i + 1) + 1) : b[k] = q[(i + 1) + k - 1]
    BY <2>0, <2>1, <1>1, SubSeqProperties
  <2>3. Len(b) = l - i
    BY <2>2, <1>1
  <2>4. ASSUME NEW k \in 1..(l - i) PROVE b[k] = q[i + k]
    <3>1. k \in 1..(l - (i + 1) + 1) /\ (i + 1) + k - 1 = i + k
      BY <1>1
    <3> QED BY <3>1, <2>2
  <2> QED BY <2>2, <2>3, <2>4
<1>4. r = a \o b
  BY DEF Without, RemoveAt
<1> HIDE DEF a, b, r
<1>5. /\ r \in Seq(Entry) /\ Len(r) = Len(a) + Len(b)
      /\ \A k \in 1..(Len(a) + Len(b)) : r[k] = IF k <= Len(a) THEN a[k] ELSE b[k - Len(a)]
  <2> DEFINE t == a \o b
  <2>1. /\ t \in Seq(Entry) /\ Len(t) = Len(a) + Len(b)
        /\ \A k \in 1..(Len(a) + Len(b)) : t[k] = IF k <= Len(a) THEN a[k] ELSE b[k - Len(a)]
    BY <1>2, <1>3, ConcatProperties, Zenon
  <2> HIDE DEF t
  <2>2. r = t
    BY <1>4 DEF t
  <2> QED BY <2>1, <2>2
<1>6. Len(r) = l - 1 /\ DOMAIN r = 1..(l - 1)
  BY <1>1, <1>2, <1>3, <1>5
<1>7. \A k \in 1..(l - 1) : r[k] = IF k < i THEN q[k] ELSE q[k + 1]
  <2> SUFFICES ASSUME NEW k \in 1..(l - 1)
               PROVE  r[k] = IF k < i THEN q[k] ELSE q[k + 1]
    OBVIOUS
  <2>0. r[k] = IF k <= i - 1 THEN a[k] ELSE b[k - (i - 1)]
    BY <1>1, <1>2, <1>3, <1>5
  <2>1. CASE k < i
    <3>1. k <= i - 1 /\ k \in 1..(i - 1)
      BY <2>1, <1>1
    <3> QED BY <3>1, <2>0, <2>1, <1>2
  <2>2. CASE ~(k < i)
    <3>1. ~(k <= i - 1) /\ k - (i - 1) \in 1..(l - i) /\ i + (k - (i - 1)) = k + 1
      BY <2>2, <1>1
    <3> QED BY <3>1, <2>0, <2>2, <1>3
  <2> QED BY <2>1, <2>2
<1>8. Distinct(r)
  <2> SUFFICES ASSUME NEW j \in 1..(l - 1), NEW k \in 1..(l - 1), r[j].seq = r[k].seq
               PROVE  j = k
    BY <1>6 DEF Distinct
  <2> DEFINE J == IF j < i THEN j ELSE j + 1
             K == IF k < i THEN k ELSE k + 1
  <2>1. J \in 1..l /\ K \in 1..l /\ r[j] = q[J] /\ r[k] = q[K]
    BY <1>1, <1>7
  <2>2. J = K
    BY <2>1, <1>1 DEF Distinct
  <2> QED BY <2>2, <1>1
<1>9. Nums(r) = Nums(q) \ {q[i].seq}
  <2>1. ASSUME NEW k \in 1..(l - 1) PROVE r[k].seq \in Nums(q) \ {q[i].seq}
    <3> DEFINE K == IF k < i THEN k ELSE k + 1
    <3>1. K \in 1..l /\ r[k] = q[K] /\ K # i
      BY <1>1, <1>7
    <3> HIDE DEF K
    <3> QED BY <3>1, <1>1 DEF Nums, Distinct
  <2>2. ASSUME NEW k \in 1..l, k # i PROVE \E j \in 1..(l - 1) : r[j].seq = q[k].seq
    <3> DEFINE j == IF k < i THEN k ELSE k - 1
    <3>1. j \in 1..(l - 1) /\ k = IF j < i THEN j ELSE j + 1
      BY <2>2, <1>1
    <3>2. r[j] = q[k]
      BY <3>1, <1>7
    <3> QED BY <3>1, <3>2
  <2>3. ASSUME NEW n \in Nums(q) \ {q[i].seq} PROVE n \in Nums(r)
    <3>1. PICK k \in 1..l : n = q[k].seq /\ k # i
      BY <1>1 DEF Nums
    <3> QED BY <3>1, <2>2, <1>6 DEF Nums
  <2> QED BY <2>1, <2>3, <1>6 DEF Nums
<1> QED BY <1>5, <1>6, <1>8, <1>9 DEF r, l

\* A call that is settled no longer waits.
LEMMA SettleOK ==
  ASSUME NEW q, NEW n \in Nat, NEW a, NEW s, Waiting(q, n, a, s), NEW i \in DOMAIN q
  PROVE  /\ q[i].seq \in a
         /\ Waiting(Without(q, i), n, a, s \cup {q[i].seq})
<1>1. q[i].seq \in Nums(q)
  BY DEF Nums
<1>2. /\ q \in Seq(Entry) /\ Distinct(q) /\ Len(q) < n /\ Len(q) \in Nat
      /\ a \subseteq 1..(n - 1) /\ s \subseteq a /\ Nums(q) = a \ s
  BY DEF Waiting
<1>3. /\ Without(q, i) \in Seq(Entry) /\ Len(Without(q, i)) = Len(q) - 1
      /\ Distinct(Without(q, i))
      /\ Nums(Without(q, i)) = Nums(q) \ {q[i].seq}
  BY <1>2, WithoutOK
<1>4. Len(Without(q, i)) < n
  BY <1>2, <1>3
<1>5. Nums(Without(q, i)) = a \ (s \cup {q[i].seq})
  BY <1>2, <1>3
<1> QED BY <1>1, <1>2, <1>3, <1>4, <1>5 DEF Waiting

\* A call is issued, with an entry or without.
LEMMA IssueOK ==
  ASSUME NEW q, NEW n \in 1..MaxCalls, NEW a, NEW s, Waiting(q, n, a, s),
         NEW x \in Entry, x.seq = n
  PROVE  Waiting(Append(q, x), n + 1, a \cup {n}, s) /\ Waiting(q, n + 1, a, s)
<1> DEFINE l == Len(q)
           r == Append(q, x)
<1>1. /\ q \in Seq(Entry) /\ Distinct(q) /\ l < n /\ l \in Nat /\ n \in Nat /\ n >= 1
      /\ a \subseteq 1..(n - 1) /\ s \subseteq a /\ Nums(q) = a \ s
  BY SizesOK DEF Waiting
<1>2. /\ r \in Seq(Entry) /\ Len(r) = l + 1 /\ DOMAIN r = 1..(l + 1) /\ DOMAIN q = 1..l
      /\ r[l + 1] = x /\ \A k \in 1..l : r[k] = q[k]
  BY <1>1
<1> HIDE DEF r, l
<1>3. a \subseteq 1..n /\ n \notin a /\ n \in 1..((n + 1) - 1) /\ 1..((n + 1) - 1) = 1..n
  BY <1>1
<1>4. Distinct(r)
  <2> SUFFICES ASSUME NEW j \in 1..(l + 1), NEW k \in 1..(l + 1), r[j].seq = r[k].seq
               PROVE  j = k
    BY <1>2 DEF Distinct
  <2>1. \A h \in 1..l : r[h].seq \in a
    BY <1>1, <1>2 DEF Nums
  <2>2. CASE j \in 1..l /\ k \in 1..l
    BY <2>2, <1>1, <1>2 DEF Distinct
  <2>3. CASE j = l + 1 \/ k = l + 1
    <3>1. r[l + 1].seq = n
      BY <1>2
    <3>2. \A h \in 1..l : r[h].seq # n
      BY <2>1, <1>3
    <3> QED BY <2>3, <3>1, <3>2, <1>1
  <2> QED BY <2>2, <2>3, <1>1
<1>5. Nums(r) = (a \cup {n}) \ s
  <2>1. Nums(r) = Nums(q) \cup {n}
    <3>1. \A k \in 1..(l + 1) : k \in 1..l \/ k = l + 1
      BY <1>1
    <3>2. \A k \in 1..l : k \in 1..(l + 1)
      BY <1>1
    <3>3. l + 1 \in 1..(l + 1)
      BY <1>1
    <3> QED BY <3>1, <3>2, <3>3, <1>2 DEF Nums
  <2> QED BY <2>1, <1>1, <1>3
<1>6. Len(r) < n + 1 /\ l < n + 1
  BY <1>1, <1>2
<1> QED BY <1>1, <1>2, <1>3, <1>4, <1>5, <1>6 DEF Waiting, r, l
-----------------------------------------------------------------------------
(* The steps keep the invariant. *)

Walks == (1..3) \X (1..(MaxCalls + MaxLate + Cardinality(Names) + 2))

\* The history and the numbers after a call is issued.
LEMMA PlaceOK ==
  ASSUME QueuesOK, CountersOK, HistoryOK, NEW e \in End, NEW name, NEW wanted \in BOOLEAN,
         NEW kept, NEW s, Waiting(kept, seqNum[e], asked[e], s), Place(e, name, wanted, kept)
  PROVE  /\ seqNum[e] \in 1..MaxCalls
         /\ seqNum' \in [End -> 1..(MaxCalls + 1)]
         /\ calls' \in [End -> Seq(Entry)] /\ asked' \in [End -> SUBSET (1..MaxCalls)]
         /\ Waiting(calls'[e], seqNum'[e], asked'[e], s)
         /\ \A d \in End : d # e => /\ calls'[d] = calls[d] /\ seqNum'[d] = seqNum[d]
                                    /\ asked'[d] = asked[d]
<1> DEFINE n == seqNum[e]
           x == [seq |-> n, issued |-> clock]
<1>1. /\ n \in 1..MaxCalls
      /\ seqNum' = [seqNum EXCEPT ![e] = n + 1]
      /\ calls' = [calls EXCEPT ![e] = IF wanted THEN Append(kept, x) ELSE kept]
      /\ asked' = [asked EXCEPT ![e] = IF wanted THEN @ \cup {n} ELSE @]
  BY SizesOK DEF Place, CountersOK
<1>2. x \in Entry /\ x.seq = n
  BY <1>1 DEF Entry, CountersOK
<1>3. /\ seqNum \in [End -> 1..(MaxCalls + 1)] /\ calls \in [End -> Seq(Entry)]
      /\ asked \in [End -> SUBSET (1..MaxCalls)] /\ kept \in Seq(Entry)
  BY DEF QueuesOK, CountersOK, HistoryOK, Waiting
<1>4. n + 1 \in 1..(MaxCalls + 1)
  BY <1>1, SizesOK
<1> HIDE DEF n, x
<1>5. Waiting(kept, n, asked[e], s)
  BY DEF n
<1>6. Waiting(Append(kept, x), n + 1, asked[e] \cup {n}, s) /\ Waiting(kept, n + 1, asked[e], s)
  BY <1>1, <1>2, <1>5, IssueOK
<1>7. /\ seqNum'[e] = n + 1
      /\ calls'[e] = IF wanted THEN Append(kept, x) ELSE kept
      /\ asked'[e] = IF wanted THEN asked[e] \cup {n} ELSE asked[e]
  BY <1>1, <1>3
<1>8. Waiting(calls'[e], seqNum'[e], asked'[e], s)
  BY <1>6, <1>7
<1>9. Append(kept, x) \in Seq(Entry)
  BY <1>2, <1>3
<1>10. /\ seqNum' \in [End -> 1..(MaxCalls + 1)]
       /\ calls' \in [End -> Seq(Entry)] /\ asked' \in [End -> SUBSET (1..MaxCalls)]
  BY <1>1, <1>3, <1>4, <1>9
<1>11. \A d \in End : d # e => /\ calls'[d] = calls[d] /\ seqNum'[d] = seqNum[d]
                               /\ asked'[d] = asked[d]
  BY <1>1, <1>3
<1> QED BY <1>1, <1>8, <1>10, <1>11 DEF n

\* The end that issues a call is sent none by it.
LEMMA CommandedOK ==
  ASSUME IndInv, OneCaller, NEW e \in Callers, NEW m \in Message, NEW d \in Callers
  PROVE  Answers(inbox[d]) /\ Answers(Posted(e, m)[d])
<1>1. d = e /\ e \in End /\ Peer(e) # e /\ inbox \in [End -> Queue]
  BY SizesOK, PeerOK DEF OneCaller, IndInv, QueuesOK
<1>2. Answers(inbox[d])
  BY DEF IndInv, AnswersOK
<1> QED BY <1>1, <1>2, PostedOK

\* A callback by type or for users has run: the walk goes on, ends or begins anew.
LEMMA WatchOK ==
  ASSUME IndInv, NEW e \in End, inbox[e] # <<>>, NEW p \in Coming(e), Watch(e, p)
  PROVE  IndInv'
<1>1. QueuesOK /\ CountersOK /\ HistoryOK /\ TablesOK /\ WalkOK /\ NumbersOK /\ AnswersOK
  BY DEF IndInv
<1>2. PICK v \in Verdicts : Outcome(e, v, <<p[1], p[2] + 1>>, inbox)
  BY DEF Watch
<1>3. UNCHANGED <<seqNum, calls, listeners, clock, told, late, asked, sent, ran, settled>>
  BY DEF Watch
<1>4. <<p[1], p[2] + 1>> \in Walks
  <2>1. Table(e, p) \in {"msg", "amf", "usr"} /\ p[1] \in 1..3
        /\ p[2] \in DOMAIN listeners[e][Table(e, p)]
    BY <1>1, ComingOK DEF Watch
  <2>2. listeners[e][Table(e, p)] \in Seq(Listener)
        /\ Len(listeners[e][Table(e, p)]) <= Cardinality(Names) + 1 + late
    BY <1>1, <2>1 DEF TablesOK, Tables
  <2>3. late \in 0..MaxLate
    BY <1>1 DEF CountersOK
  <2>4. p[2] + 1 \in 1..(MaxCalls + MaxLate + Cardinality(Names) + 2)
    <3> DEFINE l == Len(listeners[e][Table(e, p)])
    <3>1. l \in Nat /\ p[2] \in 1..l /\ l <= Cardinality(Names) + 1 + late
      BY <2>1, <2>2
    <3> HIDE DEF l
    <3> QED BY <3>1, <2>3, SizesOK
  <2> QED BY <2>1, <2>4 DEF Walks
<1>5. walk \in [End -> Walks] /\ inbox \in [End -> Queue]
  BY <1>1 DEF WalkOK, Walks, QueuesOK
<1> DEFINE next == <<p[1], p[2] + 1>>
<1>6. next \in Walks /\ Outcome(e, v, next, inbox)
  BY <1>2, <1>4
<1> HIDE DEF next
<1>7. /\ inbox' \in [End -> Queue]
      /\ \A d \in End : inbox'[d] = inbox[d] \/ inbox'[d] = <<>>
      /\ WalkOK'
      /\ paused' \in [End -> BOOLEAN] /\ open' \in BOOLEAN /\ faults' \in 0..MaxFaults
  BY <1>1, <1>5, <1>6, OutcomeOK DEF Walks
<1>8. QueuesOK' /\ CountersOK'
  BY <1>1, <1>3, <1>7 DEF QueuesOK, CountersOK
<1>9. HistoryOK' /\ TablesOK' /\ NumbersOK'
  BY <1>1, <1>3 DEF HistoryOK, TablesOK, NumbersOK
<1>10. AnswersOK'
  <2>1. Answers(<<>>)
    BY DEF Answers
  <2>2. Callers \subseteq End
    BY SizesOK
  <2> QED BY <2>1, <2>2, <1>1, <1>3, <1>7 DEF AnswersOK, OneCaller, OwnReplyOnly
<1> QED BY <1>7, <1>8, <1>9, <1>10 DEF IndInv

\* A reply meets an outstanding call, whose callback may call again.
LEMMA CompleteOK ==
  ASSUME IndInv, NEW e \in End, inbox[e] # <<>>, NEW p \in Coming(e), Complete(e, p)
  PROVE  IndInv'
<1> DEFINE m == Head(inbox[e])
           i == p[2]
           c == calls[e][i]
<1>1. QueuesOK /\ CountersOK /\ HistoryOK /\ TablesOK /\ WalkOK /\ NumbersOK /\ AnswersOK
  BY DEF IndInv
<1>2. /\ i \in DOMAIN calls[e] /\ c.seq = m.num /\ p[1] \in 1..3
  BY <1>1, ComingOK DEF Complete
<1>3. /\ m \in Message /\ calls[e] \in Seq(Entry) /\ c \in Entry /\ inbox[e] \in Queue
  BY <1>1, <1>2 DEF QueuesOK, Queue
<1> DEFINE gone(v) == v = "continue" /\ c.issued + Timeout > clock
           kept(v) == IF gone(v) THEN Without(calls[e], i) ELSE calls[e]
           next(v) == <<p[1], IF gone(v) THEN i ELSE i + 1>>
<1>4. PICK v \in Verdicts :
        /\ \/ /\ e \in Callers
              /\ \E name \in Served :
                   /\ Place(e, name, TRUE, kept(v))
                   /\ Outcome(e, v, next(v), Posted(e, Command(name, seqNum[e])))
           \/ /\ calls' = [calls EXCEPT ![e] = kept(v)]
              /\ Outcome(e, v, next(v), inbox)
              /\ UNCHANGED <<seqNum, asked, sent>>
        /\ ran' = [ran EXCEPT ![e] = @ \cup {[seq |-> c.seq, own |-> m.answer /\ m.num = c.seq,
                                             content |-> v = "continue"]}]
        /\ settled' = [settled EXCEPT ![e] = IF gone(v) THEN @ \cup {c.seq} ELSE @]
  BY DEF Complete
<1>5. UNCHANGED <<listeners, clock, told, late>>
  BY DEF Complete
<1> DEFINE g == gone(v)
           k == kept(v)
           nx == next(v)
           s == IF g THEN settled[e] \cup {c.seq} ELSE settled[e]
           r == [seq |-> c.seq, own |-> m.answer /\ m.num = c.seq, content |-> v = "continue"]
<1>6. nx \in Walks
  <2>1. i \in 1..(MaxCalls + MaxLate + Cardinality(Names) + 2)
        /\ i + 1 \in 1..(MaxCalls + MaxLate + Cardinality(Names) + 2)
    <3> DEFINE l == Len(calls[e])
    <3>1. l \in Nat /\ i \in 1..l
      BY <1>2, <1>3
    <3>2. l < seqNum[e] /\ seqNum[e] \in 1..(MaxCalls + 1)
      BY <1>1 DEF NumbersOK, Waiting, CountersOK
    <3> HIDE DEF l
    <3> QED BY <3>1, <3>2, SizesOK
  <2> QED BY <2>1, <1>2 DEF Walks
<1>7. Waiting(calls[e], seqNum[e], asked[e], settled[e]) /\ seqNum[e] \in Nat
  BY <1>1, SizesOK DEF NumbersOK, CountersOK
<1>8. c.seq \in asked[e] /\ Waiting(k, seqNum[e], asked[e], s)
  <2>1. c.seq \in asked[e] /\ Waiting(Without(calls[e], i), seqNum[e], asked[e], settled[e] \cup {c.seq})
    BY <1>2, <1>7, SettleOK
  <2> QED BY <2>1, <1>7
<1> HIDE DEF m, i, k, g, nx, next, kept
<1>9. walk \in [End -> Walks] /\ inbox \in [End -> Queue]
  BY <1>1 DEF WalkOK, Walks, QueuesOK
<1>10. PICK queues \in [End -> Queue] :
          /\ Outcome(e, v, nx, queues)
          /\ OneCaller => \A d \in Callers : Answers(queues[d])
          /\ seqNum' \in [End -> 1..(MaxCalls + 1)]
          /\ calls' \in [End -> Seq(Entry)] /\ asked' \in [End -> SUBSET (1..MaxCalls)]
          /\ Waiting(calls'[e], seqNum'[e], asked'[e], s)
          /\ \A d \in End : d # e => /\ calls'[d] = calls[d] /\ seqNum'[d] = seqNum[d]
                                     /\ asked'[d] = asked[d]
  <2>1. ASSUME e \in Callers, NEW name \in Served, Place(e, name, TRUE, k),
               Outcome(e, v, nx, Posted(e, Command(name, seqNum[e])))
        PROVE  \E queues \in [End -> Queue] :
          /\ Outcome(e, v, nx, queues)
          /\ OneCaller => \A d \in Callers : Answers(queues[d])
          /\ seqNum' \in [End -> 1..(MaxCalls + 1)]
          /\ calls' \in [End -> Seq(Entry)] /\ asked' \in [End -> SUBSET (1..MaxCalls)]
          /\ Waiting(calls'[e], seqNum'[e], asked'[e], s)
          /\ \A d \in End : d # e => /\ calls'[d] = calls[d] /\ seqNum'[d] = seqNum[d]
                                     /\ asked'[d] = asked[d]
    <3> HIDE DEF s
    <3>1. /\ seqNum[e] \in 1..MaxCalls
          /\ seqNum' \in [End -> 1..(MaxCalls + 1)]
          /\ calls' \in [End -> Seq(Entry)] /\ asked' \in [End -> SUBSET (1..MaxCalls)]
          /\ Waiting(calls'[e], seqNum'[e], asked'[e], s)
          /\ \A d \in End : d # e => /\ calls'[d] = calls[d] /\ seqNum'[d] = seqNum[d]
                                     /\ asked'[d] = asked[d]
      BY <2>1, <1>1, <1>8, PlaceOK
    <3> DEFINE cmd == Command(name, seqNum[e])
               qs == Posted(e, cmd)
    <3>2. cmd \in Message
      BY <3>1, MessagesOK
    <3> HIDE DEF cmd
    <3>3. qs \in [End -> Queue]
      BY <1>9, <3>2, PostedOK
    <3>4. OneCaller => \A d \in Callers : Answers(qs[d])
      BY <2>1, <3>2, CommandedOK
    <3> HIDE DEF qs
    <3>5. Outcome(e, v, nx, qs)
      BY <2>1 DEF qs, cmd
    <3> QED BY <3>1, <3>3, <3>4, <3>5
  <2>2. ASSUME calls' = [calls EXCEPT ![e] = k], Outcome(e, v, nx, inbox),
               UNCHANGED <<seqNum, asked, sent>>
        PROVE  /\ Outcome(e, v, nx, inbox)
               /\ OneCaller => \A d \in Callers : Answers(inbox[d])
               /\ seqNum' \in [End -> 1..(MaxCalls + 1)]
               /\ calls' \in [End -> Seq(Entry)] /\ asked' \in [End -> SUBSET (1..MaxCalls)]
               /\ Waiting(calls'[e], seqNum'[e], asked'[e], s)
               /\ \A d \in End : d # e => /\ calls'[d] = calls[d] /\ seqNum'[d] = seqNum[d]
                                          /\ asked'[d] = asked[d]
    <3>1. calls'[e] = k /\ \A d \in End : d # e => calls'[d] = calls[d]
      BY <2>2, <1>1 DEF QueuesOK
    <3>2. k \in Seq(Entry)
      BY <1>8 DEF Waiting
    <3>3. calls' \in [End -> Seq(Entry)]
      BY <3>2, <2>2, <1>1 DEF QueuesOK
    <3>4. Waiting(calls'[e], seqNum'[e], asked'[e], s)
      BY <3>1, <2>2, <1>8
    <3> QED BY <2>2, <3>1, <3>3, <3>4, <1>1 DEF CountersOK, HistoryOK, AnswersOK
  <2>3. \/ /\ e \in Callers
           /\ \E name \in Served : /\ Place(e, name, TRUE, k)
                                   /\ Outcome(e, v, nx, Posted(e, Command(name, seqNum[e])))
        \/ /\ calls' = [calls EXCEPT ![e] = k]
           /\ Outcome(e, v, nx, inbox)
           /\ UNCHANGED <<seqNum, asked, sent>>
    BY <1>4 DEF k, nx
  <2> HIDE DEF s
  <2>4. CASE e \in Callers /\ \E name \in Served :
               /\ Place(e, name, TRUE, k)
               /\ Outcome(e, v, nx, Posted(e, Command(name, seqNum[e])))
    BY <2>1, <2>4
  <2>5. CASE /\ calls' = [calls EXCEPT ![e] = k]
             /\ Outcome(e, v, nx, inbox)
             /\ UNCHANGED <<seqNum, asked, sent>>
    BY <2>2, <2>5, <1>9
  <2> QED BY <2>3, <2>4, <2>5
<1>11. /\ inbox' \in [End -> Queue]
       /\ \A d \in End : inbox'[d] = queues[d] \/ inbox'[d] = <<>>
       /\ WalkOK'
       /\ paused' \in [End -> BOOLEAN] /\ open' \in BOOLEAN /\ faults' \in 0..MaxFaults
  BY <1>1, <1>6, <1>9, <1>10, OutcomeOK DEF Walks
<1>12. QueuesOK' /\ CountersOK' /\ TablesOK'
  BY <1>1, <1>5, <1>10, <1>11 DEF QueuesOK, CountersOK, TablesOK
<1>13. settled'[e] = s /\ \A d \in End : d # e => settled'[d] = settled[d]
  BY <1>1, <1>4 DEF HistoryOK, g
<1>14. r \in Run
  <2>1. c.seq \in 1..MaxCalls /\ m.answer \in BOOLEAN
    BY <1>3 DEF Entry, Message, m
  <2> QED BY <2>1 DEF Run
<1>15. HistoryOK'
  <2>1. settled' \in [End -> SUBSET (1..MaxCalls)]
    <3>1. c.seq \in 1..MaxCalls
      BY <1>3 DEF Entry
    <3> QED BY <3>1, <1>1, <1>4 DEF HistoryOK
  <2>2. ran' \in [End -> SUBSET Run]
    <3>1. ran' = [ran EXCEPT ![e] = @ \cup {r}]
      BY <1>4
    <3> HIDE DEF r
    <3> QED BY <3>1, <1>1, <1>14 DEF HistoryOK
  <2> QED BY <2>1, <2>2, <1>10 DEF HistoryOK
<1>16. NumbersOK'
  <2> SUFFICES ASSUME NEW d \in End
               PROVE  Waiting(calls'[d], seqNum'[d], asked'[d], settled'[d])
    BY DEF NumbersOK
  <2>1. CASE d = e
    BY <2>1, <1>10, <1>13
  <2>2. CASE d # e
    BY <2>2, <1>1, <1>10, <1>13 DEF NumbersOK
  <2> QED BY <2>1, <2>2
<1>17. AnswersOK'
  <2> SUFFICES ASSUME OneCaller
               PROVE  /\ \A d \in Callers : Answers(inbox'[d])
                      /\ \A d \in End \ Callers : calls'[d] = <<>>
                      /\ OwnReplyOnly'
    BY DEF AnswersOK, OneCaller
  <2>1. e \in Callers
    <3>1. calls[e] # <<>>
      BY <1>2, <1>3
    <3> QED BY <3>1, <1>1 DEF AnswersOK
  <2>2. \A d \in Callers : Answers(inbox'[d])
    <3>1. Answers(<<>>)
      BY DEF Answers
    <3>2. Callers \subseteq End
      BY SizesOK
    <3> QED BY <3>1, <3>2, <1>10, <1>11
  <2>3. \A d \in End \ Callers : calls'[d] = <<>>
    BY <2>1, <1>1, <1>10 DEF AnswersOK
  <2>4. r.own
    <3>1. Answers(inbox[e])
      BY <2>1, <1>1 DEF AnswersOK
    <3>2. m.num # 0
      <4>1. c.seq \in 1..MaxCalls
        BY <1>3 DEF Entry
      <4>2. c.seq = m.num
        BY <1>2
      <4> HIDE DEF m, c
      <4> QED BY <4>1, <4>2, SizesOK
    <3>3. m.num # 0 => m.answer
      BY <3>1, <1>3, QueueOK DEF m
    <3> QED BY <3>2, <3>3, <1>2
  <2>5. OwnReplyOnly'
    <3>1. ran' = [ran EXCEPT ![e] = @ \cup {r}]
      BY <1>4
    <3> HIDE DEF r
    <3>2. ran'[e] = ran[e] \cup {r} /\ \A d \in End : d # e => ran'[d] = ran[d]
      BY <3>1, <1>1 DEF HistoryOK
    <3> QED BY <3>2, <2>4, <1>1 DEF AnswersOK, OwnReplyOnly
  <2> QED BY <2>2, <2>3, <2>5
<1> QED BY <1>11, <1>12, <1>15, <1>16, <1>17 DEF IndInv
\* A handler that serves a command sends its response, which is a reply.
LEMMA HandleOK ==
  ASSUME IndInv, NEW e \in End, inbox[e] # <<>>, NEW p \in Coming(e), Handle(e, p)
  PROVE  IndInv'
<1> DEFINE m == Head(inbox[e])
           responds == listeners[e].amf[p[2]].serves
           next == <<p[1], p[2] + 1>>
           queues == IF responds THEN Posted(e, Reply(m)) ELSE inbox
<1>1. QueuesOK /\ CountersOK /\ HistoryOK /\ TablesOK /\ WalkOK /\ NumbersOK /\ AnswersOK
  BY DEF IndInv
<1>2. m \in Message /\ inbox \in [End -> Queue] /\ walk \in [End -> Walks]
  BY <1>1 DEF QueuesOK, Queue, WalkOK, Walks
<1>3. UNCHANGED <<seqNum, calls, listeners, clock, told, late, asked, sent, ran, settled>>
  BY DEF Handle
<1>4. next \in Walks
  <2>1. p[1] \in 1..3 /\ p[2] \in DOMAIN listeners[e]["amf"]
    BY <1>1, ComingOK DEF Handle
  <2>2. listeners[e]["amf"] \in Seq(Listener)
        /\ Len(listeners[e]["amf"]) <= Cardinality(Names) + 1 + late
    BY <1>1 DEF TablesOK, Tables
  <2>3. late \in 0..MaxLate
    BY <1>1 DEF CountersOK
  <2>4. p[2] + 1 \in 1..(MaxCalls + MaxLate + Cardinality(Names) + 2)
    <3> DEFINE l == Len(listeners[e]["amf"])
    <3>1. l \in Nat /\ p[2] \in 1..l /\ l <= Cardinality(Names) + 1 + late
      BY <2>1, <2>2
    <3> HIDE DEF l
    <3> QED BY <3>1, <2>3, SizesOK, SMTT(30)
  <2> QED BY <2>1, <2>4 DEF Walks
<1>5. \/ /\ walk' = [walk EXCEPT ![e] = <<1, 1>>]
         /\ UNCHANGED <<inbox, paused, open, faults>>
      \/ \E v \in Verdicts : Outcome(e, v, next, queues)
  BY DEF Handle
<1>6. queues \in [End -> Queue] /\ (OneCaller => \A d \in Callers : Answers(queues[d]))
  <2>1. Reply(m) \in Message /\ Reply(m).answer
    BY <1>2, MessagesOK
  <2> DEFINE w == Reply(m)
             q == Posted(e, w)
  <2> HIDE DEF w
  <2>2. w \in Message /\ w.answer
    BY <2>1 DEF w
  <2>3. /\ q \in [End -> Queue]
        /\ \A d \in End : d # Peer(e) => q[d] = inbox[d]
        /\ Answers(inbox[Peer(e)]) => Answers(q[Peer(e)])
    BY <1>2, <2>2, PostedOK
  <2>4. Callers \subseteq End /\ (OneCaller => \A d \in Callers : Answers(inbox[d]))
    BY <1>1, SizesOK DEF AnswersOK
  <2> HIDE DEF q
  <2>5. OneCaller => \A d \in Callers : Answers(q[d])
    BY <2>3, <2>4
  <2> QED BY <1>2, <2>3, <2>4, <2>5 DEF q, w
<1> HIDE DEF queues, next
<1>7. /\ inbox' \in [End -> Queue]
      /\ OneCaller => \A d \in Callers : Answers(inbox'[d])
      /\ WalkOK'
      /\ paused' \in [End -> BOOLEAN] /\ open' \in BOOLEAN /\ faults' \in 0..MaxFaults
  <2>1. ASSUME NEW v \in Verdicts, Outcome(e, v, next, queues)
        PROVE  /\ inbox' \in [End -> Queue]
               /\ \A d \in End : inbox'[d] = queues[d] \/ inbox'[d] = <<>>
               /\ WalkOK'
               /\ paused' \in [End -> BOOLEAN] /\ open' \in BOOLEAN /\ faults' \in 0..MaxFaults
    BY <2>1, <1>1, <1>2, <1>4, <1>6, OutcomeOK DEF Walks
  <2>2. CASE \E v \in Verdicts : Outcome(e, v, next, queues)
    <3>1. Answers(<<>>) /\ Callers \subseteq End
      BY SizesOK DEF Answers
    <3> QED BY <2>1, <2>2, <3>1, <1>6
  <2>3. CASE walk' = [walk EXCEPT ![e] = <<1, 1>>] /\ UNCHANGED <<inbox, paused, open, faults>>
    <3>1. <<1, 1>> \in Walks
      BY SizesOK DEF Walks
    <3>2. walk' \in [End -> Walks]
      BY <3>1, <2>3, <1>2
    <3> QED BY <3>2, <2>3, <1>1, <1>2 DEF WalkOK, Walks, CountersOK, AnswersOK
  <2> QED BY <2>2, <2>3, <1>5
<1>8. QueuesOK' /\ CountersOK'
  BY <1>1, <1>3, <1>7 DEF QueuesOK, CountersOK
<1>9. HistoryOK' /\ TablesOK' /\ NumbersOK'
  BY <1>1, <1>3 DEF HistoryOK, TablesOK, NumbersOK
<1>10. AnswersOK'
  BY <1>1, <1>3, <1>7 DEF AnswersOK, OneCaller, OwnReplyOnly
<1> QED BY <1>7, <1>8, <1>9, <1>10 DEF IndInv

\* The message is dropped, or the input is cleared.
LEMMA FinishOK ==
  ASSUME IndInv, NEW e \in End, inbox[e] # <<>>, Finish(e)
  PROVE  IndInv'
<1>1. QueuesOK /\ CountersOK /\ HistoryOK /\ TablesOK /\ WalkOK /\ NumbersOK /\ AnswersOK
  BY DEF IndInv
<1>2. UNCHANGED <<seqNum, calls, listeners, paused, clock, told, late, faults, asked,
                  sent, ran, settled>>
      /\ walk' = [walk EXCEPT ![e] = <<1, 1>>]
  BY DEF Finish
<1>3. /\ inbox \in [End -> Queue] /\ walk \in [End -> Walks] /\ <<1, 1>> \in Walks
      /\ <<>> \in Queue /\ Answers(<<>>) /\ Tail(inbox[e]) \in Queue
      /\ Answers(inbox[e]) => Answers(Tail(inbox[e]))
  <2>1. inbox \in [End -> Queue] /\ walk \in [End -> Walks] /\ <<1, 1>> \in Walks
    BY <1>1, SizesOK DEF QueuesOK, WalkOK, Walks
  <2>2. /\ <<>> \in Queue /\ Answers(<<>>) /\ Tail(inbox[e]) \in Queue
        /\ Answers(inbox[e]) => Answers(Tail(inbox[e]))
    BY <2>1, QueueOK
  <2> QED BY <2>1, <2>2
<1>4. /\ inbox' \in [End -> Queue] /\ open' \in BOOLEAN
      /\ \A d \in End : Answers(inbox[d]) => Answers(inbox'[d])
  <2> DEFINE t == Tail(inbox[e])
  <2>1. inbox' = [inbox EXCEPT ![e] = <<>>] \/ inbox' = [inbox EXCEPT ![e] = t]
    BY DEF Finish
  <2>2. open' \in BOOLEAN
    BY <1>1 DEF Finish, CountersOK
  <2> HIDE DEF t
  <2>3. t \in Queue /\ (Answers(inbox[e]) => Answers(t))
    BY <1>3 DEF t
  <2> QED BY <2>1, <2>2, <2>3, <1>3
<1>5. walk' \in [End -> Walks]
  BY <1>2, <1>3
<1>6. QueuesOK' /\ CountersOK' /\ WalkOK'
  BY <1>1, <1>2, <1>4, <1>5 DEF QueuesOK, CountersOK, WalkOK, Walks
<1>7. HistoryOK' /\ TablesOK' /\ NumbersOK'
  BY <1>1, <1>2 DEF HistoryOK, TablesOK, NumbersOK
<1>8. AnswersOK'
  BY <1>1, <1>2, <1>4, SizesOK DEF AnswersOK, OneCaller, OwnReplyOnly
<1> QED BY <1>6, <1>7, <1>8 DEF IndInv

\* An application calls: the call is on the list before it is sent.
LEMMA CallOK ==
  ASSUME IndInv, NEW e \in End, Call(e)
  PROVE  IndInv'
<1>1. QueuesOK /\ CountersOK /\ HistoryOK /\ TablesOK /\ WalkOK /\ NumbersOK /\ AnswersOK
  BY DEF IndInv
<1>2. PICK name \in Served, wanted \in BOOLEAN :
        /\ Place(e, name, wanted, calls[e])
        /\ inbox' = Posted(e, Command(name, seqNum[e]))
  BY DEF Call
<1>3. UNCHANGED <<listeners, walk, paused, open, clock, told, late, faults, ran, settled>>
      /\ e \in Callers
  BY DEF Call
<1>4. Waiting(calls[e], seqNum[e], asked[e], settled[e])
  BY <1>1 DEF NumbersOK
<1>5. /\ seqNum[e] \in 1..MaxCalls
      /\ seqNum' \in [End -> 1..(MaxCalls + 1)]
      /\ calls' \in [End -> Seq(Entry)] /\ asked' \in [End -> SUBSET (1..MaxCalls)]
      /\ Waiting(calls'[e], seqNum'[e], asked'[e], settled[e])
      /\ \A d \in End : d # e => /\ calls'[d] = calls[d] /\ seqNum'[d] = seqNum[d]
                                 /\ asked'[d] = asked[d]
  BY <1>1, <1>2, <1>4, PlaceOK
<1> DEFINE cmd == Command(name, seqNum[e])
<1>6. cmd \in Message
  BY <1>5, MessagesOK
<1> HIDE DEF cmd
<1>7. inbox' = Posted(e, cmd) /\ inbox \in [End -> Queue]
  BY <1>1, <1>2 DEF cmd, QueuesOK
<1>8. inbox' \in [End -> Queue]
  BY <1>6, <1>7, PostedOK
<1>9. OneCaller => \A d \in Callers : Answers(inbox'[d])
  BY <1>3, <1>6, <1>7, CommandedOK
<1>10. QueuesOK' /\ CountersOK' /\ WalkOK' /\ TablesOK' /\ HistoryOK'
  BY <1>1, <1>3, <1>5, <1>8 DEF QueuesOK, CountersOK, WalkOK, TablesOK, HistoryOK
<1>11. NumbersOK'
  <2> SUFFICES ASSUME NEW d \in End
               PROVE  Waiting(calls'[d], seqNum'[d], asked'[d], settled'[d])
    BY DEF NumbersOK
  <2>1. CASE d = e
    BY <2>1, <1>3, <1>5
  <2>2. CASE d # e
    BY <2>2, <1>1, <1>3, <1>5 DEF NumbersOK
  <2> QED BY <2>1, <2>2
<1>12. AnswersOK'
  BY <1>1, <1>3, <1>5, <1>9 DEF AnswersOK, OneCaller, OwnReplyOnly
<1> QED BY <1>10, <1>11, <1>12 DEF IndInv

\* An application sends a message that is not a command.
LEMMA TellOK ==
  ASSUME IndInv, NEW e \in End, Tell(e)
  PROVE  IndInv'
<1>1. QueuesOK /\ CountersOK /\ HistoryOK /\ TablesOK /\ WalkOK /\ NumbersOK /\ AnswersOK
  BY DEF IndInv
<1>2. PICK m \in Tidings : inbox' = Posted(e, m)
  BY DEF Tell
<1>3. /\ told' \in 0..MaxTold
      /\ UNCHANGED <<seqNum, calls, listeners, walk, paused, open, clock, late, faults,
                     asked, sent, ran, settled>>
  BY <1>1, SizesOK DEF Tell, CountersOK
<1>4. m \in Message /\ m.num = 0
  BY MessagesOK
<1>5. inbox \in [End -> Queue] /\ Callers \subseteq End
  BY <1>1, SizesOK DEF QueuesOK
<1>6. /\ inbox' \in [End -> Queue]
      /\ \A d \in End : d # Peer(e) => inbox'[d] = inbox[d]
      /\ Answers(inbox[Peer(e)]) => Answers(inbox'[Peer(e)])
  BY <1>2, <1>4, <1>5, PostedOK
<1>7. OneCaller => \A d \in Callers : Answers(inbox'[d])
  BY <1>1, <1>5, <1>6 DEF AnswersOK
<1>8. QueuesOK' /\ CountersOK' /\ WalkOK' /\ TablesOK' /\ HistoryOK' /\ NumbersOK'
  BY <1>1, <1>3, <1>6 DEF QueuesOK, CountersOK, WalkOK, TablesOK, HistoryOK, NumbersOK
<1>9. AnswersOK'
  BY <1>1, <1>3, <1>7 DEF AnswersOK, OneCaller, OwnReplyOnly
<1> QED BY <1>8, <1>9 DEF IndInv

\* A table may grow as long as late grows with it.
LEMMA RegisterOK ==
  ASSUME IndInv, NEW e \in End, Register(e)
  PROVE  IndInv'
<1>1. QueuesOK /\ CountersOK /\ HistoryOK /\ TablesOK /\ WalkOK /\ NumbersOK /\ AnswersOK
  BY DEF IndInv
<1>2. PICK t \in {"msg", "amf", "usr"} :
        listeners' = [listeners EXCEPT ![e][t] = Append(@, Ear("any", "any", FALSE))]
  BY DEF Register
<1>3. /\ late \in Nat /\ late' = late + 1 /\ late' \in 0..MaxLate
      /\ UNCHANGED <<seqNum, calls, inbox, walk, paused, open, clock, told, faults,
                     asked, sent, ran, settled>>
  BY <1>1, SizesOK, SMTT(30) DEF Register, CountersOK
<1> DEFINE x == Ear("any", "any", FALSE)
<1>4. x \in Listener
  BY DEF Ear, Listener
<1> HIDE DEF x
<1>5. listeners \in [End -> Tables] /\ listeners[e] \in Tables
  BY <1>1 DEF TablesOK
<1> DEFINE old == listeners[e]
           new == [old EXCEPT ![t] = Append(old[t], x)]
<1>6. listeners' = [listeners EXCEPT ![e] = new]
  BY <1>2 DEF x
<1>7. /\ new \in Tables
      /\ \A u \in {"msg", "amf", "usr"} : Len(new[u]) = Len(old[u]) \/ Len(new[u]) = Len(old[u]) + 1
  <2>1. /\ old \in Tables
        /\ \A u \in {"msg", "amf", "usr"} : old[u] \in Seq(Listener)
    BY <1>5 DEF Tables
  <2> HIDE DEF old
  <2> DEFINE y == Append(old[t], x)
  <2>2. y \in Seq(Listener) /\ Len(y) = Len(old[t]) + 1
    BY <2>1, <1>4
  <2> HIDE DEF y
  <2>3. new = [old EXCEPT ![t] = y]
    BY DEF y
  <2>4. new \in Tables
    BY <2>1, <2>2, <2>3 DEF Tables
  <2>5. \A u \in {"msg", "amf", "usr"} : new[u] = IF u = t THEN y ELSE old[u]
    BY <2>1, <2>3 DEF Tables
  <2> HIDE DEF new
  <2> QED BY <2>2, <2>4, <2>5
<1>8. TablesOK'
  <2> HIDE DEF new
  <2>1. listeners'[e] = new /\ \A d \in End : d # e => listeners'[d] = listeners[d]
    BY <1>5, <1>6
  <2>2. listeners' \in [End -> Tables]
    BY <1>5, <1>6, <1>7
  <2> SUFFICES ASSUME NEW d \in End, NEW u \in {"msg", "amf", "usr"}
               PROVE  Len(listeners'[d][u]) <= Cardinality(Names) + 1 + late'
    BY <2>2 DEF TablesOK
  <2>3. Len(listeners'[d][u]) = Len(listeners[d][u]) \/ Len(listeners'[d][u]) = Len(listeners[d][u]) + 1
    BY <2>1, <1>7
  <2>4. Len(listeners[d][u]) <= Cardinality(Names) + 1 + late /\ Len(listeners[d][u]) \in Nat
    BY <1>1 DEF TablesOK, Tables
  <2> QED BY <2>3, <2>4, <1>3, SizesOK
<1>9. QueuesOK' /\ CountersOK' /\ WalkOK' /\ HistoryOK' /\ NumbersOK'
  BY <1>1, <1>3 DEF QueuesOK, CountersOK, WalkOK, HistoryOK, NumbersOK
<1>10. AnswersOK'
  BY <1>1, <1>3 DEF AnswersOK, OneCaller, OwnReplyOnly
<1> QED BY <1>8, <1>9, <1>10 DEF IndInv

\* A pause, the end of one, and the clock disturb nothing else.
LEMMA ResumedOK ==
  ASSUME IndInv, paused' \in [End -> BOOLEAN], clock' \in 0..MaxClock,
         UNCHANGED <<seqNum, calls, listeners, inbox, walk, open, told, late, faults,
                     asked, sent, ran, settled>>
  PROVE  IndInv'
<1>1. QueuesOK' /\ CountersOK' /\ WalkOK' /\ TablesOK' /\ HistoryOK' /\ NumbersOK'
  BY DEF IndInv, QueuesOK, CountersOK, WalkOK, TablesOK, HistoryOK, NumbersOK
<1>2. AnswersOK'
  BY DEF IndInv, AnswersOK, OneCaller, OwnReplyOnly
<1> QED BY <1>1, <1>2 DEF IndInv

\* Each action of either end keeps the inductive invariant.
LEMMA IndInvStep == IndInv /\ [Next]_vars => IndInv'
<1> SUFFICES ASSUME IndInv, [Next]_vars PROVE IndInv'
  OBVIOUS
<1>0. paused \in [End -> BOOLEAN] /\ clock \in 0..MaxClock
  BY DEF IndInv, CountersOK
<1>1. ASSUME NEW e \in End, Serve(e) PROVE IndInv'
  <2>1. inbox[e] # <<>>
    BY <1>1 DEF Serve
  <2>2. CASE \E p \in Coming(e) : Watch(e, p) \/ Complete(e, p) \/ Handle(e, p)
    BY <2>1, <2>2, WatchOK, CompleteOK, HandleOK
  <2>3. CASE Finish(e)
    BY <2>1, <2>3, FinishOK
  <2> QED BY <1>1, <2>2, <2>3 DEF Serve
<1>2. ASSUME NEW e \in End, Unpause(e) PROVE IndInv'
  <2>1. paused' \in [End -> BOOLEAN]
    BY <1>0, <1>2 DEF Unpause
  <2> QED BY <1>0, <1>2, <2>1, ResumedOK DEF Unpause
<1>3. CASE Tick
  <2>1. clock' \in 0..MaxClock
    BY <1>0, <1>3, SizesOK DEF Tick
  <2> QED BY <1>0, <1>3, <2>1, ResumedOK DEF Tick
<1>4. CASE UNCHANGED vars
  BY <1>0, <1>4, ResumedOK DEF vars
<1> QED BY <1>1, <1>2, <1>3, <1>4, CallOK, TellOK, RegisterOK DEF Next
\* A finite set is put into a sequence of as many members.
LEMMA SequencedOK ==
  ASSUME NEW S, IsFiniteSet(S)
  PROVE  SetToSeq(S) \in Seq(S) /\ Len(SetToSeq(S)) = Cardinality(S)
<1>1. Cardinality(S) \in Nat /\ ExistsBijection(1..Cardinality(S), S)
  BY FS_CardinalityType
<1>2. \E f \in [1..Cardinality(S) -> S] : IsInjective(f)
  BY <1>1 DEF ExistsBijection, Bijection, Injection
<1>3. SetToSeq(S) \in [1..Cardinality(S) -> S]
  BY <1>2 DEF SetToSeq
<1> QED BY <1>1, <1>3

\* Nothing was called and nothing is on its way.
LEMMA InitOK == Init => IndInv
<1> SUFFICES ASSUME Init PROVE IndInv
  OBVIOUS
<1> DEFINE ears == {Ear("cmd", n, n \in Served) : n \in Names}
           amf == SetToSeq(ears)
<1>1. ears \subseteq Listener /\ IsFiniteSet(ears) /\ Cardinality(ears) <= Cardinality(Names)
      /\ Cardinality(ears) \in Nat
  <2>1. ASSUME NEW n \in Names PROVE Ear("cmd", n, n \in Served) \in Listener
    <3> DEFINE b == n \in Served
    <3>1. b \in BOOLEAN
      OBVIOUS
    <3> HIDE DEF b
    <3>2. Ear("cmd", n, b) \in Listener
      BY <3>1 DEF Ear, Listener
    <3> QED BY <3>2 DEF b
  <2>2. IsFiniteSet(ears) /\ Cardinality(ears) <= Cardinality(Names)
    <3> DEFINE f == [l \in ears |-> l.name]
    <3>1. IsFiniteSet(Names)
      BY CallsAssumption
    <3>2. f \in [ears -> Names] /\ \A a, b \in ears : f[a] = f[b] => a = b
      BY DEF Ear
    <3>3. DOMAIN f = ears
      OBVIOUS
    <3> HIDE DEF ears, f
    <3>4. f \in Injection(ears, Names)
      BY <3>2, <3>3 DEF Injection, IsInjective
    <3> QED BY <3>1, <3>4, FS_Injection
  <2> QED BY <2>1, <2>2, FS_CardinalityType
<1>2. amf \in Seq(Listener) /\ Len(amf) <= Cardinality(Names)
  <2> HIDE DEF ears
  <2>1. amf \in Seq(ears) /\ Len(amf) = Cardinality(ears)
    BY <1>1, SequencedOK
  <2> QED BY <2>1, <1>1
<1> HIDE DEF amf
<1>3. /\ <<Ear("av", "any", FALSE)>> \in Seq(Listener) /\ Len(<<Ear("av", "any", FALSE)>>) = 1
      /\ <<Ear("any", "any", FALSE)>> \in Seq(Listener) /\ Len(<<Ear("any", "any", FALSE)>>) = 1
  BY DEF Ear, Listener
<1>4. TablesOK
  <2> DEFINE a == <<Ear("av", "any", FALSE)>>
             u == <<Ear("any", "any", FALSE)>>
             t == [msg |-> a, amf |-> amf, usr |-> u]
  <2>1. listeners = [e \in End |-> t] /\ late = 0
    BY DEF Init, amf
  <2>2. a \in Seq(Listener) /\ Len(a) = 1 /\ u \in Seq(Listener) /\ Len(u) = 1
    BY <1>3
  <2> HIDE DEF a, u
  <2>3. t \in Tables
    BY <2>2, <1>2 DEF Tables
  <2>4. \A x \in {"msg", "amf", "usr"} : Len(t[x]) <= Cardinality(Names) + 1
    <3>1. t["msg"] = a /\ t["amf"] = amf /\ t["usr"] = u
      OBVIOUS
    <3> DEFINE n == Cardinality(Names)
    <3>2. Len(a) <= n + 1 /\ Len(u) <= n + 1
      BY <2>2, SizesOK
    <3>3. Len(amf) <= n + 1
      <4> DEFINE l == Len(amf)
      <4>1. l \in Nat /\ n \in Nat /\ l <= n
        BY <1>2, SizesOK
      <4> HIDE DEF l, n
      <4>2. l <= n + 1
        BY <4>1
      <4> QED BY <4>2 DEF l
    <3> HIDE DEF t, n
    <3>4. \A x \in {"msg", "amf", "usr"} : Len(t[x]) <= n + 1
      BY <3>1, <3>2, <3>3
    <3> QED BY <3>4 DEF n
  <2> HIDE DEF t
  <2> QED BY <2>1, <2>3, <2>4, SizesOK DEF TablesOK
<1>5. QueuesOK /\ WalkOK
  <2>1. <<>> \in Queue
    BY SizesOK DEF Queue
  <2> QED BY <2>1, SizesOK DEF Init, QueuesOK, WalkOK
<1>6. CountersOK /\ HistoryOK
  BY SizesOK DEF Init, CountersOK, HistoryOK
<1>7. NumbersOK
  <2>1. Waiting(<<>>, 1, {}, {})
    BY DEF Waiting, Distinct, Nums
  <2> QED BY <2>1 DEF Init, NumbersOK
<1>8. AnswersOK
  BY SizesOK DEF Init, AnswersOK, Answers, OwnReplyOnly
<1> QED BY <1>4, <1>5, <1>6, <1>7, <1>8 DEF IndInv

\* The inductive invariant holds in every reachable state.
LEMMA Invariance == Spec => []IndInv
  BY InitOK, IndInvStep, PTL DEF Spec
-----------------------------------------------------------------------------
(* The theorems. *)

\* Every variable keeps its type, no direction holds more than its room, and the
\* walk never leaves the tables, however they grow while it is under way.
THEOREM TypeCorrect == Spec => []TypeOK
<1>1. IndInv => TypeOK
  <2> SUFFICES ASSUME IndInv PROVE TypeOK
    OBVIOUS
  <2>1. QueuesOK /\ CountersOK /\ TablesOK /\ WalkOK
    BY DEF IndInv
  <2>2. ASSUME NEW e \in End
        PROVE  /\ \A i \in DOMAIN calls[e] : calls[e][i] \in [seq : 1..MaxCalls, issued : 0..MaxClock]
               /\ ToSet(inbox[e]) \subseteq Message /\ Len(inbox[e]) <= Room
    <3>1. calls[e] \in Seq(Entry) /\ inbox[e] \in Seq(Message) /\ Len(inbox[e]) <= Room
      BY <2>1 DEF QueuesOK, Queue
    <3>2. ToSet(inbox[e]) \subseteq Message
      BY <3>1 DEF ToSet
    <3>3. \A i \in DOMAIN calls[e] : calls[e][i] \in Entry
      BY <3>1
    <3> QED BY <3>1, <3>2, <3>3 DEF Entry
  <2>3. ASSUME NEW e \in End, NEW t \in {"msg", "amf", "usr"}
        PROVE  ToSet(listeners[e][t]) \subseteq Listener
    <3>1. listeners[e][t] \in Seq(Listener)
      BY <2>1 DEF TablesOK, Tables
    <3> QED BY <3>1 DEF ToSet
  <2> QED BY <2>1, <2>2, <2>3 DEF CountersOK, WalkOK, TypeOK
<1> QED BY <1>1, Invariance, PTL

\* WaitingUntilSettled: a call waits exactly as long as its callback has not
\* accepted a reply in time, whatever the callbacks answer and issue on the way.
THEOREM WaitsUntilSettled == Spec => []WaitingUntilSettled
<1>1. IndInv => WaitingUntilSettled
  BY DEF IndInv, NumbersOK, Waiting, Nums, WaitingUntilSettled
<1> QED BY <1>1, Invariance, PTL

\* OwnReplyOnly where one end alone issues calls; CallsCrossed.cfg shows what
\* happens when both do.
THEOREM OneCallerIsAnswered == OneCaller => (Spec => []OwnReplyOnly)
<1> SUFFICES ASSUME OneCaller PROVE Spec => []OwnReplyOnly
  OBVIOUS
<1>1. IndInv => OwnReplyOnly
  BY DEF IndInv, AnswersOK
<1> QED BY <1>1, Invariance, PTL
=============================================================================

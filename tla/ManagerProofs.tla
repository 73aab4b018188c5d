--------------------------- MODULE ManagerProofs ---------------------------
(***************************************************************************)
(* For any number of connections, any sizes of buffers and sockets and any *)
(* number of failing handlers, pending output is armed between turns, and  *)
(* a connection that was aborted is closed with its output sent.  One      *)
(* lemma says what a service does to a connection, one per action that     *)
(* services says what that does to the invariant.                          *)
(***************************************************************************)
EXTENDS Manager, FiniteSetTheorems, SequenceTheorems, TLAPS

\* The counts of the environment; they bound what is on the wire.
SpentOK ==
    /\ spent \in [in : 0..MaxIn, sends : Nat, faults : Nat, leaves : Nat]
    /\ \A c \in Conn : wire[c] <= spent.in

\* Output is noted in the flags, and what is noted is watched, unless input is
\* not: g says whether an abort at a refresh has cleared it.
Fine(b, g) ==
    /\ b.out > 0 => "out" \in b.flags
    /\ "out" \in b.flags =>
         "out" \in b.armed \/ ("in" \notin b.flags /\ (b.in = InMax \/ g = "at refresh"))

\* A connection that is to be closed takes no input any more.
Drained(b) == b.closing => b.in = 0 /\ "in" \notin b.flags /\ "in" \notin b.armed

Watched == \A c \in Conn : life[c] # "closed" => Fine(conn[c], given[c])

\* No event that is still to be handled, and no copy of the flags that is still
\* to be used, brings the input of a closing connection back.
Closing ==
    \A c \in Conn : conn[c].closing =>
        /\ \A i \in DOMAIN batch : batch[i].conn = c => "in" \notin batch[i].events
        /\ turn.conn = c =>
             "in" \notin turn.todo /\ ("out" \in turn.todo => "in" \notin turn.e)

\* A round has one event for each connection, and hangs up on those only whose
\* peer has reset them.
RoundOK ==
    /\ \A i, j \in DOMAIN batch : batch[i].conn = batch[j].conn => i = j
    /\ \A i \in DOMAIN batch : batch[i].conn # turn.conn \/ turn = NoTurn
    /\ \A i \in DOMAIN batch :
         "hup" \in batch[i].events => batch[i].conn \in Conn /\ gone[batch[i].conn] = "reset"
    /\ "hup" \in turn.todo => turn.conn \in Conn /\ gone[turn.conn] = "reset"

IndInv ==
    /\ TypeOK
    /\ SpentOK
    /\ Watched
    /\ \A c \in Conn : Drained(conn[c])
    /\ Closing
    /\ RoundOK

USE ManagerAssumption

\* The assumptions on the bounds, typed for arithmetic.
LEMMA Sizes == InMax \in Nat \ {0} /\ OutMax \in Nat /\ SndMax \in Nat /\ MaxIn \in Nat
  OBVIOUS
USE Sizes
-----------------------------------------------------------------------------
(* What a service does. *)

\* stream_event: either nothing changes in what is watched, or the kernel
\* watches for all that is noted.
LEMMA NotifiedOK ==
  ASSUME NEW s \in Buffers, NEW events \in SUBSET Both
  PROVE  /\ Notified(s, events) \in Buffers
         /\ Notified(s, events).flags = s.flags \cup events
         /\ Notified(s, events).armed = IF events \subseteq s.flags THEN s.armed
                                        ELSE s.flags \cup events
         /\ Notified(s, events).in = s.in
         /\ Notified(s, events).out = s.out
         /\ Notified(s, events).closing = s.closing
  BY DEF Notified, Buffers

\* rtmp_chunk_conn_service, in terms of what was consumed and answered.
LEMMA ServicedOK ==
  ASSUME NEW s \in Buffers, NEW r \in Serviced(s)
  PROVE  /\ r.state \in Buffers
         /\ r.end \in {"done", "full", "fault", "abort"}
         /\ r.state.closing = s.closing
         /\ r.state.out > 0 => s.out > 0 \/ "out" \in r.state.flags
         /\ s.flags \subseteq r.state.flags
         /\ r.end = "abort" => r.state.in = 0
         /\ \/ r.state.armed = r.state.flags
            \/ /\ r.state.armed = s.armed /\ r.state.flags = s.flags
               /\ "in" \notin s.flags /\ r.end # "abort" => r.state.in = s.in
         /\ s.in = 0 => /\ r.end = "done" /\ r.state.in = 0
                        /\ r.state.armed = s.armed /\ r.state.flags = s.flags
<1>1. PICK k \in 0..s.in, x \in {0, 1}, end \in {"done", "full", "fault", "abort"} :
         /\ r = Outcome(s, k, x, end)
         /\ s.out + k + x <= OutMax
         /\ end = "done" => k = s.in /\ x = 0
         /\ end # "done" => k < s.in
  BY DEF Serviced
<1> DEFINE moved == [s EXCEPT !.in = IF end = "abort" THEN 0 ELSE @ - k, !.out = @ + k + x]
           events == (IF k > 0 THEN {"in"} ELSE {}) \cup (IF k + x > 0 THEN {"out"} ELSE {})
<1>2. r.state = Notified(moved, events) /\ r.end = end
  BY <1>1 DEF Outcome
<1>6. s.in \in 0..InMax /\ s.out \in 0..OutMax
  BY DEF Buffers
<1>3. moved \in Buffers /\ moved.flags = s.flags /\ moved.armed = s.armed
      /\ moved.closing = s.closing /\ moved.out = s.out + k + x
      /\ moved.in = IF end = "abort" THEN 0 ELSE s.in - k
  <2>1. s.out + k + x \in 0..OutMax
    BY <1>1, <1>6
  <2>2. (IF end = "abort" THEN 0 ELSE s.in - k) \in 0..InMax
    BY <1>6
  <2> QED BY <2>1, <2>2 DEF Buffers
<1>4. /\ events \in SUBSET Both
      /\ "in" \in events <=> k > 0
      /\ "out" \in events <=> k + x > 0
  BY DEF Both
<1> HIDE DEF moved, events
<1>5. /\ r.state \in Buffers /\ r.state.flags = s.flags \cup events
      /\ r.state.armed = IF events \subseteq s.flags THEN s.armed ELSE s.flags \cup events
      /\ r.state.in = moved.in /\ r.state.out = moved.out /\ r.state.closing = s.closing
  <2> DEFINE n == Notified(moved, events)
  <2>1. /\ n \in Buffers
        /\ n.flags = moved.flags \cup events
        /\ n.armed = IF events \subseteq moved.flags THEN moved.armed
                     ELSE moved.flags \cup events
        /\ n.in = moved.in
        /\ n.out = moved.out
        /\ n.closing = moved.closing
    BY <1>3, <1>4, NotifiedOK
  <2> HIDE DEF n
  <2> QED BY <2>1, <1>2, <1>3 DEF n
<1>7. r.state.out > 0 => s.out > 0 \/ "out" \in r.state.flags
  BY <1>3, <1>4, <1>5, <1>6
<1>8. r.end = "abort" => r.state.in = 0
  BY <1>2, <1>3, <1>5
<1>9. \/ r.state.armed = r.state.flags
      \/ /\ r.state.armed = s.armed /\ r.state.flags = s.flags
         /\ "in" \notin s.flags /\ r.end # "abort" => r.state.in = s.in
  <2>1. CASE events \subseteq s.flags
    <3>1. r.state.armed = s.armed /\ r.state.flags = s.flags
      BY <2>1, <1>5
    <3>2. "in" \notin s.flags => ~(k > 0)
      BY <2>1, <1>4
    <3> QED BY <3>1, <3>2, <1>2, <1>3, <1>5, <1>6
  <2>2. CASE ~(events \subseteq s.flags)
    BY <2>2, <1>5
  <2> QED BY <2>1, <2>2
<1>10. s.in = 0 => /\ r.end = "done" /\ r.state.in = 0
                   /\ r.state.armed = s.armed /\ r.state.flags = s.flags
  <2> SUFFICES ASSUME s.in = 0 PROVE r.end = "done" /\ r.state.in = 0 /\ events = {}
    BY <1>5
  <2>1. k = 0 /\ r.end = "done" /\ x = 0
    BY <1>1, <1>2
  <2> QED BY <2>1, <1>2, <1>3, <1>4, <1>5 DEF Both
<1> QED BY <1>2, <1>5, <1>7, <1>8, <1>9, <1>10

\* A service leaves a connection fine if an abort is known to be one at a refresh.
LEMMA ServicedFine ==
  ASSUME NEW s \in Buffers, NEW r \in Serviced(s), NEW g, NEW h, Fine(s, g),
         r.end = "abort" => h = "at refresh", r.end # "abort" => h = g
  PROVE  Fine(r.state, h)
<1>1. r.state.out > 0 => "out" \in r.state.flags
  BY ServicedOK DEF Fine
<1>2. ASSUME "out" \in r.state.flags, "out" \notin r.state.armed
      PROVE  "in" \notin r.state.flags /\ (r.state.in = InMax \/ h = "at refresh")
  <2>1. /\ r.state.armed = s.armed /\ r.state.flags = s.flags
        /\ "in" \notin s.flags /\ r.end # "abort" => r.state.in = s.in
    BY <1>2, ServicedOK
  <2>2. "in" \notin s.flags /\ (s.in = InMax \/ g = "at refresh")
    BY <2>1, <1>2 DEF Fine
  <2> QED BY <2>1, <2>2
<1> QED BY <1>1, <1>2 DEF Fine

\* A service leaves a connection that is to be closed drained.
LEMMA ServicedDrained ==
  ASSUME NEW s \in Buffers, NEW r \in Serviced(s), Drained(s)
  PROVE  Drained(r.state)
  BY ServicedOK DEF Drained
-----------------------------------------------------------------------------
(* Every action keeps the invariant. *)

\* No round runs, nothing is buffered, and every connection watches for input.
LEMMA InitOK == Init => IndInv
<1> SUFFICES ASSUME Init PROVE IndInv
  OBVIOUS
<1> USE DEF Init
<1>1. TypeOK
  <2>1. Created \in Buffers
    BY DEF Created, Buffers, Both
  <2>2. 0 \in 0..MaxIn /\ 0 \in 0..SndMax
    OBVIOUS
  <2>3. batch \in Seq(Events) /\ turn \in Turns \cup {NoTurn}
    OBVIOUS
  <2>4. conn \in [Conn -> Buffers]
    BY <2>1
  <2>5. wire \in [Conn -> 0..MaxIn] /\ snd \in [Conn -> 0..SndMax]
    BY <2>2
  <2> QED BY <2>3, <2>4, <2>5 DEF TypeOK
<1>2. SpentOK
  BY DEF SpentOK
<1>3. Watched
  BY DEF Watched, Fine, Created, Both
<1>4. Closing /\ \A c \in Conn : Drained(conn[c])
  BY DEF Closing, Drained, Created
<1>5. RoundOK
  BY DEF RoundOK, NoTurn
<1> QED BY <1>1, <1>2, <1>3, <1>4, <1>5 DEF IndInv

\* What epoll reports is finite, and has one event for each connection.
LEMMA PendingOK ==
  ASSUME TypeOK
  PROVE  /\ Pending \subseteq Events
         /\ IsFiniteSet(Pending)
         /\ \A p, q \in Pending : p.conn = q.conn => p = q
<1>1. \A c \in Conn : Ready(c) \subseteq {"hup", "in", "out"}
  BY DEF Ready
<1>2. Pending \subseteq Events
  BY <1>1 DEF Pending, Events
<1>3. \A p, q \in Pending : p.conn = q.conn => p = q
  BY DEF Pending, Listener
<1> DEFINE Of == [p \in Pending |-> p.conn]
<1>4. Of \in Injection(Pending, Conn \cup {Listener})
  BY <1>2, <1>3 DEF Injection, IsInjective, Events
<1>5. IsFiniteSet(Conn \cup {Listener})
  BY FS_AddElement
<1>6. IsFiniteSet(Pending)
  BY <1>4, <1>5, FS_Injection
<1> QED BY <1>2, <1>3, <1>6

\* epoll_wait reports the events that are pending.
LEMMA PollOK == ASSUME IndInv, Poll PROVE IndInv'
<1>1. TypeOK /\ turn = NoTurn
  BY DEF IndInv, Poll, Idle
<1>2. PICK n \in Nat : /\ batch' \in [1..n -> Pending]
                       /\ \A i, j \in 1..n : i # j => batch'[i] # batch'[j]
  BY <1>1, PendingOK, FS_CardinalityType DEF Poll, SetToSeqs
<1>3. /\ batch' \in Seq(Events) /\ DOMAIN batch' = 1..n
      /\ \A i \in 1..n : batch'[i] \in Pending
  BY <1>1, <1>2, PendingOK
<1>4. TypeOK' /\ SpentOK'
  BY <1>1, <1>3 DEF IndInv, Poll, TypeOK, SpentOK
<1>5. Watched' /\ \A c \in Conn : Drained(conn'[c])
  BY DEF IndInv, Poll, Watched
<1>6. ASSUME NEW i \in 1..n
      PROVE  \/ /\ batch'[i].conn \in Conn
                /\ batch'[i].events = Ready(batch'[i].conn)
             \/ batch'[i].conn = Listener /\ batch'[i].events = {"in"}
  BY <1>3 DEF Pending
<1>7. Closing'
  <2>1. ASSUME NEW c \in Conn, conn[c].closing, NEW i \in 1..n, batch'[i].conn = c
        PROVE  "in" \notin batch'[i].events
    <3>1. batch'[i].events = Ready(c)
      BY <1>6, <2>1 DEF Listener
    <3> QED BY <2>1, <3>1 DEF IndInv, Drained, Ready
  <2> QED BY <1>1, <1>3, <2>1 DEF Closing, Poll, NoTurn, Listener
<1>8. RoundOK'
  <2>1. \A i, j \in 1..n : batch'[i].conn = batch'[j].conn => i = j
    BY <1>1, <1>2, <1>3, PendingOK
  <2>2. \A i \in 1..n : "hup" \in batch'[i].events =>
                          batch'[i].conn \in Conn /\ gone[batch'[i].conn] = "reset"
    BY <1>6 DEF Ready
  <2> QED BY <1>1, <1>3, <2>1, <2>2 DEF RoundOK, Poll, NoTurn
<1> QED BY <1>4, <1>5, <1>7, <1>8 DEF IndInv

\* A round that goes on, or ends, keeps what is said of its events.
LEMMA RestOK ==
  ASSUME batch \in Seq(Events), Closing, RoundOK, batch # <<>>,
         batch' \in {<<>>, Tail(batch)}, turn = NoTurn, turn' = turn,
         UNCHANGED gone,
         \A c \in Conn : conn'[c].closing => conn[c].closing
  PROVE  Closing' /\ RoundOK'
<1>1. \A i \in DOMAIN batch' : i + 1 \in DOMAIN batch /\ batch'[i] = batch[i + 1]
  OBVIOUS
<1>2. DOMAIN batch' \subseteq Nat
  OBVIOUS
<1>3. Closing'
  BY <1>1 DEF Closing
<1>4. RoundOK'
  BY <1>1, <1>2, SMTT(30) DEF RoundOK
<1> QED BY <1>3, <1>4
\* handle_server: a waiting connection opens.
LEMMA AcceptOK == ASSUME IndInv, Accept PROVE IndInv'
<1>0. PICK c \in Waiting, content \in BOOLEAN :
         /\ life' = [life EXCEPT ![c] = "open"]
         /\ batch' = IF content THEN Tail(batch) ELSE <<>>
  BY DEF Accept
<1>1. /\ turn = NoTurn /\ batch # <<>>
      /\ UNCHANGED <<conn, wire, snd, gone, turn, refresh, due, spent, given>>
  BY DEF Accept
<1>2. TypeOK /\ batch \in Seq(Events)
      /\ life \in [Conn -> {"new", "waiting", "open", "closed"}] /\ c \in Conn
      /\ life[c] = "waiting"
  BY DEF IndInv, TypeOK, Waiting
<1>3. TypeOK'
  <2>1. batch' \in Seq(Events)
    BY <1>0, <1>1, <1>2
  <2>2. life' \in [Conn -> {"new", "waiting", "open", "closed"}]
    BY <1>0, <1>2
  <2> QED BY <1>1, <1>2, <2>1, <2>2 DEF TypeOK
<1>4. SpentOK' /\ \A d \in Conn : Drained(conn'[d])
  BY <1>1 DEF IndInv, SpentOK
<1>5. Watched'
  BY <1>0, <1>1, <1>2 DEF IndInv, Watched
<1>6. Closing' /\ RoundOK'
  BY <1>0, <1>1, <1>2, RestOK DEF IndInv
<1> QED BY <1>3, <1>4, <1>5, <1>6 DEF IndInv

\* A round comes to its next connection and copies its flags.
LEMMA TakeOK == ASSUME IndInv, Take PROVE IndInv'
<1> DEFINE c == Head(batch).conn
<1>1. /\ batch # <<>> /\ c # Listener /\ turn = NoTurn
      /\ turn' = [conn |-> c, todo |-> Head(batch).events, e |-> conn[c].flags]
      /\ batch' = Tail(batch)
      /\ UNCHANGED <<life, conn, wire, snd, gone, refresh, due, spent, given>>
  BY DEF Take
<1>2. TypeOK /\ batch \in Seq(Events) /\ conn \in [Conn -> Buffers]
  BY DEF IndInv, TypeOK
<1>3. Head(batch) \in Events /\ Head(batch) = batch[1] /\ 1 \in DOMAIN batch
      /\ batch' \in Seq(Events)
  BY <1>1, <1>2
<1>4. c \in Conn /\ conn[c] \in Buffers
  BY <1>1, <1>2, <1>3 DEF Events
<1>5. turn' \in Turns
  BY <1>1, <1>3, <1>4 DEF Turns, Events, Buffers
<1>6. TypeOK' /\ SpentOK'
  BY <1>1, <1>2, <1>3, <1>5 DEF IndInv, TypeOK, SpentOK
<1>7. Watched' /\ \A d \in Conn : Drained(conn'[d])
  BY <1>1 DEF IndInv, Watched
<1>8. \A i \in DOMAIN batch' : i + 1 \in DOMAIN batch /\ batch'[i] = batch[i + 1]
                              /\ i + 1 # 1
  BY <1>1, <1>2
<1>9. DOMAIN batch' \subseteq Nat
  BY <1>3
<1>10. Closing'
  <2>1. ASSUME NEW d \in Conn, conn[d].closing, NEW i \in DOMAIN batch', batch'[i].conn = d
        PROVE  "in" \notin batch'[i].events
    BY <1>8, <2>1 DEF IndInv, Closing
  <2>2. ASSUME conn[c].closing
        PROVE  "in" \notin turn'.todo /\ "in" \notin turn'.e
    BY <1>1, <1>3, <1>4, <2>2 DEF IndInv, Closing, Drained
  <2> QED BY <1>1, <1>4, <2>1, <2>2 DEF Closing
<1>11. RoundOK'
  <2>1. \A i \in DOMAIN batch' : batch'[i].conn # c
    BY <1>3, <1>8 DEF IndInv, RoundOK
  <2>2. "hup" \in turn'.todo => turn'.conn \in Conn /\ gone[turn'.conn] = "reset"
    BY <1>1, <1>3 DEF IndInv, RoundOK
  <2> QED BY <1>1, <1>8, <1>9, <2>1, <2>2 DEF IndInv, RoundOK
<1> QED BY <1>6, <1>7, <1>10, <1>11 DEF IndInv

\* One connection changes, and what is said of connections holds of its new state.
LEMMA ConnectionOK ==
  ASSUME TypeOK, Watched, \A d \in Conn : Drained(conn[d]),
         NEW c \in Conn, NEW b \in Buffers, NEW g \in {"no", "aborted", "at refresh"},
         conn' = [conn EXCEPT ![c] = b], given' = [given EXCEPT ![c] = g],
         \A d \in Conn : life[d] = "closed" => life'[d] = "closed",
         life'[c] # "closed" => Fine(b, g),
         Drained(b)
  PROVE  /\ Watched' /\ \A d \in Conn : Drained(conn'[d])
         /\ conn' \in [Conn -> Buffers]
         /\ given' \in [Conn -> {"no", "aborted", "at refresh"}]
<1>1. conn \in [Conn -> Buffers] /\ given \in [Conn -> {"no", "aborted", "at refresh"}]
  BY DEF TypeOK
<1>2. ASSUME NEW d \in Conn
      PROVE  (life'[d] # "closed" => Fine(conn'[d], given'[d])) /\ Drained(conn'[d])
  <2>1. CASE d = c
    BY <2>1, <1>1
  <2>2. CASE d # c
    BY <2>2, <1>1 DEF Watched
  <2> QED BY <2>1, <2>2
<1>3. conn' \in [Conn -> Buffers] /\ given' \in [Conn -> {"no", "aborted", "at refresh"}]
  BY <1>1
<1> QED BY <1>2, <1>3 DEF Watched

\* A turn that ends, with its round or without.
LEMMA TurnEnds ==
  ASSUME Closing, RoundOK, turn' = NoTurn, batch' \in {batch, <<>>}, UNCHANGED gone,
         turn = NoTurn \/ turn.conn \in Conn,
         \A d \in Conn : conn'[d].closing => conn[d].closing \/ turn.conn = d
  PROVE  Closing' /\ RoundOK'
<1>1. \A d \in Conn : turn'.conn # d
  BY DEF NoTurn, Listener
<1>2. ASSUME NEW d \in Conn, conn'[d].closing, NEW i \in DOMAIN batch', batch'[i].conn = d
      PROVE  "in" \notin batch'[i].events
  <2>1. i \in DOMAIN batch /\ batch' = batch
    BY <1>2
  <2>2. turn.conn # d
    BY <1>2, <2>1 DEF RoundOK, NoTurn, Listener
  <2> QED BY <1>2, <2>1, <2>2 DEF Closing
<1>3. Closing'
  BY <1>1, <1>2 DEF Closing
<1>4. RoundOK'
  BY DEF RoundOK, NoTurn
<1> QED BY <1>3, <1>4

\* A turn that goes on to its next part.
LEMMA TurnGoesOn ==
  ASSUME Closing, RoundOK, turn.conn \in Conn, turn'.conn = turn.conn,
         turn'.todo \subseteq turn.todo \cup {"service"}, turn'.e \subseteq turn.e,
         UNCHANGED <<batch, gone>>,
         \A d \in Conn : conn'[d].closing =>
             conn[d].closing \/ (turn.conn = d /\ turn'.todo = {"service"})
  PROVE  Closing' /\ RoundOK'
<1>1. turn # NoTurn
  BY DEF NoTurn, Listener
<1>2. ASSUME NEW d \in Conn, conn'[d].closing, NEW i \in DOMAIN batch', batch'[i].conn = d
      PROVE  "in" \notin batch'[i].events
  <2>1. turn.conn # d
    BY <1>1, <1>2 DEF RoundOK
  <2> QED BY <1>2, <2>1 DEF Closing
<1>3. ASSUME NEW d \in Conn, conn'[d].closing, turn.conn = d
      PROVE  "in" \notin turn'.todo /\ ("out" \in turn'.todo => "in" \notin turn'.e)
  BY <1>3 DEF Closing
<1>4. Closing'
  BY <1>2, <1>3 DEF Closing
<1>5. RoundOK'
  BY <1>1 DEF RoundOK
<1> QED BY <1>4, <1>5

\* What handlers that fail are counted by.
LEMMA SpentStays ==
  ASSUME SpentOK, NEW end, Spent(end), \A d \in Conn : wire'[d] \in Nat /\ wire'[d] <= wire[d],
         wire \in [Conn -> 0..MaxIn]
  PROVE  SpentOK'
<1>1. spent' \in [in : 0..MaxIn, sends : Nat, faults : Nat, leaves : Nat]
      /\ spent'.in = spent.in
  BY DEF SpentOK, Spent
<1> QED BY <1>1 DEF SpentOK

\* A turn is that of a connection.
LEMMA InTurn ==
  ASSUME TypeOK, turn # NoTurn
  PROVE  turn \in Turns /\ turn.conn \in Conn /\ conn[turn.conn] \in Buffers
  BY DEF TypeOK, Turns

\* What of TypeOK a turn leaves to show.
LEMMA TurnTypeOK ==
  ASSUME TypeOK, conn' \in [Conn -> Buffers], wire' \in [Conn -> 0..MaxIn],
         snd' \in [Conn -> 0..SndMax], turn' \in Turns \cup {NoTurn},
         given' \in [Conn -> {"no", "aborted", "at refresh"}],
         batch' \in {batch, <<>>}, UNCHANGED <<gone, refresh, due>>,
         \/ UNCHANGED life
         \/ \E c \in Conn : life' = [life EXCEPT ![c] = "closed"]
  PROVE  TypeOK' /\ \A d \in Conn : life[d] = "closed" => life'[d] = "closed"
<1>1. batch' \in Seq(Events)
  <2>1. batch \in Seq(Events)
    BY DEF TypeOK
  <2>2. <<>> \in Seq(Events)
    BY EmptySeq
  <2> QED BY <2>1, <2>2
<1>2. life \in [Conn -> {"new", "waiting", "open", "closed"}]
  BY DEF TypeOK
<1>3. life' \in [Conn -> {"new", "waiting", "open", "closed"}]
  BY <1>2
<1>4. \A d \in Conn : life[d] = "closed" => life'[d] = "closed"
  BY <1>2
<1> QED BY <1>1, <1>3, <1>4 DEF TypeOK

\* EPOLLHUP: the connection is closed and the round ends.
LEMMA HungUpOK == ASSUME IndInv, HungUp PROVE IndInv'
<1>1. TypeOK /\ turn.conn \in Conn
  BY InTurn DEF IndInv, HungUp
<1>2. /\ life' = [life EXCEPT ![turn.conn] = "closed"] /\ turn' = NoTurn /\ batch' = <<>>
      /\ UNCHANGED <<conn, wire, snd, gone, refresh, due, spent, given>>
  BY DEF HungUp, Fail
<1>3. TypeOK' /\ \A d \in Conn : life[d] = "closed" => life'[d] = "closed"
  BY <1>1, <1>2, TurnTypeOK DEF TypeOK
<1>4. SpentOK' /\ Watched' /\ \A d \in Conn : Drained(conn'[d])
  BY <1>2, <1>3 DEF IndInv, SpentOK, Watched
<1>5. Closing' /\ RoundOK'
  BY <1>1, <1>2, TurnEnds DEF IndInv
<1> QED BY <1>3, <1>4, <1>5 DEF IndInv

\* The turn of a connection ends when its events are handled.
LEMMA DoneTakingOK == ASSUME IndInv, DoneTaking PROVE IndInv'
<1>1. TypeOK /\ turn.conn \in Conn
  BY InTurn DEF IndInv, DoneTaking
<1>2. turn' = NoTurn /\ UNCHANGED <<life, conn, wire, snd, gone, batch, refresh, due, spent, given>>
  BY DEF DoneTaking
<1>3. TypeOK' /\ SpentOK' /\ Watched' /\ \A d \in Conn : Drained(conn'[d])
  BY <1>1, <1>2 DEF IndInv, SpentOK, Watched, TypeOK
<1>4. Closing' /\ RoundOK'
  BY <1>1, <1>2, TurnEnds DEF IndInv
<1> QED BY <1>3, <1>4 DEF IndInv

\* The socket takes output: only an emptied out buffer loses its flag.
LEMMA HandleOutOK == ASSUME IndInv, HandleOut PROVE IndInv'
<1> DEFINE c == turn.conn
           s == conn[c]
           quiet == [s EXCEPT !.flags = @ \ {"out"}, !.armed = turn.e \ {"out"}]
<1>1. /\ turn # NoTurn /\ "out" \in turn.todo
      /\ UNCHANGED <<wire, gone, refresh, due>>
  BY DEF HandleOut
<1>2. TypeOK /\ turn \in Turns /\ c \in Conn /\ s \in Buffers
  BY <1>1, InTurn DEF IndInv
<1>3. CASE Fail(c) /\ UNCHANGED <<conn, snd, spent, given>>
  <2>1. /\ life' = [life EXCEPT ![c] = "closed"] /\ turn' = NoTurn /\ batch' = <<>>
    BY <1>3 DEF Fail
  <2>2. TypeOK' /\ \A d \in Conn : life[d] = "closed" => life'[d] = "closed"
    BY <1>1, <1>2, <1>3, <2>1, TurnTypeOK DEF TypeOK
  <2>3. SpentOK' /\ Watched' /\ \A d \in Conn : Drained(conn'[d])
    BY <1>1, <1>3, <2>2 DEF IndInv, SpentOK, Watched
  <2>4. Closing' /\ RoundOK'
    BY <1>1, <1>2, <1>3, <2>1, TurnEnds DEF IndInv
  <2> QED BY <2>2, <2>3, <2>4 DEF IndInv
<1>4. ASSUME NEW n \in 0..s.out,
             IF s.out = 0 THEN ~s.closing
             ELSE n > 0 /\ snd[c] + n <= SndMax /\ gone[c] = "no",
             snd' = [snd EXCEPT ![c] = @ + n],
             NEW r \in Serviced(IF s.out = 0 THEN quiet ELSE Committed(s, n)),
             conn' = [conn EXCEPT ![c] = r.state],
             Spent(r.end),
             IF r.end = "abort"
             THEN Fail(c) /\ given' = [given EXCEPT ![c] = "aborted"]
             ELSE /\ turn' = [turn EXCEPT !.todo = @ \ {"out"},
                                          !.e = IF s.out = 0 THEN @ \ {"out"} ELSE @]
                  /\ UNCHANGED <<life, batch, given>>
      PROVE  IndInv'
  <2> DEFINE base == IF s.out = 0 THEN quiet ELSE Committed(s, n)
             g == IF r.end = "abort" THEN "aborted" ELSE given[c]
  <2>1. base \in Buffers /\ base.closing = s.closing
    <3>1. quiet \in Buffers /\ quiet.closing = s.closing
      BY <1>2 DEF Buffers, Turns
    <3>2. s.out - n \in 0..OutMax
      BY <1>2, <1>4 DEF Buffers
    <3>3. Committed(s, n) \in Buffers /\ Committed(s, n).closing = s.closing
      BY <3>2, <1>2 DEF Committed, Buffers
    <3> QED BY <3>1, <3>3
  <2>2. Drained(s) /\ (life[c] # "closed" => Fine(s, given[c]))
    BY <1>2 DEF IndInv, Watched
  <2>3. Drained(base)
    BY <1>2, <1>4, <2>2 DEF Drained, Committed, Buffers
  <2>4. ASSUME life[c] # "closed" PROVE Fine(base, given[c])
    <3>1. CASE s.out = 0
      BY <3>1, <1>2 DEF Fine, Buffers
    <3>2. CASE s.out # 0
      <4>1. base = [s EXCEPT !.out = @ - n] /\ (s.out - n > 0 => s.out > 0)
        BY <3>2, <1>2, <1>4 DEF Committed, Buffers
      <4>2. /\ base.out > 0 => s.out > 0
            /\ base.flags = s.flags /\ base.armed = s.armed /\ base.in = s.in
        BY <4>1, <1>2 DEF Buffers
      <4> QED BY <4>2, <2>2, <2>4 DEF Fine
    <3> QED BY <3>1, <3>2
  <2> HIDE DEF base
  <2>5. r.state \in Buffers /\ r.state.closing = s.closing /\ Drained(r.state)
    BY <1>4, <2>1, <2>3, ServicedOK, ServicedDrained DEF base
  <2>6. given' = [given EXCEPT ![c] = g] /\ g \in {"no", "aborted", "at refresh"}
    BY <1>2, <1>4 DEF TypeOK
  <2>7. life \in [Conn -> {"new", "waiting", "open", "closed"}]
    BY <1>2 DEF TypeOK
  <2>8. /\ \/ UNCHANGED life
           \/ life' = [life EXCEPT ![c] = "closed"]
        /\ r.end = "abort" => life'[c] = "closed"
    BY <1>4, <1>2, <2>7 DEF Fail
  <2>9. ASSUME life'[c] # "closed" PROVE Fine(r.state, g)
    <3>1. life[c] # "closed" /\ r.end # "abort"
      BY <1>2, <2>7, <2>8, <2>9
    <3> QED BY <3>1, <1>4, <2>1, <2>4, ServicedFine DEF base
  <2>10. /\ Watched' /\ \A d \in Conn : Drained(conn'[d])
         /\ conn' \in [Conn -> Buffers]
         /\ given' \in [Conn -> {"no", "aborted", "at refresh"}]
    <3>1. \A d \in Conn : life[d] = "closed" => life'[d] = "closed"
      BY <1>2, <2>7, <2>8
    <3> HIDE DEF g
    <3> QED BY <3>1, <1>2, <1>4, <2>5, <2>6, <2>9, ConnectionOK DEF IndInv
  <2>11. snd' \in [Conn -> 0..SndMax]
    <3>1. snd \in [Conn -> 0..SndMax] /\ s.out \in 0..OutMax
      BY <1>2 DEF TypeOK, Buffers
    <3>2. snd[c] + n \in 0..SndMax
      BY <3>1, <1>2, <1>4
    <3> QED BY <3>1, <3>2, <1>4
  <2>12. turn' \in Turns \cup {NoTurn}
    <3>1. [turn EXCEPT !.todo = @ \ {"out"}, !.e = IF s.out = 0 THEN @ \ {"out"} ELSE @]
            \in Turns
      BY <1>2 DEF Turns
    <3> QED BY <3>1, <1>4 DEF Fail
  <2>13. TypeOK' /\ SpentOK'
    <3>1. batch' \in {batch, <<>>}
      BY <1>4 DEF Fail
    <3>2. wire \in [Conn -> 0..MaxIn] /\ wire' \in [Conn -> 0..MaxIn]
      BY <1>1, <1>2 DEF TypeOK
    <3>3. TypeOK'
      BY <3>1, <3>2, <1>1, <1>2, <2>8, <2>10, <2>11, <2>12, TurnTypeOK
    <3>4. SpentOK'
      BY <3>2, <1>1, <1>4, SpentStays DEF IndInv
    <3> QED BY <3>3, <3>4
  <2>14. \A d \in Conn : conn'[d].closing => conn[d].closing
    BY <1>2, <1>4, <2>5 DEF TypeOK
  <2>15. Closing' /\ RoundOK'
    <3>1. CASE r.end = "abort"
      BY <3>1, <1>1, <1>2, <1>4, <2>14, TurnEnds DEF IndInv, Fail
    <3>2. CASE r.end # "abort"
      <4>1. /\ turn'.conn = c /\ turn'.todo \subseteq turn.todo /\ turn'.e \subseteq turn.e
            /\ UNCHANGED <<batch, gone>>
        <5>1. turn' = [turn EXCEPT !.todo = @ \ {"out"},
                                   !.e = IF s.out = 0 THEN @ \ {"out"} ELSE @]
          BY <3>2, <1>4
        <5> QED BY <3>2, <5>1, <1>1, <1>2, <1>4 DEF Turns
      <4> QED BY <4>1, <1>2, <2>14, TurnGoesOn DEF IndInv
    <3> QED BY <3>1, <3>2
  <2> QED BY <2>10, <2>13, <2>15 DEF IndInv
<1> QED BY <1>3, <1>4 DEF HandleOut

\* Service in the EPOLLIN part: what it does to the connection of the turn.
LEMMA ServiceInputOK ==
  ASSUME IndInv, NEW c \in Conn, NEW s \in Buffers, ServiceInput(c, s),
         Drained(s), life[c] # "closed" => Fine(s, given[c]),
         s.closing = conn[c].closing,
         UNCHANGED life
  PROVE  /\ Watched' /\ \A d \in Conn : Drained(conn'[d])
         /\ conn' \in [Conn -> Buffers]
         /\ given' \in [Conn -> {"no", "aborted", "at refresh"}]
         /\ \E end : Spent(end)
         /\ \A d \in Conn : conn'[d].closing => conn[d].closing \/ d = c
<1>1. PICK r \in Serviced(s) :
        /\ conn' = [conn EXCEPT ![c] =
             IF r.end # "abort" THEN r.state
             ELSE [r.state EXCEPT !.closing = TRUE, !.flags = {"out"}, !.armed = {"out"}]]
        /\ Spent(r.end)
        /\ given' = [given EXCEPT ![c] = IF r.end = "abort" THEN "aborted" ELSE @]
  BY DEF ServiceInput
<1> DEFINE b == IF r.end # "abort" THEN r.state
                ELSE [r.state EXCEPT !.closing = TRUE, !.flags = {"out"}, !.armed = {"out"}]
           g == IF r.end = "abort" THEN "aborted" ELSE given[c]
<1>2. TypeOK /\ given \in [Conn -> {"no", "aborted", "at refresh"}]
  BY DEF IndInv, TypeOK
<1>3. r.state \in Buffers /\ Drained(r.state) /\ (r.end = "abort" => r.state.in = 0)
  BY ServicedOK, ServicedDrained
<1>4. b \in Buffers /\ g \in {"no", "aborted", "at refresh"}
  BY <1>2, <1>3 DEF Buffers, Both
<1>5. Drained(b)
  BY <1>3 DEF Drained, Buffers
<1>6. ASSUME life[c] # "closed" PROVE Fine(b, g)
  <2>1. CASE r.end = "abort"
    BY <2>1, <1>3 DEF Fine, Buffers
  <2>2. CASE r.end # "abort"
    BY <2>2, <1>6, ServicedFine
  <2> QED BY <2>1, <2>2
<1>7. conn' = [conn EXCEPT ![c] = b] /\ given' = [given EXCEPT ![c] = g]
  BY <1>1, <1>2
<1> HIDE DEF b, g
<1>8. /\ Watched' /\ \A d \in Conn : Drained(conn'[d])
      /\ conn' \in [Conn -> Buffers]
      /\ given' \in [Conn -> {"no", "aborted", "at refresh"}]
  BY <1>2, <1>4, <1>5, <1>6, <1>7, ConnectionOK DEF IndInv
<1>9. \A d \in Conn : conn'[d].closing => conn[d].closing \/ d = c
  BY <1>2, <1>7 DEF TypeOK
<1> QED BY <1>1, <1>8, <1>9

\* Input is received into the in buffer.
LEMMA HandleInOK == ASSUME IndInv, HandleIn PROVE IndInv'
<1> DEFINE c == turn.conn
           s == conn[c]
           quiet == [s EXCEPT !.flags = @ \ {"in"}, !.armed = turn.e \ {"in"}]
<1>1. turn # NoTurn /\ turn.todo = {"in"} /\ UNCHANGED <<snd, gone, refresh, due>>
  BY DEF HandleIn
<1>2. TypeOK /\ turn \in Turns /\ c \in Conn /\ s \in Buffers
  BY <1>1, InTurn DEF IndInv
<1>3. ~s.closing
  BY <1>1, <1>2 DEF IndInv, Closing
<1>4. CASE Fail(c) /\ UNCHANGED <<conn, wire, spent, given>>
  <2>1. /\ life' = [life EXCEPT ![c] = "closed"] /\ turn' = NoTurn /\ batch' = <<>>
    BY <1>4 DEF Fail
  <2>2. TypeOK' /\ \A d \in Conn : life[d] = "closed" => life'[d] = "closed"
    BY <1>1, <1>2, <1>4, <2>1, TurnTypeOK DEF TypeOK
  <2>3. SpentOK' /\ Watched' /\ \A d \in Conn : Drained(conn'[d])
    BY <1>4, <2>2 DEF IndInv, SpentOK, Watched
  <2>4. Closing' /\ RoundOK'
    BY <1>1, <1>2, <1>4, <2>1, TurnEnds DEF IndInv
  <2> QED BY <2>2, <2>3, <2>4 DEF IndInv
<1>5. turn' = [turn EXCEPT !.todo = {"service"}] =>
        /\ turn' \in Turns /\ turn'.conn = c
        /\ turn'.todo = {"service"} /\ turn'.e = turn.e
  BY <1>2 DEF Turns
<1>6. ASSUME s.in < InMax, NEW n \in 1..wire[c], s.in + n <= InMax,
             wire' = [wire EXCEPT ![c] = @ - n], conn' = [conn EXCEPT ![c].in = @ + n],
             turn' = [turn EXCEPT !.todo = {"service"}],
             UNCHANGED <<life, batch, spent, given>>
      PROVE  IndInv'
  <2> DEFINE b == [s EXCEPT !.in = @ + n]
  <2>0. s.in < InMax /\ s.in + n <= InMax /\ UNCHANGED spent
    BY <1>6
  <2>1. wire \in [Conn -> 0..MaxIn] /\ s.in \in 0..InMax /\ conn \in [Conn -> Buffers]
        /\ given \in [Conn -> {"no", "aborted", "at refresh"}]
    BY <1>2 DEF TypeOK, Buffers
  <2>2. b \in Buffers /\ b.flags = s.flags /\ b.armed = s.armed /\ b.out = s.out
        /\ b.closing = s.closing
    <3>1. s.in + n \in 0..InMax
      <4>1. s.in \in Nat
        BY <1>2 DEF Buffers
      <4> HIDE DEF s, c
      <4> QED BY <4>1, <2>0
    <3> QED BY <3>1, <1>2 DEF Buffers
  <2>3. conn' = [conn EXCEPT ![c] = b] /\ given' = [given EXCEPT ![c] = given[c]]
    BY <1>6, <2>1
  <2> HIDE DEF b
  <2>4. Drained(b)
    BY <1>3, <2>2 DEF Drained
  <2>5. life[c] # "closed" => Fine(b, given[c])
    <3> SUFFICES ASSUME life[c] # "closed" PROVE Fine(b, given[c])
      OBVIOUS
    <3>1. Fine(s, given[c]) /\ s.in # InMax
      <4>1. Fine(s, given[c])
        BY <1>2 DEF IndInv, Watched
      <4>2. s.in # InMax
        BY <2>0, <1>2 DEF Buffers
      <4> QED BY <4>1, <4>2
    <3> QED BY <3>1, <2>2 DEF Fine
  <2>6. /\ Watched' /\ \A d \in Conn : Drained(conn'[d])
        /\ conn' \in [Conn -> Buffers]
        /\ given' \in [Conn -> {"no", "aborted", "at refresh"}]
    <3>1. life' = life
      BY <1>6
    <3>2. given[c] \in {"no", "aborted", "at refresh"}
      BY <1>2, <2>1
    <3> QED BY <3>1, <3>2, <1>2, <2>2, <2>3, <2>4, <2>5, ConnectionOK DEF IndInv
  <2>7. /\ wire' \in [Conn -> 0..MaxIn]
        /\ \A d \in Conn : wire'[d] \in Nat /\ wire'[d] <= wire[d]
    <3>1. wire[c] - n \in 0..MaxIn /\ wire[c] - n <= wire[c]
      <4>1. wire[c] \in 0..MaxIn /\ n \in 1..wire[c]
        BY <2>1, <1>2
      <4> QED BY <4>1
    <3>2. wire' = [wire EXCEPT ![c] = wire[c] - n]
      BY <1>6
    <3>3. ASSUME NEW d \in Conn PROVE wire'[d] \in 0..MaxIn /\ wire'[d] <= wire[d]
      <4>1. CASE d = c
        BY <4>1, <3>1, <3>2, <2>1
      <4>2. CASE d # c
        <5>1. wire'[d] = wire[d] /\ wire[d] \in 0..MaxIn
          BY <4>2, <3>2, <2>1
        <5> QED BY <5>1
      <4> QED BY <4>1, <4>2
    <3>4. \A d \in Conn : wire'[d] \in Nat /\ wire'[d] <= wire[d]
      BY <3>3
    <3>5. wire' \in [Conn -> 0..MaxIn]
      BY <3>1, <3>2, <2>1
    <3> QED BY <3>4, <3>5
  <2>8. TypeOK'
    BY <1>1, <1>2, <1>5, <1>6, <2>6, <2>7, TurnTypeOK DEF TypeOK
  <2>9. SpentOK'
    <3>1. /\ spent' \in [in : 0..MaxIn, sends : Nat, faults : Nat, leaves : Nat]
          /\ \A d \in Conn : wire[d] <= spent'.in
      BY <2>0 DEF IndInv, SpentOK
    <3>2. \A d \in Conn : wire[d] \in Nat
      <4>1. wire \in [Conn -> 0..MaxIn]
        BY <2>1
      <4> QED BY <4>1
    <3> QED BY <3>1, <3>2, <2>7 DEF SpentOK
  <2>10. Closing' /\ RoundOK'
    <3>1. \A d \in Conn : conn'[d].closing => conn[d].closing
      BY <2>1, <2>2, <2>3
    <3> QED BY <3>1, <1>1, <1>2, <1>5, <1>6, TurnGoesOn DEF IndInv
  <2> QED BY <2>6, <2>8, <2>9, <2>10 DEF IndInv
<1>7. ASSUME s.in = InMax, ServiceInput(c, quiet), turn' = [turn EXCEPT !.todo = {"service"}],
             UNCHANGED <<life, batch, wire>>
      PROVE  IndInv'
  <2>1. quiet \in Buffers /\ quiet.closing = s.closing /\ quiet.in = s.in
        /\ quiet.out = s.out /\ quiet.flags = s.flags \ {"in"}
    BY <1>2 DEF Buffers, Turns
  <2> HIDE DEF quiet
  <2>2. Drained(quiet)
    BY <1>3, <2>1 DEF Drained
  <2>3. life[c] # "closed" => Fine(quiet, given[c])
    BY <1>2, <1>7, <2>1 DEF IndInv, Watched, Fine
  <2>4. /\ Watched' /\ \A d \in Conn : Drained(conn'[d])
        /\ conn' \in [Conn -> Buffers]
        /\ given' \in [Conn -> {"no", "aborted", "at refresh"}]
        /\ \E end : Spent(end)
        /\ \A d \in Conn : conn'[d].closing => conn[d].closing \/ d = c
    BY <1>2, <1>7, <2>1, <2>2, <2>3, ServiceInputOK
  <2>5. wire \in [Conn -> 0..MaxIn] /\ wire' \in [Conn -> 0..MaxIn]
        /\ \A d \in Conn : wire'[d] \in Nat /\ wire'[d] <= wire[d]
    <3>1. wire' = wire
      BY <1>7
    <3>2. wire \in [Conn -> 0..MaxIn]
      BY <1>2 DEF TypeOK
    <3>3. \A d \in Conn : wire[d] \in Nat /\ wire[d] <= wire[d]
      BY <3>2
    <3> QED BY <3>1, <3>2, <3>3
  <2>6. TypeOK'
    BY <1>1, <1>2, <1>5, <1>7, <2>4, <2>5, TurnTypeOK DEF TypeOK
  <2>7. SpentOK'
    BY <2>4, <2>5, SpentStays DEF IndInv
  <2>8. Closing' /\ RoundOK'
    BY <2>4, <1>1, <1>2, <1>5, <1>7, TurnGoesOn DEF IndInv
  <2> QED BY <2>4, <2>6, <2>7, <2>8 DEF IndInv
<1> QED BY <1>4, <1>6, <1>7 DEF HandleIn

\* The connection is serviced and its events set from the stale copy.
LEMMA HandleInputOK == ASSUME IndInv, HandleInput PROVE IndInv'
<1> DEFINE c == turn.conn
<1>1. /\ ServiceInput(c, conn[c]) /\ turn' = NoTurn /\ turn # NoTurn
      /\ UNCHANGED <<life, wire, snd, gone, batch, refresh, due>>
  BY DEF HandleInput, NoTurn
<1>2. TypeOK /\ c \in Conn /\ conn[c] \in Buffers
  BY <1>1, InTurn DEF IndInv
<1>3. /\ Watched' /\ \A d \in Conn : Drained(conn'[d])
      /\ conn' \in [Conn -> Buffers]
      /\ given' \in [Conn -> {"no", "aborted", "at refresh"}]
      /\ \E end : Spent(end)
      /\ \A d \in Conn : conn'[d].closing => conn[d].closing \/ d = c
  BY <1>1, <1>2, ServiceInputOK DEF IndInv, Watched
<1>4. wire \in [Conn -> 0..MaxIn] /\ wire' \in [Conn -> 0..MaxIn]
      /\ \A d \in Conn : wire'[d] \in Nat /\ wire'[d] <= wire[d]
  <2>1. wire' = wire /\ wire \in [Conn -> 0..MaxIn]
    BY <1>1, <1>2 DEF TypeOK
  <2>2. \A d \in Conn : wire[d] \in Nat /\ wire[d] <= wire[d]
    BY <2>1
  <2> QED BY <2>1, <2>2
<1>5. TypeOK'
  BY <1>1, <1>2, <1>3, <1>4, TurnTypeOK DEF TypeOK
<1>6. SpentOK'
  BY <1>3, <1>4, SpentStays DEF IndInv
<1>7. Closing' /\ RoundOK'
  BY <1>1, <1>2, <1>3, TurnEnds DEF IndInv
<1> QED BY <1>3, <1>5, <1>6, <1>7 DEF IndInv

\* Between rounds and in a refresh the events and the turn stay as they are.
LEMMA RoundStays ==
  ASSUME Closing, RoundOK, UNCHANGED <<batch, turn>>,
         \A d \in Conn : gone[d] = "reset" => gone'[d] = "reset",
         \A d \in Conn : conn'[d].closing => conn[d].closing
  PROVE  Closing' /\ RoundOK'
<1>1. Closing'
  BY DEF Closing
<1>2. RoundOK'
  BY DEF RoundOK
<1> QED BY <1>1, <1>2

\* A refresh services a connection and drops the result.
LEMMA RefreshOK == ASSUME IndInv, NEW c \in Conn, Refresh(c) PROVE IndInv'
<1>1. PICK r \in Serviced(conn[c]) :
        /\ conn' = [conn EXCEPT ![c] = r.state]
        /\ Spent(r.end)
        /\ given' = [given EXCEPT ![c] = IF r.end = "abort" THEN "at refresh" ELSE @]
  BY DEF Refresh
<1>2. refresh' \subseteq refresh /\ UNCHANGED <<life, wire, snd, gone, batch, turn, due>>
  BY DEF Refresh
<1> DEFINE g == IF r.end = "abort" THEN "at refresh" ELSE given[c]
<1>3. TypeOK /\ conn \in [Conn -> Buffers] /\ wire \in [Conn -> 0..MaxIn]
      /\ given \in [Conn -> {"no", "aborted", "at refresh"}]
  BY DEF IndInv, TypeOK
<1>4. conn[c] \in Buffers
  BY <1>3
<1>5. /\ r.state \in Buffers /\ r.state.closing = conn[c].closing
      /\ Drained(r.state)
  BY <1>4, ServicedOK, ServicedDrained DEF IndInv
<1>6. life[c] # "closed" => Fine(r.state, g)
  BY <1>4, ServicedFine DEF IndInv, Watched
<1>7. given' = [given EXCEPT ![c] = g] /\ g \in {"no", "aborted", "at refresh"}
  BY <1>1, <1>3
<1> HIDE DEF g
<1>8. /\ Watched' /\ \A d \in Conn : Drained(conn'[d])
      /\ conn' \in [Conn -> Buffers]
      /\ given' \in [Conn -> {"no", "aborted", "at refresh"}]
  <2>1. Watched /\ \A d \in Conn : Drained(conn[d])
    BY DEF IndInv
  <2>2. conn' = [conn EXCEPT ![c] = r.state] /\ life' = life
    BY <1>1, <1>2
  <2> QED BY <2>1, <2>2, <1>3, <1>5, <1>6, <1>7, ConnectionOK
<1>9. TypeOK'
  BY <1>2, <1>3, <1>8 DEF TypeOK
<1>10. SpentOK'
  <2>1. \A d \in Conn : wire[d] \in Nat /\ wire[d] <= wire[d]
    <3>1. wire \in [Conn -> 0..MaxIn]
      BY <1>3
    <3> QED BY <3>1
  <2> QED BY <2>1, <1>1, <1>2, <1>3, SpentStays DEF IndInv
<1>11. Closing' /\ RoundOK'
  BY <1>1, <1>2, <1>3, <1>5, RoundStays DEF IndInv
<1> QED BY <1>8, <1>9, <1>10, <1>11 DEF IndInv

\* A refresh begins with every connection that is open.
LEMMA BeginRefreshOK == ASSUME IndInv, BeginRefresh PROVE IndInv'
  BY RoundStays DEF IndInv, BeginRefresh, TypeOK, SpentOK, Watched

\* Time passes.
LEMMA ElapseOK == ASSUME IndInv, Elapse PROVE IndInv'
  BY RoundStays DEF IndInv, Elapse, TypeOK, SpentOK, Watched

\* A connection is opened or closed between rounds, and is as it was.
LEMMA LifeOK ==
  ASSUME IndInv, NEW c \in Conn, NEW now \in {"waiting", "open", "closed"},
         life[c] # "closed", life' = [life EXCEPT ![c] = now],
         UNCHANGED <<conn, wire, snd, gone, batch, turn, refresh, due, spent, given>>
  PROVE  IndInv'
<1>1. life \in [Conn -> {"new", "waiting", "open", "closed"}]
  BY DEF IndInv, TypeOK
<1>2. TypeOK' /\ SpentOK' /\ \A d \in Conn : Drained(conn'[d])
  BY <1>1 DEF IndInv, TypeOK, SpentOK
<1>3. Watched'
  BY <1>1 DEF IndInv, Watched
<1>4. Closing' /\ RoundOK'
  BY RoundStays DEF IndInv
<1> QED BY <1>2, <1>3, <1>4 DEF IndInv

\* The application sends between two rounds.
LEMMA SendOK == ASSUME IndInv, NEW c \in Conn, Send(c) PROVE IndInv'
<1> DEFINE full == [conn[c] EXCEPT !.out = @ + 1]
           b == Notified(full, {"out"})
<1>1. /\ conn[c].out < OutMax
      /\ conn' = [conn EXCEPT ![c] = b]
      /\ spent' = [spent EXCEPT !.sends = @ + 1]
      /\ UNCHANGED <<life, wire, snd, gone, batch, turn, refresh, due, given>>
  BY DEF Send
<1>2. TypeOK /\ conn \in [Conn -> Buffers] /\ conn[c] \in Buffers
      /\ given \in [Conn -> {"no", "aborted", "at refresh"}]
  BY DEF IndInv, TypeOK
<1>3. /\ full \in Buffers
      /\ full.flags = conn[c].flags /\ full.armed = conn[c].armed
      /\ full.in = conn[c].in /\ full.closing = conn[c].closing
  <2>1. conn[c].out \in 0..OutMax
    BY <1>2 DEF Buffers
  <2>2. conn[c].out + 1 \in 0..OutMax
    BY <2>1, <1>1
  <2> QED BY <2>2, <1>2 DEF Buffers
<1>4. given' = [given EXCEPT ![c] = given[c]]
  BY <1>1, <1>2
<1> HIDE DEF full
<1>5. /\ b \in Buffers
      /\ b.flags = conn[c].flags \cup {"out"}
      /\ b.armed = IF "out" \in conn[c].flags THEN conn[c].armed ELSE b.flags
      /\ b.in = conn[c].in /\ b.closing = conn[c].closing
  <2> DEFINE news == {"out"}
  <2>1. news \in SUBSET Both
    BY DEF Both
  <2> HIDE DEF news
  <2>2. /\ Notified(full, news) \in Buffers
        /\ Notified(full, news).flags = full.flags \cup news
        /\ Notified(full, news).armed = IF news \subseteq full.flags THEN full.armed
                                        ELSE full.flags \cup news
        /\ Notified(full, news).in = full.in
        /\ Notified(full, news).out = full.out
        /\ Notified(full, news).closing = full.closing
    BY <2>1, <1>3, NotifiedOK
  <2>3. b = Notified(full, news)
    BY DEF news
  <2> HIDE DEF b
  <2> QED BY <2>2, <2>3, <1>3 DEF news
<1> HIDE DEF b
<1>6. Drained(b)
  <2>1. Drained(conn[c])
    BY DEF IndInv
  <2> QED BY <2>1, <1>5 DEF Drained
<1>7. life[c] # "closed" => Fine(b, given[c])
  <2>1. life[c] # "closed" => Fine(conn[c], given[c])
    BY DEF IndInv, Watched
  <2> QED BY <2>1, <1>5 DEF Fine
<1>8. /\ Watched' /\ \A d \in Conn : Drained(conn'[d])
      /\ conn' \in [Conn -> Buffers]
      /\ given' \in [Conn -> {"no", "aborted", "at refresh"}]
  <2>1. given[c] \in {"no", "aborted", "at refresh"} /\ life' = life
    BY <1>1, <1>2
  <2> QED BY <2>1, <1>1, <1>2, <1>4, <1>5, <1>6, <1>7, ConnectionOK DEF IndInv
<1>9. TypeOK'
  BY <1>1, <1>2, <1>8 DEF TypeOK
<1>10. SpentOK'
  BY <1>1 DEF IndInv, SpentOK
<1>11. Closing' /\ RoundOK'
  <2>1. \A d \in Conn : conn'[d].closing => conn[d].closing
    BY <1>1, <1>2, <1>5
  <2> QED BY <2>1, <1>1, RoundStays DEF IndInv
<1> QED BY <1>8, <1>9, <1>10, <1>11 DEF IndInv

\* A peer sends, closes or resets.
LEMMA PeerOK == ASSUME IndInv, NEW c \in Conn, Peer(c) PROVE IndInv'
<1>1. UNCHANGED <<conn, batch, turn, refresh, due, given>>
  BY DEF Peer
<1>2. TypeOK /\ wire \in [Conn -> 0..MaxIn]
      /\ gone \in [Conn -> {"no", "closed", "reset"}]
  BY DEF IndInv, TypeOK
<1>3. CASE /\ life[c] = "new"
           /\ life' = [life EXCEPT ![c] = "waiting"]
           /\ UNCHANGED <<wire, snd, gone, spent>>
  BY <1>1, <1>3, LifeOK
<1>4. CASE /\ spent.in < MaxIn
           /\ wire' = [wire EXCEPT ![c] = @ + 1]
           /\ spent' = [spent EXCEPT !.in = @ + 1]
           /\ UNCHANGED <<life, snd, gone>>
  <2>1. /\ spent \in [in : 0..MaxIn, sends : Nat, faults : Nat, leaves : Nat]
        /\ \A d \in Conn : wire[d] <= spent.in
    BY DEF IndInv, SpentOK
  <2>2. spent.in + 1 \in 0..MaxIn
    BY <2>1, <1>4
  <2>3. spent' \in [in : 0..MaxIn, sends : Nat, faults : Nat, leaves : Nat]
        /\ spent'.in = spent.in + 1
    BY <2>1, <2>2, <1>4
  <2>4. ASSUME NEW d \in Conn PROVE wire'[d] \in 0..MaxIn /\ wire'[d] <= spent'.in
    <3>1. wire[d] \in 0..MaxIn /\ wire[d] <= spent.in
      BY <1>2, <2>1
    <3>2. wire'[d] = wire[d] + 1 \/ wire'[d] = wire[d]
      BY <1>2, <1>4
    <3>3. spent.in \in Nat /\ spent.in + 1 <= MaxIn
      BY <2>1, <2>2
    <3>4. wire'[d] \in Nat /\ wire'[d] <= spent.in + 1
      BY <3>1, <3>2, <3>3
    <3> QED BY <2>3, <3>3, <3>4
  <2>5. wire' \in [Conn -> 0..MaxIn]
    BY <2>4, <1>2, <1>4
  <2>6. TypeOK' /\ SpentOK'
    BY <1>1, <1>2, <1>4, <2>3, <2>4, <2>5 DEF TypeOK, SpentOK
  <2>7. Watched' /\ \A d \in Conn : Drained(conn'[d])
    BY <1>1, <1>4 DEF IndInv, Watched
  <2>8. Closing' /\ RoundOK'
    BY <1>1, <1>4, RoundStays DEF IndInv
  <2> QED BY <2>6, <2>7, <2>8 DEF IndInv
<1>5. ASSUME gone[c] = "no", NEW how \in {"closed", "reset"},
             gone' = [gone EXCEPT ![c] = how],
             spent' = [spent EXCEPT !.leaves = @ + 1], UNCHANGED <<life, wire, snd>>
      PROVE  IndInv'
  <2>1. TypeOK' /\ SpentOK'
    <3>1. gone' \in [Conn -> {"no", "closed", "reset"}]
      BY <1>2, <1>5
    <3>2. TypeOK'
      BY <3>1, <1>1, <1>2, <1>5 DEF TypeOK
    <3>3. SpentOK'
      BY <1>5 DEF IndInv, SpentOK
    <3> QED BY <3>2, <3>3
  <2>2. Watched' /\ \A d \in Conn : Drained(conn'[d])
    BY <1>1, <1>5 DEF IndInv, Watched
  <2>3. \A d \in Conn : gone[d] = "reset" => gone'[d] = "reset"
    BY <1>2, <1>5
  <2>4. Closing' /\ RoundOK'
    BY <1>1, <2>3, RoundStays DEF IndInv
  <2> QED BY <2>1, <2>2, <2>4 DEF IndInv
<1> QED BY <1>3, <1>4, <1>5 DEF Peer

\* A peer reads what its socket has.
LEMMA PeerReadsOK == ASSUME IndInv, NEW c \in Conn, PeerReads(c) PROVE IndInv'
<1>1. snd[c] > 0 /\ snd' = [snd EXCEPT ![c] = @ - 1]
      /\ UNCHANGED <<life, conn, wire, gone, batch, turn, refresh, due, spent, given>>
  BY DEF PeerReads
<1>2. snd' \in [Conn -> 0..SndMax]
  <2>1. snd \in [Conn -> 0..SndMax]
    BY DEF IndInv, TypeOK
  <2>2. snd[c] - 1 \in 0..SndMax
    BY <2>1, <1>1
  <2> QED BY <2>1, <2>2, <1>1
<1>3. TypeOK' /\ SpentOK' /\ Watched' /\ \A d \in Conn : Drained(conn'[d])
  BY <1>1, <1>2 DEF IndInv, TypeOK, SpentOK, Watched
<1>4. Closing' /\ RoundOK'
  BY <1>1, RoundStays DEF IndInv
<1> QED BY <1>3, <1>4 DEF IndInv

\* Every step keeps the invariant.
LEMMA IndInvStep == IndInv /\ [Next]_vars => IndInv'
<1> SUFFICES ASSUME IndInv, [Next]_vars PROVE IndInv'
  OBVIOUS
<1>1. CASE Handling
  BY <1>1, AcceptOK, TakeOK, HungUpOK, HandleOutOK, HandleInOK, HandleInputOK,
     DoneTakingOK, RefreshOK DEF Handling
<1>2. CASE Poll
  BY <1>2, PollOK
<1>3. CASE BeginRefresh \/ Elapse
  BY <1>3, BeginRefreshOK, ElapseOK
<1>4. ASSUME NEW c \in Conn, Connect(c) \/ Disconnect(c) PROVE IndInv'
  BY <1>4, LifeOK DEF Connect, Disconnect
<1>5. ASSUME NEW c \in Conn, Send(c) \/ Peer(c) \/ PeerReads(c) PROVE IndInv'
  BY <1>5, SendOK, PeerOK, PeerReadsOK
<1>6. CASE UNCHANGED vars
  BY <1>6, RoundStays
     DEF vars, IndInv, TypeOK, SpentOK, Watched
<1> QED BY <1>1, <1>2, <1>3, <1>4, <1>5, <1>6 DEF Next

\* The inductive invariant holds in every reachable state.
LEMMA Invariance == Spec => []IndInv
  BY InitOK, IndInvStep, PTL DEF Spec
-----------------------------------------------------------------------------
(* The theorems. *)

\* Every variable keeps its type: no buffer holds more than it has room for,
\* whatever its handlers answer and the peers send.
THEOREM TypeCorrect == Spec => []TypeOK
<1>1. IndInv => TypeOK
  BY DEF IndInv
<1> QED BY <1>1, Invariance, PTL

\* ArmedForOutput: between the turns of a connection that has output the kernel
\* watches for room in its socket, or its input is choked.
THEOREM OutputArmed == Spec => []ArmedForOutput
<1>1. IndInv => ArmedForOutput
  BY DEF IndInv, Watched, Fine, ArmedForOutput, Live, Choked
<1> QED BY <1>1, Invariance, PTL

\* FlushedBeforeClosed: what is closed by the manager after an abort has no
\* output left, unless its peer has gone.
THEOREM FlushedFirst == Spec => FlushedBeforeClosed
<1> DEFINE Flushed ==
      \A c \in Conn : conn[c].closing /\ turn.conn = c /\ gone[c] = "no"
                      /\ life[c] = "open" /\ life'[c] = "closed" => conn[c].out = 0
<1>1. ASSUME IndInv, [Next]_vars PROVE [Flushed]_vars
  <2> SUFFICES ASSUME NEW c \in Conn, conn[c].closing, turn.conn = c, gone[c] = "no",
                      life[c] = "open", life'[c] = "closed"
               PROVE  conn[c].out = 0
    OBVIOUS
  <2>1. TypeOK /\ life \in [Conn -> {"new", "waiting", "open", "closed"}]
        /\ conn[c] \in Buffers /\ turn # NoTurn /\ conn[c].in = 0
        /\ "in" \notin turn.todo
    <3>1. /\ TypeOK /\ Drained(conn[c]) /\ Closing
          /\ life \in [Conn -> {"new", "waiting", "open", "closed"}]
          /\ conn \in [Conn -> Buffers]
      BY <1>1 DEF IndInv, TypeOK
    <3>2. turn # NoTurn
      BY DEF NoTurn, Listener
    <3>3. conn[c].in = 0
      BY <3>1 DEF Drained
    <3>4. "in" \notin turn.todo
      BY <3>1 DEF Closing
    <3> QED BY <3>1, <3>2, <3>3, <3>4
  <2>2. CASE HungUp
    BY <2>1, <2>2, <1>1 DEF HungUp, IndInv, RoundOK
  <2>3. CASE HandleOut
    <3>1. CASE Closable(conn[c])
      BY <3>1 DEF Closable
    <3>2. CASE conn[c].out > 0 /\ gone[c] # "no"
      BY <3>2
    <3>3. ASSUME NEW n \in 0..conn[c].out,
                 IF conn[c].out = 0 THEN ~conn[c].closing
                 ELSE n > 0 /\ snd[c] + n <= SndMax /\ gone[c] = "no",
                 NEW r \in Serviced(Committed(conn[c], n)),
                 r.end = "abort"
          PROVE  FALSE
      <4> DEFINE s == Committed(conn[c], n)
      <4>1. s.in = 0 /\ s \in Buffers
        <5>1. conn[c].out \in 0..OutMax
          BY <2>1 DEF Buffers
        <5>2. conn[c].out - n \in 0..OutMax
          BY <5>1
        <5> QED BY <5>2, <2>1 DEF Committed, Buffers
      <4> HIDE DEF s
      <4>2. s.in = 0 => r.end = "done"
        BY <3>3, <4>1, ServicedOK DEF s
      <4> QED BY <4>1, <4>2, <3>3
    <3> QED BY <2>3, <2>1, <3>1, <3>2, <3>3 DEF HandleOut, Fail
  <2>4. CASE HandleIn \/ HandleInput \/ Accept \/ Take \/ DoneTaking
             \/ \E d \in Conn : Refresh(d)
    BY <2>1, <2>4 DEF HandleIn, HandleInput, Accept, Take, DoneTaking, Refresh, Waiting
  <2>5. CASE Poll \/ BeginRefresh \/ Elapse
    BY <2>5 DEF Poll, BeginRefresh, Elapse
  <2>6. ASSUME NEW d \in Conn,
               Connect(d) \/ Disconnect(d) \/ Send(d) \/ Peer(d) \/ PeerReads(d)
        PROVE  FALSE
    BY <2>1, <2>6 DEF Connect, Disconnect, Send, Peer, PeerReads, Idle
  <2>7. CASE UNCHANGED vars
    BY <2>7 DEF vars
  <2> QED BY <1>1, <2>2, <2>3, <2>4, <2>5, <2>6, <2>7 DEF Next, Handling
<1> QED BY <1>1, Invariance, PTL DEF Spec, FlushedBeforeClosed
=============================================================================

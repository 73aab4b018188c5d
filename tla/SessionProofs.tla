--------------------------- MODULE SessionProofs ---------------------------
(***************************************************************************)
(* For any number of calls, any windows and any room for answers: nothing  *)
(* is made or published for a client the application did not accept, the   *)
(* two ends agree on message streams, and, when nothing is under way, on   *)
(* each other's windows.                                                   *)
(***************************************************************************)
EXTENDS Session, SequenceTheorems, TLAPS

Calls == {"connect", "createStream", "releaseStream", "FCPublish", "publish"}
Asks == [kind : Calls \cup {"media"}, seq : Nat, id : Nat, app : Names \cup {"none"}]
Given == [kind : Answers, seq : Nat, id : Nat]
Upwards == Asks \cup Windows \cup {ChunkSize}
Downwards == Given \cup [kind : {"begin"}, id : Nat] \cup Windows \cup {ChunkSize}
Ends == {"client", "server"}
Watches == [self : 1..Window, peer : 0..Window, type : Types]

QueuesOK == up \in Seq(Upwards) /\ down \in Seq(Downwards) /\ Len(down) <= Room

ServerOK == server \in [app : Names \cup {"none"}, streams : Seq(Nat), next : Nat \ {0}]

\* A call has a number of its own, and media has none.
ClientOK ==
    /\ client \in [seq : 1..MaxCalls + 1, waiting : SUBSET [seq : 1..MaxCalls, op : Calls],
                   connected : BOOLEAN, ids : SUBSET Nat, ready : BOOLEAN]
    /\ spent \in [calls : 0..MaxCalls, astray : Nat, limits : Nat, faults : Nat, full : Nat]
    /\ client.seq <= spent.calls + 1
    /\ \A c \in client.waiting : c.seq < client.seq

EndsOK ==
    /\ win \in [Ends -> Watches]
    /\ life \in {"open", "closing", "closed", "crashed"}

\* The application is set before it is asked; that it refused ends the input.
AcceptedOK ==
    /\ life = "open" /\ server.app # "none" => accepted
    /\ AcceptedFirst

\* A stream's number is below the next one, and goes out in one answer.
Issued(m) == m.kind = "_result" /\ m.id # 0
Known == ToSet(down) \cup given
StreamsOK ==
    /\ \A id \in ToSet(server.streams) : id < server.next
    /\ \A m \in Known : Issued(m) => m.id \in ToSet(server.streams)
    /\ \A a, b \in Known : Issued(a) /\ Issued(b) /\ a.id = b.id => a = b
    /\ client.ids \subseteq ToSet(server.streams)

\* The one call that is numbered 1 does not make a stream if it connects.
Connects == client.seq > 1 /\ \A c \in client.waiting : c.seq = 1 => c.op # "createStream"
FirstOK ==
    /\ \A m \in ToSet(up) : m.kind = "connect" /\ m.seq = 1 => Connects
    /\ \A m \in ToSet(down) : m.kind = "_result" /\ m.id = 0 => m.seq = 1 /\ Connects

\* The last window under way in q is size; told is what was told if none is.
LastAck(q, size) ==
    \A i \in DOMAIN q : q[i].kind = "ack" /\ (\A j \in DOMAIN q : j > i => q[j].kind # "ack")
                          => q[i].size = size
NoAck(q) == \A i \in DOMAIN q : q[i].kind # "ack"
WindowsOK ==
    /\ LastAck(down, win["server"].self)
    /\ NoAck(down) => win["client"].peer = win["server"].self
    /\ life = "open" =>
         /\ LastAck(up, win["client"].self)
         /\ NoAck(up) => \/ win["server"].peer = win["client"].self
                         \/ win["server"].peer = 0 /\ win["client"].self = Window

IndInv ==
    /\ QueuesOK /\ ServerOK /\ ClientOK /\ EndsOK
    /\ AcceptedOK /\ StreamsOK /\ FirstOK /\ WindowsOK
USE SessionAssumption

\* The assumptions on the bounds, typed for arithmetic.
LEMMA Sizes == Window \in Nat \ {0} /\ Room \in Nat /\ Room >= 3 /\ MaxCalls \in Nat
  OBVIOUS
USE Sizes
-----------------------------------------------------------------------------
(* Queues of messages. *)

\* One message more at the end.
LEMMA AppendOK ==
  ASSUME NEW S, NEW q \in Seq(S), NEW m \in S
  PROVE  /\ Append(q, m) \in Seq(S)
         /\ Len(Append(q, m)) = Len(q) + 1
         /\ ToSet(Append(q, m)) = ToSet(q) \cup {m}
         /\ m.kind = "ack" => LastAck(Append(q, m), m.size) /\ ~NoAck(Append(q, m))
<1> DEFINE r == Append(q, m)
<1>1. /\ r \in Seq(S) /\ Len(r) = Len(q) + 1 /\ DOMAIN r = DOMAIN q \cup {Len(q) + 1}
      /\ r[Len(q) + 1] = m /\ \A i \in DOMAIN q : r[i] = q[i]
      /\ DOMAIN q = 1..Len(q) /\ Len(q) \in Nat
  OBVIOUS
<1> HIDE DEF r
<1>2. ToSet(r) = ToSet(q) \cup {m}
  BY <1>1 DEF ToSet
<1>3. m.kind = "ack" => LastAck(r, m.size) /\ ~NoAck(r)
  BY <1>1 DEF LastAck, NoAck
<1> QED BY <1>1, <1>2, <1>3 DEF r

\* And one that is no acknowledgement window.
LEMMA AppendOtherOK ==
  ASSUME NEW S, NEW q \in Seq(S), NEW m \in S, m.kind # "ack"
  PROVE  /\ NoAck(Append(q, m)) <=> NoAck(q)
         /\ \A size : LastAck(q, size) => LastAck(Append(q, m), size)
<1> DEFINE r == Append(q, m)
<1>1. /\ DOMAIN r = DOMAIN q \cup {Len(q) + 1} /\ r[Len(q) + 1] = m
      /\ \A i \in DOMAIN q : r[i] = q[i]
  OBVIOUS
<1> HIDE DEF r
<1>2. NoAck(r) <=> NoAck(q)
  BY <1>1 DEF NoAck
<1>3. ASSUME NEW size, LastAck(q, size) PROVE LastAck(r, size)
  BY <1>1, <1>3 DEF LastAck
<1> QED BY <1>2, <1>3 DEF r

\* One message less at the front.
LEMMA TailOK ==
  ASSUME NEW S, NEW q \in Seq(S), q # <<>>
  PROVE  /\ Tail(q) \in Seq(S) /\ Head(q) \in S
         /\ Len(Tail(q)) = Len(q) - 1
         /\ Head(q) \in ToSet(q) /\ ToSet(Tail(q)) \subseteq ToSet(q)
         /\ \A size : LastAck(q, size) =>
              /\ LastAck(Tail(q), size)
              /\ Head(q).kind = "ack" /\ NoAck(Tail(q)) => Head(q).size = size
         /\ Head(q).kind # "ack" /\ NoAck(Tail(q)) => NoAck(q)
<1> DEFINE r == Tail(q)
<1>1. /\ r \in Seq(S) /\ Head(q) \in S /\ Head(q) = q[1] /\ Len(r) = Len(q) - 1
      /\ DOMAIN q = 1..Len(q) /\ DOMAIN r = 1..Len(r) /\ Len(q) \in Nat \ {0}
      /\ \A i \in DOMAIN r : i + 1 \in DOMAIN q /\ r[i] = q[i + 1]
  OBVIOUS
<1> HIDE DEF r
<1>2. \A i \in DOMAIN q : i = 1 \/ (i - 1 \in DOMAIN r /\ q[i] = r[i - 1])
  BY <1>1
<1>3. ToSet(r) \subseteq ToSet(q) /\ Head(q) \in ToSet(q)
  BY <1>1 DEF ToSet
<1>4. ASSUME NEW size, LastAck(q, size) PROVE LastAck(r, size)
  <2> SUFFICES ASSUME NEW i \in DOMAIN r, r[i].kind = "ack",
                      \A j \in DOMAIN r : j > i => r[j].kind # "ack"
               PROVE  r[i].size = size
    BY DEF LastAck
  <2>1. i + 1 \in DOMAIN q /\ q[i + 1] = r[i]
    BY <1>1
  <2>2. ASSUME NEW j \in DOMAIN q, j > i + 1 PROVE q[j].kind # "ack"
    <3>1. j # 1 /\ j - 1 > i
      BY <2>2, <1>1
    <3>2. j - 1 \in DOMAIN r /\ q[j] = r[j - 1]
      BY <3>1, <1>2
    <3> QED BY <3>1, <3>2
  <2> QED BY <1>4, <2>1, <2>2 DEF LastAck
<1>5. ASSUME NEW size, LastAck(q, size), Head(q).kind = "ack", NoAck(r)
      PROVE  Head(q).size = size
  BY <1>1, <1>2, <1>5 DEF LastAck, NoAck
<1>6. Head(q).kind # "ack" /\ NoAck(r) => NoAck(q)
  BY <1>1, <1>2 DEF NoAck
<1> QED BY <1>1, <1>3, <1>4, <1>5, <1>6 DEF r

\* A send of messages of which none is an acknowledgement window.
LEMMA SentOK ==
  ASSUME NEW S, NEW q \in Seq(S), NEW out \in Seq(S), Len(q) <= Room, NoAck(out)
  PROVE  /\ Sent(q, out) \in Seq(S)
         /\ Len(Sent(q, out)) <= Room
         /\ ToSet(q) \subseteq ToSet(Sent(q, out))
         /\ ToSet(Sent(q, out)) \subseteq ToSet(q) \cup ToSet(out)
         /\ NoAck(Sent(q, out)) <=> NoAck(q)
         /\ \A size : LastAck(q, size) => LastAck(Sent(q, out), size)
<1> DEFINE k == Smaller(Len(out), Room - Len(q))
           x == SubSeq(out, 1, k)
           r == q \o x
<1>1. k \in Nat /\ k <= Len(out) /\ Len(q) + k <= Room /\ Len(q) \in Nat
  BY DEF Smaller
<1> HIDE DEF k
<1>2. x \in Seq(S) /\ Len(x) = k /\ \A i \in 1..k : x[i] = out[i] /\ i \in DOMAIN out
  BY <1>1
<1> HIDE DEF x
<1>3. /\ r \in Seq(S) /\ Len(r) = Len(q) + k
      /\ DOMAIN q = 1..Len(q) /\ DOMAIN r = 1..(Len(q) + k)
      /\ \A i \in 1..(Len(q) + k) : r[i] = IF i <= Len(q) THEN q[i] ELSE x[i - Len(q)]
  <2>1. /\ r \in Seq(S) /\ Len(r) = Len(q) + Len(x)
        /\ \A i \in 1..(Len(q) + Len(x)) : r[i] = IF i <= Len(q) THEN q[i] ELSE x[i - Len(q)]
    BY <1>2, ConcatProperties, Zenon
  <2> HIDE DEF r
  <2> QED BY <1>2, <2>1
<1> HIDE DEF r
<1>4. ASSUME NEW i \in DOMAIN r
      PROVE  \/ i \in DOMAIN q /\ r[i] = q[i]
             \/ i \notin DOMAIN q /\ i > Len(q) /\ \E n \in DOMAIN out : r[i] = out[n]
  <2>1. CASE i <= Len(q)
    BY <2>1, <1>1, <1>3
  <2>2. CASE ~(i <= Len(q))
    <3>1. i - Len(q) \in 1..k /\ r[i] = x[i - Len(q)]
      BY <2>2, <1>1, <1>3
    <3> QED BY <2>2, <3>1, <1>1, <1>2, <1>3, SMTT(30)
  <2> QED BY <2>1, <2>2
<1>8. \A i \in DOMAIN q : i \in DOMAIN r /\ r[i] = q[i] /\ i <= Len(q)
  BY <1>1, <1>3
<1>5. ToSet(q) \subseteq ToSet(r) /\ ToSet(r) \subseteq ToSet(q) \cup ToSet(out)
  BY <1>4, <1>8 DEF ToSet
<1>9. \A i \in DOMAIN r : i \notin DOMAIN q => r[i].kind # "ack"
  BY <1>4 DEF NoAck
<1>6. NoAck(r) <=> NoAck(q)
  BY <1>4, <1>8, <1>9 DEF NoAck
<1>7. ASSUME NEW size, LastAck(q, size) PROVE LastAck(r, size)
  <2> SUFFICES ASSUME NEW i \in DOMAIN r, r[i].kind = "ack",
                      \A j \in DOMAIN r : j > i => r[j].kind # "ack"
               PROVE  r[i].size = size
    BY DEF LastAck
  <2>1. i \in DOMAIN q /\ r[i] = q[i]
    BY <1>4, <1>9
  <2>2. \A j \in DOMAIN q : j > i => q[j].kind # "ack"
    BY <1>8
  <2> QED BY <1>7, <2>1, <2>2 DEF LastAck
<1> QED BY <1>1, <1>3, <1>5, <1>6, <1>7 DEF Sent, k, x, r
-----------------------------------------------------------------------------
(* What a handler of the server makes of a message. *)

Servers == [app : Names \cup {"none"}, streams : Seq(Nat), next : Nat \ {0}]
Answered == Given \cup [kind : {"begin"}, id : Nat]
Results == {"continue", "error", "abort", "crash"}

\* Nothing is made or published without an application, and an application is
\* set with the consent of its callback or the input ends; a stream gets the
\* next number, and its number goes out in the answer to this message.
EffectOK(r, m) ==
    /\ r.server \in Servers
    /\ r.out \in Seq(Answered) /\ NoAck(r.out)
    /\ r.status \in Results /\ r.otherwise \in Results /\ r.accepted \in BOOLEAN
    /\ r.server.app # server.app => r.accepted \/ r.status = "abort"
    /\ server.app = "none" => r.server.streams = server.streams /\ r.published = {}
    /\ \/ /\ r.server.streams = server.streams /\ r.server.next = server.next
          /\ \A x \in ToSet(r.out) : x.kind = "_result" =>
               x.id = 0 /\ x.seq = 1 /\ m.kind = "connect" /\ m.seq = 1
       \/ /\ r.server.streams = Append(server.streams, server.next)
          /\ r.server.next = server.next + 1
          /\ \A x \in ToSet(r.out) : x.kind = "_result" =>
               x = Answer("_result", m.seq, server.next)

\* At most two answers.
LEMMA FewOK ==
  ASSUME NEW a \in Answered, NEW b \in Answered, a.kind # "ack", b.kind # "ack"
  PROVE  /\ <<>> \in Seq(Answered) /\ NoAck(<<>>) /\ ToSet(<<>>) = {}
         /\ <<a>> \in Seq(Answered) /\ NoAck(<<a>>) /\ ToSet(<<a>>) = {a}
         /\ <<a, b>> \in Seq(Answered) /\ NoAck(<<a, b>>) /\ ToSet(<<a, b>>) = {a, b}
  BY DEF NoAck, ToSet

\* Answers are messages of the server.
LEMMA AnswerOK ==
  ASSUME NEW kind \in Answers, NEW seq \in Nat, NEW id \in Nat
  PROVE  /\ Answer(kind, seq, id) \in Answered /\ Begin(id) \in Answered
         /\ Answer(kind, seq, id).kind = kind /\ kind # "ack"
         /\ Answer(kind, seq, id).seq = seq /\ Answer(kind, seq, id).id = id
         /\ Begin(id).kind = "begin"
  BY DEF Answer, Begin, Answered, Given, Answers

\* A handler that makes no stream, with what it sends.
LEMMA RefusedOK ==
  ASSUME ServerOK, NEW m, NEW status \in Results, NEW out, NEW t,
         t = server \/ (status = "abort" /\ \E a \in Names : t = [server EXCEPT !.app = a]),
         out \in Seq(Answered), NoAck(out), \A x \in ToSet(out) : x.kind # "_result"
  PROVE  EffectOK(Refused(t, out, status), m)
<1> DEFINE r == Refused(t, out, status)
<1>1. /\ r.server = t /\ r.out = out /\ r.otherwise = status /\ r.status = status
      /\ r.accepted = FALSE /\ r.published = {}
  BY DEF Refused, Effect
<1>2. t \in Servers /\ t.streams = server.streams /\ t.next = server.next
      /\ (t.app # server.app => status = "abort")
  BY DEF ServerOK, Servers
<1> HIDE DEF r
<1> QED BY <1>1, <1>2 DEF EffectOK, r
\* What rtmp_server_onConnect does, whatever the application says.
LEMMA OnConnectOK ==
  ASSUME ServerOK, NEW m \in Asks, m.kind = "connect", NEW verdict
  PROVE  EffectOK(OnConnect(server, m, verdict), m)
<1> DEFINE t == [server EXCEPT !.app = m.app]
           no == <<Answer("_error", 1, 0)>>
           yes == <<Begin(0), Answer("_result", 1, 0)>>
<1>1. /\ no \in Seq(Answered) /\ NoAck(no) /\ \A x \in ToSet(no) : x.kind # "_result"
      /\ <<>> \in Seq(Answered) /\ NoAck(<<>>) /\ ToSet(<<>>) = {}
  <2> DEFINE a == Answer("_error", 1, 0)
  <2>1. a \in Answered /\ a.kind = "_error"
    BY AnswerOK DEF Answers
  <2> HIDE DEF a
  <2>2. /\ <<a>> \in Seq(Answered) /\ NoAck(<<a>>) /\ ToSet(<<a>>) = {a}
        /\ <<>> \in Seq(Answered) /\ NoAck(<<>>) /\ ToSet(<<>>) = {}
    BY <2>1, FewOK
  <2>3. no = <<a>>
    BY DEF a
  <2> HIDE DEF no
  <2> QED BY <2>1, <2>2, <2>3
<1>2. /\ yes \in Seq(Answered) /\ NoAck(yes)
      /\ \A x \in ToSet(yes) : x.kind = "_result" => x.id = 0 /\ x.seq = 1
  <2> DEFINE a == Begin(0)
             b == Answer("_result", 1, 0)
  <2>1. /\ a \in Answered /\ a.kind = "begin"
        /\ b \in Answered /\ b.kind = "_result" /\ b.id = 0 /\ b.seq = 1
    BY AnswerOK DEF Answers
  <2> HIDE DEF a, b
  <2>2. <<a, b>> \in Seq(Answered) /\ NoAck(<<a, b>>) /\ ToSet(<<a, b>>) = {a, b}
    BY <2>1, FewOK
  <2>3. yes = <<a, b>>
    BY DEF a, b
  <2> HIDE DEF yes
  <2> QED BY <2>1, <2>2, <2>3
<1> HIDE DEF no, yes
<1>3. CASE m.seq # 1
  <2>1. OnConnect(server, m, verdict) = Refused(server, <<>>, "abort")
    BY <1>3 DEF OnConnect
  <2> QED BY <2>1, <1>1, RefusedOK DEF Results
<1>4. CASE m.seq = 1 /\ (server.app # "none" \/ m.app \notin Apps)
  <2>1. OnConnect(server, m, verdict) = Refused(server, no, "abort")
    BY <1>4 DEF OnConnect, Rejected, no
  <2> QED BY <2>1, <1>1, RefusedOK DEF Results
<1>5. CASE m.seq = 1 /\ server.app = "none" /\ m.app \in Apps /\ verdict # "continue"
  <2>1. OnConnect(server, m, verdict) = Refused(t, no, "abort")
    BY <1>5 DEF OnConnect, Rejected, no
  <2> QED BY <2>1, <1>1, <1>5, RefusedOK DEF Results
<1>6. CASE m.seq = 1 /\ server.app = "none" /\ m.app \in Apps /\ verdict = "continue"
  <2> DEFINE r == [Effect(t, yes, "abort") EXCEPT !.accepted = TRUE]
  <2>1. OnConnect(server, m, verdict) = r
    BY <1>6 DEF OnConnect, yes
  <2>2. /\ r.server = t /\ r.out = yes /\ r.otherwise = "abort" /\ r.status = "continue"
        /\ r.accepted = TRUE /\ r.published = {}
    BY DEF Effect
  <2>3. t \in Servers /\ t.streams = server.streams /\ t.next = server.next
    BY <1>6 DEF ServerOK, Servers
  <2> HIDE DEF r, t
  <2> QED BY <2>1, <2>2, <2>3, <1>2, <1>6 DEF EffectOK, Results
<1> QED BY <1>3, <1>4, <1>5, <1>6

\* What rtmp_server_onCreateStream does: an id is given once.
LEMMA OnCreateStreamOK ==
  ASSUME ServerOK, NEW m \in Asks
  PROVE  EffectOK(OnCreateStream(server, m), m)
<1> DEFINE no == <<Answer("_error", m.seq, 0)>>
           yes == <<Answer("_result", m.seq, server.next), Begin(server.next)>>
<1>0. /\ m.seq \in Nat /\ server.next \in Nat /\ server.next # 0
      /\ server.next + 1 \in Nat \ {0}
  BY DEF Asks, ServerOK
<1>1. /\ no \in Seq(Answered) /\ NoAck(no) /\ \A x \in ToSet(no) : x.kind # "_result"
      /\ <<>> \in Seq(Answered) /\ NoAck(<<>>) /\ ToSet(<<>>) = {}
  <2> DEFINE a == Answer("_error", m.seq, 0)
  <2>1. a \in Answered /\ a.kind = "_error"
    BY <1>0 DEF Answer, Answered, Given, Answers
  <2> HIDE DEF a
  <2>2. /\ <<a>> \in Seq(Answered) /\ NoAck(<<a>>) /\ ToSet(<<a>>) = {a}
        /\ <<>> \in Seq(Answered) /\ NoAck(<<>>) /\ ToSet(<<>>) = {}
    BY <2>1, FewOK
  <2>3. no = <<a>>
    BY DEF a
  <2> HIDE DEF no
  <2> QED BY <2>1, <2>2, <2>3
<1>2. /\ yes \in Seq(Answered) /\ NoAck(yes)
      /\ \A x \in ToSet(yes) : x.kind = "_result" => x = Answer("_result", m.seq, server.next)
  <2> DEFINE a == Answer("_result", m.seq, server.next)
             b == Begin(server.next)
  <2>1. b \in Answered /\ b.kind = "begin"
    BY <1>0, AnswerOK DEF Answers
  <2>2. a \in Answered /\ a.kind = "_result" /\ a.id = server.next /\ a.seq = m.seq
    BY <1>0 DEF Answer, Answered, Given, Answers
  <2> HIDE DEF a, b
  <2>3. <<a, b>> \in Seq(Answered) /\ NoAck(<<a, b>>) /\ ToSet(<<a, b>>) = {a, b}
    BY <2>1, <2>2, FewOK
  <2>4. yes = <<a, b>>
    BY DEF a, b
  <2>5. a = Answer("_result", m.seq, server.next)
    BY DEF a
  <2> HIDE DEF yes
  <2> QED BY <2>1, <2>2, <2>3, <2>4, <2>5
<1> HIDE DEF no, yes
<1>3. CASE server.app = "none"
  <2>1. OnCreateStream(server, m) = Refused(server, <<>>, "error")
    BY <1>3 DEF OnCreateStream
  <2> QED BY <2>1, <1>1, RefusedOK DEF Results
<1>4. CASE /\ server.app # "none"
           /\ server.streams # <<>> /\ Last(server.streams) >= MaxStreams
  <2>1. OnCreateStream(server, m) = Refused(server, no, "error")
    BY <1>4 DEF OnCreateStream, no
  <2> QED BY <2>1, <1>1, RefusedOK DEF Results
<1>5. CASE /\ server.app # "none"
           /\ ~(server.streams # <<>> /\ Last(server.streams) >= MaxStreams)
  <2> DEFINE t == Created(server)
             r == Effect(t, yes, "error")
  <2>1. OnCreateStream(server, m) = r
    BY <1>5 DEF OnCreateStream, yes
  <2>2. /\ r.server = t /\ r.out = yes /\ r.otherwise = "error" /\ r.status = "continue"
        /\ r.accepted = FALSE /\ r.published = {}
    BY DEF Effect
  <2>3. /\ t \in Servers /\ t.app = server.app
        /\ t.streams = Append(server.streams, server.next) /\ t.next = server.next + 1
    <3>1. server \in Servers /\ Append(server.streams, server.next) \in Seq(Nat)
      BY <1>0 DEF ServerOK, Servers
    <3> QED BY <1>0, <3>1 DEF Servers, Created
  <2> HIDE DEF r, t
  <2> QED BY <2>1, <2>2, <2>3, <1>2, <1>5 DEF EffectOK, Results
<1> QED BY <1>3, <1>4, <1>5

\* The handlers that publish, and those that only ask the application.
LEMMA OnOthersOK ==
  ASSUME ServerOK, NEW m \in Asks, NEW verdict \in {"continue", "error", "abort"}
  PROVE  /\ EffectOK(OnPublish(server, m, verdict), m)
         /\ EffectOK(OnFCPublish(server, m, verdict), m)
         /\ EffectOK(OnReleaseStream(server, m, verdict), m)
         /\ EffectOK(OnMedia(server, m, verdict), m)
<1> DEFINE status == <<Answer("onStatus", m.seq, 1)>>
           fc == <<Answer("onFCPublish", m.seq, 0)>>
<1>0. m.seq \in Nat /\ verdict \in Results /\ "error" \in Results /\ "crash" \in Results
  BY DEF Asks, Results
<1>1. /\ <<>> \in Seq(Answered) /\ NoAck(<<>>) /\ ToSet(<<>>) = {}
      /\ status \in Seq(Answered) /\ NoAck(status)
      /\ \A x \in ToSet(status) : x.kind # "_result"
      /\ fc \in Seq(Answered) /\ NoAck(fc) /\ \A x \in ToSet(fc) : x.kind # "_result"
  <2> DEFINE a == Answer("onStatus", m.seq, 1)
             b == Answer("onFCPublish", m.seq, 0)
  <2>1. a \in Answered /\ a.kind = "onStatus" /\ b \in Answered /\ b.kind = "onFCPublish"
    BY <1>0, AnswerOK, SMTT(30) DEF Answers
  <2> HIDE DEF a, b
  <2>2. /\ <<a>> \in Seq(Answered) /\ NoAck(<<a>>) /\ ToSet(<<a>>) = {a}
        /\ <<b>> \in Seq(Answered) /\ NoAck(<<b>>) /\ ToSet(<<b>>) = {b}
        /\ <<>> \in Seq(Answered) /\ NoAck(<<>>) /\ ToSet(<<>>) = {}
    BY <2>1, FewOK
  <2>3. status = <<a>> /\ fc = <<b>>
    BY DEF a, b
  <2> HIDE DEF status, fc
  <2> QED BY <2>1, <2>2, <2>3
<1> HIDE DEF status, fc
<1>2. EffectOK(Refused(server, <<>>, verdict), m) /\ EffectOK(Refused(server, <<>>, "error"), m)
      /\ EffectOK(Refused(server, <<>>, "crash"), m)
  BY <1>0, <1>1, RefusedOK
<1>3. server.app # "none" => EffectOK([Effect(server, status, "error") EXCEPT !.published = {m.id}], m)
  <2> DEFINE r == [Effect(server, status, "error") EXCEPT !.published = {m.id}]
  <2>1. /\ r.server = server /\ r.out = status /\ r.otherwise = "error"
        /\ r.status = "continue" /\ r.accepted = FALSE
    BY DEF Effect
  <2> HIDE DEF r
  <2>2. server.app # "none" => EffectOK(r, m)
    BY <2>1, <1>1 DEF EffectOK, Results, ServerOK, Servers
  <2> QED BY <2>2 DEF r
<1>4. EffectOK(Effect(server, fc, "error"), m)
  <2> DEFINE r == Effect(server, fc, "error")
  <2>1. /\ r.server = server /\ r.out = fc /\ r.otherwise = "error"
        /\ r.status = "continue" /\ r.accepted = FALSE /\ r.published = {}
    BY DEF Effect
  <2> HIDE DEF r
  <2>2. EffectOK(r, m)
    BY <2>1, <1>1 DEF EffectOK, Results, ServerOK, Servers
  <2> QED BY <2>2 DEF r
<1> QED BY <1>2, <1>3, <1>4 DEF OnPublish, OnFCPublish, OnReleaseStream, OnMedia, status, fc

\* What the handler of any request does.
LEMMA HandledOK ==
  ASSUME ServerOK, NEW m \in Asks \cup {ChunkSize},
         NEW verdict \in {"continue", "error", "abort"}
  PROVE  EffectOK(Handled(m, verdict), m)
<1>1. CASE m \in Asks
  <2>1. m.kind \in Calls \cup {"media"}
    BY <1>1 DEF Asks
  <2> QED BY <1>1, <2>1, OnConnectOK, OnCreateStreamOK, OnOthersOK DEF Handled, Calls
<1>2. CASE m = ChunkSize
  <2> DEFINE r == Effect(server, <<>>, "continue")
  <2>1. Handled(m, verdict) = r
    BY <1>2 DEF Handled, ChunkSize
  <2>2. /\ r.server = server /\ r.out = <<>> /\ r.otherwise = "continue"
        /\ r.status = "continue" /\ r.accepted = FALSE /\ r.published = {}
    BY DEF Effect
  <2>3. <<>> \in Seq(Answered) /\ NoAck(<<>>) /\ ToSet(<<>>) = {}
    BY DEF NoAck, ToSet
  <2> HIDE DEF r
  <2> QED BY <2>1, <2>2, <2>3 DEF EffectOK, Results, ServerOK, Servers
<1> QED BY <1>1, <1>2
-----------------------------------------------------------------------------
(* Every action keeps the invariant. *)

\* What both ends sent before the first call.
LEMMA InitOK == Init => IndInv
<1> SUFFICES ASSUME Init PROVE IndInv
  OBVIOUS
<1>1. /\ up = <<ChunkSize>>
      /\ down = <<Ack(Window), Limit(Window, "dynamic"), ChunkSize>>
      /\ server = [app |-> "none", streams |-> <<>>, next |-> 1]
      /\ client = [seq |-> 1, waiting |-> {}, connected |-> FALSE, ids |-> {}, ready |-> FALSE]
      /\ win = [e \in {"client", "server"} |-> [self |-> Window, peer |-> 0, type |-> "hard"]]
      /\ life = "open"
      /\ spent = [calls |-> 0, astray |-> 0, limits |-> 0, faults |-> 0, full |-> 0]
      /\ accepted = FALSE /\ published = {} /\ given = {}
  BY DEF Init
<1> DEFINE a == Ack(Window)
           l == Limit(Window, "dynamic")
           z == ChunkSize
<1>2. /\ z \in Upwards /\ a \in Upwards /\ l \in Upwards
      /\ z \in Downwards /\ a \in Downwards /\ l \in Downwards
      /\ a.kind = "ack" /\ a.size = Window
      /\ l.kind = "limit" /\ z.kind = "chunkSize"
  <2>1. z \in Upwards /\ z \in Downwards /\ z.kind = "chunkSize"
    BY DEF Upwards, Downwards, ChunkSize
  <2>2. a \in Windows /\ l \in Windows
    BY DEF Windows, Types, Ack, Limit
  <2> QED BY <2>1, <2>2 DEF Upwards, Downwards, Ack, Limit
<1>9. up = <<z>> /\ down = <<a, l, z>>
  BY <1>1
<1> HIDE DEF a, l, z
<1>10. /\ up \in Seq(Upwards) /\ NoAck(up) /\ ToSet(up) = {z} /\ LastAck(up, Window)
  <2>1. up \in Seq(Upwards) /\ ToSet(up) = {z}
    BY <1>2, <1>9 DEF ToSet
  <2> QED BY <2>1, <1>2, <1>9 DEF NoAck, LastAck
<1>11. /\ down \in Seq(Downwards) /\ Len(down) = 3 /\ ToSet(down) = {a, l, z}
       /\ LastAck(down, Window) /\ ~NoAck(down)
  <2>1. down \in Seq(Downwards) /\ Len(down) = 3 /\ ToSet(down) = {a, l, z}
    BY <1>2, <1>9 DEF ToSet
  <2> QED BY <2>1, <1>2, <1>9 DEF NoAck, LastAck
<1>3. QueuesOK
  BY <1>10, <1>11 DEF QueuesOK
<1>4. ServerOK /\ ClientOK /\ EndsOK
  BY <1>1 DEF ServerOK, ClientOK, EndsOK, Ends, Watches, Types
<1>5. AcceptedOK
  BY <1>1 DEF AcceptedOK, AcceptedFirst
<1>6. \A m \in ToSet(up) \cup ToSet(down) : m.kind \notin {"connect", "_result"}
  BY <1>2, <1>10, <1>11
<1>7. StreamsOK /\ FirstOK
  BY <1>1, <1>6 DEF StreamsOK, FirstOK, Known, Issued, ToSet
<1>8. WindowsOK
  <2>1. win["client"].self = Window /\ win["server"].self = Window /\ win["server"].peer = 0
    BY <1>1
  <2> QED BY <2>1, <1>10, <1>11 DEF WindowsOK
<1> QED BY <1>3, <1>4, <1>5, <1>7, <1>8 DEF IndInv

\* The server handles a request: as much as fits is sent.
LEMMA ServeOK == ASSUME IndInv, Serve PROVE IndInv'
<1> DEFINE m == Head(up)
<1>1. /\ life = "open" /\ up # <<>> /\ m.kind \notin {"ack", "limit"}
      /\ UNCHANGED <<client, win, given, twice>>
  BY DEF Serve
<1>2. PICK verdict \in {"continue", "error", "abort"} :
        LET r == Handled(m, verdict)
            status == Status(down, r)
        IN  /\ spent' = [spent EXCEPT !.faults = IF verdict = "continue" THEN @ ELSE @ + 1,
                                      !.full = IF Fits(down, r) THEN @ ELSE @ + 1]
            /\ server' = r.server
            /\ down' = Sent(down, r.out)
            /\ up' = CASE status = "continue" -> Tail(up)
                       [] status = "error"    -> up
                       [] OTHER               -> <<>>
            /\ life' = CASE status = "abort" -> "closing"
                         [] status = "crash" -> "crashed"
                         [] OTHER            -> life
            /\ accepted' = (accepted \/ r.accepted)
            /\ published' = published \cup r.published
  BY DEF Serve
<1> DEFINE r == Handled(m, verdict)
           status == Status(down, r)
<1>3. /\ spent' = [spent EXCEPT !.faults = IF verdict = "continue" THEN @ ELSE @ + 1,
                                !.full = IF Fits(down, r) THEN @ ELSE @ + 1]
      /\ server' = r.server /\ down' = Sent(down, r.out)
      /\ accepted' = (accepted \/ r.accepted)
      /\ published' = published \cup r.published
  BY <1>2
<1>4. /\ status = "continue" => up' = Tail(up)
      /\ status = "error" => up' = up
      /\ status \notin {"continue", "error"} => up' = <<>>
      /\ status = "abort" => life' = "closing"
      /\ status = "crash" => life' = "crashed"
      /\ status \notin {"abort", "crash"} => life' = "open"
  BY <1>1, <1>2
<1>5. /\ up \in Seq(Upwards) /\ down \in Seq(Downwards) /\ Len(down) <= Room
      /\ ServerOK
  BY DEF IndInv, QueuesOK
<1>6. m \in Asks \cup {ChunkSize} /\ m \in ToSet(up)
  <2>1. m \in Upwards /\ m \in ToSet(up)
    BY <1>1, <1>5, TailOK
  <2> QED BY <2>1, <1>1 DEF Upwards, Windows
<1>7. EffectOK(r, m)
  BY <1>5, <1>6, HandledOK
<1> HIDE DEF m, r
<1>8. /\ status \in Results /\ (r.status = "abort" => status = "abort")
  BY <1>7 DEF EffectOK, Status
<1> HIDE DEF status
<1>9. /\ down' \in Seq(Downwards) /\ Len(down') <= Room
      /\ ToSet(down) \subseteq ToSet(down')
      /\ ToSet(down') \subseteq ToSet(down) \cup ToSet(r.out)
      /\ NoAck(down') <=> NoAck(down)
      /\ \A size : LastAck(down, size) => LastAck(down', size)
  <2>1. r.out \in Seq(Downwards) /\ NoAck(r.out)
    BY <1>7, SeqMonotonic DEF EffectOK, Answered, Downwards
  <2> QED BY <2>1, <1>3, <1>5, SentOK
<1>10. /\ up' \in Seq(Upwards) /\ ToSet(up') \subseteq ToSet(up)
       /\ life' = "open" => /\ \A size : LastAck(up, size) => LastAck(up', size)
                            /\ NoAck(up') => NoAck(up)
  <2>1. /\ Tail(up) \in Seq(Upwards) /\ ToSet(Tail(up)) \subseteq ToSet(up)
        /\ \A size : LastAck(up, size) => LastAck(Tail(up), size)
        /\ NoAck(Tail(up)) => NoAck(up)
    BY <1>1, <1>5, TailOK DEF m
  <2>2. <<>> \in Seq(Upwards) /\ ToSet(<<>>) = {}
    BY DEF ToSet
  <2> QED BY <2>1, <2>2, <1>4, <1>5, <1>8 DEF Results
<1>11. QueuesOK' /\ ServerOK' /\ EndsOK'
  <2>1. life' \in {"open", "closing", "closed", "crashed"}
    BY <1>4
  <2> QED BY <2>1, <1>1, <1>3, <1>7, <1>9, <1>10
      DEF IndInv, EffectOK, Servers, QueuesOK, ServerOK, EndsOK
<1>12. ClientOK'
  <2>1. spent \in [calls : 0..MaxCalls, astray : Nat, limits : Nat, faults : Nat, full : Nat]
    BY DEF IndInv, ClientOK
  <2>2. (IF verdict = "continue" THEN spent.faults ELSE spent.faults + 1) \in Nat
        /\ (IF Fits(down, r) THEN spent.full ELSE spent.full + 1) \in Nat
    BY <2>1
  <2>3. spent' \in [calls : 0..MaxCalls, astray : Nat, limits : Nat, faults : Nat, full : Nat]
        /\ spent'.calls = spent.calls
    BY <1>3, <2>1, <2>2
  <2> QED BY <1>1, <2>3 DEF IndInv, ClientOK
<1>13. AcceptedOK'
  BY <1>1, <1>3, <1>4, <1>7, <1>8 DEF IndInv, AcceptedOK, AcceptedFirst, EffectOK, Results
<1>14. StreamsOK' /\ FirstOK'
  <2> DEFINE old == server.streams
  <2>1. /\ old \in Seq(Nat) /\ server.next \in Nat /\ server.next # 0
        /\ \A id \in ToSet(old) : id < server.next
        /\ \A x \in Known : Issued(x) => x.id \in ToSet(old)
        /\ \A x, y \in Known : Issued(x) /\ Issued(y) /\ x.id = y.id => x = y
        /\ client.ids \subseteq ToSet(old)
    BY DEF IndInv, StreamsOK, ServerOK
  <2>2. Known' \subseteq Known \cup ToSet(r.out)
    BY <1>1, <1>9 DEF Known
  <2>3. CASE /\ r.server.streams = server.streams /\ r.server.next = server.next
             /\ \A x \in ToSet(r.out) : x.kind = "_result" =>
                  x.id = 0 /\ x.seq = 1 /\ m.kind = "connect" /\ m.seq = 1
    <3>1. StreamsOK'
      BY <2>1, <2>2, <2>3, <1>1, <1>3 DEF StreamsOK, Issued
    <3>2. FirstOK'
      BY <2>3, <1>1, <1>6, <1>9, <1>10 DEF IndInv, FirstOK, Connects
    <3> QED BY <3>1, <3>2
  <2>4. CASE /\ r.server.streams = Append(server.streams, server.next)
             /\ r.server.next = server.next + 1
             /\ \A x \in ToSet(r.out) : x.kind = "_result" =>
                  x = Answer("_result", m.seq, server.next)
    <3> DEFINE new == Answer("_result", m.seq, server.next)
    <3>1. new.id = server.next /\ new.id # 0
      BY <2>1 DEF Answer
    <3> HIDE DEF new
    <3>2. ToSet(server'.streams) = ToSet(old) \cup {server.next}
      <4>1. server'.streams = Append(old, server.next)
        BY <2>4, <1>3
      <4>2. Len(old) \in Nat /\ DOMAIN old = 1..Len(old)
            /\ DOMAIN Append(old, server.next) = 1..(Len(old) + 1)
            /\ Append(old, server.next)[Len(old) + 1] = server.next
            /\ \A i \in 1..Len(old) : Append(old, server.next)[i] = old[i]
        BY <2>1
      <4> QED BY <4>1, <4>2 DEF ToSet
    <3>3. \A x \in Known' : Issued(x) => x = new \/ (x \in Known /\ x.id < server.next)
      <4>1. \A x \in ToSet(r.out) : Issued(x) => x = new
        BY <2>4 DEF Issued, new
      <4> QED BY <4>1, <2>1, <2>2
    <3>4. server'.next = server.next + 1
      BY <2>4, <1>3
    <3>5. \A id \in ToSet(server'.streams) : id < server'.next
      <4>1. \A id \in ToSet(old) : id \in Nat
        BY <2>1 DEF ToSet
      <4> QED BY <4>1, <3>2, <3>4, <2>1
    <3>6. \A x \in Known' : Issued(x) => x.id \in ToSet(server'.streams)
      BY <3>1, <3>2, <3>3, <2>1
    <3>7. \A x, y \in Known' : Issued(x) /\ Issued(y) /\ x.id = y.id => x = y
      BY <3>1, <3>3, <2>1
    <3>8. client'.ids \subseteq ToSet(server'.streams)
      BY <1>1, <2>1, <3>2
    <3>9. StreamsOK'
      BY <3>5, <3>6, <3>7, <3>8 DEF StreamsOK
    <3>10. FirstOK'
      <4>1. \A x \in ToSet(r.out) : x.kind = "_result" => x.id # 0
        BY <2>4, <3>1 DEF new
      <4> QED BY <4>1, <1>1, <1>9, <1>10 DEF IndInv, FirstOK, Connects
    <3> QED BY <3>9, <3>10
  <2> QED BY <2>3, <2>4, <1>7 DEF EffectOK
<1>15. WindowsOK'
  BY <1>1, <1>9, <1>10 DEF IndInv, WindowsOK
<1> QED BY <1>11, <1>12, <1>13, <1>14, <1>15 DEF IndInv
\* A bandwidth limit received leaves a size and a type.
LEMMA LimitOK ==
  ASSUME NEW w \in Watches, NEW m \in Windows, m.kind = "limit"
  PROVE  LimitSize(w, m) \in 1..Window /\ LimitType(w, m) \in Types
<1>1. w.self \in 1..Window /\ w.type \in Types /\ m.size \in 1..Window /\ m.type \in Types
  BY DEF Watches, Windows
<1>2. LimitSize(w, m) \in 1..Window
  BY <1>1 DEF LimitSize, Smaller
<1>3. LimitType(w, m) \in Types
  BY <1>1 DEF LimitType, Types
<1> QED BY <1>2, <1>3

\* The server receives a window or a limit and may answer it.
LEMMA ServeWindowOK == ASSUME IndInv, ServeWindow PROVE IndInv'
<1> DEFINE m == Head(up)
           w == win["server"]
           size == LimitSize(w, m)
           room == Len(down) < Room
<1>1. /\ life = "open" /\ up # <<>>
      /\ UNCHANGED <<server, client, life, spent, accepted, published, given, twice>>
  BY DEF ServeWindow
<1>2. \/ /\ m.kind = "ack"
         /\ win' = [win EXCEPT !["server"].peer = m.size]
         /\ up' = Tail(up) /\ down' = down
      \/ /\ m.kind = "limit"
         /\ win' = [win EXCEPT !["server"] = Limited(w, m, room)]
         /\ down' = IF size # w.self /\ room THEN Append(down, Ack(size)) ELSE down
         /\ up' = IF size # w.self /\ ~room THEN up ELSE Tail(up)
  BY DEF ServeWindow
<1>3. /\ up \in Seq(Upwards) /\ down \in Seq(Downwards) /\ Len(down) <= Room
      /\ win \in [Ends -> Watches] /\ w \in Watches /\ win["client"] \in Watches
  BY DEF IndInv, QueuesOK, EndsOK, Ends
<1>4. m \in Upwards /\ m \in ToSet(up) /\ ToSet(Tail(up)) \subseteq ToSet(up)
      /\ Tail(up) \in Seq(Upwards)
  BY <1>1, <1>3, TailOK
<1>5. /\ \A s : LastAck(up, s) => /\ LastAck(Tail(up), s)
                                  /\ m.kind = "ack" /\ NoAck(Tail(up)) => m.size = s
      /\ m.kind # "ack" /\ NoAck(Tail(up)) => NoAck(up)
  BY <1>1, <1>3, TailOK
<1>6. m.kind \in {"ack", "limit"} => m \in Windows /\ m.size \in 1..Window
  BY <1>4 DEF Upwards, Asks, Calls, ChunkSize, Windows
<1> HIDE DEF m
<1>7. CASE /\ m.kind = "ack"
           /\ win' = [win EXCEPT !["server"].peer = m.size]
           /\ up' = Tail(up) /\ down' = down
  <2>1. /\ win' \in [Ends -> Watches] /\ win'["client"] = win["client"]
        /\ win'["server"].self = w.self /\ win'["server"].peer = m.size
    <3>1. m.size \in 0..Window
      BY <1>6, <1>7
    <3>2. [w EXCEPT !.peer = m.size] \in Watches
      BY <1>3, <3>1 DEF Watches
    <3> QED BY <1>3, <1>7, <3>2 DEF Ends
  <2>2. QueuesOK' /\ ServerOK' /\ ClientOK' /\ EndsOK'
    BY <1>1, <1>3, <1>4, <1>7, <2>1 DEF IndInv, QueuesOK, ServerOK, ClientOK, EndsOK
  <2>3. AcceptedOK' /\ StreamsOK' /\ FirstOK'
    BY <1>1, <1>4, <1>7 DEF IndInv, AcceptedOK, AcceptedFirst, StreamsOK, Known, FirstOK, Connects
  <2>4. WindowsOK'
    BY <1>1, <1>5, <1>7, <2>1 DEF IndInv, WindowsOK
  <2> QED BY <2>2, <2>3, <2>4 DEF IndInv
<1>8. CASE /\ m.kind = "limit"
           /\ win' = [win EXCEPT !["server"] = Limited(w, m, room)]
           /\ down' = IF size # w.self /\ room THEN Append(down, Ack(size)) ELSE down
           /\ up' = IF size # w.self /\ ~room THEN up ELSE Tail(up)
  <2>1. size \in 1..Window /\ LimitType(w, m) \in Types
    BY <1>3, <1>6, <1>8, LimitOK
  <2> DEFINE a == Ack(size)
  <2>2. a \in Downwards /\ a.kind = "ack" /\ a.size = size
    BY <2>1 DEF Ack, Downwards, Windows
  <2> HIDE DEF size, a
  <2>3. /\ win' \in [Ends -> Watches] /\ win'["client"] = win["client"]
        /\ win'["server"].self = (IF room THEN size ELSE w.self)
        /\ win'["server"].peer = w.peer
    BY <1>3, <1>8, <2>1 DEF Limited, Watches, Ends, size
  <2>4. CASE size # w.self /\ room
    <3>1. down' = Append(down, a) /\ up' = Tail(up)
      BY <1>8, <2>4 DEF a
    <3>2. /\ down' \in Seq(Downwards) /\ Len(down') <= Room
          /\ ToSet(down') = ToSet(down) \cup {a}
          /\ LastAck(down', size) /\ ~NoAck(down')
      BY <1>3, <2>2, <2>4, <3>1, AppendOK
    <3>3. QueuesOK' /\ ServerOK' /\ ClientOK' /\ EndsOK'
      BY <1>1, <1>4, <2>3, <3>1, <3>2 DEF IndInv, QueuesOK, ServerOK, ClientOK, EndsOK
    <3>4. AcceptedOK' /\ StreamsOK' /\ FirstOK'
      BY <1>1, <1>4, <2>2, <3>1, <3>2
         DEF IndInv, AcceptedOK, AcceptedFirst, StreamsOK, Known, Issued, FirstOK, Connects
    <3>5. WindowsOK'
      BY <1>1, <1>5, <1>8, <2>3, <2>4, <3>1, <3>2 DEF IndInv, WindowsOK
    <3> QED BY <3>3, <3>4, <3>5 DEF IndInv
  <2>5. CASE ~(size # w.self /\ room)
    <3>1. down' = down /\ up' \in {up, Tail(up)} /\ win'["server"].self = w.self
      BY <1>8, <2>3, <2>5
    <3>2. QueuesOK' /\ ServerOK' /\ ClientOK' /\ EndsOK'
      BY <1>1, <1>3, <1>4, <2>3, <3>1 DEF IndInv, QueuesOK, ServerOK, ClientOK, EndsOK
    <3>3. AcceptedOK' /\ StreamsOK' /\ FirstOK'
      BY <1>1, <1>4, <3>1
         DEF IndInv, AcceptedOK, AcceptedFirst, StreamsOK, Known, FirstOK, Connects
    <3>4. WindowsOK'
      BY <1>1, <1>5, <1>8, <2>3, <3>1 DEF IndInv, WindowsOK
    <3> QED BY <3>2, <3>3, <3>4 DEF IndInv
  <2> QED BY <2>4, <2>5
<1> QED BY <1>2, <1>7, <1>8

\* The server closes once its output is sent.
LEMMA CloseOK == ASSUME IndInv, Close PROVE IndInv'
  BY DEF Close, IndInv, QueuesOK, ServerOK, ClientOK, EndsOK, AcceptedOK, AcceptedFirst,
         StreamsOK, Known, FirstOK, Connects, WindowsOK
\* The client receives an answer, a window or a limit.
LEMMA ReceiveOK == ASSUME IndInv, Receive PROVE IndInv'
<1> DEFINE m == Head(down)
           w == win["client"]
           size == LimitSize(w, m)
<1>1. /\ life \in {"open", "closing"} /\ down # <<>> /\ down' = Tail(down)
      /\ UNCHANGED <<server, life, spent, accepted, published>>
  BY DEF Receive
<1>2. \/ /\ m.kind \in Answers
         /\ client' = Noted(m) /\ given' = given \cup {m}
         /\ UNCHANGED <<up, win>>
      \/ UNCHANGED <<up, client, win, given>> /\ m.kind \in {"begin", "chunkSize"}
      \/ /\ m.kind = "ack"
         /\ win' = [win EXCEPT !["client"].peer = m.size]
         /\ UNCHANGED <<up, client, given>>
      \/ /\ m.kind = "limit"
         /\ win' = [win EXCEPT !["client"] = Limited(w, m, TRUE)]
         /\ up' = IF size = w.self \/ life # "open" THEN up ELSE Append(up, Ack(size))
         /\ UNCHANGED <<client, given>>
  BY DEF Receive
<1>3. /\ up \in Seq(Upwards) /\ down \in Seq(Downwards) /\ Len(down) <= Room
      /\ win \in [Ends -> Watches] /\ w \in Watches /\ win["server"] \in Watches
  BY DEF IndInv, QueuesOK, EndsOK, Ends
<1>4. /\ m \in Downwards /\ m \in ToSet(down) /\ ToSet(down') \subseteq ToSet(down)
      /\ down' \in Seq(Downwards) /\ Len(down') <= Room
      /\ \A s : LastAck(down, s) => /\ LastAck(down', s)
                                    /\ m.kind = "ack" /\ NoAck(down') => m.size = s
      /\ m.kind # "ack" /\ NoAck(down') => NoAck(down)
  <2>1. Len(down) \in Nat
    BY <1>3
  <2> QED BY <2>1, <1>1, <1>3, TailOK
<1>5. /\ m.kind \in {"ack", "limit"} => m \in Windows /\ m.size \in 0..Window
      /\ m.kind \in Answers => m \in Given
  <2>1. m.kind \in {"ack", "limit"} => m \in Windows
    BY <1>4 DEF Downwards, Given, Answers, ChunkSize, Windows
  <2>2. m \in Windows => m.size \in 0..Window
    BY DEF Windows
  <2>3. m.kind \in Answers => m \in Given
    BY <1>4 DEF Downwards, Given, Answers, ChunkSize, Windows
  <2> QED BY <2>1, <2>2, <2>3
<1> HIDE DEF m
<1>6. CASE /\ m.kind \in Answers
           /\ client' = Noted(m) /\ given' = given \cup {m}
           /\ UNCHANGED <<up, win>>
  <2> DEFINE call == {c \in client.waiting : c.seq = m.seq}
             Gets(op) == \E c \in call : c.op = op
  <2>1. client \in [seq : 1..MaxCalls + 1, waiting : SUBSET [seq : 1..MaxCalls, op : Calls],
                    connected : BOOLEAN, ids : SUBSET Nat, ready : BOOLEAN]
    BY DEF IndInv, ClientOK
  <2>2. /\ client'.seq = client.seq
        /\ client'.waiting = client.waiting \ call
        /\ client'.ids = IF m.kind = "_result" /\ Gets("createStream")
                         THEN client.ids \cup {m.id} ELSE client.ids
        /\ client' \in [seq : 1..MaxCalls + 1, waiting : SUBSET [seq : 1..MaxCalls, op : Calls],
                         connected : BOOLEAN, ids : SUBSET Nat, ready : BOOLEAN]
    <3>1. m.id \in Nat
      BY <1>5, <1>6 DEF Given
    <3> QED BY <1>6, <2>1, <3>1 DEF Noted
  <2>3. m.kind = "_result" /\ Gets("createStream") => m.id # 0
    BY <1>4 DEF IndInv, FirstOK, Connects
  <2>4. ClientOK'
    BY <1>1, <2>2 DEF IndInv, ClientOK
  <2>5. Known' \subseteq Known /\ m \in Known
    BY <1>4, <1>6 DEF Known
  <2>6. StreamsOK'
    BY <1>1, <2>2, <2>3, <2>5 DEF IndInv, StreamsOK, Issued
  <2>7. FirstOK'
    BY <1>1, <1>4, <1>6, <2>2 DEF IndInv, FirstOK, Connects
  <2>8. QueuesOK' /\ ServerOK' /\ EndsOK' /\ AcceptedOK'
    BY <1>1, <1>3, <1>4, <1>6
       DEF IndInv, QueuesOK, ServerOK, EndsOK, AcceptedOK, AcceptedFirst
  <2>9. WindowsOK'
    <3>1. m.kind # "ack"
      BY <1>6 DEF Answers
    <3> QED BY <3>1, <1>1, <1>4, <1>6 DEF IndInv, WindowsOK
  <2> QED BY <2>4, <2>6, <2>7, <2>8, <2>9 DEF IndInv
<1>7. CASE UNCHANGED <<up, client, win, given>> /\ m.kind \in {"begin", "chunkSize"}
  <2>1. QueuesOK' /\ ServerOK' /\ ClientOK' /\ EndsOK'
    BY <1>1, <1>3, <1>4, <1>7 DEF IndInv, QueuesOK, ServerOK, ClientOK, EndsOK
  <2>2. AcceptedOK' /\ StreamsOK' /\ FirstOK'
    BY <1>1, <1>4, <1>7 DEF IndInv, AcceptedOK, AcceptedFirst, StreamsOK, Known, FirstOK, Connects
  <2>3. WindowsOK'
    BY <1>1, <1>4, <1>7 DEF IndInv, WindowsOK
  <2> QED BY <2>1, <2>2, <2>3 DEF IndInv
<1>8. CASE /\ m.kind = "ack"
           /\ win' = [win EXCEPT !["client"].peer = m.size]
           /\ UNCHANGED <<up, client, given>>
  <2>1. /\ win' \in [Ends -> Watches] /\ win'["server"] = win["server"]
        /\ win'["client"].self = w.self /\ win'["client"].peer = m.size
    <3>1. m.size \in 0..Window
      BY <1>5, <1>8
    <3>2. [w EXCEPT !.peer = m.size] \in Watches
      BY <1>3, <3>1 DEF Watches
    <3> QED BY <1>3, <1>8, <3>2 DEF Ends
  <2>2. QueuesOK' /\ ServerOK' /\ ClientOK' /\ EndsOK'
    BY <1>1, <1>3, <1>4, <1>8, <2>1 DEF IndInv, QueuesOK, ServerOK, ClientOK, EndsOK
  <2>3. AcceptedOK' /\ StreamsOK' /\ FirstOK'
    BY <1>1, <1>4, <1>8 DEF IndInv, AcceptedOK, AcceptedFirst, StreamsOK, Known, FirstOK, Connects
  <2>4. WindowsOK'
    BY <1>1, <1>4, <1>8, <2>1 DEF IndInv, WindowsOK
  <2> QED BY <2>2, <2>3, <2>4 DEF IndInv
<1>9. CASE /\ m.kind = "limit"
           /\ win' = [win EXCEPT !["client"] = Limited(w, m, TRUE)]
           /\ up' = IF size = w.self \/ life # "open" THEN up ELSE Append(up, Ack(size))
           /\ UNCHANGED <<client, given>>
  <2>1. size \in 1..Window /\ LimitType(w, m) \in Types
    BY <1>3, <1>5, <1>9, LimitOK
  <2> DEFINE a == Ack(size)
  <2>2. a \in Upwards /\ a.kind = "ack" /\ a.size = size
    BY <2>1 DEF Ack, Upwards, Windows
  <2> HIDE DEF size, a
  <2>3. /\ win' \in [Ends -> Watches] /\ win'["server"] = win["server"]
        /\ win'["client"].self = size /\ win'["client"].peer = w.peer
    BY <1>3, <1>9, <2>1 DEF Limited, Watches, Ends, size
  <2>4. /\ up' \in Seq(Upwards) /\ ToSet(up') \subseteq ToSet(up) \cup {a}
        /\ life = "open" => \/ up' = up /\ size = w.self
                            \/ LastAck(up', size) /\ ~NoAck(up')
    <3>1. CASE size = w.self \/ life # "open"
      BY <1>3, <1>9, <3>1
    <3>2. CASE ~(size = w.self \/ life # "open")
      <4>1. up' = Append(up, a)
        BY <1>9, <3>2 DEF a
      <4> QED BY <4>1, <1>3, <2>2, AppendOK
    <3> QED BY <3>1, <3>2
  <2>5. QueuesOK' /\ ServerOK' /\ ClientOK' /\ EndsOK'
    BY <1>1, <1>4, <1>9, <2>3, <2>4 DEF IndInv, QueuesOK, ServerOK, ClientOK, EndsOK
  <2>6. AcceptedOK' /\ StreamsOK' /\ FirstOK'
    BY <1>1, <1>4, <1>9, <2>2, <2>4
       DEF IndInv, AcceptedOK, AcceptedFirst, StreamsOK, Known, FirstOK, Connects
  <2>7. WindowsOK'
    BY <1>1, <1>4, <1>9, <2>3, <2>4 DEF IndInv, WindowsOK
  <2> QED BY <2>5, <2>6, <2>7 DEF IndInv
<1> QED BY <1>2, <1>6, <1>7, <1>8, <1>9
\* The client calls the server, or sends media.
LEMMA CallOK ==
  ASSUME IndInv, NEW op \in Calls \cup {"media"}, NEW id \in Nat,
         NEW app \in Names \cup {"none"}, Call(op, id, app)
  PROVE  IndInv'
<1> DEFINE seq == IF op = "media" THEN 0 ELSE client.seq
           m == Ask(op, seq, id, app)
<1>1. /\ spent.calls < MaxCalls
      /\ spent' = [spent EXCEPT !.calls = @ + 1,
                               !.astray = IF InOrder(op, id) THEN @ ELSE @ + 1]
      /\ up' = Append(up, m)
      /\ client' = IF op = "media" THEN client
                   ELSE [client EXCEPT !.seq = @ + 1,
                                       !.waiting = @ \cup {[seq |-> client.seq, op |-> op]}]
      /\ UNCHANGED <<down, server, win, life, accepted, published, given>>
  BY DEF Call
<1>2. /\ up \in Seq(Upwards)
      /\ spent \in [calls : 0..MaxCalls, astray : Nat, limits : Nat, faults : Nat, full : Nat]
      /\ client \in [seq : 1..MaxCalls + 1, waiting : SUBSET [seq : 1..MaxCalls, op : Calls],
                     connected : BOOLEAN, ids : SUBSET Nat, ready : BOOLEAN]
      /\ client.seq <= spent.calls + 1 /\ \A c \in client.waiting : c.seq < client.seq
  BY DEF IndInv, QueuesOK, ClientOK
<1>3. /\ client.seq \in 1..MaxCalls /\ client.seq + 1 \in 1..MaxCalls + 1 /\ client.seq \in Nat
      /\ spent.calls + 1 \in 0..MaxCalls /\ client.seq + 1 <= spent.calls + 1 + 1
  <2>1. client.seq \in 1..MaxCalls + 1 /\ spent.calls \in 0..MaxCalls
        /\ client.seq <= spent.calls + 1 /\ spent.calls < MaxCalls
    BY <1>1, <1>2
  <2> QED BY <2>1
<1>4. m \in Upwards /\ m.kind = op /\ m.kind # "ack" /\ m.seq = seq
  BY <1>3 DEF Ask, Upwards, Asks, Calls
<1> HIDE DEF m
<1>5. /\ up' \in Seq(Upwards) /\ ToSet(up') = ToSet(up) \cup {m}
      /\ NoAck(up') <=> NoAck(up)
      /\ \A size : LastAck(up, size) => LastAck(up', size)
  <2>1. /\ Append(up, m) \in Seq(Upwards)
        /\ Len(Append(up, m)) = Len(up) + 1
        /\ ToSet(Append(up, m)) = ToSet(up) \cup {m}
        /\ m.kind = "ack" => LastAck(Append(up, m), m.size) /\ ~NoAck(Append(up, m))
    BY <1>2, <1>4, AppendOK
  <2>2. m.kind # "ack" => /\ NoAck(Append(up, m)) <=> NoAck(up)
                          /\ \A size : LastAck(up, size) => LastAck(Append(up, m), size)
    BY <1>2, <1>4, AppendOtherOK
  <2> QED BY <2>1, <2>2, <1>1, <1>4
<1>6. /\ spent' \in [calls : 0..MaxCalls, astray : Nat, limits : Nat, faults : Nat, full : Nat]
      /\ spent'.calls = spent.calls + 1
  <2>0. spent.astray \in Nat
    BY <1>2
  <2>1. (IF InOrder(op, id) THEN spent.astray ELSE spent.astray + 1) \in Nat
    BY <2>0
  <2> QED BY <2>1, <1>1, <1>2, <1>3
<1>7. /\ client' \in [seq : 1..MaxCalls + 1, waiting : SUBSET [seq : 1..MaxCalls, op : Calls],
                      connected : BOOLEAN, ids : SUBSET Nat, ready : BOOLEAN]
      /\ client'.ids = client.ids
      /\ op = "media" => client' = client
      /\ op # "media" => /\ client'.seq = client.seq + 1
                         /\ client'.waiting = client.waiting \cup {[seq |-> client.seq, op |-> op]}
  <2>1. CASE op = "media"
    BY <2>1, <1>1, <1>2
  <2>2. CASE op # "media"
    <3>1. [seq |-> client.seq, op |-> op] \in [seq : 1..MaxCalls, op : Calls]
      BY <1>3, <2>2
    <3> QED BY <3>1, <2>2, <1>1, <1>2, <1>3
  <2> QED BY <2>1, <2>2
<1>8. ClientOK'
  <2>1. CASE op = "media"
    <3>1. client' = client /\ client.seq <= spent.calls + 1 /\ spent.calls \in Nat
          /\ client.seq \in Nat
      BY <2>1, <1>1, <1>2, <1>3
    <3>2. client.seq <= spent.calls + 1 + 1
      BY <3>1
    <3> QED BY <3>1, <3>2, <1>2, <1>6, <1>7 DEF ClientOK
  <2>2. CASE op # "media"
    <3>1. client'.seq <= spent'.calls + 1
      BY <2>2, <1>3, <1>6, <1>7
    <3>2. ASSUME NEW c \in client'.waiting PROVE c.seq < client'.seq
      <4>1. c \in client.waiting \/ c.seq = client.seq
        BY <2>2, <1>7
      <4>2. c \in client.waiting => c.seq \in Nat
        BY <1>2, SMTT(30)
      <4>3. c \in client.waiting => c.seq < client.seq
        BY <1>2
      <4>4. client'.seq = client.seq + 1 /\ client.seq \in Nat
        BY <2>2, <1>3, <1>7
      <4> QED BY <4>1, <4>2, <4>3, <4>4
    <3> QED BY <3>1, <3>2, <1>6, <1>7 DEF ClientOK
  <2> QED BY <2>1, <2>2
<1>9. Connects => Connects'
  BY <1>3, <1>7 DEF Connects
<1>10. op = "connect" /\ client.seq = 1 => Connects'
  <2> SUFFICES ASSUME op = "connect", client.seq = 1 PROVE Connects'
    OBVIOUS
  <2>1. \A c \in client.waiting : c.seq # 1
    <3>1. \A c \in client.waiting : c.seq \in Nat
      BY <1>2, SMTT(30)
    <3> QED BY <3>1, <1>2, SMTT(30)
  <2> QED BY <2>1, <1>3, <1>7 DEF Connects
<1>11. FirstOK'
  BY <1>1, <1>4, <1>5, <1>9, <1>10 DEF IndInv, FirstOK
<1>12. QueuesOK' /\ ServerOK' /\ EndsOK'
  BY <1>1, <1>5 DEF IndInv, QueuesOK, ServerOK, EndsOK
<1>13. AcceptedOK' /\ StreamsOK'
  BY <1>1, <1>7 DEF IndInv, AcceptedOK, AcceptedFirst, StreamsOK, Known
<1>14. WindowsOK'
  BY <1>1, <1>5 DEF IndInv, WindowsOK
<1> QED BY <1>8, <1>11, <1>12, <1>13, <1>14 DEF IndInv

\* An application sets a window or a limit.
LEMMA SetWindowOK ==
  ASSUME IndInv, NEW e \in Ends, NEW m \in Settings, SetWindow(e, m)
  PROVE  IndInv'
<1>1. /\ life = "open" /\ spent' = [spent EXCEPT !.limits = @ + 1]
      /\ win' = IF m.kind = "ack" THEN [win EXCEPT ![e].self = m.size] ELSE win
      /\ UNCHANGED <<server, client, life, accepted, published, given>>
      /\ e = "client" => up' = Append(up, m) /\ down' = down
      /\ e = "server" => Len(down) < Room /\ down' = Append(down, m) /\ up' = up
  BY DEF SetWindow, Ends
<1>2. /\ up \in Seq(Upwards) /\ down \in Seq(Downwards) /\ Len(down) <= Room
      /\ win \in [Ends -> Watches]
  BY DEF IndInv, QueuesOK, EndsOK
<1>3. m \in Upwards /\ m \in Downwards /\ m.kind \in {"ack", "limit"} /\ m.size \in 1..Window
  BY DEF Upwards, Downwards, Windows
<1>4. /\ win' \in [Ends -> Watches]
      /\ m.kind = "ack" => win'[e].self = m.size
      /\ m.kind # "ack" => win' = win
      /\ win'["client"].peer = win["client"].peer /\ win'["server"].peer = win["server"].peer
      /\ \A d \in Ends : d # e => win'[d] = win[d]
  <2>1. [win[e] EXCEPT !.self = m.size] \in Watches
    BY <1>2, <1>3 DEF Watches
  <2> QED BY <2>1, <1>1, <1>2 DEF Ends
<1>5. ClientOK'
  <2>1. spent \in [calls : 0..MaxCalls, astray : Nat, limits : Nat, faults : Nat, full : Nat]
    BY DEF IndInv, ClientOK
  <2>2. spent' \in [calls : 0..MaxCalls, astray : Nat, limits : Nat, faults : Nat, full : Nat]
        /\ spent'.calls = spent.calls
    <3>1. spent.limits + 1 \in Nat
      BY <2>1
    <3> QED BY <2>1, <3>1, <1>1
  <2> QED BY <2>2, <1>1 DEF IndInv, ClientOK
<1>6. CASE e = "client"
  <2>1. /\ up' \in Seq(Upwards) /\ ToSet(up') = ToSet(up) \cup {m}
        /\ m.kind = "ack" => LastAck(up', m.size) /\ ~NoAck(up')
        /\ m.kind # "ack" => /\ NoAck(up') <=> NoAck(up)
                             /\ \A size : LastAck(up, size) => LastAck(up', size)
    <3>1. /\ Append(up, m) \in Seq(Upwards)
          /\ Len(Append(up, m)) = Len(up) + 1
          /\ ToSet(Append(up, m)) = ToSet(up) \cup {m}
          /\ m.kind = "ack" => LastAck(Append(up, m), m.size) /\ ~NoAck(Append(up, m))
      BY <1>2, <1>3, AppendOK
    <3>2. m.kind # "ack" => /\ NoAck(Append(up, m)) <=> NoAck(up)
                            /\ \A size : LastAck(up, size) => LastAck(Append(up, m), size)
      BY <1>2, <1>3, AppendOtherOK
    <3> QED BY <3>1, <3>2, <1>1, <1>6
  <2>2. QueuesOK' /\ ServerOK' /\ EndsOK'
    BY <1>1, <1>2, <1>4, <1>6, <2>1 DEF IndInv, QueuesOK, ServerOK, EndsOK
  <2>3. AcceptedOK' /\ StreamsOK' /\ FirstOK'
    BY <1>1, <1>3, <1>6, <2>1
       DEF IndInv, AcceptedOK, AcceptedFirst, StreamsOK, Known, FirstOK, Connects
  <2>4. WindowsOK'
    BY <1>1, <1>4, <1>6, <2>1 DEF IndInv, WindowsOK, Ends
  <2> QED BY <1>5, <2>2, <2>3, <2>4 DEF IndInv
<1>7. CASE e = "server"
  <2>1. /\ down' \in Seq(Downwards) /\ Len(down') <= Room /\ ToSet(down') = ToSet(down) \cup {m}
        /\ m.kind = "ack" => LastAck(down', m.size) /\ ~NoAck(down')
        /\ m.kind # "ack" => /\ NoAck(down') <=> NoAck(down)
                             /\ \A size : LastAck(down, size) => LastAck(down', size)
    <3>1. Len(down) \in Nat /\ Len(down) + 1 <= Room
      BY <1>1, <1>2, <1>7
    <3>2. /\ Append(down, m) \in Seq(Downwards)
          /\ Len(Append(down, m)) = Len(down) + 1
          /\ ToSet(Append(down, m)) = ToSet(down) \cup {m}
          /\ m.kind = "ack" => LastAck(Append(down, m), m.size) /\ ~NoAck(Append(down, m))
      BY <1>2, <1>3, AppendOK
    <3>3. m.kind # "ack" => /\ NoAck(Append(down, m)) <=> NoAck(down)
                            /\ \A size : LastAck(down, size) => LastAck(Append(down, m), size)
      BY <1>2, <1>3, AppendOtherOK
    <3> QED BY <3>1, <3>2, <3>3, <1>1, <1>7
  <2>2. QueuesOK' /\ ServerOK' /\ EndsOK'
    BY <1>1, <1>2, <1>4, <1>7, <2>1 DEF IndInv, QueuesOK, ServerOK, EndsOK
  <2>3. AcceptedOK' /\ StreamsOK' /\ FirstOK'
    BY <1>1, <1>3, <1>7, <2>1
       DEF IndInv, AcceptedOK, AcceptedFirst, StreamsOK, Known, Issued, FirstOK, Connects
  <2>4. WindowsOK'
    BY <1>1, <1>4, <1>7, <2>1 DEF IndInv, WindowsOK, Ends
  <2> QED BY <1>5, <2>2, <2>3, <2>4 DEF IndInv
<1> QED BY <1>6, <1>7 DEF Ends

\* Every step keeps the invariant.
LEMMA IndInvStep == IndInv /\ [Next]_vars => IndInv'
<1> SUFFICES ASSUME IndInv, [Next]_vars PROVE IndInv'
  OBVIOUS
<1>1. CASE Serve \/ ServeWindow \/ Close \/ Receive
  BY <1>1, ServeOK, ServeWindowOK, CloseOK, ReceiveOK
<1>2. ASSUME NEW app \in Names, Call("connect", 0, app) PROVE IndInv'
  BY <1>2, CallOK DEF Calls
<1>3. ASSUME NEW op \in {"createStream", "releaseStream", "FCPublish"}, Call(op, 0, "none")
      PROVE  IndInv'
  BY <1>3, CallOK DEF Calls
<1>4. ASSUME NEW op \in {"publish", "media"}, NEW id \in client.ids \cup {1},
             Call(op, id, "none")
      PROVE  IndInv'
  <2>1. id \in Nat
    BY DEF IndInv, ClientOK
  <2> QED BY <2>1, <1>4, CallOK DEF Calls
<1>5. ASSUME NEW e \in {"client", "server"}, NEW m \in Settings, SetWindow(e, m) PROVE IndInv'
  BY <1>5, SetWindowOK DEF Ends
<1>6. CASE UNCHANGED vars
  BY <1>6 DEF vars, IndInv, QueuesOK, ServerOK, ClientOK, EndsOK, AcceptedOK, AcceptedFirst,
              StreamsOK, Known, FirstOK, Connects, WindowsOK
<1> QED BY <1>1, <1>2, <1>3, <1>4, <1>5, <1>6 DEF Next

\* The inductive invariant holds in every reachable state.
LEMMA Invariance == Spec => []IndInv
  BY InitOK, IndInvStep, PTL DEF Spec
-----------------------------------------------------------------------------
(* The theorems. *)

\* Every variable keeps its type, and the answers of the server never exceed
\* the room there is for them.
THEOREM TypeCorrect == Spec => []TypeOK
<1>1. IndInv => TypeOK
  <2> SUFFICES ASSUME IndInv PROVE TypeOK
    OBVIOUS
  <2>1. \A i \in DOMAIN server.streams : server.streams[i] \in Nat
    BY DEF IndInv, ServerOK
  <2> QED BY <2>1 DEF IndInv, QueuesOK, ServerOK, ClientOK, EndsOK, TypeOK, Ends, Watches, Calls
<1> QED BY <1>1, Invariance, PTL

\* AcceptedFirst: no stream is made and nothing published for a client whose
\* connect the application did not accept.
THEOREM OnlyTheAccepted == Spec => []AcceptedFirst
<1>1. IndInv => AcceptedFirst
  BY DEF IndInv, AcceptedOK
<1> QED BY <1>1, Invariance, PTL

\* IdsAgree: the streams a client was given are the server's, and no number was
\* given twice.
THEOREM StreamsAgree == Spec => []IdsAgree
<1>1. IndInv => IdsAgree
  BY DEF IndInv, StreamsOK, Known, Issued, IdsAgree
<1> QED BY <1>1, Invariance, PTL

\* WindowsAgree: with nothing under way neither end is mistaken about the other.
THEOREM NoEndMistaken == Spec => []WindowsAgree
<1>1. IndInv => WindowsAgree
  <2> SUFFICES ASSUME IndInv, up = <<>>, down = <<>>, life = "open"
               PROVE  /\ win["server"].peer \in {0, win["client"].self}
                      /\ win["client"].peer = win["server"].self
                      /\ win["server"].peer = 0 => win["client"].self = Window
    BY DEF WindowsAgree
  <2>1. NoAck(up) /\ NoAck(down) /\ win["client"].self # 0
    BY DEF NoAck, IndInv, EndsOK, Ends, Watches
  <2> QED BY <2>1 DEF IndInv, WindowsOK
<1> QED BY <1>1, Invariance, PTL
=============================================================================

------------------------------ MODULE Session -------------------------------
(***************************************************************************)
(* rtmp_server and rtmp_client: how a client is let in to an application,  *)
(* is given message streams and publishes on them, and how the two ends    *)
(* agree on acknowledgement windows.                                       *)
(*                                                                         *)
(* The connection is a queue of messages each way; the server's answers    *)
(* have room for Room messages, and a send that finds none is              *)
(* RTMP_ERR_AGAIN.  Handlers run from the read path of the manager, so an  *)
(* abort closes the connection after what is left of the output.           *)
(***************************************************************************)
EXTENDS Integers, Sequences, FiniteSets, SequencesExt, FiniteSetsExt

CONSTANTS
    Apps,        \* names registered with rtmp_app_list_register
    Names,       \* names clients ask for
    MaxStreams,  \* RTMP_MAX_STREAMS
    Room,        \* messages the server's output holds
    Window,      \* RTMP_DEFAULT_WINDOW_SIZE
    Settings,    \* windows and limits the applications set
    Ahead,       \* bound: messages to the server when the client sends one more
    MaxCalls,    \* bound: what the client sends of its own accord
    MaxAstray,   \* bound: how much of that comes out of order
    MaxLimits,   \* bound: how many windows and limits are set
    MaxFaults,   \* bound: callbacks of the application that do not continue
    MaxFull      \* bound: handlers that find no room for all they send

\* RTMP_LIMIT_DYNAMIC, treated as hard by an end whose last limit was hard.
Types == {"hard", "soft", "dynamic"}

\* What Settings and the messages of the protocol say of windows.
Windows ==
    [kind : {"ack"}, size : 1..Window] \cup [kind : {"limit"}, size : 1..Window, type : Types]

ASSUME SessionAssumption ==
    /\ Apps \subseteq Names /\ "none" \notin Names
    /\ {MaxStreams, Window} \subseteq Nat \ {0}
    /\ Room \in Nat /\ Room >= 3
    /\ {Ahead, MaxCalls, MaxAstray, MaxLimits, MaxFaults, MaxFull} \subseteq Nat
    /\ Settings \subseteq Windows

VARIABLES
    up,         \* from client to server
    down,       \* from server to client
    server,     \* rtmp_server: app, streams, next_stream
    client,     \* rtmp_stream of the client: seq_num, call_callback; and what
                \* its callbacks noted: accepted, stream ids, onStatus arrived
    win,        \* window sizes and type of limit of each end
    life,       \* "open", "closing" after an abort, "closed" or "crashed"
    spent,      \* what the bounds count
    accepted,   \* history: the application's connect callback said CONTINUE
    published,  \* history: message streams the application let publish
    given,      \* history: the answers that arrived
    twice       \* history: the calls whose answer arrived twice

vars == <<up, down, server, client, win, life, spent, accepted, published, given, twice>>

Ack(size) == [kind |-> "ack", size |-> size]
Limit(size, type) == [kind |-> "limit", size |-> size, type |-> type]
ChunkSize == [kind |-> "chunkSize"]
Begin(id) == [kind |-> "begin", id |-> id]
Answer(kind, seq, id) == [kind |-> kind, seq |-> seq, id |-> id]
Ask(op, seq, id, app) == [kind |-> op, seq |-> seq, id |-> id, app |-> app]

\* Both ends have shaken hands, the server has sent what rtmp_server_shake_done
\* sends, and the client has chosen its chunk size in rtmp_client_connect.
Init ==
    /\ up = <<ChunkSize>>
    /\ down = <<Ack(Window), Limit(Window, "dynamic"), ChunkSize>>
    /\ server = [app |-> "none", streams |-> <<>>, next |-> 1]
    /\ client = [seq |-> 1, waiting |-> {}, connected |-> FALSE, ids |-> {}, ready |-> FALSE]
    /\ win = [e \in {"client", "server"} |-> [self |-> Window, peer |-> 0, type |-> "hard"]]
    /\ life = "open"
    /\ spent = [calls |-> 0, astray |-> 0, limits |-> 0, faults |-> 0, full |-> 0]
    /\ accepted = FALSE /\ published = {} /\ given = {} /\ twice = {}
-----------------------------------------------------------------------------
(* Windows: rtmp_chunk_conn. *)

Smaller(a, b) == IF a < b THEN a ELSE b

\* rtmp_chunk_conn_service_recv_set_peer_bwidth: the size and the type.
LimitSize(w, m) == IF m.type = "soft" THEN Smaller(w.self, m.size) ELSE m.size
LimitType(w, m) == IF m.type = "dynamic" /\ w.type = "hard" THEN "hard" ELSE m.type

\* Mutant: the window is the new one even if the peer could not be told.
LimitedBlindly(w, m, room) == [w EXCEPT !.type = LimitType(w, m), !.self = LimitSize(w, m)]

\* The new size holds once the peer can be told (rtmp_chunk_conn_set_window_ack_size).
Limited(w, m, room) ==
    [w EXCEPT !.type = LimitType(w, m), !.self = IF room THEN LimitSize(w, m) ELSE @]
-----------------------------------------------------------------------------
(* The handlers of rtmp_server.  An effect is the server's new state, what    *)
(* it sends, the class of the result, and what the application accepted.     *)

Effect(s, out, otherwise) ==
    [server |-> s, out |-> out, otherwise |-> otherwise, status |-> "continue",
     accepted |-> FALSE, published |-> {}]
Refused(s, out, status) == [Effect(s, out, status) EXCEPT !.status = status]

\* Mutant: a rejected connection is an error and goes on.
RejectedSoftly(s) == Refused(s, <<Answer("_error", 1, 0)>>, "continue")

\* The fail part of rtmp_server_onconnect.
Rejected(s) == Refused(s, <<Answer("_error", 1, 0)>>, "abort")

\* rtmp_server_onconnect.  The application stays set when its callback refuses.
OnConnect(s, m, verdict) ==
    LET t == [s EXCEPT !.app = m.app]
    IN  IF m.seq # 1 THEN Refused(s, <<>>, "abort")
        ELSE IF s.app # "none" \/ m.app \notin Apps THEN Rejected(s)
        ELSE IF verdict # "continue" THEN Rejected(t)
        ELSE [Effect(t, <<Begin(0), Answer("_result", 1, 0)>>, "abort") EXCEPT !.accepted = TRUE]

\* Mutant: the id of a new stream is not counted on.
CreatedAgain(s) == [s EXCEPT !.streams = Append(@, s.next)]
Created(s) == [s EXCEPT !.streams = Append(@, s.next), !.next = @ + 1]

\* rtmp_server_oncreateStream: the last id is compared with the limit, and an
\* error leaves the message to be handled again.
OnCreateStream(s, m) ==
    IF s.app = "none" THEN Refused(s, <<>>, "error")
    ELSE IF s.streams # <<>> /\ Last(s.streams) >= MaxStreams
    THEN Refused(s, <<Answer("_error", m.seq, 0)>>, "error")
    ELSE Effect(Created(s), <<Answer("_result", m.seq, s.next), Begin(s.next)>>, "error")

\* Mutant: onStatus numbers the answer as a call of its own.
OnPublishUnnumbered(s, m, verdict) ==
    IF s.app = "none" THEN Refused(s, <<>>, "error")
    ELSE IF verdict # "continue" THEN Refused(s, <<>>, verdict)
    ELSE [Effect(s, <<Answer("onStatus", 0, 1)>>, "error") EXCEPT !.published = {m.id}]

\* rtmp_server_onpublish and rtmp_server_onFCPublish; the former answers on
\* message stream 1 whatever stream is published.
OnPublish(s, m, verdict) ==
    IF s.app = "none" THEN Refused(s, <<>>, "error")
    ELSE IF verdict # "continue" THEN Refused(s, <<>>, verdict)
    ELSE [Effect(s, <<Answer("onStatus", m.seq, 1)>>, "error") EXCEPT !.published = {m.id}]

OnFCPublish(s, m, verdict) ==
    IF s.app = "none" THEN Refused(s, <<>>, "error")
    ELSE IF verdict # "continue" THEN Refused(s, <<>>, verdict)
    ELSE Effect(s, <<Answer("onFCPublish", m.seq, 0)>>, "error")

\* rtmp_server_onreleaseStream answers nothing.
OnReleaseStream(s, m, verdict) ==
    IF s.app = "none" THEN Refused(s, <<>>, "error") ELSE Refused(s, <<>>, verdict)

\* rtmp_server_onsetDataFrame, _write_vid and _write_aud use an application
\* that need not be there.
OnMedia(s, m, verdict) ==
    IF s.app = "none" THEN Refused(s, <<>>, "crash") ELSE Refused(s, <<>>, verdict)

Handled(m, verdict) ==
    CASE m.kind = "connect"       -> OnConnect(server, m, verdict)
      [] m.kind = "createStream"  -> OnCreateStream(server, m)
      [] m.kind = "publish"       -> OnPublish(server, m, verdict)
      [] m.kind = "FCPublish"     -> OnFCPublish(server, m, verdict)
      [] m.kind = "releaseStream" -> OnReleaseStream(server, m, verdict)
      [] m.kind = "media"         -> OnMedia(server, m, verdict)
      [] m.kind = "chunkSize"    -> Effect(server, <<>>, "continue")

\* Mutant: a send does not look for room.
SentOver(q, out) == q \o out

\* What fits is sent, and the status is what the handler makes of AGAIN.
Sent(q, out) == q \o SubSeq(out, 1, Smaller(Len(out), Room - Len(q)))
Fits(q, r) == Len(q) + Len(r.out) <= Room
Status(q, r) == IF r.status # "continue" \/ Fits(q, r) THEN r.status ELSE r.otherwise

\* A callback that does not continue leaves its message (ERROR) or has all the
\* input dropped (ABORT).
Serve ==
    /\ life = "open" /\ up # <<>>
    /\ Head(up).kind \notin {"ack", "limit"}
    /\ \E verdict \in {"continue", "error", "abort"} :
         LET r == Handled(Head(up), verdict)
             status == Status(down, r)
         IN  /\ verdict # "continue" => spent.faults < MaxFaults
             /\ Fits(down, r) \/ spent.full < MaxFull
             /\ spent' = [spent EXCEPT !.faults = IF verdict = "continue" THEN @ ELSE @ + 1,
                                      !.full = IF Fits(down, r) THEN @ ELSE @ + 1]
             /\ server' = r.server
             /\ down' = Sent(down, r.out)
             /\ up' = CASE status = "continue" -> Tail(up)
                        [] status = "error"    -> up
                        [] OTHER               -> <<>>
             /\ life' = CASE status = "abort" -> "closing"
                          [] status = "crash" -> "crashed"
                          [] OTHER            -> life
             /\ accepted' = (accepted \/ r.accepted)
             /\ published' = published \cup r.published
    /\ UNCHANGED <<client, win, given, twice>>

\* Window messages of the client: a reply that does not fit is an error.
ServeWindow ==
    /\ life = "open" /\ up # <<>>
    /\ LET m == Head(up)
           w == win["server"]
       IN  \/ /\ m.kind = "ack"
              /\ win' = [win EXCEPT !["server"].peer = m.size]
              /\ up' = Tail(up) /\ UNCHANGED down
           \/ /\ m.kind = "limit"
              /\ LET changes == LimitSize(w, m) # w.self
                     room == Len(down) < Room
                 IN  /\ win' = [win EXCEPT !["server"] = Limited(w, m, room)]
                     /\ down' = IF changes /\ room THEN Append(down, Ack(LimitSize(w, m))) ELSE down
                     /\ up' = IF changes /\ ~room THEN up ELSE Tail(up)
    /\ UNCHANGED <<server, client, life, spent, accepted, published, given, twice>>

\* The manager closes the connection when the output is sent.
Close ==
    /\ life = "closing" /\ down = <<>>
    /\ life' = "closed"
    /\ UNCHANGED <<up, down, server, client, win, spent, accepted, published, given, twice>>
-----------------------------------------------------------------------------
(* The client: replies complete calls, and callbacks note what they learn. *)

Answers == {"_result", "_error", "onStatus", "onFCPublish"}

\* What the callbacks of a call's answer make of it.
Noted(m) ==
    LET call == {c \in client.waiting : c.seq = m.seq}
        Gets(op) == \E c \in call : c.op = op
    IN  [client EXCEPT
           !.waiting = @ \ call,
           !.connected = @ \/ (m.kind = "_result" /\ Gets("connect")),
           !.ids = IF m.kind = "_result" /\ Gets("createStream") THEN @ \cup {m.id} ELSE @,
           !.ready = @ \/ m.kind = "onStatus"]

Receive ==
    /\ life \in {"open", "closing"} /\ down # <<>>
    /\ LET m == Head(down)
           w == win["client"]
       IN  \/ /\ m.kind \in Answers
              /\ client' = Noted(m)
              /\ given' = given \cup {m}
              /\ twice' = IF \E a \in given : a.seq = m.seq THEN twice \cup {m.seq} ELSE twice
              /\ UNCHANGED <<up, win>>
           \/ /\ m.kind \in {"begin", "chunkSize"}
              /\ UNCHANGED <<up, client, win, given, twice>>
           \/ /\ m.kind = "ack"
              /\ win' = [win EXCEPT !["client"].peer = m.size]
              /\ UNCHANGED <<up, client, given, twice>>
           \/ /\ m.kind = "limit"
              /\ win' = [win EXCEPT !["client"] = Limited(w, m, TRUE)]
              /\ up' = IF LimitSize(w, m) = w.self \/ life # "open" THEN up
                       ELSE Append(up, Ack(LimitSize(w, m)))
              /\ UNCHANGED <<client, given, twice>>
    /\ down' = Tail(down)
    /\ UNCHANGED <<server, life, spent, accepted, published>>

\* In the order rtmp_client's functions are meant to be used: connect, and the
\* rest once connect was answered, publish and media on streams it was given.
InOrder(op, id) ==
    CASE op = "connect" -> client.seq = 1
      [] op \in {"createStream", "releaseStream", "FCPublish"} -> client.connected
      [] op = "publish" -> id \in client.ids
      [] op = "media"   -> client.ready /\ id \in client.ids

\* rtmp_client_connect, _releasestream, _fcpublish, _createstream, _publish and
\* _setdataframe.  A call takes the next number and waits; media has none.
Call(op, id, app) ==
    /\ life = "open"
    /\ spent.calls < MaxCalls /\ Len(up) <= Ahead
    /\ InOrder(op, id) \/ spent.astray < MaxAstray
    /\ spent' = [spent EXCEPT !.calls = @ + 1,
                             !.astray = IF InOrder(op, id) THEN @ ELSE @ + 1]
    /\ IF op = "media"
       THEN up' = Append(up, Ask(op, 0, id, app)) /\ UNCHANGED client
       ELSE /\ up' = Append(up, Ask(op, client.seq, id, app))
            /\ client' = [client EXCEPT !.seq = @ + 1,
                                        !.waiting = @ \cup {[seq |-> client.seq, op |-> op]}]
    /\ UNCHANGED <<down, server, win, life, accepted, published, given, twice>>

\* Either application sets its own window or the limit of the other end.
SetWindow(e, m) ==
    /\ life = "open" /\ spent.limits < MaxLimits
    /\ spent' = [spent EXCEPT !.limits = @ + 1]
    /\ IF e = "client" THEN up' = Append(up, m) /\ UNCHANGED down
       ELSE Len(down) < Room /\ down' = Append(down, m) /\ UNCHANGED up
    /\ win' = IF m.kind = "ack" THEN [win EXCEPT ![e].self = m.size] ELSE win
    /\ UNCHANGED <<server, client, life, accepted, published, given, twice>>

Next ==
    \/ Serve \/ ServeWindow \/ Close \/ Receive
    \/ \E app \in Names : Call("connect", 0, app)
    \/ \E op \in {"createStream", "releaseStream", "FCPublish"} : Call(op, 0, "none")
    \/ \E op \in {"publish", "media"}, id \in client.ids \cup {1} : Call(op, id, "none")
    \/ \E e \in {"client", "server"}, m \in Settings : SetWindow(e, m)

\* A manager keeps servicing both ends.
Fairness == WF_vars(Serve \/ ServeWindow) /\ WF_vars(Receive) /\ WF_vars(Close)

Spec == Init /\ [][Next]_vars /\ Fairness
-----------------------------------------------------------------------------
(* Properties. *)

\* Every variable keeps its type, and the output its capacity.
TypeOK ==
    /\ Len(down) <= Room
    /\ server.app \in Names \cup {"none"} /\ server.next \in Nat
    /\ \A i \in DOMAIN server.streams : server.streams[i] \in Nat
    /\ client.seq \in 1..MaxCalls + 1
    /\ client.waiting \subseteq [seq : 1..MaxCalls,
         op : {"connect", "createStream", "releaseStream", "FCPublish", "publish"}]
    /\ win \in [{"client", "server"} -> [self : 1..Window, peer : 0..Window, type : Types]]
    /\ life \in {"open", "closing", "closed", "crashed"}

\* Streams are made and publishing is let through only for a client that the
\* application accepted.  rtmp_server_onconnect sets self->app before it asks
\* the application: that the input is dropped upon a rejection is what keeps
\* later messages of the client from using it.
AcceptedFirst == server.streams # <<>> \/ published # {} => accepted

\* The message streams a client was given are different and are the server's:
\* the server never hands out a number twice, and a number that was lost with
\* an answer stays lost (rtmp_server_oncreateStream).
IdsAgree ==
    /\ client.ids \subseteq ToSet(server.streams)
    /\ \A a, b \in {x \in given : x.kind = "_result" /\ x.id # 0} : a.id = b.id => a = b

\* When nothing is under way, each end knows the other's window, or was never
\* told of one and it is the default: limits, answers to limits and windows set
\* by the applications, in any order and with retries, leave no end mistaken.
WindowsAgree ==
    up = <<>> /\ down = <<>> /\ life = "open" =>
        /\ win["server"].peer \in {0, win["client"].self}
        /\ win["client"].peer = win["server"].self
        /\ win["server"].peer = 0 => win["client"].self = Window

\* No call is answered twice: "LibOpenRTMP will automatically handle matching the
\* response to any RPC issued to the matching callback".
AnsweredOnce == twice = {}

\* Every call of a client that keeps to the order is answered, releaseStream
\* excepted, or the connection is closed: rejections, retries after errors and
\* answers that found no room included.
CallsAnswered ==
    \A seq \in 1..MaxCalls :
        (spent.astray = 0 /\ \E c \in client.waiting : c.seq = seq /\ c.op # "releaseStream")
            ~> (spent.astray > 0 \/ life = "closed" \/ ~\E c \in client.waiting : c.seq = seq)
==============================================================================

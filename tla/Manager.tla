------------------------------ MODULE Manager -------------------------------
(***************************************************************************)
(* rtmp_impl_epoll: one thread that waits for events of its connections    *)
(* and of the listening socket, moves bytes between sockets and buffers,   *)
(* services connections, and services all of them when it refreshes.       *)
(*                                                                         *)
(* A unit of input or output is one message.  A message that is consumed   *)
(* is answered by one message; a handler may fail before or after it has   *)
(* answered, which leaves its message in the buffer, or abort.  What the   *)
(* kernel watches (armed) is apart from what the manager believes it       *)
(* watches (flags).  Events are level-triggered.                           *)
(***************************************************************************)
EXTENDS Integers, Sequences, FiniteSets, SequencesExt

CONSTANTS
    Conn,       \* connections
    InMax,      \* messages the in buffer holds
    OutMax,     \* messages the out buffer holds
    SndMax,     \* messages the socket takes before the peer reads
    MaxIn,      \* bound: messages the peers send
    MaxSends,   \* bound: messages the application sends of its own accord
    MaxFaults,  \* bound: handlers that fail or abort
    MaxLeaves   \* bound: peers that close or reset their connection

ASSUME ManagerAssumption ==
    /\ IsFiniteSet(Conn) /\ "listener" \notin Conn
    /\ {InMax, OutMax, SndMax} \subseteq Nat \ {0}
    /\ {MaxIn, MaxSends, MaxFaults, MaxLeaves} \subseteq Nat

VARIABLES
    life,       \* "new", "waiting" to be accepted, "open" or "closed"
    conn,       \* rtmp_mgr_svr and the buffers of its connection
    wire,       \* what the peer sent and the manager has not received
    snd,        \* what the socket took and the peer has not read
    gone,       \* the peer closed or reset the connection
    batch,      \* events of this round not yet handled; Listener is the listener's
    turn,       \* the connection being handled, what is left to do, and its e.events
    refresh,    \* connections the refresh has still to service
    due,        \* more than RTMP_REFRESH_TIME since the last refresh
    spent,      \* what the bounds count
    given       \* history: connections whose handler aborted; at a refresh or not

vars == <<life, conn, wire, snd, gone, batch, turn, refresh, due, spent, given>>

Both == {"in", "out"}
Listener == "listener"
Created == [in |-> 0, out |-> 0, flags |-> Both, armed |-> Both, closing |-> FALSE]
NoTurn == [conn |-> Listener, todo |-> {}, e |-> {}]

Idle == batch = <<>> /\ turn = NoTurn /\ refresh = {}

Init ==
    /\ life = [c \in Conn |-> "new"]
    /\ conn = [c \in Conn |-> Created]
    /\ wire = [c \in Conn |-> 0] /\ snd = [c \in Conn |-> 0]
    /\ gone = [c \in Conn |-> "no"]
    /\ batch = <<>> /\ turn = NoTurn /\ refresh = {}
    /\ due = FALSE
    /\ spent = [in |-> 0, sends |-> 0, faults |-> 0, leaves |-> 0]
    /\ given = [c \in Conn |-> "no"]
-----------------------------------------------------------------------------
(* Service, and what it has the kernel watch. *)

\* Mutant: EMPTIED does not bring EPOLLIN back.
NotifiedOfOutput(s, events) ==
    IF events \subseteq s.flags \cup {"in"} THEN s
    ELSE [s EXCEPT !.flags = @ \cup {"out"}, !.armed = s.flags \cup {"out"}]

\* Mutant: FILLED is noted and the kernel not told.
NotifiedQuietly(s, events) == [s EXCEPT !.flags = @ \cup events]

\* stream_event, for the FILLED and EMPTIED events of one call: the kernel is
\* told when a flag is new.
Notified(s, events) ==
    IF events \subseteq s.flags THEN s
    ELSE [s EXCEPT !.flags = @ \cup events, !.armed = s.flags \cup events]

\* rtmp_chunk_conn_service: k messages are consumed and answered, and then the
\* buffer is empty, or there is no room for the next answer, or a handler fails
\* or aborts, before (0) or after (1) its answer.  An abort clears the input: a
\* refused client gets its _error, which stays in the output, and then the abort.
Outcome(s, k, extra, end) ==
    LET moved == [s EXCEPT !.in = IF end = "abort" THEN 0 ELSE @ - k, !.out = @ + k + extra]
    IN  [state |-> Notified(moved, (IF k > 0 THEN {"in"} ELSE {})
                                   \cup (IF k + extra > 0 THEN {"out"} ELSE {})),
         end |-> end]

\* Mutant: a handler answers twice, whatever room there is.
ServicedOver(s) == {Outcome(s, s.in, s.in, "done")}

Serviced(s) ==
    {Outcome(s, t[1], t[2], t[3]) : t \in
        {u \in (0..s.in) \X {0, 1} \X {"done", "full", "fault", "abort"} :
            LET k == u[1] IN
            /\ s.out + k + u[2] <= OutMax
            /\ u[3] = "done" => k = s.in /\ u[2] = 0
            /\ u[3] = "full" => k < s.in /\ u[2] = 0 /\ s.out + k = OutMax
            /\ u[3] \in {"fault", "abort"} => k < s.in /\ spent.faults < MaxFaults}}

Spent(end) ==
    spent' = [spent EXCEPT !.faults = @ + (IF end \in {"fault", "abort"} THEN 1 ELSE 0)]
-----------------------------------------------------------------------------
(* Rounds: rtmp_service. *)

Ready(c) ==
    (IF gone[c] = "reset" THEN {"hup"} ELSE {})
    \cup (conn[c].armed \cap ((IF wire[c] > 0 \/ gone[c] # "no" THEN {"in"} ELSE {})
                              \cup (IF snd[c] < SndMax \/ gone[c] # "no" THEN {"out"} ELSE {})))

Waiting == {c \in Conn : life[c] = "waiting"}
Pending ==
    {[conn |-> c, events |-> Ready(c)] : c \in {x \in Conn : life[x] = "open" /\ Ready(x) # {}}}
    \cup (IF Waiting # {} THEN {[conn |-> Listener, events |-> {"in"}]} ELSE {})

\* epoll_wait, in any order.
Poll ==
    /\ Idle
    /\ Pending # {}
    /\ batch' \in SetToSeqs(Pending)
    /\ UNCHANGED <<life, conn, wire, snd, gone, turn, refresh, due, spent, given>>

\* handle_server: accept, create_stream, and the callback of the application,
\* which may refuse: the round ends then, and the connection stays.
Accept ==
    /\ turn = NoTurn /\ batch # <<>> /\ Head(batch).conn = Listener
    /\ \E c \in Waiting, content \in BOOLEAN :
         /\ life' = [life EXCEPT ![c] = "open"]
         /\ batch' = IF content THEN Tail(batch) ELSE <<>>
    /\ UNCHANGED <<conn, wire, snd, gone, turn, refresh, due, spent, given>>

\* handle_stream begins: e.events is read from the flags once.
Take ==
    /\ turn = NoTurn /\ batch # <<>> /\ Head(batch).conn # Listener
    /\ turn' = [conn |-> Head(batch).conn, todo |-> Head(batch).events,
                e |-> conn[Head(batch).conn].flags]
    /\ batch' = Tail(batch)
    /\ UNCHANGED <<life, conn, wire, snd, gone, refresh, due, spent, given>>

\* confail: the connection is dropped and its slot emptied, and the error ends
\* the round, so that no refresh follows.
Fail(c) ==
    /\ life' = [life EXCEPT ![c] = "closed"]
    /\ turn' = NoTurn /\ batch' = <<>>

HungUp ==
    /\ turn # NoTurn /\ "hup" \in turn.todo
    /\ Fail(turn.conn)
    /\ UNCHANGED <<conn, wire, snd, gone, refresh, due, spent, given>>

\* Mutant: a connection that is to be closed is closed with output left.
ClosableHastily(s) == s.closing

\* A connection that is to be closed waits for the last of its output.
Closable(s) == s.closing /\ s.out = 0

\* Mutant: what was sent is not taken from the buffer.
CommittedNothing(s, n) == s

\* rtmp_chunk_conn_commit_out_buff.
Committed(s, n) == [s EXCEPT !.out = @ - n]

\* The EPOLLOUT part: send what there is, or stop watching, and service.
HandleOut ==
    LET c == turn.conn
        s == conn[c]
        quiet == [s EXCEPT !.flags = @ \ {"out"}, !.armed = turn.e \ {"out"}]
    IN  /\ turn # NoTurn /\ "out" \in turn.todo /\ "hup" \notin turn.todo
        /\ \/ /\ Closable(s)
              /\ Fail(c) /\ UNCHANGED <<conn, snd, spent, given>>
           \/ /\ s.out > 0 /\ gone[c] # "no"
              /\ Fail(c) /\ UNCHANGED <<conn, snd, spent, given>>
           \/ \E n \in 0..s.out :
              /\ IF s.out = 0 THEN ~s.closing
                 ELSE n > 0 /\ snd[c] + n <= SndMax /\ gone[c] = "no"
              /\ snd' = [snd EXCEPT ![c] = @ + n]
              /\ \E r \in Serviced(IF s.out = 0 THEN quiet ELSE Committed(s, n)) :
                   /\ conn' = [conn EXCEPT ![c] = r.state]
                   /\ Spent(r.end)
                   /\ IF r.end = "abort"
                      THEN Fail(c) /\ given' = [given EXCEPT ![c] = "aborted"]
                      ELSE /\ turn' = [turn EXCEPT !.todo = @ \ {"out"},
                                                   !.e = IF s.out = 0 THEN @ \ {"out"} ELSE @]
                           /\ UNCHANGED <<life, batch, given>>
        /\ UNCHANGED <<wire, gone, refresh, due>>

\* Mutant: that the connection is to be closed is not noted.
ServiceInputForgetting(c, s) ==
    \E r \in Serviced(s) :
        /\ conn' = [conn EXCEPT ![c] =
             IF r.end # "abort" THEN r.state
             ELSE [r.state EXCEPT !.flags = {"out"}, !.armed = {"out"}]]
        /\ Spent(r.end)
        /\ given' = [given EXCEPT ![c] = IF r.end = "abort" THEN "aborted" ELSE @]

\* Service in the EPOLLIN part.  After a fatal result only the output is watched,
\* and the connection is closed when that is sent.
ServiceInput(c, s) ==
    \E r \in Serviced(s) :
        /\ conn' = [conn EXCEPT ![c] =
             IF r.end # "abort" THEN r.state
             ELSE [r.state EXCEPT !.closing = TRUE, !.flags = {"out"}, !.armed = {"out"}]]
        /\ Spent(r.end)
        /\ given' = [given EXCEPT ![c] = IF r.end = "abort" THEN "aborted" ELSE @]

\* The EPOLLIN part: receive; or stop watching while the buffer is full, and
\* service once already.
HandleIn ==
    LET c == turn.conn
        s == conn[c]
        quiet == [s EXCEPT !.flags = @ \ {"in"}, !.armed = turn.e \ {"in"}]
    IN  /\ turn # NoTurn /\ turn.todo = {"in"}
        /\ \/ /\ s.in < InMax /\ wire[c] = 0
              /\ Fail(c) /\ UNCHANGED <<conn, wire, spent, given>>
           \/ /\ s.in < InMax
              /\ \E n \in 1..wire[c] :
                   /\ s.in + n <= InMax
                   /\ wire' = [wire EXCEPT ![c] = @ - n]
                   /\ conn' = [conn EXCEPT ![c].in = @ + n]
              /\ turn' = [turn EXCEPT !.todo = {"service"}]
              /\ UNCHANGED <<life, batch, spent, given>>
           \/ /\ s.in = InMax
              /\ ServiceInput(c, quiet)
              /\ turn' = [turn EXCEPT !.todo = {"service"}]
              /\ UNCHANGED <<life, batch, wire>>
        /\ UNCHANGED <<snd, gone, refresh, due>>

\* The service that ends the EPOLLIN part.
HandleInput ==
    /\ turn.todo = {"service"}
    /\ ServiceInput(turn.conn, conn[turn.conn])
    /\ turn' = NoTurn
    /\ UNCHANGED <<life, wire, snd, gone, batch, refresh, due>>

DoneTaking ==
    /\ turn # NoTurn /\ turn.todo = {}
    /\ turn' = NoTurn
    /\ UNCHANGED <<life, conn, wire, snd, gone, batch, refresh, due, spent, given>>

\* The refresh: every connection that is left gets its event, upon which the
\* application may send, and is serviced.  Results are not looked at.
BeginRefresh ==
    /\ Idle /\ due
    /\ refresh' = {c \in Conn : life[c] = "open"}
    /\ due' = FALSE
    /\ UNCHANGED <<life, conn, wire, snd, gone, batch, turn, spent, given>>

Refresh(c) ==
    /\ c \in refresh
    /\ \E r \in Serviced(conn[c]) :
         /\ conn' = [conn EXCEPT ![c] = r.state]
         /\ Spent(r.end)
         /\ given' = [given EXCEPT ![c] = IF r.end = "abort" THEN "at refresh" ELSE @]
    /\ refresh' = refresh \ {c}
    /\ UNCHANGED <<life, wire, snd, gone, batch, turn, due>>
-----------------------------------------------------------------------------
(* The application between rounds, the peers, and time. *)

\* rtmp_connect: create_stream for a client.
Connect(c) ==
    /\ Idle /\ life[c] = "new"
    /\ life' = [life EXCEPT ![c] = "open"]
    /\ UNCHANGED <<conn, wire, snd, gone, batch, turn, refresh, due, spent, given>>

\* rtmp_disconnect and rtmp_close_stream: destroy_stream.
Disconnect(c) ==
    /\ Idle /\ life[c] = "open"
    /\ life' = [life EXCEPT ![c] = "closed"]
    /\ UNCHANGED <<conn, wire, snd, gone, batch, turn, refresh, due, spent, given>>

Send(c) ==
    /\ Idle /\ life[c] = "open"
    /\ spent.sends < MaxSends /\ conn[c].out < OutMax
    /\ conn' = [conn EXCEPT ![c] = Notified([conn[c] EXCEPT !.out = @ + 1], {"out"})]
    /\ spent' = [spent EXCEPT !.sends = @ + 1]
    /\ UNCHANGED <<life, wire, snd, gone, batch, turn, refresh, due, given>>

Peer(c) ==
    /\ \/ /\ life[c] = "new"
          /\ life' = [life EXCEPT ![c] = "waiting"]
          /\ UNCHANGED <<wire, snd, gone, spent>>
       \/ /\ life[c] = "open" /\ gone[c] = "no" /\ spent.in < MaxIn
          /\ wire' = [wire EXCEPT ![c] = @ + 1]
          /\ spent' = [spent EXCEPT !.in = @ + 1]
          /\ UNCHANGED <<life, snd, gone>>
       \/ /\ life[c] = "open" /\ gone[c] = "no" /\ spent.leaves < MaxLeaves
          /\ gone' \in {[gone EXCEPT ![c] = how] : how \in {"closed", "reset"}}
          /\ spent' = [spent EXCEPT !.leaves = @ + 1]
          /\ UNCHANGED <<life, wire, snd>>
    /\ UNCHANGED <<conn, batch, turn, refresh, due, given>>

PeerReads(c) ==
    /\ snd[c] > 0 /\ gone[c] = "no"
    /\ snd' = [snd EXCEPT ![c] = @ - 1]
    /\ UNCHANGED <<life, conn, wire, gone, batch, turn, refresh, due, spent, given>>

\* Time is looked at between rounds only.
Elapse ==
    /\ Idle /\ ~due
    /\ due' = TRUE
    /\ UNCHANGED <<life, conn, wire, snd, gone, batch, turn, refresh, spent, given>>

Handling ==
    \/ Accept \/ Take \/ HungUp \/ HandleOut \/ HandleIn \/ HandleInput \/ DoneTaking
    \/ \E c \in Conn : Refresh(c)

Next ==
    \/ Handling \/ Poll \/ BeginRefresh \/ Elapse
    \/ \E c \in Conn : \/ Connect(c) \/ Disconnect(c) \/ Send(c)
                       \/ Peer(c) \/ PeerReads(c)

\* The application calls rtmp_service again and again; a round in which nothing
\* is due ends at once.
Fairness ==
    /\ WF_vars(Handling) /\ SF_vars(Poll) /\ SF_vars(BeginRefresh) /\ WF_vars(Elapse)
    /\ \A c \in Conn : WF_vars(PeerReads(c))

Spec == Init /\ [][Next]_vars /\ Fairness
-----------------------------------------------------------------------------
(* Properties. *)

Buffers == [in : 0..InMax, out : 0..OutMax, flags : SUBSET Both,
            armed : SUBSET Both, closing : BOOLEAN]
Events == [conn : Conn \cup {Listener}, events : SUBSET {"hup", "in", "out"}]
Turns == [conn : Conn, todo : SUBSET {"hup", "in", "out", "service"}, e : SUBSET Both]

\* Every variable keeps its type, and the buffers their capacity.
TypeOK ==
    /\ life \in [Conn -> {"new", "waiting", "open", "closed"}]
    /\ conn \in [Conn -> Buffers]
    /\ wire \in [Conn -> 0..MaxIn] /\ snd \in [Conn -> 0..SndMax]
    /\ gone \in [Conn -> {"no", "closed", "reset"}]
    /\ batch \in Seq(Events) /\ turn \in Turns \cup {NoTurn}
    /\ refresh \subseteq Conn /\ due \in BOOLEAN
    /\ given \in [Conn -> {"no", "aborted", "at refresh"}]

Live(c) == life[c] = "open" /\ turn.conn # c

\* Input is not watched: the in buffer is full, or was when a handler that aborted
\* at a refresh had it cleared, and no EMPTIED event followed.
Choked(c) ==
    "in" \notin conn[c].flags /\ (conn[c].in = InMax \/ given[c] = "at refresh")

\* And nothing in the manager will change that: the kernel does not watch for
\* output either, though the manager believes it does, or the input was cleared.
Deaf(c) ==
    /\ "in" \notin conn[c].flags
    /\ "out" \in conn[c].flags \ conn[c].armed \/ given[c] = "at refresh"

\* Between the turns of a connection with output the kernel watches for room in
\* its socket: stream_event re-arms EPOLLOUT on FILLED, and the e.events that
\* handle_stream read before a service never undoes it, except while a full in
\* buffer waits for a handler that fails after it has answered.
ArmedForOutput ==
    \A c \in Conn : Live(c) /\ conn[c].out > 0 => "out" \in conn[c].armed \/ Choked(c)

\* A connection that was aborted while the manager read from it is closed by the
\* manager only when all of its output, the last answers included, is sent,
\* unless the peer has gone (stream->closing in handle_stream).
FlushedBeforeClosed ==
    [][\A c \in Conn :
          conn[c].closing /\ turn.conn = c /\ gone[c] = "no"
          /\ life[c] = "open" /\ life'[c] = "closed" => conn[c].out = 0]_vars

\* What is put into an out buffer leaves it: EPOLLOUT is dropped and regained
\* without losing a wake-up, and an event dropped with its round comes again.
\* The exception is a connection that handlers which fail leave deaf for good.
OutputFlows ==
    \A c \in Conn : conn[c].out > 0 ~>
        (conn[c].out = 0 \/ life[c] = "closed" \/ []Deaf(c))

\* OutputFlows without its exception.
OutputAlwaysFlows ==
    \A c \in Conn : conn[c].out > 0 ~> (conn[c].out = 0 \/ life[c] = "closed")

\* What a peer sends is received even if the in buffer was full and the round in
\* which it was due ended early, unless its connection is closing, or deaf.
InputTaken ==
    \A c \in Conn : wire[c] > 0 ~>
        (wire[c] = 0 \/ conn[c].closing \/ life[c] = "closed" \/ []Deaf(c))

\* After a callback has returned RTMP_CB_ABORT the connection is closed
\* (callback_semantics: "close the stream").
AbortCloses ==
    \A c \in Conn : given[c] # "no" ~> life[c] = "closed"

\* The aborts whose result handle_stream looks at do close the connection.
AbortWhileReadingCloses ==
    \A c \in Conn : given[c] = "aborted" ~> life[c] = "closed"
=============================================================================

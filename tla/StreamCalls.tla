---------------------------- MODULE StreamCalls -----------------------------
(***************************************************************************)
(* rtmp_stream: remote calls, the replies that complete them, and the      *)
(* callbacks registered for whatever else arrives.                         *)
(*                                                                         *)
(* Two ends of one connection.  A message is one chunk long and is handed  *)
(* over whole, unless the assembler had no room for all of it (cut).  The  *)
(* connection in between is a queue of at most Room messages each way: a   *)
(* send that finds it full is RTMP_ERR_AGAIN and sends nothing.  One step  *)
(* is one callback.  A verdict other than CONTINUE ends the walk, and the  *)
(* message is put back and handed over again from the start.               *)
(***************************************************************************)
EXTENDS Integers, Sequences, FiniteSets, SequencesExt

CONSTANTS
    End,         \* the two ends of the connection
    Callers,     \* the ends whose application issues calls
    Names,       \* names of commands
    StartsWith,  \* pairs <<a, b>> of different names where a starts with b
    Served,      \* names whose handler responds; the others' only listen
    Tidings,     \* bound: the messages without a number that are sent
    Room,        \* bound: messages under way in one direction
    Timeout,     \* RTMP_CALL_TIMEOUT
    MaxClock,    \* bound: how far the clock runs
    MaxCalls,    \* bound: calls per end
    MaxTold,     \* bound: messages that are no command, all ends together
    MaxLate,     \* bound: callbacks registered later on
    MaxFaults,   \* bound: verdicts other than CONTINUE
    Verdicts     \* what a callback may return

ASSUME CallsAssumption ==
    /\ Cardinality(End) = 2 /\ Callers \subseteq End
    /\ IsFiniteSet(Names) /\ StartsWith \subseteq Names \X Names /\ Served \subseteq Names
    /\ {Room, Timeout, MaxClock, MaxCalls, MaxTold, MaxLate, MaxFaults} \subseteq Nat
    /\ Tidings \subseteq [kind : {"dat", "usr", "av"}, name : Names, num : {0},
                          answer : {FALSE}, cut : BOOLEAN]
    /\ "continue" \in Verdicts
    /\ Verdicts \subseteq {"continue", "error", "pause", "abort"}

VARIABLES
    seqNum,      \* seq_num: the number of an end's next call
    calls,       \* call_callback: the calls that wait for a reply
    listeners,   \* msg_callback, amf_callback and usr_callback
    inbox,       \* messages that reached an end or are under way to it
    walk,        \* where an end is in the callbacks for its first message
    paused,      \* conn->paused
    open,        \* neither end gave up the connection
    clock,       \* rtmp_get_time
    told,        \* how many messages that are no command were sent
    late,        \* how many callbacks were registered later on
    faults,      \* how many verdicts other than CONTINUE were given
    asked,       \* history: calls issued with a callback
    sent,        \* history: calls that had room
    ran,         \* history: runs of reply callbacks
    settled      \* history: calls whose callback ended with CONTINUE in time

vars == <<seqNum, calls, listeners, inbox, walk, paused, open, clock, told, late,
          faults, asked, sent, ran, settled>>

Peer(e) == CHOOSE x \in End : x # e

Message == [kind : {"cmd", "dat", "usr", "av"}, name : Names \cup {"_result"},
            num : 0..MaxCalls, answer : BOOLEAN, cut : BOOLEAN]
Command(name, n) == [kind |-> "cmd", name |-> name, num |-> n,
                     answer |-> FALSE, cut |-> FALSE]
Reply(m) == [m EXCEPT !.name = "_result", !.answer = TRUE]

Listener == [kind : {"any", "cmd", "dat", "av"}, name : Names \cup {"any"},
             serves : BOOLEAN]
Ear(kind, name, serves) == [kind |-> kind, name |-> name, serves |-> serves]

\* Servers register a handler per command; everyone may watch all messages.
Init ==
    /\ seqNum = [e \in End |-> 1]
    /\ calls = [e \in End |-> <<>>]
    /\ listeners = [e \in End |->
         [msg |-> <<Ear("av", "any", FALSE)>>,
          amf |-> SetToSeq({Ear("cmd", n, n \in Served) : n \in Names}),
          usr |-> <<Ear("any", "any", FALSE)>>]]
    /\ inbox = [e \in End |-> <<>>]
    /\ walk = [e \in End |-> <<1, 1>>]
    /\ paused = [e \in End |-> FALSE]
    /\ open = TRUE /\ clock = 0 /\ told = 0 /\ late = 0 /\ faults = 0
    /\ asked = [e \in End |-> {}] /\ sent = [e \in End |-> {}]
    /\ ran = [e \in End |-> {}] /\ settled = [e \in End |-> {}]
-----------------------------------------------------------------------------
(* What is called for a message, and in which order. *)

\* The tables a message goes through.
Plan(m) ==
    CASE m.kind \in {"cmd", "dat"} -> <<"msg", "call", "amf">>
      [] m.kind = "usr"            -> <<"msg", "usr">>
      [] m.kind = "av"             -> <<"msg">>

\* strncmp(cb->name, name, len) == 0: what was registered starts with what
\* was received.
NameFits(wanted, name) ==
    wanted \in {"any", name} \/ <<wanted, name>> \in StartsWith

Hears(l, m) == l.kind \in {"any", m.kind} /\ NameFits(l.name, m.name)

\* Mutant: any reply completes a call.
AwaitsAny(c, m) == m.num # 0
Awaits(c, m) == c.seq = m.num

\* Positions <<table, index>> of the callbacks that want an end's first message
\* and have not had it.  A command that is not complete gets no further than
\* the message callbacks.
Due(e) ==
    LET m == Head(inbox[e])
        Wants(k) ==
          IF k > 1 /\ m.cut THEN {}
          ELSE IF Plan(m)[k] = "call"
          THEN {i \in DOMAIN calls[e] : Awaits(calls[e][i], m)}
          ELSE {i \in DOMAIN listeners[e][Plan(m)[k]] : Hears(listeners[e][Plan(m)[k]][i], m)}
    IN  UNION {{<<k, i>> : i \in {j \in Wants(k) : k > walk[e][1] \/ j >= walk[e][2]}}
               : k \in walk[e][1]..Len(Plan(m))}

\* The position the walk comes to next, if there is one.
Coming(e) == {p \in Due(e) : \A q \in Due(e) : p[1] < q[1] \/ (p[1] = q[1] /\ p[2] <= q[2])}
Table(e, p) == Plan(Head(inbox[e]))[p[1]]

HasRoom(e) == Len(inbox[Peer(e)]) < Room

\* Mutant: a send does not look whether it fits.
PostedAnyway(e, m) == [inbox EXCEPT ![Peer(e)] = Append(@, m)]
\* The queues after end e sends a message, or fails to.
Posted(e, m) == IF HasRoom(e) THEN [inbox EXCEPT ![Peer(e)] = Append(@, m)] ELSE inbox

\* Mutant: a message whose callback fails is dropped.
OutcomeDropping(e, v, next, queues) ==
    /\ v # "continue" => faults < MaxFaults
    /\ faults' = IF v = "continue" THEN faults ELSE faults + 1
    /\ paused' = [paused EXCEPT ![e] = @ \/ v = "pause"]
    /\ open' = (v # "abort")
    /\ walk' = [walk EXCEPT ![e] = IF v = "continue" THEN next ELSE <<1, 1>>]
    /\ inbox' = IF v = "continue" THEN queues
                ELSE [queues EXCEPT ![e] = Tail(@)]

\* What a verdict does: the walk goes on, or the message is put back, or the
\* input is cleared and the connection given up.
Outcome(e, v, next, queues) ==
    /\ v # "continue" => faults < MaxFaults
    /\ faults' = IF v = "continue" THEN faults ELSE faults + 1
    /\ paused' = [paused EXCEPT ![e] = @ \/ v = "pause"]
    /\ open' = (v # "abort")
    /\ walk' = [walk EXCEPT ![e] = IF v = "continue" THEN next ELSE <<1, 1>>]
    /\ inbox' = IF v = "abort" THEN [queues EXCEPT ![e] = <<>>] ELSE queues
-----------------------------------------------------------------------------
(* Callbacks. *)

\* rtmp_stream_call_msg and rtmp_stream_call_usr.
Watch(e, p) ==
    /\ Table(e, p) \in {"msg", "usr"}
    /\ \E v \in Verdicts : Outcome(e, v, <<p[1], p[2] + 1>>, inbox)
    /\ UNCHANGED <<seqNum, calls, listeners, clock, told, late, asked, sent, ran, settled>>

\* Mutant: the newest entry goes, not the one that was completed.
WithoutLast(s, i) == Front(s)
Without(s, i) == RemoveAt(s, i)

\* rtmp_stream_call2_va: the entry is made before the send is tried, and the
\* number is used up whatever becomes of it.
Place(e, name, wanted, kept) ==
    /\ seqNum[e] <= MaxCalls
    /\ seqNum' = [seqNum EXCEPT ![e] = @ + 1]
    /\ calls' = [calls EXCEPT ![e] = IF wanted
                   THEN Append(kept, [seq |-> seqNum[e], issued |-> clock]) ELSE kept]
    /\ asked' = [asked EXCEPT ![e] = IF wanted THEN @ \cup {seqNum[e]} ELSE @]
    /\ sent' = [sent EXCEPT ![e] = IF HasRoom(e) THEN @ \cup {seqNum[e]} ELSE @]

\* The callback of a call runs, and may issue another one.  The entry goes
\* when the callback is content and the time limit has not passed.
Complete(e, p) ==
    /\ Table(e, p) = "call"
    /\ \E v \in Verdicts :
       LET m == Head(inbox[e])
           i == p[2]
           c == calls[e][i]
           gone == v = "continue" /\ c.issued + Timeout > clock
           kept == IF gone THEN Without(calls[e], i) ELSE calls[e]
           next == <<p[1], IF gone THEN i ELSE i + 1>>
       IN  /\ \/ /\ e \in Callers
                 /\ \E name \in Served :
                      /\ Place(e, name, TRUE, kept)
                      /\ Outcome(e, v, next, Posted(e, Command(name, seqNum[e])))
              \/ /\ calls' = [calls EXCEPT ![e] = kept]
                 /\ Outcome(e, v, next, inbox)
                 /\ UNCHANGED <<seqNum, asked, sent>>
           /\ ran' = [ran EXCEPT ![e] = @ \cup {[seq |-> c.seq, own |-> m.answer /\ m.num = c.seq,
                                                content |-> v = "continue"]}]
           /\ settled' = [settled EXCEPT ![e] = IF gone THEN @ \cup {c.seq} ELSE @]
    /\ UNCHANGED <<listeners, clock, told, late>>

\* A handler registered with reg_amf.  One that serves a command responds
\* first and fails when the response cannot be sent.
Handle(e, p) ==
    /\ Table(e, p) = "amf"
    /\ LET m == Head(inbox[e])
           responds == listeners[e].amf[p[2]].serves
           next == <<p[1], p[2] + 1>>
       IN  IF responds /\ ~HasRoom(e)
           THEN /\ walk' = [walk EXCEPT ![e] = <<1, 1>>]
                /\ UNCHANGED <<inbox, paused, open, faults>>
           ELSE \E v \in Verdicts :
                Outcome(e, v, next, IF responds THEN Posted(e, Reply(m)) ELSE inbox)
    /\ UNCHANGED <<seqNum, calls, listeners, clock, told, late, asked, sent, ran, settled>>

\* Nothing is left to call: the message is done with.
Finish(e) ==
    /\ IF Head(inbox[e]).cut /\ Head(inbox[e]).kind # "av"
       THEN open' = FALSE /\ inbox' = [inbox EXCEPT ![e] = <<>>]
       ELSE inbox' = [inbox EXCEPT ![e] = Tail(@)] /\ UNCHANGED open
    /\ walk' = [walk EXCEPT ![e] = <<1, 1>>]
    /\ UNCHANGED <<seqNum, calls, listeners, paused, clock, told, late, faults, asked,
                   sent, ran, settled>>
-----------------------------------------------------------------------------
(* The application, outside of callbacks. *)

\* rtmp_stream_call, with or without a callback for the reply.
Call(e) ==
    /\ open /\ e \in Callers
    /\ walk[e] = <<1, 1>>
    /\ \E name \in Served, wanted \in BOOLEAN :
         /\ Place(e, name, wanted, calls[e])
         /\ inbox' = Posted(e, Command(name, seqNum[e]))
    /\ UNCHANGED <<listeners, walk, paused, open, clock, told, late, faults, ran, settled>>

\* Audio, video, data and user control messages.
Tell(e) ==
    /\ open /\ told < MaxTold /\ walk[e] = <<1, 1>>
    /\ \E m \in Tidings : inbox' = Posted(e, m)
    /\ told' = told + 1
    /\ UNCHANGED <<seqNum, calls, listeners, walk, paused, open, clock, late, faults,
                   asked, sent, ran, settled>>

\* rtmp_stream_reg_msg, reg_amf and reg_usr, at any time.
Register(e) ==
    /\ open /\ late < MaxLate
    /\ \E table \in {"msg", "amf", "usr"} :
         listeners' = [listeners EXCEPT ![e][table] = Append(@, Ear("any", "any", FALSE))]
    /\ late' = late + 1
    /\ UNCHANGED <<seqNum, calls, inbox, walk, paused, open, clock, told, faults,
                   asked, sent, ran, settled>>

\* rtmp_chunk_conn_pause(conn, false).
Unpause(e) ==
    /\ paused[e]
    /\ paused' = [paused EXCEPT ![e] = FALSE]
    /\ UNCHANGED <<seqNum, calls, listeners, inbox, walk, open, clock, told, late, faults,
                   asked, sent, ran, settled>>

\* The time is read once per message, before its callbacks.
Tick ==
    /\ clock < MaxClock
    /\ \A e \in End : walk[e] = <<1, 1>>
    /\ clock' = clock + 1
    /\ UNCHANGED <<seqNum, calls, listeners, inbox, walk, paused, open, told, late, faults,
                   asked, sent, ran, settled>>

\* One step of the service loop with a message to hand over.
Serve(e) ==
    /\ open /\ ~paused[e] /\ inbox[e] # <<>>
    /\ LET coming == Coming(e) IN
       \/ \E p \in coming : Watch(e, p) \/ Complete(e, p) \/ Handle(e, p)
       \/ coming = {} /\ Finish(e)

Next ==
    \/ \E e \in End : Serve(e) \/ Call(e) \/ Tell(e) \/ Register(e) \/ Unpause(e)
    \/ Tick

\* The manager services every connection at the latest when it refreshes, and
\* an application that pauses is taken to resume.
Spec == Init /\ [][Next]_vars /\ \A e \in End : WF_vars(Serve(e)) /\ WF_vars(Unpause(e))
-----------------------------------------------------------------------------
(* Properties. *)

\* Every variable keeps its type, and a direction never holds more than Room.
TypeOK ==
    /\ seqNum \in [End -> 1..(MaxCalls + 1)]
    /\ \A e \in End :
         /\ \A i \in DOMAIN calls[e] :
              calls[e][i] \in [seq : 1..MaxCalls, issued : 0..MaxClock]
         /\ \A t \in {"msg", "amf", "usr"} : ToSet(listeners[e][t]) \subseteq Listener
         /\ ToSet(inbox[e]) \subseteq Message /\ Len(inbox[e]) <= Room
    /\ walk \in [End -> (1..3) \X (1..(MaxCalls + MaxLate + Cardinality(Names) + 2))]
    /\ paused \in [End -> BOOLEAN] /\ open \in BOOLEAN
    /\ clock \in 0..MaxClock /\ told \in 0..MaxTold /\ late \in 0..MaxLate /\ faults \in 0..MaxFaults

\* The callback of a call is given the reply to that call and nothing else.
OwnReplyOnly == \A e \in End : \A r \in ran[e] : r.own

\* A call waits until its callback accepted a reply in time, through failing
\* callbacks, repeated deliveries and calls made from callbacks; from then on
\* it does not wait any more, so a second reply finds nothing to run.
WaitingUntilSettled ==
    \A e \in End : {calls[e][i].seq : i \in DOMAIN calls[e]} = asked[e] \ settled[e]

\* A call that had room is completed in the end: whatever its handler and its
\* callback return on the way, unless the connection is given up.
CallsComplete ==
    \A e \in End : \A n \in 1..MaxCalls :
        (n \in asked[e] \cap sent[e])
          ~> (~open \/ \E r \in ran[e] : r.seq = n /\ r.own /\ r.content)
=============================================================================

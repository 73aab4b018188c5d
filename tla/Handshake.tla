----------------------------- MODULE Handshake ------------------------------
(***************************************************************************)
(* The RTMP handshake between two endpoints built on rtmp_chunk_conn.c:    *)
(* C0 C1 C2 one way, S0 S1 S2 the other, moved by the service loop of each *)
(* endpoint through buffers of limited size and a network that delivers    *)
(* any number of bytes at a time.                                          *)
(*                                                                         *)
(* Message i of endpoint e is a run of Units(i) units; a unit is the least *)
(* the network moves, so a message arrives in pieces.  The nonce and the   *)
(* time of message 1 are one token, drawn anew at every attempt to emit    *)
(* it; message 2 echoes the token of the peer.  One step of Service is one *)
(* turn of the loop in rtmp_chunk_conn_service; while the loop runs, the   *)
(* single thread of the endpoint does nothing else.                        *)
(***************************************************************************)
EXTENDS Integers, Sequences

CONSTANTS
    Parts,      \* units of messages 1 and 2 (1536 bytes; message 0 is one byte)
    Settings    \* what the endpoints may be set up with, see below

Endpoint == {"client", "server"}

\* Of an endpoint: the units its in and its out buffer can hold, and those of
\* the message its CONNECT_SUCCESS callback sends, 0 for none.
ASSUME HandshakeAssumption ==
    /\ Parts \in Nat \ {0}
    /\ \A s \in Settings : s \in [io : [Endpoint -> Nat], greeting : [Endpoint -> Nat]]
    /\ \A s \in Settings, e \in Endpoint : s.io[e] >= Parts

VARIABLES
    setting,    \* one of Settings, for good
    status,     \* the messages <<sender, i>> an endpoint has emitted or read
    in,         \* what the socket delivered and the endpoint has not consumed
    out,        \* what the endpoint wrote and the socket has not taken
    net,        \* units on their way to an endpoint
    token,      \* nonce and time of the endpoint's own message 1
    peerToken,  \* nonce and time it read in its peer's message 1
    running,    \* the service loop is between two turns
    success,    \* how often CONNECT_SUCCESS fired
    rejected,   \* an echo failed verification (RTMP_ERR_INVALID)
    sent,       \* history: all that was ever committed to out
    heard       \* the units of application data received

vars == <<setting, status, in, out, net, token, peerToken, running, success,
          rejected, sent, heard>>

IoSize(e) == setting.io[e]
Greeting(e) == setting.greeting[e]

Peer(e) == IF e = "client" THEN "server" ELSE "client"
Shake == 0..2
Data == 3               \* what stands for i in units of later messages
NoToken == 3
Tokens == 0..2          \* fresh means: not the one before
Fresh(t) == (t + 1) % 3

Units(i) == IF i = 0 THEN 1 ELSE Parts
Frame(e, i, t) == [k \in 1..Units(i) |-> [from |-> e, msg |-> i, part |-> k, token |-> t]]
DataFrame(e) ==
    [k \in 1..Greeting(e) |-> [from |-> e, msg |-> Data, part |-> k, token |-> NoToken]]

Has(e, sender, i) == <<sender, i>> \in status[e]
Connected(e) == status[e] = Endpoint \X Shake

\* The first message of a sender for which an endpoint has no flag yet.
Due(e, sender) ==
    LET missing == {i \in Shake : ~Has(e, sender, i)}
    IN  IF missing = {} THEN Data ELSE CHOOSE i \in missing : \A j \in missing : i <= j

\* client_emit and server_emit: what must have happened before message i.
MayEmit(e, i) ==
    CASE i = 0 -> e = "client" \/ Has(e, "client", 0)
      [] i = 1 -> TRUE
      [] i = 2 -> Has(e, Peer(e), 0) /\ Has(e, Peer(e), 1)
      [] OTHER -> FALSE

\* Mutant: both sides insist on having spoken first.
MayIngestSecond(e, i) == i \in Shake /\ Has(e, e, 0)

\* client_ingest and server_ingest: what must have happened before reading i.
MayIngest(e, i) ==
    CASE i \in {0, 1} -> e = "server" \/ Has(e, e, 0)
      [] i = 2 -> Has(e, e, 0) /\ Has(e, e, 1)
      [] OTHER -> FALSE

\* Mutant: the room is that of an empty buffer.
RoomWhenEmpty(e) == IoSize(e)

Room(e) == IoSize(e) - Len(out[e])
-----------------------------------------------------------------------------
Init ==
    /\ setting \in Settings
    /\ status = [e \in Endpoint |-> {}]
    /\ in = [e \in Endpoint |-> <<>>]
    /\ out = [e \in Endpoint |-> <<>>]
    /\ net = [e \in Endpoint |-> <<>>]
    /\ token = [e \in Endpoint |-> 0]
    /\ peerToken = [e \in Endpoint |-> NoToken]
    /\ running = [e \in Endpoint |-> FALSE]
    /\ success = [e \in Endpoint |-> 0]
    /\ rejected = [e \in Endpoint |-> FALSE]
    /\ sent = [e \in Endpoint |-> <<>>]
    /\ heard = [e \in Endpoint |-> 0]

Commit(e, units) ==
    /\ out' = [out EXCEPT ![e] = @ \o units]
    /\ sent' = [sent EXCEPT ![e] = @ \o units]

\* The loop goes on (TRUE) or returns.
Loop(e, on) == running' = [running EXCEPT ![e] = on]

\* Mutant: the handshake counts as complete with the peer's messages alone.
FinalizesWithoutOwn(e, sender, i) ==
    {Peer(e)} \X Shake \subseteq status[e] \cup {<<sender, i>>}

\* The flag of message i; tryfinalize fires CONNECT_SUCCESS with the last of six.
Finalizes(e, sender, i) == status[e] \cup {<<sender, i>>} = Endpoint \X Shake
Flag(e, sender, i) ==
    /\ status' = [status EXCEPT ![e] = @ \cup {<<sender, i>>}]
    /\ success' = [success EXCEPT ![e] = @ + IF Finalizes(e, sender, i) THEN 1 ELSE 0]

\* Mutant: message 1 carries the nonce of an earlier attempt.
ContentsStale(e, i) == Frame(e, i, IF i = 2 THEN peerToken[e] ELSE token[e])

Contents(e, i) ==
    Frame(e, i, CASE i = 1 -> Fresh(token[e]) [] i = 2 -> peerToken[e] [] OTHER -> NoToken)

\* Mutant: the callback's message is not part of what the transaction commits.
EmitDroppingGreeting(e, i) ==
    /\ MayEmit(e, i)
    /\ Units(i) <= Room(e)
    /\ Commit(e, Contents(e, i))
    /\ token' = [token EXCEPT ![e] = IF i = 1 THEN Fresh(@) ELSE @]
    /\ Flag(e, e, i)
    /\ Loop(e, TRUE)
    /\ UNCHANGED <<in, net, peerToken, rejected, heard>>

\* Writing message i inside the write transaction of the service loop.  The
\* callback's message goes into the same transaction: when it fits, both are
\* committed there and nothing is left for the loop to commit; when it does
\* not, its rollback takes message i with it.
Emit(e, i) ==
    LET greets == Finalizes(e, e, i) /\ Greeting(e) > 0
        all    == Contents(e, i) \o (IF greets THEN DataFrame(e) ELSE <<>>)
    IN  /\ MayEmit(e, i)
        /\ Units(i) <= Room(e)
        /\ IF Len(all) <= Room(e) THEN Commit(e, all) ELSE UNCHANGED <<out, sent>>
        /\ token' = [token EXCEPT ![e] = IF i = 1 THEN Fresh(@) ELSE @]
        /\ Flag(e, e, i)
        /\ Loop(e, ~greets)
        /\ UNCHANGED <<in, net, peerToken, rejected, heard>>

\* The turn commits nothing (RTMP_ERR_AGAIN, or nothing to emit): the loop
\* returns.  A failed attempt at message 1 has drawn a nonce and a time.
EmitBlocked(e, i) ==
    /\ ~MayEmit(e, i) \/ Units(i) > Room(e)
    /\ token' = [token EXCEPT ![e] = IF i = 1 THEN Fresh(@) ELSE @]
    /\ Loop(e, FALSE)
    /\ UNCHANGED <<status, in, out, net, peerToken, success, rejected, sent, heard>>

\* Mutant: a message of which only a piece has arrived counts as read.
Enough(e, i) == TRUE
Arrived(e, i) == Len(in[e]) >= Units(i)

\* Consuming message i.  An echo is compared with the nonce and time this
\* endpoint sent; an endpoint whose last flag this is calls back outside any
\* write transaction.
Ingest(e, i) ==
    LET echo  == Head(in[e]).token
        valid == i = 2 => echo = token[e]
        greets == Finalizes(e, Peer(e), i) /\ Greeting(e) <= Room(e)
    IN  /\ MayIngest(e, i)
        /\ Arrived(e, i)
        /\ IF valid
           THEN /\ in' = [in EXCEPT ![e] = SubSeq(@, Units(i) + 1, Len(@))]
                /\ Flag(e, Peer(e), i)
                /\ Commit(e, IF greets THEN DataFrame(e) ELSE <<>>)
           ELSE UNCHANGED <<in, out, sent, status, success>>
        /\ peerToken' = [peerToken EXCEPT ![e] = IF i = 1 THEN echo ELSE @]
        /\ rejected' = [rejected EXCEPT ![e] = @ \/ ~valid]
        /\ Loop(e, valid)
        /\ UNCHANGED <<net, token, heard>>

\* Not all of it has arrived, or it is not yet time to read it.
IngestBlocked(e, i) ==
    /\ ~MayIngest(e, i) \/ ~Arrived(e, i)
    /\ Loop(e, FALSE)
    /\ UNCHANGED <<status, in, out, net, token, peerToken, success, rejected,
                   sent, heard>>

\* After the handshake input goes to the chunk reader (see ChunkTransfer).
Recv(e) ==
    /\ in' = [in EXCEPT ![e] = Tail(@)]
    /\ heard' = [heard EXCEPT ![e] = @ + 1]
    /\ Loop(e, TRUE)
    /\ UNCHANGED <<status, out, net, token, peerToken, success, rejected, sent>>

Idle(e) ==
    /\ Loop(e, FALSE)
    /\ UNCHANGED <<status, in, out, net, token, peerToken, success, rejected,
                   sent, heard>>

\* One turn of the loop in rtmp_chunk_conn_service: input if there is any, else
\* output.
Service(e) ==
    \/ /\ ~Connected(e) /\ in[e] = <<>>
       /\ LET i == Due(e, e) IN Emit(e, i) \/ EmitBlocked(e, i)
    \/ /\ ~Connected(e) /\ in[e] # <<>>
       /\ LET i == Due(e, Peer(e)) IN Ingest(e, i) \/ IngestBlocked(e, i)
    \/ Connected(e) /\ in[e] # <<>> /\ Recv(e)
    \/ Connected(e) /\ in[e] = <<>> /\ Idle(e)

\* The socket takes a unit of output (get_out_buff, send, commit_out_buff).
Transmit(e) ==
    /\ ~running[e]
    /\ out[e] # <<>>
    /\ net' = [net EXCEPT ![Peer(e)] = Append(@, Head(out[e]))]
    /\ out' = [out EXCEPT ![e] = Tail(@)]
    /\ UNCHANGED <<status, in, token, peerToken, running, success, rejected, sent, heard>>

\* The socket delivers a unit (get_in_buff, recv, commit_in_buff).
Deliver(e) ==
    /\ ~running[e]
    /\ net[e] # <<>>
    /\ Len(in[e]) < IoSize(e)
    /\ in' = [in EXCEPT ![e] = Append(@, Head(net[e]))]
    /\ net' = [net EXCEPT ![e] = Tail(@)]
    /\ UNCHANGED <<status, out, token, peerToken, running, success, rejected, sent, heard>>

Next ==
    /\ UNCHANGED setting
    /\ \E e \in Endpoint : Service(e) \/ Transmit(e) \/ Deliver(e)

\* The event loop comes back to every stream, at the latest when it refreshes
\* them all (rtmp_service), and a connected socket keeps moving bytes.
Fairness == \A e \in Endpoint :
    /\ WF_vars(UNCHANGED setting /\ Service(e))
    /\ WF_vars(UNCHANGED setting /\ Transmit(e))
    /\ WF_vars(UNCHANGED setting /\ Deliver(e))

Spec == Init /\ [][Next]_vars /\ Fairness
-----------------------------------------------------------------------------
Unit == [from : Endpoint, msg : 0..Data, part : Nat, token : 0..NoToken]

\* Types and limits: no buffer holds more than it has room for, and
\* CONNECT_SUCCESS fires at most once.
TypeOK ==
    /\ setting \in Settings
    /\ status \in [Endpoint -> SUBSET (Endpoint \X Shake)]
    /\ \A e \in Endpoint :
         /\ Len(in[e]) <= IoSize(e) /\ Len(out[e]) <= IoSize(e)
         /\ \A q \in {in[e], out[e], net[e], sent[e]} :
              \A k \in DOMAIN q : q[k] \in Unit
    /\ token \in [Endpoint -> Tokens]
    /\ peerToken \in [Endpoint -> 0..NoToken]
    /\ running \in [Endpoint -> BOOLEAN]
    /\ success \in [Endpoint -> 0..1]
    /\ rejected \in [Endpoint -> BOOLEAN]
    /\ heard \in [Endpoint -> Nat]

\* The fields of a unit that place it in the stream.
Place(u) == <<u.msg, u.part>>

\* Between two endpoints that follow the protocol no echo fails verification,
\* however often message 1 had to be tried with new nonces before it fitted.
HonestNeverRejected == \A e \in Endpoint : ~rejected[e]

\* rtmp_constants.h:104 on CONNECT_SUCCESS: "a valid handshake transpired.
\* Communication may commence" - an endpoint that was told so has handed its
\* three messages, whole and in order and before anything else, to the socket
\* buffer.
SuccessMeansShakeSent ==
    \A e \in Endpoint : success[e] > 0 =>
        LET shake == Frame(e, 0, 0) \o Frame(e, 1, 0) \o Frame(e, 2, 0)
        IN  /\ Len(sent[e]) >= Len(shake)
            /\ \A k \in DOMAIN shake : Place(sent[e][k]) = Place(shake[k])

\* What an endpoint consumes as message i is message i, all of it, and what it
\* hands to the chunk reader is what the peer sent after its handshake: the two
\* sides never disagree on where in the stream they are.
NothingMisread ==
    [][\A e \in Endpoint :
        LET gone == SubSeq(in[e], 1, Len(in[e]) - Len(in'[e]))
            i    == Due(e, Peer(e))
        IN  Len(gone) > 0 =>
              IF i = Data THEN gone[1].msg = Data
              ELSE /\ Len(gone) = Units(i)
                   /\ \A k \in DOMAIN gone : Place(gone[k]) = <<i, k>>]_vars

\* Both endpoints complete the handshake: input waiting for output, output
\* waiting for room and a message in pieces never block each other for good.
BothConnect == <>(\A e \in Endpoint : Connected(e))

\* What an endpoint sends from its CONNECT_SUCCESS callback is received.
GreetingsArrive == \A e \in Endpoint : <>(heard[Peer(e)] = Greeting(e))
=============================================================================

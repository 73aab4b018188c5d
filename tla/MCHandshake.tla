---------------------------- MODULE MCHandshake -----------------------------
EXTENDS Handshake

Both(client, server) == [e \in Endpoint |-> IF e = "client" THEN client ELSE server]

\* Buffers a handshake message fills, at both ends or at one, and buffers that
\* hold one and a message sent from the CONNECT_SUCCESS callback.
EndpointSettings == {
    [io |-> Both(2, 2), greeting |-> Both(0, 0)],
    [io |-> Both(3, 2), greeting |-> Both(1, 0)],
    [io |-> Both(2, 3), greeting |-> Both(0, 1)],
    [io |-> Both(3, 3), greeting |-> Both(1, 1)]}

\* A callback that sends more than fits beside the last handshake message.
LongGreeting == {[io |-> Both(3, 3), greeting |-> Both(2, 0)]}
=============================================================================

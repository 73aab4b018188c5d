-------------------------- MODULE HandshakeProofs ---------------------------
(***************************************************************************)
(* For any length of the handshake messages, any buffers that hold one and *)
(* any messages the callbacks send: the two endpoints agree on where in    *)
(* the stream they are, no echo is rejected, and who is told of success    *)
(* has sent its handshake if the callback's message fits beside the last   *)
(* handshake message in an empty buffer.                                   *)
(***************************************************************************)
EXTENDS Handshake, SequenceTheorems, TLAPS

\* What has left a sender: what was received and not consumed (a), is on its way
\* (b), and waits for the socket (c), after the r units that were consumed.
Aligned(s, r, a, b, c) ==
    /\ r + Len(a) + Len(b) + Len(c) = Len(s)
    /\ \A k \in 1..Len(a) : a[k] = s[r + k]
    /\ \A k \in 1..Len(b) : b[k] = s[r + Len(a) + k]
    /\ \A k \in 1..Len(c) : c[k] = s[r + Len(a) + Len(b) + k]

\* The units of the messages of a sender that an endpoint has a flag for.
Got(e, sender) ==
    IF ~Has(e, sender, 0) THEN 0
    ELSE IF ~Has(e, sender, 1) THEN 1
    ELSE IF ~Has(e, sender, 2) THEN 1 + Parts
    ELSE 1 + Parts + Parts

Consumed(e) == Got(e, Peer(e)) + heard[e]

\* The unit at place k of what an endpoint sends.
Shaped(u, k) ==
    /\ k = 1 => u.msg = 0 /\ u.part = 1
    /\ 1 < k /\ k <= 1 + Parts => u.msg = 1 /\ u.part = k - 1
    /\ 1 + Parts < k /\ k <= 1 + Parts + Parts => u.msg = 2 /\ u.part = k - (1 + Parts)
    /\ k > 1 + Parts + Parts => u.msg = Data

TypesOK ==
    /\ setting \in Settings
    /\ status \in [Endpoint -> SUBSET (Endpoint \X Shake)]
    /\ in \in [Endpoint -> Seq(Unit)] /\ out \in [Endpoint -> Seq(Unit)]
    /\ net \in [Endpoint -> Seq(Unit)] /\ sent \in [Endpoint -> Seq(Unit)]
    /\ token \in [Endpoint -> Tokens]
    /\ peerToken \in [Endpoint -> 0..NoToken]
    /\ running \in [Endpoint -> BOOLEAN]
    /\ success \in [Endpoint -> 0..1]
    /\ rejected \in [Endpoint -> BOOLEAN]
    /\ heard \in [Endpoint -> Nat]

SizesOK == \A e \in Endpoint : Len(in[e]) <= IoSize(e) /\ Len(out[e]) <= IoSize(e)

\* Messages are flagged in their order, an endpoint echoes what it has read, and
\* success is told with the last flag.
FlagsOK ==
    \A e \in Endpoint :
        /\ \A s \in Endpoint : (Has(e, s, 1) => Has(e, s, 0)) /\ (Has(e, s, 2) => Has(e, s, 1))
        /\ Has(e, e, 2) => Has(e, Peer(e), 1)
        /\ success[e] = IF Connected(e) THEN 1 ELSE 0
        /\ heard[e] > 0 => Connected(e)

\* What was sent is the handshake, up to the last message written, and after it
\* data; but the last message may have been rolled back with the callback's.
SentOK ==
    \A e \in Endpoint :
        /\ \A k \in 1..Len(sent[e]) : Shaped(sent[e][k], k)
        /\ ~Connected(e) => Len(sent[e]) = Got(e, e)
        /\ Connected(e) => Len(sent[e]) = 1 + Parts \/ Len(sent[e]) >= 1 + Parts + Parts

StreamOK ==
    \A e \in Endpoint : Aligned(sent[Peer(e)], Consumed(e), in[e], net[e], out[Peer(e)])

\* Message 1 carries the token of its sender, and message 2 the one it has read,
\* which is that of its peer.
TokensOK ==
    \A e \in Endpoint :
        /\ \A k \in 1..Len(sent[e]) :
             /\ sent[e][k].msg = 1 => sent[e][k].token = token[e]
             /\ sent[e][k].msg = 2 => sent[e][k].token = peerToken[e]
        /\ Has(e, Peer(e), 1) => peerToken[e] = token[Peer(e)]

\* The message of every callback fits beside the last message of the handshake.
GreetingsFit ==
    \A s \in Settings, e \in Endpoint : Parts + s.greeting[e] <= s.io[e]

Delivered ==
    GreetingsFit => \A e \in Endpoint : Connected(e) => Len(sent[e]) >= 1 + Parts + Parts

IndInv ==
    /\ TypesOK /\ SizesOK /\ FlagsOK /\ SentOK /\ StreamOK /\ TokensOK
    /\ HonestNeverRejected /\ Delivered
-----------------------------------------------------------------------------
(* The stream from a sender to its peer. *)

\* More is written.
LEMMA WriteOK ==
  ASSUME NEW S, NEW s \in Seq(S), NEW r \in Nat, NEW a \in Seq(S), NEW b \in Seq(S),
         NEW c \in Seq(S), NEW x \in Seq(S), Aligned(s, r, a, b, c)
  PROVE  Aligned(s \o x, r, a, b, c \o x)
<1> DEFINE t == s \o x
           d == c \o x
<1>1. /\ Len(s) \in Nat /\ Len(a) \in Nat /\ Len(b) \in Nat /\ Len(c) \in Nat /\ Len(x) \in Nat
      /\ r + Len(a) + Len(b) + Len(c) = Len(s)
  BY DEF Aligned
<1>2. /\ Len(t) = Len(s) + Len(x) /\ Len(d) = Len(c) + Len(x)
      /\ \A k \in 1..(Len(s) + Len(x)) : t[k] = IF k <= Len(s) THEN s[k] ELSE x[k - Len(s)]
      /\ \A k \in 1..(Len(c) + Len(x)) : d[k] = IF k <= Len(c) THEN c[k] ELSE x[k - Len(c)]
  BY ConcatProperties, Zenon
<1> HIDE DEF t, d
<1>3. ASSUME NEW k \in 1..Len(a) PROVE a[k] = t[r + k]
  <2>1. r + k \in 1..(Len(s) + Len(x)) /\ r + k <= Len(s)
    BY <1>1
  <2> QED BY <2>1, <1>2 DEF Aligned
<1>4. ASSUME NEW k \in 1..Len(b) PROVE b[k] = t[r + Len(a) + k]
  <2>1. r + Len(a) + k \in 1..(Len(s) + Len(x)) /\ r + Len(a) + k <= Len(s)
    BY <1>1
  <2> QED BY <2>1, <1>2 DEF Aligned
<1>5. ASSUME NEW k \in 1..Len(d) PROVE d[k] = t[r + Len(a) + Len(b) + k]
  <2>0. k \in 1..(Len(c) + Len(x))
    BY <1>2
  <2>1. r + Len(a) + Len(b) + k \in 1..(Len(s) + Len(x))
    BY <1>1, <2>0
  <2>2. CASE k <= Len(c)
    <3>1. r + Len(a) + Len(b) + k <= Len(s) /\ k \in 1..Len(c)
      BY <1>1, <2>0, <2>2
    <3> QED BY <3>1, <2>0, <2>1, <2>2, <1>2 DEF Aligned
  <2>3. CASE ~(k <= Len(c))
    <3>1. ~(r + Len(a) + Len(b) + k <= Len(s))
          /\ (r + Len(a) + Len(b) + k) - Len(s) = k - Len(c)
      <4> DEFINE la == Len(a)
                 lb == Len(b)
                 lc == Len(c)
                 ls == Len(s)
      <4>1. /\ la \in Nat /\ lb \in Nat /\ lc \in Nat /\ ls \in Nat
            /\ r + la + lb + lc = ls /\ k \in Nat /\ ~(k <= lc)
        BY <1>1, <2>0, <2>3
      <4> HIDE DEF la, lb, lc, ls
      <4>2. ~(r + la + lb + k <= ls) /\ (r + la + lb + k) - ls = k - lc
        BY <4>1
      <4> QED BY <4>2 DEF la, lb, lc, ls
    <3> QED BY <3>1, <2>0, <2>1, <2>3, <1>2
  <2> QED BY <2>2, <2>3
<1>6. r + Len(a) + Len(b) + Len(d) = Len(t)
  <2> DEFINE la == Len(a)
             lb == Len(b)
             lc == Len(c)
             ls == Len(s)
             lx == Len(x)
  <2>1. /\ la \in Nat /\ lb \in Nat /\ lc \in Nat /\ ls \in Nat /\ lx \in Nat
        /\ r + la + lb + lc = ls /\ Len(t) = ls + lx /\ Len(d) = lc + lx
    BY <1>1, <1>2
  <2> HIDE DEF la, lb, lc, ls, lx
  <2>2. r + la + lb + Len(d) = Len(t)
    BY <2>1
  <2> QED BY <2>2 DEF la, lb
<1> QED BY <1>3, <1>4, <1>5, <1>6 DEF Aligned, t, d

\* The first unit of c goes to the end of b.
LEMMA TransmitOK ==
  ASSUME NEW S, NEW s \in Seq(S), NEW r \in Nat, NEW a \in Seq(S), NEW b \in Seq(S),
         NEW c \in Seq(S), c # <<>>, Aligned(s, r, a, b, c)
  PROVE  Aligned(s, r, a, Append(b, Head(c)), Tail(c))
<1> DEFINE d == Append(b, Head(c))
           e == Tail(c)
<1>1. /\ Len(s) \in Nat /\ Len(a) \in Nat /\ Len(b) \in Nat /\ Len(c) \in Nat \ {0}
      /\ r + Len(a) + Len(b) + Len(c) = Len(s)
  BY DEF Aligned
<1>2. /\ Len(d) = Len(b) + 1 /\ d[Len(b) + 1] = c[1] /\ \A k \in 1..Len(b) : d[k] = b[k]
      /\ Len(e) = Len(c) - 1 /\ \A k \in 1..(Len(c) - 1) : e[k] = c[k + 1]
  OBVIOUS
<1> HIDE DEF d, e
<1>3. \A k \in 1..Len(a) : a[k] = s[r + k]
  BY DEF Aligned
<1>4. ASSUME NEW k \in 1..Len(d) PROVE d[k] = s[r + Len(a) + k]
  <2>1. CASE k <= Len(b)
    <3>1. k \in 1..Len(b)
      BY <2>1, <1>1, <1>2
    <3> QED BY <3>1, <1>2 DEF Aligned
  <2>2. CASE ~(k <= Len(b))
    <3>0. Len(d) = Len(b) + 1
      BY <1>2
    <3>1. k = Len(b) + 1 /\ 1 \in 1..Len(c)
      BY <2>2, <3>0, <1>1
    <3>2. c[1] = s[r + Len(a) + Len(b) + 1]
      BY <3>1 DEF Aligned
    <3>3. r + Len(a) + Len(b) + 1 = r + Len(a) + (Len(b) + 1)
      BY <1>1
    <3> QED BY <3>1, <3>2, <3>3, <1>2
  <2> QED BY <2>1, <2>2
<1>5. ASSUME NEW k \in 1..Len(e) PROVE e[k] = s[r + Len(a) + Len(d) + k]
  <2>1. k \in 1..(Len(c) - 1) /\ k + 1 \in 1..Len(c)
    BY <1>1, <1>2
  <2>2. c[k + 1] = s[r + Len(a) + Len(b) + (k + 1)]
    BY <2>1 DEF Aligned
  <2>3. r + Len(a) + Len(b) + (k + 1) = r + Len(a) + Len(d) + k
    BY <1>1, <1>2
  <2> QED BY <2>1, <2>2, <2>3, <1>2
<1>6. r + Len(a) + Len(d) + Len(e) = Len(s)
  <2> DEFINE la == Len(a)
             lb == Len(b)
             lc == Len(c)
             ls == Len(s)
             ld == Len(d)
             le == Len(e)
  <2>1. /\ la \in Nat /\ lb \in Nat /\ lc \in Nat
        /\ r + la + lb + lc = ls /\ ld = lb + 1 /\ le = lc - 1
    BY <1>1, <1>2
  <2> HIDE DEF la, lb, lc, ld, le, ls
  <2>2. r + la + ld + le = ls
    BY <2>1
  <2> QED BY <2>2 DEF la, ld, le, ls
<1> QED BY <1>3, <1>4, <1>5, <1>6 DEF Aligned, d, e

\* The first unit of b goes to the end of a.
LEMMA DeliverOK ==
  ASSUME NEW S, NEW s \in Seq(S), NEW r \in Nat, NEW a \in Seq(S), NEW b \in Seq(S),
         NEW c \in Seq(S), b # <<>>, Aligned(s, r, a, b, c)
  PROVE  Aligned(s, r, Append(a, Head(b)), Tail(b), c)
<1> DEFINE d == Append(a, Head(b))
           e == Tail(b)
<1>1. /\ Len(s) \in Nat /\ Len(a) \in Nat /\ Len(b) \in Nat \ {0} /\ Len(c) \in Nat
      /\ r + Len(a) + Len(b) + Len(c) = Len(s)
  BY DEF Aligned
<1>2. /\ Len(d) = Len(a) + 1 /\ d[Len(a) + 1] = b[1] /\ \A k \in 1..Len(a) : d[k] = a[k]
      /\ Len(e) = Len(b) - 1 /\ \A k \in 1..(Len(b) - 1) : e[k] = b[k + 1]
  OBVIOUS
<1> HIDE DEF d, e
<1>3. ASSUME NEW k \in 1..Len(d) PROVE d[k] = s[r + k]
  <2>1. CASE k <= Len(a)
    <3>1. k \in 1..Len(a)
      BY <2>1, <1>1, <1>2
    <3> QED BY <3>1, <1>2 DEF Aligned
  <2>2. CASE ~(k <= Len(a))
    <3>0. Len(d) = Len(a) + 1
      BY <1>2
    <3>1. k = Len(a) + 1 /\ 1 \in 1..Len(b)
      BY <2>2, <3>0, <1>1
    <3>2. b[1] = s[r + Len(a) + 1]
      BY <3>1 DEF Aligned
    <3>3. r + Len(a) + 1 = r + (Len(a) + 1)
      BY <1>1
    <3> QED BY <3>1, <3>2, <3>3, <1>2
  <2> QED BY <2>1, <2>2
<1>4. ASSUME NEW k \in 1..Len(e) PROVE e[k] = s[r + Len(d) + k]
  <2>1. k \in 1..(Len(b) - 1) /\ k + 1 \in 1..Len(b)
    BY <1>1, <1>2
  <2>2. b[k + 1] = s[r + Len(a) + (k + 1)]
    BY <2>1 DEF Aligned
  <2>3. r + Len(a) + (k + 1) = r + Len(d) + k
    BY <1>1, <1>2
  <2> QED BY <2>1, <2>2, <2>3, <1>2
<1>5. ASSUME NEW k \in 1..Len(c) PROVE c[k] = s[r + Len(d) + Len(e) + k]
  <2>1. r + Len(d) + Len(e) + k = r + Len(a) + Len(b) + k
    BY <1>1, <1>2
  <2> QED BY <2>1 DEF Aligned
<1>6. r + Len(d) + Len(e) + Len(c) = Len(s)
  <2> DEFINE la == Len(a)
             lb == Len(b)
             lc == Len(c)
             ls == Len(s)
             ld == Len(d)
             le == Len(e)
  <2>1. /\ la \in Nat /\ lb \in Nat /\ lc \in Nat
        /\ r + la + lb + lc = ls /\ ld = la + 1 /\ le = lb - 1
    BY <1>1, <1>2
  <2> HIDE DEF la, lb, lc, ld, le, ls
  <2>2. r + ld + le + lc = ls
    BY <2>1
  <2> QED BY <2>2 DEF lc, ld, le, ls
<1> QED BY <1>3, <1>4, <1>5, <1>6 DEF Aligned, d, e

\* The first n units of a are consumed.
LEMMA ReadOK ==
  ASSUME NEW S, NEW s \in Seq(S), NEW r \in Nat, NEW a \in Seq(S), NEW b \in Seq(S),
         NEW c \in Seq(S), NEW n \in Nat, n <= Len(a), Aligned(s, r, a, b, c)
  PROVE  /\ Aligned(s, r + n, SubSeq(a, n + 1, Len(a)), b, c)
         /\ SubSeq(a, n + 1, Len(a)) \in Seq(S)
         /\ Len(SubSeq(a, n + 1, Len(a))) = Len(a) - n
<1> DEFINE d == SubSeq(a, n + 1, Len(a))
<1>1. /\ Len(s) \in Nat /\ Len(a) \in Nat /\ Len(b) \in Nat /\ Len(c) \in Nat
      /\ r + Len(a) + Len(b) + Len(c) = Len(s)
  BY DEF Aligned
<1>2. /\ d \in Seq(S) /\ Len(d) = Len(a) - n /\ \A k \in 1..(Len(a) - n) : d[k] = a[n + k]
  <2>1. \A k \in (n + 1)..Len(a) : a[k] \in S
    BY <1>1
  <2>2. /\ d \in Seq(S)
        /\ Len(d) = IF n + 1 <= Len(a) THEN Len(a) - (n + 1) + 1 ELSE 0
        /\ \A k \in 1..(Len(a) - (n + 1) + 1) : d[k] = a[(n + 1) + k - 1]
    BY <2>1, <1>1, SubSeqProperties
  <2> HIDE DEF d
  <2>3. Len(d) = Len(a) - n
    BY <2>2, <1>1
  <2>4. ASSUME NEW k \in 1..(Len(a) - n) PROVE d[k] = a[n + k]
    <3>1. k \in 1..(Len(a) - (n + 1) + 1) /\ (n + 1) + k - 1 = n + k
      BY <1>1
    <3> QED BY <3>1, <2>2
  <2> QED BY <2>2, <2>3, <2>4
<1> HIDE DEF d
<1>3. ASSUME NEW k \in 1..Len(d) PROVE d[k] = s[r + n + k]
  <2>1. k \in 1..(Len(a) - n) /\ n + k \in 1..Len(a) /\ r + (n + k) = r + n + k
    BY <1>1, <1>2
  <2> QED BY <2>1, <1>2 DEF Aligned
<1>4. ASSUME NEW k \in 1..Len(b) PROVE b[k] = s[r + n + Len(d) + k]
  <2>1. r + n + Len(d) + k = r + Len(a) + k
    BY <1>1, <1>2
  <2> QED BY <2>1 DEF Aligned
<1>5. ASSUME NEW k \in 1..Len(c) PROVE c[k] = s[r + n + Len(d) + Len(b) + k]
  <2>1. r + n + Len(d) + Len(b) + k = r + Len(a) + Len(b) + k
    BY <1>1, <1>2
  <2> QED BY <2>1 DEF Aligned
<1>6. r + n + Len(d) + Len(b) + Len(c) = Len(s)
  <2> DEFINE la == Len(a)
             lb == Len(b)
             lc == Len(c)
             ls == Len(s)
             ld == Len(d)
  <2>1. /\ la \in Nat /\ lb \in Nat /\ lc \in Nat
        /\ r + la + lb + lc = ls /\ ld = la - n
    BY <1>1, <1>2
  <2> HIDE DEF la, lb, lc, ld, ls
  <2>2. r + n + ld + lb + lc = ls
    BY <2>1
  <2> QED BY <2>2 DEF lb, lc, ld, ls
<1> QED BY <1>2, <1>3, <1>4, <1>5, <1>6 DEF Aligned, d
-----------------------------------------------------------------------------
(* Messages, their flags and their units. *)

\* The assumption on the length of a handshake message, typed for arithmetic.
LEMMA PartsOK == Parts \in Nat /\ Parts >= 1
  BY HandshakeAssumption

\* The buffers of an end take a handshake message, and with GreetingsFit its greeting too.
LEMMA SettingOK ==
  ASSUME TypesOK, NEW e \in Endpoint
  PROVE  /\ IoSize(e) \in Nat /\ IoSize(e) >= Parts /\ Greeting(e) \in Nat
         /\ GreetingsFit => Parts + Greeting(e) <= IoSize(e)
<1>1. /\ setting \in [io : [Endpoint -> Nat], greeting : [Endpoint -> Nat]]
      /\ setting.io[e] >= Parts /\ setting \in Settings
  BY HandshakeAssumption DEF TypesOK
<1> QED BY <1>1 DEF IoSize, Greeting, GreetingsFit

\* There are two ends.
LEMMA PeerOK ==
  ASSUME NEW e \in Endpoint
  PROVE  Peer(e) \in Endpoint /\ Peer(e) # e /\ Peer(Peer(e)) = e
         /\ \A d \in Endpoint : d = e \/ d = Peer(e)
  BY DEF Endpoint, Peer

\* The first message without a flag.
LEMMA DueOK ==
  ASSUME NEW e \in Endpoint, NEW s \in Endpoint,
         Has(e, s, 1) => Has(e, s, 0), Has(e, s, 2) => Has(e, s, 1)
  PROVE  Due(e, s) = IF ~Has(e, s, 0) THEN 0
                     ELSE IF ~Has(e, s, 1) THEN 1
                     ELSE IF ~Has(e, s, 2) THEN 2 ELSE Data
<1> DEFINE missing == {i \in Shake : ~Has(e, s, i)}
<1>1. Due(e, s) = IF missing = {} THEN Data
                  ELSE CHOOSE i \in missing : \A j \in missing : i <= j
  BY DEF Due
<1>2. Shake = {0, 1, 2}
  BY DEF Shake
<1>3. CASE Has(e, s, 2)
  <2>1. missing = {}
    BY <1>2, <1>3
  <2> QED BY <2>1, <1>1, <1>3
<1>4. CASE ~Has(e, s, 2) /\ Has(e, s, 1)
  <2>1. missing = {2}
    BY <1>2, <1>4
  <2> QED BY <2>1, <1>1, <1>4
<1>5. CASE ~Has(e, s, 2) /\ ~Has(e, s, 1) /\ Has(e, s, 0)
  <2>1. missing = {1, 2}
    BY <1>2, <1>5
  <2> QED BY <2>1, <1>1, <1>5
<1>6. CASE ~Has(e, s, 2) /\ ~Has(e, s, 1) /\ ~Has(e, s, 0)
  <2>1. missing = {0, 1, 2}
    BY <1>2, <1>6
  <2> QED BY <2>1, <1>1, <1>6
<1> QED BY <1>3, <1>4, <1>5, <1>6

\* How many units of a sender's three messages its flags stand for.
LEMMA GotOK ==
  ASSUME NEW e \in Endpoint, NEW s \in Endpoint,
         Has(e, s, 1) => Has(e, s, 0), Has(e, s, 2) => Has(e, s, 1)
  PROVE  /\ Got(e, s) \in Nat
         /\ Has(e, s, 1) => Got(e, s) >= 1 + Parts
         /\ Has(e, s, 2) => Got(e, s) = 1 + Parts + Parts
         /\ ~Has(e, s, 1) => Got(e, s) <= 1
         /\ ~Has(e, s, 2) => Got(e, s) <= 1 + Parts
  BY PartsOK DEF Got

\* An end is connected when no flag is missing.
LEMMA ConnectedOK ==
  ASSUME TypesOK, NEW e \in Endpoint
  PROVE  Connected(e) <=> \A s \in Endpoint, i \in Shake : Has(e, s, i)
<1>1. status[e] \in SUBSET (Endpoint \X Shake)
  BY DEF TypesOK
<1>2. status[e] = Endpoint \X Shake
        <=> \A s \in Endpoint, i \in Shake : <<s, i>> \in status[e]
  BY <1>1
<1> QED BY <1>2, Zenon DEF Connected, Has

\* What a flag changes.
LEMMA FlagOK ==
  ASSUME TypesOK, FlagsOK, NEW e \in Endpoint, NEW s \in Endpoint, NEW i \in Shake,
         i = Due(e, s), status' = [status EXCEPT ![e] = @ \cup {<<s, i>>}]
  PROVE  /\ status' \in [Endpoint -> SUBSET (Endpoint \X Shake)]
         /\ ~Connected(e) /\ ~Has(e, s, i)
         /\ Got(e, s) = (IF i = 0 THEN 0 ELSE IF i = 1 THEN 1 ELSE 1 + Parts)
         /\ Got(e, s)' = Got(e, s) + Units(i)
         /\ Has(e, s, i)'
         /\ \A d, t \in Endpoint : \A j \in Shake :
              d # e \/ t # s \/ j # i => (Has(d, t, j)' <=> Has(d, t, j))
         /\ \A d, t \in Endpoint : d # e \/ t # s => Got(d, t)' = Got(d, t)
         /\ \A d, t \in Endpoint : (Has(d, t, 1)' => Has(d, t, 0)') /\ (Has(d, t, 2)' => Has(d, t, 1)')
         /\ Connected(e)' <=> Finalizes(e, s, i)
         /\ \A d \in Endpoint : d # e => (Connected(d)' <=> Connected(d))
         /\ Finalizes(e, s, i) => i = 2 /\ \A t \in Endpoint : t # s => Has(e, t, 2)
<1>1. /\ status \in [Endpoint -> SUBSET (Endpoint \X Shake)]
      /\ \A d, t \in Endpoint : (Has(d, t, 1) => Has(d, t, 0)) /\ (Has(d, t, 2) => Has(d, t, 1))
  BY DEF TypesOK, FlagsOK
<1>2. status' \in [Endpoint -> SUBSET (Endpoint \X Shake)]
  BY <1>1
<1>3. i \in {0, 1, 2} /\ 0 \in Shake /\ 1 \in Shake /\ 2 \in Shake
  BY DEF Shake
<1>4. /\ ~Has(e, s, i)
      /\ i = 0 => ~Has(e, s, 1) /\ ~Has(e, s, 2)
      /\ i = 1 => Has(e, s, 0) /\ ~Has(e, s, 2)
      /\ i = 2 => Has(e, s, 0) /\ Has(e, s, 1)
  BY <1>1, <1>3, DueOK DEF Data
<1>5. /\ Has(e, s, i)'
      /\ \A d, t \in Endpoint : \A j \in Shake :
           d # e \/ t # s \/ j # i => (Has(d, t, j)' <=> Has(d, t, j))
  BY <1>1 DEF Has
<1>6. /\ Got(e, s) = (IF i = 0 THEN 0 ELSE IF i = 1 THEN 1 ELSE 1 + Parts)
      /\ Got(e, s)' = Got(e, s) + Units(i)
  BY <1>3, <1>4, <1>5, PartsOK DEF Got, Units
<1>7. \A d, t \in Endpoint : d # e \/ t # s => Got(d, t)' = Got(d, t)
  BY <1>3, <1>5 DEF Got
<1>8. \A d, t \in Endpoint : (Has(d, t, 1)' => Has(d, t, 0)') /\ (Has(d, t, 2)' => Has(d, t, 1)')
  BY <1>1, <1>3, <1>4, <1>5
<1>9. ~Connected(e)
  BY <1>4 DEF Connected, Has
<1>10. Connected(e)' <=> Finalizes(e, s, i)
  BY <1>1 DEF Connected, Finalizes
<1>11. \A d \in Endpoint : d # e => (Connected(d)' <=> Connected(d))
  BY <1>1 DEF Connected
<1>12. ASSUME Finalizes(e, s, i)
       PROVE  i = 2 /\ \A t \in Endpoint : t # s => Has(e, t, 2)
  <2>1. \A t \in Endpoint : \A j \in Shake : t # s \/ j # i => Has(e, t, j)
    BY <1>12 DEF Finalizes, Has
  <2> QED BY <2>1, <1>3, <1>4
<1> QED BY <1>2, <1>4, <1>5, <1>6, <1>7, <1>8, <1>9, <1>10, <1>11, <1>12

\* It changes nothing else.
LEMMA FlagKeeps ==
  ASSUME TypesOK, NEW e \in Endpoint, NEW s \in Endpoint, NEW i \in Shake,
         status' = [status EXCEPT ![e] = @ \cup {<<s, i>>}],
         NEW d \in Endpoint, NEW t \in Endpoint, NEW j \in Shake
  PROVE  d # e \/ t # s \/ j # i => (Has(d, t, j)' <=> Has(d, t, j))
<1>1. status \in [Endpoint -> SUBSET (Endpoint \X Shake)]
  BY DEF TypesOK
<1> QED BY <1>1 DEF Has

\* The units of a handshake message.
LEMMA FrameOK ==
  ASSUME NEW e \in Endpoint, NEW i \in Shake, NEW t \in 0..NoToken
  PROVE  /\ Frame(e, i, t) \in Seq(Unit) /\ Len(Frame(e, i, t)) = Units(i)
         /\ Units(i) \in Nat /\ Units(i) >= 1
         /\ \A k \in 1..Units(i) : /\ Frame(e, i, t)[k].msg = i
                                   /\ Frame(e, i, t)[k].part = k
                                   /\ Frame(e, i, t)[k].token = t
<1>1. Units(i) \in Nat /\ Units(i) >= 1
  BY PartsOK DEF Units
<1>2. \A k \in 1..Units(i) : [from |-> e, msg |-> i, part |-> k, token |-> t] \in Unit
  BY <1>1 DEF Unit, Shake, Data
<1>3. Frame(e, i, t) \in [1..Units(i) -> Unit]
  BY <1>2 DEF Frame
<1>4. \A k \in 1..Units(i) : Frame(e, i, t)[k] = [from |-> e, msg |-> i, part |-> k, token |-> t]
  BY DEF Frame
<1> QED BY <1>1, <1>3, <1>4

\* The units of the callback's message.
LEMMA DataFrameOK ==
  ASSUME TypesOK, NEW e \in Endpoint
  PROVE  /\ DataFrame(e) \in Seq(Unit) /\ Len(DataFrame(e)) = Greeting(e)
         /\ \A k \in 1..Greeting(e) : DataFrame(e)[k].msg = Data
<1>1. Greeting(e) \in Nat
  BY SettingOK
<1>2. \A k \in 1..Greeting(e) : [from |-> e, msg |-> Data, part |-> k, token |-> NoToken] \in Unit
  BY <1>1 DEF Unit, Data, NoToken
<1>3. DataFrame(e) \in [1..Greeting(e) -> Unit]
  BY <1>2 DEF DataFrame
<1>4. \A k \in 1..Greeting(e) :
        DataFrame(e)[k] = [from |-> e, msg |-> Data, part |-> k, token |-> NoToken]
  BY DEF DataFrame
<1> QED BY <1>1, <1>3, <1>4
\* An endpoint has read no more than its peer has sent.
LEMMA AheadOK ==
  ASSUME IndInv, NEW e \in Endpoint
  PROVE  /\ Got(Peer(e), e) \in Nat /\ Consumed(Peer(e)) \in Nat
         /\ Got(Peer(e), e) <= Consumed(Peer(e))
         /\ Len(sent[e]) \in Nat /\ Len(out[e]) \in Nat /\ Len(in[Peer(e)]) \in Nat
         /\ Consumed(Peer(e)) + Len(in[Peer(e)]) + Len(out[e]) <= Len(sent[e])
         /\ ~Has(e, e, 1) => Len(sent[e]) <= 1
         /\ ~Has(e, e, 2) => Len(sent[e]) <= 1 + Parts
         /\ Has(Peer(e), e, 1) => Has(e, e, 1)
         /\ Has(Peer(e), e, 2) => Has(e, e, 2)
<1> DEFINE p == Peer(e)
           g == Got(p, e)
           r == Consumed(p)
           ls == Len(sent[e])
<1>1. p \in Endpoint /\ Peer(p) = e
  BY PeerOK
<1> HIDE DEF p
<1>2. /\ \A s \in Endpoint : (Has(p, s, 1) => Has(p, s, 0)) /\ (Has(p, s, 2) => Has(p, s, 1))
      /\ \A s \in Endpoint : (Has(e, s, 1) => Has(e, s, 0)) /\ (Has(e, s, 2) => Has(e, s, 1))
      /\ heard[p] \in Nat
  BY <1>1 DEF IndInv, FlagsOK, TypesOK
<1>3. /\ g \in Nat /\ Has(p, e, 1) => g >= 1 + Parts
      /\ g \in Nat /\ Has(p, e, 2) => g = 1 + Parts + Parts
  BY <1>1, <1>2, GotOK
<1>4. /\ Got(e, e) \in Nat
      /\ ~Has(e, e, 1) => Got(e, e) <= 1
      /\ ~Has(e, e, 2) => Got(e, e) <= 1 + Parts
  BY <1>2, GotOK
<1>5. r = g + heard[p]
  BY <1>1 DEF Consumed
<1>6. /\ in[p] \in Seq(Unit) /\ net[p] \in Seq(Unit) /\ out[e] \in Seq(Unit)
      /\ sent[e] \in Seq(Unit)
  BY <1>1 DEF IndInv, TypesOK
<1>7. r + Len(in[p]) + Len(net[p]) + Len(out[e]) = ls
  BY <1>1 DEF IndInv, StreamOK, Aligned
<1>8. Got(p, e) \in Nat
  BY <1>3, PartsOK, <1>1, <1>2, GotOK
<1> DEFINE li == Len(in[p])
           ln == Len(net[p])
           lo == Len(out[e])
<1>9. li \in Nat /\ ln \in Nat /\ lo \in Nat /\ ls \in Nat
  BY <1>6
<1>70. r + li + ln + lo = ls /\ g \in Nat
  BY <1>7, <1>8
<1>10. ~Has(e, e, 2) => ~Connected(e)
  BY ConnectedOK DEF IndInv, Shake
<1>11. ~Has(e, e, 2) => ls = Got(e, e)
  BY <1>10 DEF IndInv, SentOK
<1>12. ~Has(e, e, 1) => ~Has(e, e, 2)
  BY <1>2
<1> HIDE DEF g, r, ls, li, ln, lo
<1>13. g \in Nat /\ r \in Nat /\ g <= r /\ r + li + lo <= ls
  BY <1>2, <1>5, <1>70, <1>9
<1>14. ~Has(e, e, 1) => ls <= 1
  BY <1>4, <1>11, <1>12
<1>15. ~Has(e, e, 2) => ls <= 1 + Parts
  BY <1>4, <1>11
<1>16. Has(p, e, 1) => Has(e, e, 1)
  BY <1>3, <1>9, <1>13, <1>14, PartsOK
<1>17. Has(p, e, 2) => Has(e, e, 2)
  BY <1>3, <1>9, <1>13, <1>15, PartsOK
<1> QED BY <1>9, <1>13, <1>14, <1>15, <1>16, <1>17 DEF p, g, r, ls, li, lo
\* What is appended continues the handshake and carries the right tokens.
LEMMA AppendOK ==
  ASSUME NEW s \in Seq(Unit), NEW x \in Seq(Unit), NEW t, NEW w,
         \A k \in 1..Len(s) : /\ Shaped(s[k], k)
                              /\ s[k].msg = 1 => s[k].token = t
                              /\ s[k].msg = 2 => s[k].token = w,
         \A k \in 1..Len(x) : /\ Shaped(x[k], Len(s) + k)
                              /\ x[k].msg = 1 => x[k].token = t
                              /\ x[k].msg = 2 => x[k].token = w
  PROVE  \A k \in 1..Len(s \o x) : /\ Shaped((s \o x)[k], k)
                                   /\ (s \o x)[k].msg = 1 => (s \o x)[k].token = t
                                   /\ (s \o x)[k].msg = 2 => (s \o x)[k].token = w
<1> DEFINE y == s \o x
<1>1. /\ Len(y) = Len(s) + Len(x)
      /\ \A k \in 1..(Len(s) + Len(x)) : y[k] = IF k <= Len(s) THEN s[k] ELSE x[k - Len(s)]
  BY ConcatProperties, Zenon
<1>2. Len(s) \in Nat /\ Len(x) \in Nat
  OBVIOUS
<1> HIDE DEF y
<1> SUFFICES ASSUME NEW k \in 1..Len(y)
             PROVE  /\ Shaped(y[k], k)
                    /\ y[k].msg = 1 => y[k].token = t
                    /\ y[k].msg = 2 => y[k].token = w
  BY Zenon DEF y
<1>3. k \in 1..(Len(s) + Len(x))
  BY <1>1
<1>4. CASE k <= Len(s)
  <2>1. k \in 1..Len(s) /\ y[k] = s[k]
    BY <1>1, <1>2, <1>3, <1>4
  <2> QED BY <2>1, Zenon
<1>5. CASE ~(k <= Len(s))
  <2>1. k - Len(s) \in 1..Len(x) /\ Len(s) + (k - Len(s)) = k
    BY <1>2, <1>3, <1>5
  <2>2. y[k] = x[k - Len(s)]
    BY <1>1, <1>3, <1>5
  <2> DEFINE j == k - Len(s)
  <2>3. j \in 1..Len(x) /\ y[k] = x[j] /\ Len(s) + j = k
    BY <2>1, <2>2
  <2> HIDE DEF j
  <2> QED BY <2>3
<1> QED BY <1>4, <1>5

\* Before message 1 is out none of its units was sent, and nobody has its token.
LEMMA UntoldOK ==
  ASSUME IndInv, NEW e \in Endpoint, ~Has(e, e, 1)
  PROVE  /\ \A k \in 1..Len(sent[e]) : sent[e][k].msg = 0
         /\ ~Has(Peer(e), e, 1)
<1>1. Len(sent[e]) \in Nat /\ Len(sent[e]) <= 1 /\ ~Has(Peer(e), e, 1)
  BY AheadOK
<1>2. ASSUME NEW k \in 1..Len(sent[e]) PROVE sent[e][k].msg = 0
  <2>1. k = 1
    BY <1>1
  <2>2. Shaped(sent[e][k], k)
    BY DEF IndInv, SentOK
  <2> QED BY <2>1, <2>2 DEF Shaped
<1> QED BY <1>1, <1>2

\* An endpoint that has all of its peer's messages knows that all but the last
\* of its own are read.
LEMMA ReadThroughOK ==
  ASSUME IndInv, NEW e \in Endpoint, Has(e, Peer(e), 2)
  PROVE  Has(Peer(e), e, 1) /\ Consumed(Peer(e)) >= 1 + Parts
<1> DEFINE p == Peer(e)
<1>1. p \in Endpoint /\ Peer(p) = e
  BY PeerOK
<1> HIDE DEF p
<1>2. Has(p, p, 2)
  BY AheadOK, <1>1 DEF p
<1>3. Has(p, e, 1)
  BY <1>1, <1>2 DEF IndInv, FlagsOK
<1>4. Got(p, e) >= 1 + Parts
  BY <1>1, <1>3, GotOK DEF IndInv, FlagsOK
<1>5. Got(p, e) \in Nat /\ Consumed(p) \in Nat /\ Got(p, e) <= Consumed(p)
  BY AheadOK DEF p
<1>6. Consumed(p) >= 1 + Parts
  BY <1>4, <1>5, PartsOK
<1> QED BY <1>3, <1>6 DEF p
-----------------------------------------------------------------------------
(* The steps keep the invariant. *)

\* What Emit writes: message i, and after the last flag the callback's data.
Written(e, i, greets) == Contents(e, i) \o (IF greets THEN DataFrame(e) ELSE <<>>)

\* The token of an endpoint after an attempt to emit message i.
Drawn(e, i) == IF i = 1 THEN Fresh(token[e]) ELSE token[e]

\* What an emission writes: the next units of the stream, with the right tokens.
LEMMA ContentsOK ==
  ASSUME IndInv, NEW e \in Endpoint, NEW i \in Shake, NEW greets \in BOOLEAN,
         greets => i = 2,
         Got(e, e) = (IF i = 0 THEN 0 ELSE IF i = 1 THEN 1 ELSE 1 + Parts)
  PROVE  /\ Written(e, i, greets) \in Seq(Unit)
         /\ Len(Written(e, i, greets)) = Units(i) + (IF greets THEN Greeting(e) ELSE 0)
         /\ \A k \in 1..Len(Written(e, i, greets)) :
              /\ Shaped(Written(e, i, greets)[k], Got(e, e) + k)
              /\ Written(e, i, greets)[k].msg = 1 => Written(e, i, greets)[k].token = Drawn(e, i)
              /\ Written(e, i, greets)[k].msg = 2 => Written(e, i, greets)[k].token = peerToken[e]
<1> DEFINE tok == CASE i = 1 -> Fresh(token[e]) [] i = 2 -> peerToken[e] [] OTHER -> NoToken
           f == Contents(e, i)
           d == IF greets THEN DataFrame(e) ELSE <<>>
           n == IF greets THEN Greeting(e) ELSE 0
           x == Written(e, i, greets)
           t == Drawn(e, i)
<1>0. i \in {0, 1, 2}
  BY DEF Shake
<1>1. token[e] \in 0..2 /\ peerToken[e] \in 0..3 /\ Greeting(e) \in Nat
  BY SettingOK DEF IndInv, TypesOK, Tokens, NoToken
<1>2. tok \in 0..NoToken
  BY <1>0, <1>1 DEF Fresh, NoToken
<1>3. f = Frame(e, i, tok)
  BY DEF Contents
<1>4. /\ i = 1 => tok = t
      /\ i = 2 => tok = peerToken[e]
  BY <1>0 DEF Drawn
<1> HIDE DEF tok, f, t
<1>5. /\ f \in Seq(Unit) /\ Len(f) = Units(i) /\ Units(i) \in Nat
      /\ \A k \in 1..Units(i) : f[k].msg = i /\ f[k].part = k /\ f[k].token = tok
  BY <1>2, <1>3, FrameOK
<1>6. DataFrame(e) \in Seq(Unit) /\ Len(DataFrame(e)) = Greeting(e)
      /\ \A k \in 1..Greeting(e) : DataFrame(e)[k].msg = Data
  BY DataFrameOK DEF IndInv
<1>7. d \in Seq(Unit) /\ Len(d) = n /\ n \in Nat
  BY <1>1, <1>6
<1>8. \A k \in 1..n : d[k].msg = 3 /\ i = 2
  BY <1>6 DEF Data
<1>80. x = f \o d
  BY DEF Written, f, d
<1> HIDE DEF d, n, x
<1>9. /\ x \in Seq(Unit) /\ Len(x) = Len(f) + Len(d)
      /\ \A k \in 1..(Len(f) + Len(d)) : x[k] = IF k <= Len(f) THEN f[k] ELSE d[k - Len(f)]
  <2> DEFINE y == f \o d
  <2>1. /\ y \in Seq(Unit) /\ Len(y) = Len(f) + Len(d)
        /\ \A k \in 1..(Len(f) + Len(d)) : y[k] = IF k <= Len(f) THEN f[k] ELSE d[k - Len(f)]
    BY <1>5, <1>7, ConcatProperties, Zenon
  <2>2. x = y
    BY <1>80
  <2> HIDE DEF y
  <2> QED BY <2>1, <2>2
<1>10. ASSUME NEW k \in 1..Len(x)
       PROVE  /\ Shaped(x[k], Got(e, e) + k)
              /\ x[k].msg = 1 => x[k].token = t
              /\ x[k].msg = 2 => x[k].token = peerToken[e]
  <2>1. k \in 1..(Units(i) + n) /\ x[k] = IF k <= Units(i) THEN f[k] ELSE d[k - Units(i)]
    BY <1>5, <1>7, <1>9
  <2>2. CASE k <= Units(i)
    <3>1. k \in 1..Units(i) /\ x[k] = f[k]
      BY <1>5, <2>1, <2>2
    <3>2. x[k].msg = i /\ x[k].part = k /\ x[k].token = tok
      BY <3>1, <1>5
    <3>3. Shaped(x[k], Got(e, e) + k)
      BY <3>1, <3>2, <1>0, PartsOK DEF Shaped, Units
    <3> QED BY <3>2, <3>3, <1>4
  <2>3. CASE ~(k <= Units(i))
    <3>1. k - Units(i) \in 1..n /\ x[k] = d[k - Units(i)]
      BY <1>5, <1>7, <2>1, <2>3
    <3>2. x[k].msg = 3 /\ i = 2
      BY <3>1, <1>8
    <3>3. Got(e, e) + k > 1 + Parts + Parts
      BY <1>5, <2>1, <2>3, <3>2, PartsOK DEF Units
    <3>4. Shaped(x[k], Got(e, e) + k)
      BY <3>2, <3>3, <2>1, PartsOK DEF Shaped, Data
    <3> QED BY <3>2, <3>4
  <2> QED BY <2>2, <2>3
<1>11. Len(x) = Units(i) + n
  BY <1>5, <1>7, <1>9
<1> QED BY <1>9, <1>10, <1>11 DEF n, x, t
\* The write transaction holds message i and, with the last flag, the callback's
\* message: both go out, or the rollback takes both.
LEMMA EmitOK ==
  ASSUME IndInv, NEW e \in Endpoint, NEW i, i = Due(e, e), Emit(e, i), UNCHANGED setting
  PROVE  IndInv'
<1> DEFINE p == Peer(e)
           greets == Finalizes(e, e, i) /\ Greeting(e) > 0
           x == Written(e, i, greets)
           fits == Len(x) <= Room(e)
<1>1. p \in Endpoint /\ p # e /\ Peer(p) = e /\ Peer(e) = p /\ \A d \in Endpoint : d = e \/ d = p
  BY PeerOK
<1> HIDE DEF p
<1>2. i \in Shake /\ (i = 2 => Has(e, p, 1))
  <2>1. MayEmit(e, i)
    BY DEF Emit
  <2>2. i \in {0, 1, 2}
    BY <2>1 DEF MayEmit
  <2> QED BY <2>1, <2>2, <1>1 DEF MayEmit, Shake
<1>3. /\ UNCHANGED <<in, net, peerToken, rejected, heard, setting>>
      /\ token' = [token EXCEPT ![e] = IF i = 1 THEN Fresh(@) ELSE @]
      /\ Units(i) <= Room(e)
      /\ status' = [status EXCEPT ![e] = @ \cup {<<e, i>>}]
      /\ success' = [success EXCEPT ![e] = @ + IF Finalizes(e, e, i) THEN 1 ELSE 0]
      /\ running' = [running EXCEPT ![e] = ~greets]
  BY DEF Emit, Flag, Loop
<1>4. IF fits THEN /\ out' = [out EXCEPT ![e] = @ \o x]
                   /\ sent' = [sent EXCEPT ![e] = @ \o x]
      ELSE UNCHANGED <<out, sent>>
  BY DEF Emit, Commit, Written
<1>5. /\ TypesOK /\ SizesOK /\ FlagsOK /\ SentOK /\ StreamOK /\ TokensOK /\ HonestNeverRejected
      /\ Delivered
  BY DEF IndInv
<1>flags. TypesOK /\ FlagsOK /\ status' = [status EXCEPT ![e] = @ \cup {<<e, i>>}]
  BY <1>3, <1>5
<1>6. /\ status' \in [Endpoint -> SUBSET (Endpoint \X Shake)]
      /\ ~Connected(e) /\ ~Has(e, e, i)
      /\ Got(e, e) = (IF i = 0 THEN 0 ELSE IF i = 1 THEN 1 ELSE 1 + Parts)
      /\ Got(e, e)' = Got(e, e) + Units(i)
      /\ Has(e, e, i)'
  BY <1>2, <1>flags, FlagOK
<1>7. /\ \A d, t \in Endpoint : \A j \in Shake :
           d # e \/ t # e \/ j # i => (Has(d, t, j)' <=> Has(d, t, j))
      /\ \A d, t \in Endpoint : d # e \/ t # e => Got(d, t)' = Got(d, t)
      /\ \A d, t \in Endpoint : (Has(d, t, 1)' => Has(d, t, 0)') /\ (Has(d, t, 2)' => Has(d, t, 1)')
  <2>1. \A d, t \in Endpoint : \A j \in Shake :
          d # e \/ t # e \/ j # i => (Has(d, t, j)' <=> Has(d, t, j))
    BY <1>2, <1>flags, FlagKeeps
  <2>2. \A d, t \in Endpoint : d # e \/ t # e => Got(d, t)' = Got(d, t)
    BY <2>1 DEF Got, Shake
  <2>3. \A d, t \in Endpoint :
          (Has(d, t, 1)' => Has(d, t, 0)') /\ (Has(d, t, 2)' => Has(d, t, 1)')
    BY <1>2, <1>flags, FlagOK
  <2> QED BY <2>1, <2>2, <2>3
<1>8. /\ Connected(e)' <=> Finalizes(e, e, i)
      /\ \A d \in Endpoint : d # e => (Connected(d)' <=> Connected(d))
      /\ Finalizes(e, e, i) => i = 2 /\ Has(e, p, 2)
  BY <1>1, <1>2, <1>flags, FlagOK
<1>9. /\ x \in Seq(Unit)
      /\ Len(x) = Units(i) + (IF greets THEN Greeting(e) ELSE 0)
      /\ \A k \in 1..Len(x) : /\ Shaped(x[k], Got(e, e) + k)
                              /\ x[k].msg = 1 => x[k].token = token'[e]
                              /\ x[k].msg = 2 => x[k].token = peerToken[e]
  <2>1. token'[e] = IF i = 1 THEN Fresh(token[e]) ELSE token[e]
    BY <1>3, <1>5 DEF TypesOK
  <2>2. greets \in BOOLEAN /\ (greets => i = 2)
    BY <1>8
  <2> HIDE DEF greets
  <2>3. Got(e, e) = (IF i = 0 THEN 0 ELSE IF i = 1 THEN 1 ELSE 1 + Parts)
    BY <1>6
  <2> QED BY <2>1, <2>2, <2>3, <1>2, ContentsOK DEF Drawn
<1>10. /\ Units(i) \in Nat /\ Units(i) >= 1 /\ Greeting(e) \in Nat
       /\ (i = 2 => Units(i) = Parts) /\ Len(x) \in Nat
  BY <1>2, <1>5, <1>9, PartsOK, SettingOK DEF Units
<1> HIDE DEF x
<1>100. out[e] \in Seq(Unit) /\ sent[e] \in Seq(Unit) /\ x \in Seq(Unit)
  BY <1>5, <1>9 DEF TypesOK
<1>101. /\ Len(out[e] \o x) = Len(out[e]) + Len(x)
        /\ Len(sent[e] \o x) = Len(sent[e]) + Len(x)
  BY <1>100, ConcatProperties, Zenon
<1>11. Len(sent[e]) = Got(e, e)
  BY <1>5, <1>6 DEF SentOK
<1>12. ASSUME ~fits PROVE greets
  BY <1>3, <1>9, <1>10, <1>12
<1>13. TypesOK'
  <2>1. token' \in [Endpoint -> Tokens]
    BY <1>3, <1>5 DEF TypesOK, Tokens, Fresh
  <2>2. out' \in [Endpoint -> Seq(Unit)] /\ sent' \in [Endpoint -> Seq(Unit)]
    <3>1. out[e] \o x \in Seq(Unit) /\ sent[e] \o x \in Seq(Unit)
      BY <1>5, <1>9, ConcatProperties DEF TypesOK
    <3> QED BY <3>1, <1>4, <1>5 DEF TypesOK
  <2>3. running' \in [Endpoint -> BOOLEAN]
    BY <1>3, <1>5 DEF TypesOK
  <2>4. success' \in [Endpoint -> 0..1]
    <3>1. success \in [Endpoint -> 0..1] /\ success[e] = 0
      BY <1>5, <1>6 DEF FlagsOK, TypesOK
    <3> QED BY <3>1, <1>3
  <2> QED BY <2>1, <2>2, <2>3, <2>4, <1>3, <1>5, <1>6 DEF TypesOK
<1>14. SizesOK'
  <2>1. \A d \in Endpoint : Len(in'[d]) <= IoSize(d)'
    BY <1>3, <1>5 DEF SizesOK, IoSize
  <2>2. \A d \in Endpoint : Len(out'[d]) <= IoSize(d)'
    <3>1. CASE fits
      <4>1. Len(out[e] \o x) = Len(out[e]) + Len(x) /\ Len(out[e]) \in Nat /\ IoSize(e) \in Nat
        BY <1>5, <1>100, <1>101, SettingOK
      <4> DEFINE a == Len(out[e])
                 b == Len(x)
      <4>2. Len(out[e] \o x) = a + b /\ a \in Nat /\ b \in Nat /\ b <= IoSize(e) - a
        BY <3>1, <4>1, <1>10 DEF Room
      <4> HIDE DEF a, b
      <4>3. Len(out[e] \o x) <= IoSize(e)
        BY <4>2, <4>1
      <4>4. out'[e] = out[e] \o x /\ \A d \in Endpoint : d # e => out'[d] = out[d]
        BY <3>1, <1>4, <1>5 DEF TypesOK
      <4> QED BY <4>3, <4>4, <1>3, <1>5 DEF SizesOK, IoSize
    <3>2. CASE ~fits
      BY <3>2, <1>3, <1>4, <1>5 DEF SizesOK, IoSize
    <3> QED BY <3>1, <3>2
  <2> QED BY <2>1, <2>2 DEF SizesOK
<1>15. FlagsOK'
  <2>1. \A d \in Endpoint : Has(d, d, 2)' => Has(d, Peer(d), 1)'
    <3>1. Has(e, e, 2)' => Has(e, p, 1)'
      BY <1>1, <1>2, <1>5, <1>7 DEF FlagsOK, Shake
    <3>2. Has(p, p, 2)' => Has(p, e, 1)'
      BY <1>1, <1>5, <1>7 DEF FlagsOK, Shake
    <3> QED BY <3>1, <3>2, <1>1
  <2>2. \A d \in Endpoint : success'[d] = IF Connected(d)' THEN 1 ELSE 0
    <3>0. success \in [Endpoint -> 0..1] /\ success[e] = 0
      BY <1>5, <1>6 DEF FlagsOK, TypesOK
    <3> QED BY <3>0, <1>3, <1>5, <1>6, <1>8 DEF FlagsOK
  <2>3. \A d \in Endpoint : heard'[d] > 0 => Connected(d)'
    BY <1>3, <1>5, <1>6, <1>8 DEF FlagsOK
  <2> QED BY <2>1, <2>2, <2>3, <1>7 DEF FlagsOK
<1>16. \A k \in 1..Len(sent'[e]) : /\ Shaped(sent'[e][k], k)
                                   /\ sent'[e][k].msg = 1 => sent'[e][k].token = token'[e]
                                   /\ sent'[e][k].msg = 2 => sent'[e][k].token = peerToken[e]
  <2>1. \A k \in 1..Len(sent[e]) : /\ Shaped(sent[e][k], k)
                                   /\ sent[e][k].msg = 1 => sent[e][k].token = token'[e]
                                   /\ sent[e][k].msg = 2 => sent[e][k].token = peerToken[e]
    <3>1. CASE i = 1
      <4>1. \A k \in 1..Len(sent[e]) : sent[e][k].msg = 0
        BY <3>1, <1>6, UntoldOK
      <4> QED BY <4>1, <1>5 DEF SentOK
    <3>2. CASE i # 1
      <4>1. token'[e] = token[e]
        BY <3>2, <1>3, <1>5 DEF TypesOK
      <4> QED BY <4>1, <1>5 DEF SentOK, TokensOK
    <3> QED BY <3>1, <3>2
  <2>2. CASE fits
    <3>1. sent'[e] = sent[e] \o x /\ sent[e] \in Seq(Unit)
      BY <2>2, <1>4, <1>5 DEF TypesOK
    <3>2. \A k \in 1..Len(x) : /\ Shaped(x[k], Len(sent[e]) + k)
                               /\ x[k].msg = 1 => x[k].token = token'[e]
                               /\ x[k].msg = 2 => x[k].token = peerToken[e]
      BY <1>9, <1>11
    <3>3. x \in Seq(Unit)
      BY <1>9
    <3> QED BY <3>1, <3>2, <3>3, <2>1, AppendOK
  <2>3. CASE ~fits
    BY <2>1, <2>3, <1>4
  <2> QED BY <2>2, <2>3
<1>17. /\ sent'[p] = sent[p] /\ out'[p] = out[p] /\ token'[p] = token[p] /\ heard' = heard
       /\ \A d \in Endpoint : in'[d] = in[d] /\ net'[d] = net[d] /\ peerToken'[d] = peerToken[d]
  BY <1>1, <1>3, <1>4, <1>5 DEF TypesOK
<1>18. SentOK'
  <2>1. ASSUME NEW d \in Endpoint, d = p
        PROVE  /\ \A k \in 1..Len(sent'[d]) : Shaped(sent'[d][k], k)
               /\ ~Connected(d)' => Len(sent'[d]) = Got(d, d)'
               /\ Connected(d)' => Len(sent'[d]) = 1 + Parts \/ Len(sent'[d]) >= 1 + Parts + Parts
    BY <2>1, <1>1, <1>5, <1>7, <1>8, <1>17 DEF SentOK
  <2>2. Len(sent'[e]) = IF fits THEN Got(e, e) + Len(x) ELSE Got(e, e)
    <3>1. CASE fits
      <4> QED BY <1>101, <3>1, <1>4, <1>5, <1>11 DEF TypesOK
    <3>2. CASE ~fits
      BY <3>2, <1>4, <1>11
    <3> QED BY <3>1, <3>2
  <2>3. ~Connected(e)' => Len(sent'[e]) = Got(e, e)'
    BY <2>2, <1>6, <1>8, <1>9, <1>10, <1>12
  <2>4. Connected(e)' => Len(sent'[e]) = 1 + Parts \/ Len(sent'[e]) >= 1 + Parts + Parts
    BY <2>2, <1>6, <1>8, <1>9, <1>10, <1>12, PartsOK
  <2> QED BY <2>1, <2>3, <2>4, <1>1, <1>16 DEF SentOK
<1>19. StreamOK'
  <2>1. Consumed(e)' = Consumed(e) /\ Consumed(p)' = Consumed(p)
    BY <1>1, <1>3, <1>7 DEF Consumed
  <2>2. Aligned(sent'[p], Consumed(e)', in'[e], net'[e], out'[p])
    BY <2>1, <1>1, <1>5, <1>17 DEF StreamOK
  <2>3. Aligned(sent'[e], Consumed(p)', in'[p], net'[p], out'[e])
    <3>1. Aligned(sent[e], Consumed(p), in[p], net[p], out[e])
      BY <1>1, <1>5 DEF StreamOK
    <3>2. CASE fits
      <4>1. sent'[e] = sent[e] \o x /\ out'[e] = out[e] \o x
        BY <3>2, <1>4, <1>5 DEF TypesOK
      <4>2. /\ sent[e] \in Seq(Unit) /\ in[p] \in Seq(Unit) /\ net[p] \in Seq(Unit)
            /\ out[e] \in Seq(Unit) /\ x \in Seq(Unit)
        BY <1>1, <1>5, <1>9 DEF TypesOK
      <4>3. Consumed(p) \in Nat
        BY <1>1, AheadOK DEF p
      <4>4. Aligned(sent[e] \o x, Consumed(p), in[p], net[p], out[e] \o x)
        BY <3>1, <4>2, <4>3, WriteOK
      <4> QED BY <4>1, <4>4, <2>1, <1>1, <1>17
    <3>3. CASE ~fits
      BY <3>1, <3>3, <2>1, <1>1, <1>4, <1>17
    <3> QED BY <3>2, <3>3
  <2>4. ASSUME NEW d \in Endpoint
        PROVE  Aligned(sent'[Peer(d)], Consumed(d)', in'[d], net'[d], out'[Peer(d)])
    BY <2>2, <2>3, <1>1
  <2> QED BY <2>4 DEF StreamOK
<1>20. TokensOK'
  <2>1. \A k \in 1..Len(sent'[p]) :
          /\ sent'[p][k].msg = 1 => sent'[p][k].token = token'[p]
          /\ sent'[p][k].msg = 2 => sent'[p][k].token = peerToken'[p]
    BY <1>1, <1>5, <1>17 DEF TokensOK
  <2>2. Has(e, p, 1)' => peerToken'[e] = token'[p]
    BY <1>1, <1>5, <1>7, <1>17 DEF TokensOK, Shake
  <2>3. Has(p, e, 1)' => peerToken'[p] = token'[e]
    <3>1. CASE i = 1
      <4>1. ~Has(p, e, 1)
        BY <3>1, <1>1, <1>6, UntoldOK
      <4> QED BY <4>1, <1>1, <1>7 DEF Shake
    <3>2. CASE i # 1
      <4>1. token'[e] = token[e]
        BY <3>2, <1>3, <1>5 DEF TypesOK
      <4> QED BY <4>1, <1>1, <1>5, <1>7, <1>17 DEF TokensOK, Shake
    <3> QED BY <3>1, <3>2
  <2> QED BY <2>1, <2>2, <2>3, <1>1, <1>16, <1>17 DEF TokensOK
<1>21. HonestNeverRejected'
  BY <1>3, <1>5 DEF HonestNeverRejected
<1>22. Delivered'
  <2> SUFFICES ASSUME GreetingsFit, NEW d \in Endpoint, Connected(d)'
               PROVE  Len(sent'[d]) >= 1 + Parts + Parts
    BY DEF Delivered, GreetingsFit
  <2>1. CASE d = p
    BY <2>1, <1>1, <1>5, <1>8, <1>17 DEF Delivered
  <2>2. CASE d = e
    <3>1. Finalizes(e, e, i) /\ i = 2 /\ Has(e, p, 2)
      BY <2>2, <1>8
    <3>2. Len(sent[e]) = 1 + Parts /\ Consumed(p) >= 1 + Parts
      BY <3>1, <1>1, <1>6, <1>11, ReadThroughOK
    <3>3. Len(out[e]) = 0
      <4>1. /\ Consumed(p) \in Nat /\ Len(in[p]) \in Nat /\ Len(out[e]) \in Nat
            /\ Consumed(p) + Len(in[p]) + Len(out[e]) <= Len(sent[e])
        BY <1>1, AheadOK
      <4> QED BY <4>1, <3>2, PartsOK
    <3>4. fits
      <4>1. Parts + Greeting(e) <= IoSize(e) /\ IoSize(e) \in Nat
        BY <1>5, SettingOK
      <4> QED BY <3>1, <3>3, <4>1, <1>9, <1>10, PartsOK DEF Room
    <3>5. Len(sent'[e]) = Len(sent[e]) + Len(x)
      BY <3>4, <1>4, <1>5, <1>101 DEF TypesOK
    <3> QED BY <2>2, <3>1, <3>2, <3>5, <1>9, <1>10, PartsOK
  <2> QED BY <2>1, <2>2, <1>1
<1> QED BY <1>13, <1>14, <1>15, <1>18, <1>19, <1>20, <1>21, <1>22 DEF IndInv
\* A turn in which nothing can be written may draw a new token for message 1:
\* nobody has seen the one before.
LEMMA EmitBlockedOK ==
  ASSUME IndInv, NEW e \in Endpoint, NEW i, i = Due(e, e), EmitBlocked(e, i),
         UNCHANGED setting
  PROVE  IndInv'
<1> DEFINE p == Peer(e)
<1>1. p \in Endpoint /\ p # e /\ Peer(p) = e /\ Peer(e) = p /\ \A d \in Endpoint : d = e \/ d = p
  BY PeerOK
<1> HIDE DEF p
<1>2. /\ UNCHANGED <<setting, status, in, out, net, peerToken, success, rejected, sent, heard>>
      /\ token' = [token EXCEPT ![e] = IF i = 1 THEN Fresh(@) ELSE @]
      /\ running' = [running EXCEPT ![e] = FALSE]
  BY DEF EmitBlocked, Loop
<1>3. /\ TypesOK /\ SizesOK /\ FlagsOK /\ SentOK /\ StreamOK /\ TokensOK /\ HonestNeverRejected
      /\ Delivered
  BY DEF IndInv
<1>4. \A d, s \in Endpoint : \A j \in Shake : Has(d, s, j)' <=> Has(d, s, j)
  BY <1>2 DEF Has
<1>5. \A d, s \in Endpoint : Got(d, s)' = Got(d, s) /\ (Connected(d)' <=> Connected(d))
  BY <1>2 DEF Got, Has, Connected
<1>6. TypesOK'
  <2>1. token' \in [Endpoint -> Tokens] /\ running' \in [Endpoint -> BOOLEAN]
    BY <1>2, <1>3 DEF TypesOK, Tokens, Fresh
  <2> QED BY <2>1, <1>2, <1>3 DEF TypesOK
<1>7. SizesOK' /\ HonestNeverRejected'
  BY <1>2, <1>3 DEF SizesOK, IoSize, HonestNeverRejected
<1>8. FlagsOK'
  BY <1>2, <1>3 DEF FlagsOK, Has, Connected
<1>9. SentOK' /\ Delivered'
  BY <1>2, <1>3, <1>5 DEF SentOK, Delivered, GreetingsFit
<1>10. StreamOK'
  BY <1>1, <1>2, <1>3, <1>5 DEF StreamOK, Consumed
<1>11. TokensOK'
  <2>1. CASE i = 1
    <3>1. ~Has(e, e, 1)
      <4>1. (Has(e, e, 1) => Has(e, e, 0)) /\ (Has(e, e, 2) => Has(e, e, 1))
        BY <1>3 DEF FlagsOK
      <4>2. Due(e, e) = IF ~Has(e, e, 0) THEN 0
                        ELSE IF ~Has(e, e, 1) THEN 1
                        ELSE IF ~Has(e, e, 2) THEN 2 ELSE Data
        BY <4>1, DueOK
      <4> QED BY <4>1, <4>2, <2>1 DEF Data
    <3>2. ~Has(p, e, 1) /\ \A k \in 1..Len(sent[e]) : sent[e][k].msg = 0
      BY <3>1, <1>1, UntoldOK
    <3>3. token'[p] = token[p]
      BY <1>1, <1>2, <1>3 DEF TypesOK
    <3>4. /\ Has(e, p, 1)' => peerToken'[e] = token'[p]
          /\ ~Has(p, e, 1)'
      BY <3>2, <3>3, <1>1, <1>2, <1>3, <1>4 DEF TokensOK, Shake
    <3>5. \A k \in 1..Len(sent'[p]) :
            /\ sent'[p][k].msg = 1 => sent'[p][k].token = token'[p]
            /\ sent'[p][k].msg = 2 => sent'[p][k].token = peerToken'[p]
      BY <3>3, <1>1, <1>2, <1>3 DEF TokensOK
    <3>6. \A k \in 1..Len(sent'[e]) : sent'[e][k].msg = 0
      BY <3>2, <1>2
    <3> QED BY <3>4, <3>5, <3>6, <1>1 DEF TokensOK
  <2>2. CASE i # 1
    <3>1. token' = token
      BY <2>2, <1>2, <1>3 DEF TypesOK
    <3> QED BY <3>1, <1>2, <1>3 DEF TokensOK, Has
  <2> QED BY <2>1, <2>2
<1> QED BY <1>6, <1>7, <1>8, <1>9, <1>10, <1>11 DEF IndInv

\* What waits for an endpoint is the next of its peer's stream.
LEMMA HeadOK ==
  ASSUME IndInv, NEW e \in Endpoint, NEW k \in 1..Len(in[e])
  PROVE  /\ Consumed(e) \in Nat
         /\ Consumed(e) + k <= Len(sent[Peer(e)])
         /\ in[e][k] = sent[Peer(e)][Consumed(e) + k]
         /\ Shaped(in[e][k], Consumed(e) + k)
<1> DEFINE p == Peer(e)
<1>1. p \in Endpoint /\ Peer(p) = e
  BY PeerOK
<1> HIDE DEF p
<1> DEFINE r == Consumed(e)
           ls == Len(sent[p])
           li == Len(in[e])
<1>2. r \in Nat /\ ls \in Nat /\ li \in Nat /\ r + li + Len(out[p]) <= ls /\ Len(out[p]) \in Nat
  BY <1>1, AheadOK
<1>3. in[e][k] = sent[p][r + k]
  BY DEF IndInv, StreamOK, Aligned, p
<1>4. k \in Nat /\ 1 <= k /\ k <= li
  OBVIOUS
<1> DEFINE lo == Len(out[p])
<1>40. r + li + lo <= ls /\ lo \in Nat /\ r \in Nat /\ ls \in Nat /\ li \in Nat
  BY <1>2
<1> HIDE DEF r, ls, li, lo
<1>5. r + k <= ls /\ r + k \in 1..ls
  BY <1>40, <1>4
<1>6. Shaped(sent[p][r + k], r + k)
  BY <1>1, <1>5 DEF IndInv, SentOK, ls
<1> QED BY <1>2, <1>3, <1>5, <1>6 DEF r, ls, p
\* The first unit of an echo, or of message 1, carries the token it should.
LEMMA EchoOK ==
  ASSUME IndInv, NEW e \in Endpoint, NEW i \in Shake, in[e] # <<>>, heard[e] = 0,
         Got(e, Peer(e)) = (IF i = 0 THEN 0 ELSE IF i = 1 THEN 1 ELSE 1 + Parts)
  PROVE  /\ Head(in[e]).token \in 0..NoToken
         /\ i = 1 => Head(in[e]).token = token[Peer(e)]
         /\ i = 2 => Head(in[e]).token = token[e]
<1> DEFINE p == Peer(e)
           u == in[e][1]
           r == Consumed(e)
<1>1. p \in Endpoint /\ Peer(p) = e
  BY PeerOK
<1>2. /\ in[e] \in Seq(Unit) /\ sent[p] \in Seq(Unit)
  BY <1>1 DEF IndInv, TypesOK
<1>3. 1 \in 1..Len(in[e]) /\ Head(in[e]) = u /\ u \in Unit
  BY <1>2
<1>4. /\ r \in Nat /\ r + 1 <= Len(sent[p]) /\ u = sent[p][r + 1] /\ Shaped(u, r + 1)
  BY <1>3, HeadOK
<1>5. r = IF i = 0 THEN 0 ELSE IF i = 1 THEN 1 ELSE 1 + Parts
  BY PartsOK, <1>1 DEF Consumed
<1>6. u.token \in 0..NoToken
  BY <1>3 DEF Unit
<1>7. r + 1 \in 1..Len(sent[p])
  BY <1>2, <1>4
<1> HIDE DEF p, r, u
<1>8. /\ u.msg = 1 => u.token = token[p]
      /\ u.msg = 2 => u.token = peerToken[p]
  BY <1>1, <1>4, <1>7 DEF IndInv, TokensOK
<1>9. ASSUME i = 1 PROVE u.token = token[p]
  <2>1. r = 1
    BY <1>5, <1>9
  <2>2. u.msg = 1
    BY <2>1, <1>4, PartsOK DEF Shaped
  <2> QED BY <2>2, <1>8
<1>10. ASSUME i = 2 PROVE u.token = token[e]
  <2>1. r = 1 + Parts
    BY <1>5, <1>10
  <2>2. u.msg = 2
    BY <2>1, <1>4, PartsOK DEF Shaped
  <2>3. Has(p, p, 2)
    <3>1. ~Has(p, p, 2) => Len(sent[p]) <= 1 + Parts
      BY <1>1, AheadOK
    <3>2. Len(sent[p]) \in Nat /\ Len(sent[p]) >= 1 + Parts + 1
      BY <2>1, <1>2, <1>4, PartsOK
    <3> QED BY <3>1, <3>2, PartsOK
  <2>4. Has(p, e, 1)
    BY <2>3, <1>1 DEF IndInv, FlagsOK
  <2>5. peerToken[p] = token[e]
    BY <2>4, <1>1 DEF IndInv, TokensOK
  <2> QED BY <2>2, <2>5, <1>8
<1> QED BY <1>3, <1>6, <1>9, <1>10 DEF p

\* A message is read, whole and with the right token, and the last flag may have
\* the callback's message sent.
LEMMA IngestOK ==
  ASSUME IndInv, NEW e \in Endpoint, NEW i, i = Due(e, Peer(e)), in[e] # <<>>,
         Ingest(e, i), UNCHANGED setting
  PROVE  IndInv'
<1> DEFINE p == Peer(e)
           echo == Head(in[e]).token
           n == Units(i)
           greets == Finalizes(e, p, i) /\ Greeting(e) <= Room(e)
           x == IF greets THEN DataFrame(e) ELSE <<>>
<1>1. p \in Endpoint /\ p # e /\ Peer(p) = e /\ Peer(e) = p /\ \A d \in Endpoint : d = e \/ d = p
  BY PeerOK
<1>2. i \in Shake
  <2>1. MayIngest(e, i)
    BY DEF Ingest
  <2> QED BY <2>1 DEF MayIngest, Shake
<1>5. /\ TypesOK /\ SizesOK /\ FlagsOK /\ SentOK /\ StreamOK /\ TokensOK /\ HonestNeverRejected
      /\ Delivered
  BY DEF IndInv
<1>3. ~Connected(e) /\ heard[e] = 0
      /\ Got(e, p) = (IF i = 0 THEN 0 ELSE IF i = 1 THEN 1 ELSE 1 + Parts)
  <2>1. /\ \A s \in Endpoint : (Has(e, s, 1) => Has(e, s, 0)) /\ (Has(e, s, 2) => Has(e, s, 1))
        /\ heard[e] > 0 => Connected(e)
        /\ heard[e] \in Nat
    BY <1>5 DEF FlagsOK, TypesOK
  <2>2. i = IF ~Has(e, p, 0) THEN 0
            ELSE IF ~Has(e, p, 1) THEN 1
            ELSE IF ~Has(e, p, 2) THEN 2 ELSE Data
    BY <2>1, <1>1, DueOK
  <2>3. i \in {0, 1, 2}
    BY <1>2 DEF Shake
  <2>4. ~Has(e, p, i) /\ Got(e, p) = (IF i = 0 THEN 0 ELSE IF i = 1 THEN 1 ELSE 1 + Parts)
    BY <2>1, <2>2, <2>3, <1>1 DEF Got, Data
  <2>5. ~Connected(e)
    BY <2>4, <1>1, <1>2, <1>5, ConnectedOK
  <2> QED BY <2>1, <2>4, <2>5
<1>4. /\ echo \in 0..NoToken
      /\ i = 1 => echo = token[p]
      /\ i = 2 => echo = token[e]
  BY <1>2, <1>3, EchoOK
<1>6. /\ UNCHANGED <<setting, net, token, heard>>
      /\ n <= Len(in[e])
      /\ in' = [in EXCEPT ![e] = SubSeq(@, n + 1, Len(@))]
      /\ status' = [status EXCEPT ![e] = @ \cup {<<p, i>>}]
      /\ success' = [success EXCEPT ![e] = @ + IF Finalizes(e, p, i) THEN 1 ELSE 0]
      /\ out' = [out EXCEPT ![e] = @ \o x]
      /\ sent' = [sent EXCEPT ![e] = @ \o x]
      /\ peerToken' = [peerToken EXCEPT ![e] = IF i = 1 THEN echo ELSE @]
      /\ rejected' = [rejected EXCEPT ![e] = @ \/ FALSE]
      /\ running' = [running EXCEPT ![e] = TRUE]
  <2>1. (i = 2 => echo = token[e]) <=> TRUE
    BY <1>4
  <2> QED BY <2>1, Zenon DEF Ingest, Flag, Loop, Commit, Arrived
<1> HIDE DEF p, echo
<1>flags. TypesOK /\ FlagsOK /\ status' = [status EXCEPT ![e] = @ \cup {<<p, i>>}] /\ i = Due(e, p)
  BY <1>5, <1>6 DEF p
<1>7. /\ status' \in [Endpoint -> SUBSET (Endpoint \X Shake)]
      /\ ~Has(e, p, i)
      /\ Got(e, p)' = Got(e, p) + n
      /\ Has(e, p, i)'
  BY <1>1, <1>2, <1>flags, FlagOK
<1>8. /\ \A d, t \in Endpoint : \A j \in Shake :
           d # e \/ t # p \/ j # i => (Has(d, t, j)' <=> Has(d, t, j))
      /\ \A d, t \in Endpoint : d # e \/ t # p => Got(d, t)' = Got(d, t)
      /\ \A d, t \in Endpoint : (Has(d, t, 1)' => Has(d, t, 0)') /\ (Has(d, t, 2)' => Has(d, t, 1)')
  <2>1. \A d, t \in Endpoint : \A j \in Shake :
          d # e \/ t # p \/ j # i => (Has(d, t, j)' <=> Has(d, t, j))
    BY <1>1, <1>2, <1>flags, FlagKeeps
  <2>2. \A d, t \in Endpoint : d # e \/ t # p => Got(d, t)' = Got(d, t)
    BY <2>1 DEF Got, Shake
  <2>3. \A d, t \in Endpoint :
          (Has(d, t, 1)' => Has(d, t, 0)') /\ (Has(d, t, 2)' => Has(d, t, 1)')
    BY <1>1, <1>2, <1>flags, FlagOK
  <2> QED BY <2>1, <2>2, <2>3
<1>9. /\ Connected(e)' <=> Finalizes(e, p, i)
      /\ \A d \in Endpoint : d # e => (Connected(d)' <=> Connected(d))
      /\ Finalizes(e, p, i) => i = 2 /\ Has(e, e, 2)
  <2>1. /\ Connected(e)' <=> Finalizes(e, p, i)
        /\ \A d \in Endpoint : d # e => (Connected(d)' <=> Connected(d))
    BY <1>1, <1>2, <1>flags, FlagOK
  <2>2. Finalizes(e, p, i) => i = 2 /\ \A t \in Endpoint : t # p => Has(e, t, 2)
    BY <1>1, <1>2, <1>flags, FlagOK
  <2> QED BY <2>1, <2>2, <1>1
<1>10. /\ Greeting(e) \in Nat /\ IoSize(e) \in Nat
       /\ DataFrame(e) \in Seq(Unit) /\ Len(DataFrame(e)) = Greeting(e)
       /\ \A k \in 1..Greeting(e) : DataFrame(e)[k].msg = Data
  BY <1>5, SettingOK, DataFrameOK
<1>11. /\ x \in Seq(Unit) /\ Len(x) = (IF greets THEN Greeting(e) ELSE 0)
       /\ \A k \in 1..Len(x) : x[k].msg = Data /\ greets
  BY <1>10
<1>12. Len(x) \in Nat /\ (greets => Greeting(e) <= Room(e)) /\ (greets => Finalizes(e, p, i))
  BY <1>10, <1>11
<1> HIDE DEF x, greets, n
<1>13. out[e] \in Seq(Unit) /\ sent[e] \in Seq(Unit) /\ in[e] \in Seq(Unit)
  BY <1>5 DEF TypesOK
<1>14. /\ out[e] \o x \in Seq(Unit) /\ sent[e] \o x \in Seq(Unit)
       /\ Len(out[e] \o x) = Len(out[e]) + Len(x)
       /\ Len(sent[e] \o x) = Len(sent[e]) + Len(x)
  BY <1>11, <1>13, ConcatProperties, Zenon
<1>15. n \in Nat /\ Consumed(e) \in Nat
  BY <1>1, <1>2, PartsOK, AheadOK DEF Units, n
<1> DEFINE rest == SubSeq(in[e], n + 1, Len(in[e]))
<1>16. /\ Aligned(sent[p], Consumed(e) + n, rest, net[e], out[p])
       /\ rest \in Seq(Unit) /\ Len(rest) = Len(in[e]) - n
  <2>1. Aligned(sent[p], Consumed(e), in[e], net[e], out[p])
    BY <1>1, <1>5 DEF StreamOK
  <2>2. sent[p] \in Seq(Unit) /\ net[e] \in Seq(Unit) /\ out[p] \in Seq(Unit)
    BY <1>1, <1>5 DEF TypesOK
  <2>3. n <= Len(in[e])
    BY <1>6
  <2> DEFINE s == sent[p]
             r == Consumed(e)
             a == in[e]
             b == net[e]
             c == out[p]
  <2>4. /\ s \in Seq(Unit) /\ a \in Seq(Unit) /\ b \in Seq(Unit) /\ c \in Seq(Unit)
        /\ r \in Nat /\ n \in Nat /\ n <= Len(a) /\ Aligned(s, r, a, b, c)
    BY <2>1, <2>2, <2>3, <1>13, <1>15
  <2> HIDE DEF s, r, a, b, c
  <2>5. /\ Aligned(s, r + n, SubSeq(a, n + 1, Len(a)), b, c)
        /\ SubSeq(a, n + 1, Len(a)) \in Seq(Unit)
        /\ Len(SubSeq(a, n + 1, Len(a))) = Len(a) - n
    BY <2>4, ReadOK
  <2> QED BY <2>5 DEF s, r, a, b, c
<1> HIDE DEF rest
<1>17. /\ in'[e] = rest /\ in'[p] = in[p]
       /\ out'[e] = out[e] \o x /\ out'[p] = out[p]
       /\ sent'[e] = sent[e] \o x /\ sent'[p] = sent[p]
       /\ net' = net /\ heard' = heard /\ token' = token
       /\ peerToken'[e] = (IF i = 1 THEN echo ELSE peerToken[e]) /\ peerToken'[p] = peerToken[p]
  BY <1>1, <1>5, <1>6 DEF TypesOK, rest
<1>18. Len(sent[e]) = Got(e, e) /\ (Finalizes(e, p, i) => Len(sent[e]) = 1 + Parts + Parts)
  <2>1. Has(e, e, 2) => Got(e, e) = 1 + Parts + Parts
    BY <1>5, GotOK DEF FlagsOK
  <2> QED BY <2>1, <1>3, <1>5, <1>9 DEF SentOK
<1>19. TypesOK'
  <2>1. in' \in [Endpoint -> Seq(Unit)] /\ out' \in [Endpoint -> Seq(Unit)]
        /\ sent' \in [Endpoint -> Seq(Unit)]
    BY <1>5, <1>6, <1>14, <1>16 DEF TypesOK, rest
  <2>2. peerToken' \in [Endpoint -> 0..NoToken] /\ rejected' \in [Endpoint -> BOOLEAN]
        /\ running' \in [Endpoint -> BOOLEAN]
    BY <1>4, <1>5, <1>6 DEF TypesOK
  <2>3. success' \in [Endpoint -> 0..1]
    <3>1. success \in [Endpoint -> 0..1] /\ success[e] = 0
      BY <1>3, <1>5 DEF FlagsOK, TypesOK
    <3> QED BY <3>1, <1>6
  <2> QED BY <2>1, <2>2, <2>3, <1>5, <1>6, <1>7 DEF TypesOK
<1>20. SizesOK'
  <2>1. Len(in'[e]) <= IoSize(e)
    <3>1. Len(in[e]) \in Nat /\ Len(in[e]) <= IoSize(e)
      BY <1>5, <1>13 DEF SizesOK
    <3> QED BY <3>1, <1>10, <1>15, <1>16, <1>17
  <2>2. Len(out'[e]) <= IoSize(e)
    <3>1. Len(out[e]) \in Nat /\ Len(out[e]) <= IoSize(e)
      BY <1>5, <1>13 DEF SizesOK
    <3>2. Len(x) <= IoSize(e) - Len(out[e])
      BY <3>1, <1>10, <1>11, <1>12 DEF Room
    <3> DEFINE a == Len(out[e])
               b == Len(x)
               y == Len(out[e] \o x)
    <3>3. a \in Nat /\ b \in Nat /\ y = a + b /\ b <= IoSize(e) - a
      BY <3>1, <3>2, <1>12, <1>14
    <3> HIDE DEF a, b, y
    <3>4. y <= IoSize(e)
      BY <3>3, <1>10
    <3> QED BY <3>4, <1>17 DEF y
  <2> QED BY <2>1, <2>2, <1>1, <1>5, <1>6, <1>17 DEF SizesOK, IoSize
<1>21. FlagsOK'
  <2>1. \A d \in Endpoint : Has(d, d, 2)' => Has(d, Peer(d), 1)'
    <3>1. Has(e, e, 2)' => Has(e, p, 1)'
      BY <1>1, <1>2, <1>5, <1>7, <1>8 DEF FlagsOK, Shake
    <3>2. Has(p, p, 2)' => Has(p, e, 1)'
      BY <1>1, <1>5, <1>8 DEF FlagsOK, Shake
    <3> QED BY <3>1, <3>2, <1>1
  <2>2. \A d \in Endpoint : success'[d] = IF Connected(d)' THEN 1 ELSE 0
    <3>0. success \in [Endpoint -> 0..1] /\ success[e] = 0
      BY <1>3, <1>5 DEF FlagsOK, TypesOK
    <3> QED BY <3>0, <1>3, <1>5, <1>6, <1>9 DEF FlagsOK
  <2>3. \A d \in Endpoint : heard'[d] > 0 => Connected(d)'
    BY <1>3, <1>5, <1>9, <1>17 DEF FlagsOK
  <2> QED BY <2>1, <2>2, <2>3, <1>8 DEF FlagsOK
<1>22. \A k \in 1..Len(sent'[e]) : /\ Shaped(sent'[e][k], k)
                                   /\ sent'[e][k].msg = 1 => sent'[e][k].token = token'[e]
                                   /\ sent'[e][k].msg = 2 => sent'[e][k].token = peerToken'[e]
  <2>1. \A k \in 1..Len(sent[e]) : /\ Shaped(sent[e][k], k)
                                   /\ sent[e][k].msg = 1 => sent[e][k].token = token'[e]
                                   /\ sent[e][k].msg = 2 => sent[e][k].token = peerToken'[e]
    <3>1. CASE i = 1
      <4>1. ~Has(e, e, 2)
        BY <3>1, <1>1, <1>5, <1>7 DEF FlagsOK
      <4>2. Len(sent[e]) \in Nat /\ Len(sent[e]) <= 1 + Parts
        BY <4>1, AheadOK
      <4>3. ASSUME NEW k \in 1..Len(sent[e]) PROVE sent[e][k].msg # 2
        <5>1. Shaped(sent[e][k], k) /\ k \in Nat /\ 1 <= k /\ k <= 1 + Parts
          BY <4>2, <1>5, PartsOK DEF SentOK
        <5> QED BY <5>1, PartsOK DEF Shaped
      <4> QED BY <4>3, <1>5, <1>17 DEF SentOK, TokensOK
    <3>2. CASE i # 1
      BY <3>2, <1>5, <1>17 DEF SentOK, TokensOK
    <3> QED BY <3>1, <3>2
  <2>2. ASSUME NEW k \in 1..Len(x)
        PROVE  /\ Shaped(x[k], Len(sent[e]) + k)
               /\ x[k].msg = 1 => x[k].token = token'[e]
               /\ x[k].msg = 2 => x[k].token = peerToken'[e]
    <3>1. x[k].msg = 3 /\ Len(sent[e]) = 1 + Parts + Parts
      BY <1>11, <1>12, <1>18 DEF Data
    <3>2. k \in Nat /\ k >= 1
      BY <1>12
    <3> QED BY <3>1, <3>2, PartsOK DEF Shaped, Data
  <2>3. sent'[e] = sent[e] \o x /\ x \in Seq(Unit)
    BY <1>11, <1>17
  <2> DEFINE s == sent[e]
             t == token'[e]
             w == peerToken'[e]
  <2>4. \A k \in 1..Len(s) : /\ Shaped(s[k], k)
                             /\ s[k].msg = 1 => s[k].token = t
                             /\ s[k].msg = 2 => s[k].token = w
    BY <2>1
  <2>5. \A k \in 1..Len(x) : /\ Shaped(x[k], Len(s) + k)
                             /\ x[k].msg = 1 => x[k].token = t
                             /\ x[k].msg = 2 => x[k].token = w
    BY <2>2
  <2>6. s \in Seq(Unit) /\ sent'[e] = s \o x
    BY <2>3, <1>13
  <2> HIDE DEF s, t, w
  <2>7. \A k \in 1..Len(s \o x) : /\ Shaped((s \o x)[k], k)
                                  /\ (s \o x)[k].msg = 1 => (s \o x)[k].token = t
                                  /\ (s \o x)[k].msg = 2 => (s \o x)[k].token = w
    <3>1. s \in Seq(Unit) /\ x \in Seq(Unit)
      BY <2>3, <2>6
    <3> QED BY <3>1, <2>4, <2>5, AppendOK
  <2> QED BY <2>6, <2>7 DEF t, w
<1>23. SentOK'
  <2>1. ASSUME NEW d \in Endpoint, d = p
        PROVE  /\ \A k \in 1..Len(sent'[d]) : Shaped(sent'[d][k], k)
               /\ ~Connected(d)' => Len(sent'[d]) = Got(d, d)'
               /\ Connected(d)' => Len(sent'[d]) = 1 + Parts \/ Len(sent'[d]) >= 1 + Parts + Parts
    BY <2>1, <1>1, <1>5, <1>8, <1>9, <1>17 DEF SentOK
  <2>2. Len(sent'[e]) = Got(e, e) + Len(x) /\ Got(e, e)' = Got(e, e) /\ Got(e, e) \in Nat
    BY <1>1, <1>8, <1>14, <1>17, <1>18, <1>13
  <2>3. ~Connected(e)' => Len(sent'[e]) = Got(e, e)'
    BY <2>2, <1>9, <1>11, <1>12
  <2>4. Connected(e)' => Len(sent'[e]) >= 1 + Parts + Parts
    BY <2>2, <1>9, <1>12, <1>18, PartsOK
  <2> QED BY <2>1, <2>3, <2>4, <1>1, <1>22 DEF SentOK
<1>24. StreamOK'
  <2>1. Consumed(e)' = Consumed(e) + n /\ Consumed(p)' = Consumed(p)
    <3>1. Got(e, p) \in Nat
      BY <1>3, PartsOK
    <3>2. Got(p, e)' = Got(p, e)
      BY <1>1, <1>8
    <3>3. Consumed(p)' = Consumed(p)
      BY <3>2, <1>1, <1>17 DEF Consumed
    <3>4. Consumed(e)' = Consumed(e) + n
      BY <3>1, <1>1, <1>3, <1>7, <1>15, <1>17 DEF Consumed
    <3> QED BY <3>3, <3>4
  <2>2. Aligned(sent'[p], Consumed(e)', in'[e], net'[e], out'[p])
    BY <2>1, <1>16, <1>17
  <2>3. Aligned(sent'[e], Consumed(p)', in'[p], net'[p], out'[e])
    <3>1. Aligned(sent[e], Consumed(p), in[p], net[p], out[e])
      BY <1>1, <1>5 DEF StreamOK
    <3>2. in[p] \in Seq(Unit) /\ net[p] \in Seq(Unit) /\ Consumed(p) \in Nat
      BY <1>1, <1>5, AheadOK DEF TypesOK
    <3>3. Aligned(sent[e] \o x, Consumed(p), in[p], net[p], out[e] \o x)
      BY <3>1, <3>2, <1>11, <1>13, WriteOK
    <3> QED BY <3>3, <2>1, <1>17
  <2>4. ASSUME NEW d \in Endpoint
        PROVE  Aligned(sent'[Peer(d)], Consumed(d)', in'[d], net'[d], out'[Peer(d)])
    BY <2>2, <2>3, <1>1
  <2> QED BY <2>4 DEF StreamOK
<1>25. TokensOK'
  <2>1. \A k \in 1..Len(sent'[p]) :
          /\ sent'[p][k].msg = 1 => sent'[p][k].token = token'[p]
          /\ sent'[p][k].msg = 2 => sent'[p][k].token = peerToken'[p]
    BY <1>1, <1>5, <1>17 DEF TokensOK
  <2>2. Has(p, e, 1)' => peerToken'[p] = token'[e]
    BY <1>1, <1>5, <1>8, <1>17 DEF TokensOK, Shake
  <2>3. Has(e, p, 1)' => peerToken'[e] = token'[p]
    BY <1>1, <1>4, <1>5, <1>8, <1>17 DEF TokensOK, Shake
  <2> QED BY <2>1, <2>2, <2>3, <1>1, <1>22 DEF TokensOK
<1>26. HonestNeverRejected'
  BY <1>5, <1>6 DEF HonestNeverRejected, TypesOK
<1>27. Delivered'
  <2>1. Connected(e)' => Len(sent'[e]) >= 1 + Parts + Parts
    <3>1. Len(sent'[e]) = Len(sent[e]) + Len(x) /\ Len(sent[e]) \in Nat
      BY <1>13, <1>14, <1>17
    <3> QED BY <3>1, <1>9, <1>12, <1>18, PartsOK
  <2>2. GreetingsFit => (Connected(p)' => Len(sent'[p]) >= 1 + Parts + Parts)
    BY <1>1, <1>5, <1>9, <1>17 DEF Delivered
  <2> QED BY <2>1, <2>2, <1>1 DEF Delivered, GreetingsFit
<1> QED BY <1>19, <1>20, <1>21, <1>23, <1>24, <1>25, <1>26, <1>27 DEF IndInv
\* A turn that only ends the loop.
LEMMA StillOK ==
  ASSUME IndInv, NEW e \in Endpoint, running' \in [Endpoint -> BOOLEAN],
         UNCHANGED <<setting, status, in, out, net, token, peerToken, success, rejected,
                     sent, heard>>
  PROVE  IndInv'
<1>1. TypesOK'
  BY DEF IndInv, TypesOK
<1>2. SizesOK' /\ HonestNeverRejected'
  BY DEF IndInv, SizesOK, IoSize, HonestNeverRejected
<1>3. FlagsOK'
  BY DEF IndInv, FlagsOK, Has, Connected
<1>4. SentOK' /\ Delivered'
  BY DEF IndInv, SentOK, Delivered, Got, Has, Connected, GreetingsFit
<1>5. StreamOK'
  BY DEF IndInv, StreamOK, Consumed, Got, Has
<1>6. TokensOK'
  BY DEF IndInv, TokensOK, Has
<1> QED BY <1>1, <1>2, <1>3, <1>4, <1>5, <1>6 DEF IndInv

\* A unit goes to the chunk reader.
LEMMA RecvOK ==
  ASSUME IndInv, NEW e \in Endpoint, Connected(e), in[e] # <<>>, Recv(e), UNCHANGED setting
  PROVE  IndInv'
<1> DEFINE p == Peer(e)
           rest == SubSeq(in[e], 2, Len(in[e]))
<1>1. p \in Endpoint /\ p # e /\ Peer(p) = e /\ Peer(e) = p /\ \A d \in Endpoint : d = e \/ d = p
  BY PeerOK
<1> HIDE DEF p
<1>2. /\ TypesOK /\ SizesOK /\ FlagsOK /\ SentOK /\ StreamOK /\ TokensOK /\ HonestNeverRejected
      /\ Delivered
  BY DEF IndInv
<1>3. in[e] \in Seq(Unit) /\ Len(in[e]) \in Nat /\ 1 <= Len(in[e]) /\ Len(in[e]) <= IoSize(e)
      /\ IoSize(e) \in Nat /\ heard[e] \in Nat
  BY <1>2, SettingOK DEF TypesOK, SizesOK
<1>4. Tail(in[e]) = rest
  BY <1>3, TailIsSubSeq
<1>5. /\ UNCHANGED <<setting, status, out, net, token, peerToken, success, rejected, sent>>
      /\ in' = [in EXCEPT ![e] = rest]
      /\ heard' = [heard EXCEPT ![e] = @ + 1]
      /\ running' = [running EXCEPT ![e] = TRUE]
  BY <1>4 DEF Recv, Loop
<1>6. /\ Aligned(sent[p], Consumed(e) + 1, rest, net[e], out[p])
      /\ rest \in Seq(Unit) /\ Len(rest) = Len(in[e]) - 1
  <2> DEFINE s == sent[p]
             r == Consumed(e)
             a == in[e]
             b == net[e]
             c == out[p]
             n == 1
  <2>1. /\ s \in Seq(Unit) /\ a \in Seq(Unit) /\ b \in Seq(Unit) /\ c \in Seq(Unit)
        /\ r \in Nat /\ n \in Nat /\ n <= Len(a) /\ Aligned(s, r, a, b, c)
    BY <1>1, <1>2, <1>3, AheadOK DEF TypesOK, StreamOK
  <2>3. n + 1 = 2
    OBVIOUS
  <2> HIDE DEF s, r, a, b, c, n
  <2>2. /\ Aligned(s, r + n, SubSeq(a, n + 1, Len(a)), b, c)
        /\ SubSeq(a, n + 1, Len(a)) \in Seq(Unit)
        /\ Len(SubSeq(a, n + 1, Len(a))) = Len(a) - n
    BY <2>1, ReadOK
  <2> QED BY <2>2, <2>3 DEF s, r, a, b, c, n
<1> HIDE DEF rest
<1>7. /\ in'[e] = rest /\ in'[p] = in[p] /\ heard'[e] = heard[e] + 1 /\ heard'[p] = heard[p]
  BY <1>1, <1>2, <1>5 DEF TypesOK
<1>8. TypesOK'
  <2>1. /\ in' \in [Endpoint -> Seq(Unit)] /\ heard' \in [Endpoint -> Nat]
        /\ running' \in [Endpoint -> BOOLEAN]
    BY <1>2, <1>5, <1>6, SMTT(30) DEF TypesOK
  <2> QED BY <2>1, <1>2, <1>5 DEF TypesOK
<1>9. SizesOK'
  <2>1. Len(in'[e]) <= IoSize(e)
    BY <1>3, <1>6, <1>7
  <2> QED BY <2>1, <1>1, <1>2, <1>5, <1>7 DEF SizesOK, IoSize
<1>10. FlagsOK'
  <2>1. \A d \in Endpoint : heard'[d] > 0 => Connected(d)'
    BY <1>1, <1>2, <1>5, <1>7 DEF FlagsOK, Connected
  <2> QED BY <2>1, <1>2, <1>5 DEF FlagsOK, Has, Connected
<1>11. SentOK' /\ Delivered'
  BY <1>2, <1>5 DEF SentOK, Delivered, Got, Has, Connected, GreetingsFit
<1>12. StreamOK'
  <2>1. \A d, t \in Endpoint : Got(d, t)' = Got(d, t)
    BY <1>5 DEF Got, Has
  <2>2. Got(e, p) \in Nat
    BY <1>1, AheadOK
  <2>3. Consumed(e)' = Consumed(e) + 1 /\ Consumed(p)' = Consumed(p)
    BY <2>1, <2>2, <1>1, <1>3, <1>7 DEF Consumed
  <2>4. Aligned(sent'[p], Consumed(e)', in'[e], net'[e], out'[p])
    BY <2>3, <1>5, <1>6, <1>7
  <2>5. Aligned(sent'[e], Consumed(p)', in'[p], net'[p], out'[e])
    BY <2>3, <1>1, <1>2, <1>5, <1>7 DEF StreamOK
  <2>6. ASSUME NEW d \in Endpoint
        PROVE  Aligned(sent'[Peer(d)], Consumed(d)', in'[d], net'[d], out'[Peer(d)])
    BY <2>4, <2>5, <1>1
  <2> QED BY <2>6 DEF StreamOK
<1>13. TokensOK' /\ HonestNeverRejected'
  BY <1>2, <1>5 DEF TokensOK, HonestNeverRejected, Has
<1> QED BY <1>8, <1>9, <1>10, <1>11, <1>12, <1>13 DEF IndInv

\* The socket takes a unit.
LEMMA TransmitStepOK ==
  ASSUME IndInv, NEW e \in Endpoint, Transmit(e), UNCHANGED setting
  PROVE  IndInv'
<1> DEFINE p == Peer(e)
           more == Append(net[p], Head(out[e]))
           rest == Tail(out[e])
<1>1. p \in Endpoint /\ p # e /\ Peer(p) = e /\ Peer(e) = p /\ \A d \in Endpoint : d = e \/ d = p
  BY PeerOK
<1>2. /\ TypesOK /\ SizesOK /\ FlagsOK /\ SentOK /\ StreamOK /\ TokensOK /\ HonestNeverRejected
      /\ Delivered
  BY DEF IndInv
<1>3. /\ UNCHANGED <<setting, status, in, token, peerToken, running, success, rejected, sent, heard>>
      /\ net' = [net EXCEPT ![p] = more]
      /\ out' = [out EXCEPT ![e] = rest]
      /\ out[e] # <<>>
  BY <1>2 DEF Transmit, TypesOK
<1> HIDE DEF p
<1>4. /\ out[e] \in Seq(Unit) /\ net[p] \in Seq(Unit) /\ sent[e] \in Seq(Unit)
      /\ in[p] \in Seq(Unit) /\ Len(out[e]) \in Nat /\ Len(out[e]) <= IoSize(e)
      /\ IoSize(e) \in Nat
  <2>1. /\ out[e] \in Seq(Unit) /\ net[p] \in Seq(Unit) /\ sent[e] \in Seq(Unit)
        /\ in[p] \in Seq(Unit)
    BY <1>1, <1>2 DEF TypesOK
  <2>2. Len(out[e]) \in Nat /\ Len(out[e]) <= IoSize(e)
    BY <2>1, <1>2 DEF SizesOK
  <2>3. IoSize(e) \in Nat
    BY <1>2, SettingOK
  <2> QED BY <2>1, <2>2, <2>3
<1>5. /\ more \in Seq(Unit) /\ rest \in Seq(Unit) /\ Len(rest) = Len(out[e]) - 1
  BY <1>3, <1>4
<1>6. Aligned(sent[e], Consumed(p), in[p], more, rest)
  <2>1. Aligned(sent[e], Consumed(p), in[p], net[p], out[e]) /\ Consumed(p) \in Nat
    BY <1>1, <1>2, AheadOK DEF StreamOK
  <2> QED BY <2>1, <1>3, <1>4, TransmitOK
<1> HIDE DEF more, rest
<1>7. net'[p] = more /\ net'[e] = net[e] /\ out'[e] = rest /\ out'[p] = out[p]
  BY <1>1, <1>2, <1>3 DEF TypesOK
<1>8. TypesOK'
  <2>1. net' \in [Endpoint -> Seq(Unit)] /\ out' \in [Endpoint -> Seq(Unit)]
    BY <1>1, <1>2, <1>3, <1>5 DEF TypesOK
  <2> QED BY <2>1, <1>2, <1>3 DEF TypesOK
<1>9. SizesOK'
  <2>1. Len(out'[e]) <= IoSize(e)
    BY <1>4, <1>5, <1>7
  <2> QED BY <2>1, <1>1, <1>2, <1>3, <1>7 DEF SizesOK, IoSize
<1>10. FlagsOK'
  BY <1>2, <1>3 DEF FlagsOK, Has, Connected
<1>11. SentOK' /\ Delivered'
  BY <1>2, <1>3 DEF SentOK, Delivered, Got, Has, Connected, GreetingsFit
<1>12. StreamOK'
  <2>1. \A d \in Endpoint : Consumed(d)' = Consumed(d)
    BY <1>3 DEF Consumed, Got, Has
  <2>2. Aligned(sent'[e], Consumed(p)', in'[p], net'[p], out'[e])
    BY <2>1, <1>1, <1>3, <1>6, <1>7
  <2>3. Aligned(sent'[p], Consumed(e)', in'[e], net'[e], out'[p])
    BY <2>1, <1>1, <1>2, <1>3, <1>7 DEF StreamOK
  <2>4. ASSUME NEW d \in Endpoint
        PROVE  Aligned(sent'[Peer(d)], Consumed(d)', in'[d], net'[d], out'[Peer(d)])
    BY <2>2, <2>3, <1>1
  <2> QED BY <2>4 DEF StreamOK
<1>13. TokensOK' /\ HonestNeverRejected'
  BY <1>2, <1>3 DEF TokensOK, HonestNeverRejected, Has
<1> QED BY <1>8, <1>9, <1>10, <1>11, <1>12, <1>13 DEF IndInv

\* The socket delivers a unit.
LEMMA DeliverStepOK ==
  ASSUME IndInv, NEW e \in Endpoint, Deliver(e), UNCHANGED setting
  PROVE  IndInv'
<1> DEFINE p == Peer(e)
           more == Append(in[e], Head(net[e]))
           rest == Tail(net[e])
<1>1. p \in Endpoint /\ p # e /\ Peer(p) = e /\ Peer(e) = p /\ \A d \in Endpoint : d = e \/ d = p
  BY PeerOK
<1> HIDE DEF p
<1>2. /\ TypesOK /\ SizesOK /\ FlagsOK /\ SentOK /\ StreamOK /\ TokensOK /\ HonestNeverRejected
      /\ Delivered
  BY DEF IndInv
<1>3. /\ UNCHANGED <<setting, status, out, token, peerToken, running, success, rejected, sent, heard>>
      /\ in' = [in EXCEPT ![e] = more]
      /\ net' = [net EXCEPT ![e] = rest]
      /\ net[e] # <<>> /\ Len(in[e]) < IoSize(e)
  BY <1>2 DEF Deliver, TypesOK
<1>4. /\ out[p] \in Seq(Unit) /\ net[e] \in Seq(Unit) /\ sent[p] \in Seq(Unit)
      /\ in[e] \in Seq(Unit) /\ Len(in[e]) \in Nat /\ IoSize(e) \in Nat
  <2>1. /\ out[p] \in Seq(Unit) /\ net[e] \in Seq(Unit) /\ sent[p] \in Seq(Unit)
        /\ in[e] \in Seq(Unit)
    BY <1>1, <1>2 DEF TypesOK
  <2>2. IoSize(e) \in Nat
    BY <1>2, SettingOK
  <2> QED BY <2>1, <2>2
<1>5. /\ more \in Seq(Unit) /\ rest \in Seq(Unit) /\ Len(more) = Len(in[e]) + 1
  BY <1>3, <1>4
<1>6. Aligned(sent[p], Consumed(e), more, rest, out[p])
  <2>1. Aligned(sent[p], Consumed(e), in[e], net[e], out[p]) /\ Consumed(e) \in Nat
    BY <1>1, <1>2, AheadOK DEF StreamOK
  <2> QED BY <2>1, <1>3, <1>4, DeliverOK
<1> HIDE DEF more, rest
<1>7. in'[e] = more /\ in'[p] = in[p] /\ net'[e] = rest /\ net'[p] = net[p]
  BY <1>1, <1>2, <1>3 DEF TypesOK
<1>8. TypesOK'
  <2>1. in' \in [Endpoint -> Seq(Unit)] /\ net' \in [Endpoint -> Seq(Unit)]
    BY <1>2, <1>3, <1>5 DEF TypesOK
  <2> QED BY <2>1, <1>2, <1>3 DEF TypesOK
<1>9. SizesOK'
  <2>1. Len(in'[e]) <= IoSize(e)
    BY <1>3, <1>4, <1>5, <1>7
  <2> QED BY <2>1, <1>1, <1>2, <1>3, <1>7 DEF SizesOK, IoSize
<1>10. FlagsOK'
  BY <1>2, <1>3 DEF FlagsOK, Has, Connected
<1>11. SentOK' /\ Delivered'
  BY <1>2, <1>3 DEF SentOK, Delivered, Got, Has, Connected, GreetingsFit
<1>12. StreamOK'
  <2>1. \A d \in Endpoint : Consumed(d)' = Consumed(d)
    BY <1>3 DEF Consumed, Got, Has
  <2>2. Aligned(sent'[p], Consumed(e)', in'[e], net'[e], out'[p])
    BY <2>1, <1>1, <1>3, <1>6, <1>7
  <2>3. Aligned(sent'[e], Consumed(p)', in'[p], net'[p], out'[e])
    BY <2>1, <1>1, <1>2, <1>3, <1>7 DEF StreamOK
  <2>4. ASSUME NEW d \in Endpoint
        PROVE  Aligned(sent'[Peer(d)], Consumed(d)', in'[d], net'[d], out'[Peer(d)])
    BY <2>2, <2>3, <1>1
  <2> QED BY <2>4 DEF StreamOK
<1>13. TokensOK' /\ HonestNeverRejected'
  BY <1>2, <1>3 DEF TokensOK, HonestNeverRejected, Has
<1> QED BY <1>8, <1>9, <1>10, <1>11, <1>12, <1>13 DEF IndInv
\* No flag is set and nothing is on its way.
LEMMA InitOK == Init => IndInv
<1> SUFFICES ASSUME Init PROVE IndInv
  OBVIOUS
<1>1. \A e \in Endpoint : /\ in[e] = <<>> /\ out[e] = <<>> /\ net[e] = <<>> /\ sent[e] = <<>>
                          /\ heard[e] = 0 /\ success[e] = 0 /\ ~rejected[e]
  BY DEF Init
<1>2. \A e, s \in Endpoint : \A i \in Shake : ~Has(e, s, i)
  BY DEF Init, Has
<1>3. \A e, s \in Endpoint : Got(e, s) = 0
  BY <1>2 DEF Got, Shake
<1>4. TypesOK
  <2>1. <<>> \in Seq(Unit)
    OBVIOUS
  <2> QED BY <2>1 DEF Init, TypesOK, Tokens, NoToken
<1>5. \A e \in Endpoint : ~Connected(e)
  BY <1>2, <1>4, ConnectedOK DEF Shake
<1>6. SizesOK
  BY <1>1, <1>4, SettingOK, PartsOK DEF SizesOK
<1>7. FlagsOK
  BY <1>1, <1>2, <1>5 DEF FlagsOK, Shake
<1>8. SentOK /\ Delivered
  BY <1>1, <1>3, <1>5 DEF SentOK, Delivered
<1>9. StreamOK
  <2> SUFFICES ASSUME NEW e \in Endpoint
               PROVE  Aligned(sent[Peer(e)], Consumed(e), in[e], net[e], out[Peer(e)])
    BY DEF StreamOK
  <2>1. Peer(e) \in Endpoint
    BY PeerOK
  <2>2. Consumed(e) = 0
    BY <2>1, <1>1, <1>3 DEF Consumed
  <2>3. Aligned(<<>>, 0, <<>>, <<>>, <<>>)
    BY DEF Aligned
  <2> QED BY <2>1, <2>2, <2>3, <1>1
<1>10. TokensOK /\ HonestNeverRejected
  BY <1>1, <1>2, PeerOK DEF TokensOK, HonestNeverRejected, Shake
<1> QED BY <1>4, <1>6, <1>7, <1>8, <1>9, <1>10 DEF IndInv

\* Each action of either end keeps the inductive invariant.
LEMMA IndInvStep == IndInv /\ [Next]_vars => IndInv'
<1> SUFFICES ASSUME IndInv, [Next]_vars PROVE IndInv'
  OBVIOUS
<1>0. running \in [Endpoint -> BOOLEAN]
  BY DEF IndInv, TypesOK
<1>1. CASE UNCHANGED vars
  <2>1. \E e \in Endpoint : TRUE
    BY DEF Endpoint
  <2> QED BY <2>1, <1>0, <1>1, StillOK DEF vars
<1>2. ASSUME NEW e \in Endpoint, UNCHANGED setting, Service(e) PROVE IndInv'
  <2>1. CASE ~Connected(e) /\ in[e] = <<>>
    <3>1. Emit(e, Due(e, e)) \/ EmitBlocked(e, Due(e, e))
      BY <1>2, <2>1 DEF Service
    <3> QED BY <3>1, <1>2, EmitOK, EmitBlockedOK
  <2>2. CASE ~Connected(e) /\ in[e] # <<>>
    <3>1. CASE Ingest(e, Due(e, Peer(e)))
      BY <3>1, <1>2, <2>2, IngestOK
    <3>2. CASE IngestBlocked(e, Due(e, Peer(e)))
      BY <3>2, <1>0, <1>2, StillOK DEF IngestBlocked, Loop
    <3> QED BY <3>1, <3>2, <1>2, <2>2 DEF Service
  <2>3. CASE Connected(e) /\ in[e] # <<>>
    BY <1>2, <2>3, RecvOK DEF Service
  <2>4. CASE Connected(e) /\ in[e] = <<>>
    <3>1. Idle(e)
      BY <1>2, <2>4 DEF Service
    <3> QED BY <3>1, <1>0, <1>2, StillOK DEF Idle, Loop
  <2> QED BY <2>1, <2>2, <2>3, <2>4
<1>3. ASSUME NEW e \in Endpoint, UNCHANGED setting, Transmit(e) PROVE IndInv'
  BY <1>3, TransmitStepOK
<1>4. ASSUME NEW e \in Endpoint, UNCHANGED setting, Deliver(e) PROVE IndInv'
  BY <1>4, DeliverStepOK
<1> QED BY <1>1, <1>2, <1>3, <1>4 DEF Next

\* The inductive invariant holds in every reachable state.
LEMMA Invariance == Spec => []IndInv
  BY InitOK, IndInvStep, PTL DEF Spec

\* The first units of a sequence.
LEMMA FrontOK ==
  ASSUME NEW S, NEW a \in Seq(S), NEW n \in Int, n <= Len(a)
  PROVE  /\ Len(SubSeq(a, 1, n)) = IF 1 <= n THEN n ELSE 0
         /\ \A k \in 1..n : SubSeq(a, 1, n)[k] = a[k]
<1>1. \A k \in 1..n : a[k] \in S
  OBVIOUS
<1> DEFINE b == SubSeq(a, 1, n)
<1>2. /\ Len(b) = IF 1 <= n THEN n - 1 + 1 ELSE 0
      /\ \A k \in 1..(n - 1 + 1) : b[k] = a[1 + k - 1]
  BY <1>1, SubSeqProperties
<1> HIDE DEF b
<1>3. n - 1 + 1 = n /\ \A k \in 1..n : 1 + k - 1 = k
  OBVIOUS
<1>4. ASSUME NEW k \in 1..n PROVE b[k] = a[k]
  BY <1>2, <1>3
<1> QED BY <1>2, <1>3, <1>4 DEF b
-----------------------------------------------------------------------------
(* The theorems. *)

\* Every variable keeps its type, no buffer holds more than it has room for, and
\* CONNECT_SUCCESS fires at most once.
THEOREM TypeCorrect == Spec => []TypeOK
<1>1. IndInv => TypeOK
  <2> SUFFICES ASSUME IndInv PROVE TypeOK
    OBVIOUS
  <2>1. TypesOK /\ SizesOK
    BY DEF IndInv
  <2>2. ASSUME NEW e \in Endpoint, NEW q \in {in[e], out[e], net[e], sent[e]}
        PROVE  \A k \in DOMAIN q : q[k] \in Unit
    <3>1. q \in Seq(Unit)
      BY <2>1 DEF TypesOK
    <3> QED BY <3>1
  <2> QED BY <2>1, <2>2 DEF TypesOK, SizesOK, TypeOK
<1> QED BY <1>1, Invariance, PTL

\* HonestNeverRejected: no echo between endpoints that follow the protocol fails
\* verification, for messages and buffers of any size.
THEOREM EchoesPass == Spec => []HonestNeverRejected
<1>1. IndInv => HonestNeverRejected
  BY DEF IndInv
<1> QED BY <1>1, Invariance, PTL

\* SuccessMeansShakeSent holds wherever the callback's message fits beside the
\* last message of the handshake; see HandshakeRollback.cfg for what happens
\* where it does not.
THEOREM SuccessIsTrue == GreetingsFit => (Spec => []SuccessMeansShakeSent)
<1> SUFFICES ASSUME GreetingsFit PROVE Spec => []SuccessMeansShakeSent
  OBVIOUS
<1>1. IndInv => SuccessMeansShakeSent
  <2> SUFFICES ASSUME IndInv, NEW e \in Endpoint, success[e] > 0
               PROVE  LET shake == Frame(e, 0, 0) \o Frame(e, 1, 0) \o Frame(e, 2, 0)
                      IN  /\ Len(sent[e]) >= Len(shake)
                          /\ \A k \in DOMAIN shake : Place(sent[e][k]) = Place(shake[k])
    BY DEF SuccessMeansShakeSent
  <2> DEFINE f == Frame(e, 0, 0)
             g == Frame(e, 1, 0)
             h == Frame(e, 2, 0)
             fg == f \o g
             shake == fg \o h
  <2>1. Connected(e) /\ Len(sent[e]) >= 1 + Parts + Parts
    BY DEF IndInv, FlagsOK, Delivered
  <2>2. /\ f \in Seq(Unit) /\ Len(f) = 1 /\ f[1].msg = 0 /\ f[1].part = 1
        /\ g \in Seq(Unit) /\ Len(g) = Parts
        /\ h \in Seq(Unit) /\ Len(h) = Parts
    BY FrameOK DEF Shake, NoToken, Units
  <2>3. /\ \A k \in 1..Parts : g[k].msg = 1 /\ g[k].part = k
        /\ \A k \in 1..Parts : h[k].msg = 2 /\ h[k].part = k
    BY FrameOK DEF Shake, NoToken, Units
  <2> HIDE DEF f, g, h
  <2>4. /\ fg \in Seq(Unit) /\ Len(fg) = Len(f) + Len(g)
        /\ \A k \in 1..(Len(f) + Len(g)) : fg[k] = IF k <= Len(f) THEN f[k] ELSE g[k - Len(f)]
    BY <2>2, ConcatProperties, Zenon
  <2> HIDE DEF fg
  <2>5. /\ shake \in Seq(Unit) /\ Len(shake) = Len(fg) + Len(h)
        /\ \A k \in 1..(Len(fg) + Len(h)) :
             shake[k] = IF k <= Len(fg) THEN fg[k] ELSE h[k - Len(fg)]
    <3>1. fg \in Seq(Unit) /\ h \in Seq(Unit)
      BY <2>2, <2>4
    <3> QED BY <3>1, ConcatProperties, Zenon
  <2> HIDE DEF shake
  <2>6. Len(shake) = 1 + Parts + Parts /\ DOMAIN shake = 1..(1 + Parts + Parts)
    BY <2>2, <2>4, <2>5, PartsOK
  <2>7. ASSUME NEW k \in DOMAIN shake PROVE Place(sent[e][k]) = Place(shake[k])
    <3>0. k \in 1..(1 + Parts + Parts) /\ sent[e] \in Seq(Unit)
      BY <2>6 DEF IndInv, TypesOK
    <3>1. k \in 1..Len(sent[e])
      BY <2>1, <3>0, PartsOK
    <3>2. Shaped(sent[e][k], k)
      BY <3>1 DEF IndInv, SentOK
    <3>3. Len(fg) = 1 + Parts /\ Len(f) = 1 /\ Len(g) = Parts /\ Len(h) = Parts
      BY <2>2, <2>4
    <3>4. CASE k = 1
      <4>1. shake[k] = f[1]
        BY <2>4, <2>5, <3>0, <3>3, <3>4, PartsOK
      <4> QED BY <4>1, <2>2, <3>2, <3>4 DEF Place, Shaped
    <3>5. CASE 1 < k /\ k <= 1 + Parts
      <4>1. k - 1 \in 1..Parts /\ shake[k] = g[k - 1]
        BY <2>4, <2>5, <3>0, <3>3, <3>5, PartsOK
      <4> QED BY <4>1, <2>3, <3>2, <3>5 DEF Place, Shaped
    <3>6. CASE 1 + Parts < k
      <4>1. k - (1 + Parts) \in 1..Parts /\ shake[k] = h[k - (1 + Parts)]
        BY <2>5, <3>0, <3>3, <3>6, PartsOK
      <4> QED BY <4>1, <2>3, <3>0, <3>2, <3>6 DEF Place, Shaped
    <3> QED BY <3>0, <3>4, <3>5, <3>6, PartsOK
  <2> QED BY <2>1, <2>6, <2>7 DEF shake, fg, f, g, h
<1> QED BY <1>1, Invariance, PTL
\* NothingMisread: an endpoint takes the units of a message, whole and in order,
\* for that message, and nothing of the handshake for data.
THEOREM NothingIsMisread == Spec => NothingMisread
<1> DEFINE Right(e) ==
      LET gone == SubSeq(in[e], 1, Len(in[e]) - Len(in'[e]))
          i    == Due(e, Peer(e))
      IN  Len(gone) > 0 =>
            IF i = Data THEN gone[1].msg = Data
            ELSE /\ Len(gone) = Units(i)
                 /\ \A k \in DOMAIN gone : Place(gone[k]) = <<i, k>>
<1>1. ASSUME IndInv, [Next]_vars, NEW e \in Endpoint PROVE Right(e)
  <2>0. /\ in \in [Endpoint -> Seq(Unit)] /\ in[e] \in Seq(Unit) /\ Len(in[e]) \in Nat
        /\ Len(in[e]) <= Len(in[e]) /\ Peer(e) \in Endpoint
    BY <1>1, PeerOK DEF IndInv, TypesOK
  <2> DEFINE i == Due(e, Peer(e))
             d == Len(in[e]) - Len(in'[e])
             gone == SubSeq(in[e], 1, d)
  <2>1. ASSUME d \in Int, d <= 0 PROVE Right(e)
    <3>1. d <= Len(in[e])
      BY <2>0, <2>1
    <3> HIDE DEF d
    <3>2. Len(gone) = IF 1 <= d THEN d ELSE 0
      BY <2>0, <2>1, <3>1, FrontOK
    <3>3. ~(Len(gone) > 0)
      BY <2>1, <3>2
    <3> QED BY <3>3 DEF d
  <2>2. ASSUME in'[e] = in[e] PROVE Right(e)
    <3>1. d \in Int /\ d <= 0
      BY <2>0, <2>2
    <3> HIDE DEF d
    <3> QED BY <3>1, <2>1
  <2>3. ASSUME Ingest(e, i), in[e] # <<>> PROVE Right(e)
    <3> DEFINE n == Units(i)
               r == Consumed(e)
    <3>1. i \in Shake /\ n <= Len(in[e])
      BY <2>3 DEF Ingest, Arrived, MayIngest, Shake
    <3>2. n \in Nat /\ n >= 1 /\ i # Data /\ i \in {0, 1, 2}
      BY <3>1, PartsOK DEF Units, Shake, Data
    <3>3. in'[e] = in[e] \/ in'[e] = SubSeq(in[e], n + 1, Len(in[e]))
      BY <2>0, <2>3 DEF Ingest
    <3>4. SUFFICES ASSUME in'[e] = SubSeq(in[e], n + 1, Len(in[e])) PROVE Right(e)
      BY <3>3, <2>2
    <3>5. /\ ~Connected(e) /\ r = (IF i = 0 THEN 0 ELSE IF i = 1 THEN 1 ELSE 1 + Parts)
      <4>1. /\ \A s \in Endpoint : (Has(e, s, 1) => Has(e, s, 0)) /\ (Has(e, s, 2) => Has(e, s, 1))
            /\ heard[e] > 0 => Connected(e)
            /\ heard[e] \in Nat
        BY <1>1 DEF IndInv, FlagsOK, TypesOK
      <4>2. i = IF ~Has(e, Peer(e), 0) THEN 0
                ELSE IF ~Has(e, Peer(e), 1) THEN 1
                ELSE IF ~Has(e, Peer(e), 2) THEN 2 ELSE Data
        BY <4>1, <2>0, DueOK
      <4> HIDE DEF i
      <4>3. ~Has(e, Peer(e), i)
            /\ Got(e, Peer(e)) = (IF i = 0 THEN 0 ELSE IF i = 1 THEN 1 ELSE 1 + Parts)
        BY <4>1, <4>2, <3>2, <2>0 DEF Got
      <4>4. ~Connected(e)
        BY <4>3, <3>1, <2>0, <1>1, ConnectedOK DEF IndInv
      <4>5. heard[e] = 0
        BY <4>1, <4>4
      <4> QED BY <4>3, <4>4, <4>5, <3>2, PartsOK DEF Consumed
    <3> HIDE DEF n, i, r
    <3>6. Len(in'[e]) = Len(in[e]) - n
      <4>1. \A k \in (n + 1)..Len(in[e]) : in[e][k] \in Unit
        BY <2>0, <3>2
      <4>2. Len(SubSeq(in[e], n + 1, Len(in[e])))
              = IF n + 1 <= Len(in[e]) THEN Len(in[e]) - (n + 1) + 1 ELSE 0
        BY <4>1, <2>0, <3>2, SubSeqProperties
      <4> QED BY <4>2, <2>0, <3>1, <3>2, <3>4
    <3>7. d = n
      BY <3>6, <3>2, <2>0
    <3> HIDE DEF d
    <3>8. Len(gone) = n /\ \A k \in 1..n : gone[k] = in[e][k]
      BY <2>0, <3>1, <3>2, <3>7, FrontOK
    <3>9. ASSUME NEW k \in 1..n PROVE Place(gone[k]) = <<i, k>>
      <4>1. k \in 1..Len(in[e])
        BY <2>0, <3>1, <3>2
      <4>2. Shaped(in[e][k], r + k)
        BY <4>1, <1>1, HeadOK DEF r
      <4>3. in[e][k].msg = i /\ in[e][k].part = k
        BY <4>2, <3>2, <3>5, PartsOK DEF Shaped, n, Units
      <4> QED BY <4>3, <3>8 DEF Place
    <3>10. DOMAIN gone = 1..n
      <4>1. gone \in Seq(Unit)
        <5>1. \A k \in 1..d : in[e][k] \in Unit
          BY <2>0, <3>1, <3>2, <3>7
        <5> QED BY <5>1, <3>2, <3>7, <2>0, SubSeqProperties
      <4> QED BY <4>1, <3>8
    <3> HIDE DEF gone
    <3>11. Len(gone) = n /\ \A k \in DOMAIN gone : Place(gone[k]) = <<i, k>>
      BY <3>8, <3>9, <3>10
    <3> QED BY <3>2, <3>11 DEF gone, i, n, d
  <2>4. ASSUME Connected(e), in[e] # <<>>, Recv(e) PROVE Right(e)
    <3>1. in'[e] = Tail(in[e])
      BY <2>0, <2>4 DEF Recv
    <3>2. d = 1 /\ 1 \in 1..Len(in[e])
      BY <3>1, <2>0, <2>4
    <3>3. i = Data /\ Consumed(e) >= 1 + Parts + Parts
      <4>1. \A j \in Shake : Has(e, Peer(e), j)
        BY <2>0, <2>4, <1>1, ConnectedOK DEF IndInv
      <4>2. i = Data
        BY <4>1, <2>0, DueOK DEF Shake
      <4>3. Got(e, Peer(e)) = 1 + Parts + Parts
        BY <4>1 DEF Got, Shake
      <4>4. heard[e] \in Nat
        BY <1>1 DEF IndInv, TypesOK
      <4> QED BY <4>2, <4>3, <4>4, PartsOK DEF Consumed
    <3>4. in[e][1].msg = Data
      <4>1. Shaped(in[e][1], Consumed(e) + 1) /\ Consumed(e) \in Nat
        BY <3>2, <1>1, HeadOK
      <4> QED BY <4>1, <3>3, PartsOK DEF Shaped
    <3> HIDE DEF d, i
    <3>5. gone[1] = in[e][1]
      BY <3>2, <2>0, FrontOK
    <3> HIDE DEF gone
    <3>6. i = Data /\ gone[1].msg = Data
      BY <3>3, <3>4, <3>5
    <3> QED BY <3>6 DEF gone, i, d
  <2>5. ASSUME Deliver(e) PROVE Right(e)
    <3>1. in'[e] = Append(in[e], Head(net[e])) /\ Head(net[e]) \in Unit
      BY <2>0, <2>5, <1>1 DEF Deliver, IndInv, TypesOK
    <3>2. Len(in'[e]) = Len(in[e]) + 1
      BY <3>1, <2>0
    <3>3. d \in Int /\ d <= 0
      BY <3>2, <2>0
    <3> HIDE DEF d
    <3> QED BY <3>3, <2>1
  <2>6. ASSUME NEW c \in Endpoint, Service(c) \/ Transmit(c) \/ Deliver(c), c # e
        PROVE  in'[e] = in[e]
    <3>1. in' = in \/ \E q : in' = [in EXCEPT ![c] = q]
      BY <2>6 DEF Service, Emit, EmitBlocked, Ingest, IngestBlocked, Recv, Idle, Transmit, Deliver
    <3> QED BY <3>1, <2>0, <2>6
  <2>7. ASSUME Service(e) PROVE Right(e)
    <3>1. \/ in' = in
          \/ in[e] # <<>> /\ Ingest(e, i)
          \/ Connected(e) /\ in[e] # <<>> /\ Recv(e)
      BY <2>7 DEF Service, Emit, EmitBlocked, IngestBlocked, Idle
    <3> HIDE DEF Right, i
    <3> QED BY <3>1, <2>2, <2>3, <2>4
  <2>8. ASSUME Transmit(e) PROVE Right(e)
    BY <2>8, <2>2 DEF Transmit
  <2> HIDE DEF Right
  <2> QED BY <1>1, <2>2, <2>5, <2>6, <2>7, <2>8 DEF Next, vars
<1>2. IndInv /\ [Next]_vars => [\A e \in Endpoint : Right(e)]_vars
  BY <1>1
<1> QED BY <1>2, Invariance, PTL DEF Spec, NothingMisread
=============================================================================

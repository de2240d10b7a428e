------------------------------- MODULE Framing -------------------------------
(***************************************************************************)
(* One direction of a TCP connection: send_frame() on one side, calls of   *)
(* recv_frame() on the other, and the byte stream between them. send() and *)
(* recv() move any number of bytes at a time, down to one; send_exact()    *)
(* and recv_exact() loop around them. The sender may end at any moment,    *)
(* half-way through a frame too. recv_frame() reads the header, checks it, *)
(* reads the payload whose length the header gives, and then the checksum; *)
(* whoever gets false from it closes the connection. (The coordinator's    *)
(* RELEASE path keeps it: see run DeathOnRelease.)                         *)
(*                                                                         *)
(* The stream is a sequence of units, a kind and a value each: the header  *)
(* is four units (magic, version, type, length), a payload byte is one,    *)
(* the checksum is one. The checksum is ideal: that of a text stands for   *)
(* the text. Damage in transit, which TCP all but excludes and the         *)
(* checksum is for, changes the value of a unit.                           *)
(***************************************************************************)
EXTENDS Integers, Sequences

CONSTANTS
    Frames,         \* the frames senders send: a type and a payload
    kMaxFrame,      \* the longest payload a receiver accepts
    SocketBuffer,   \* units the stream holds; a sender waits when it is full
    MaxSent,        \* bound: frames sent
    MaxDamage       \* bound: units damaged in transit

ASSUME FrameAssumption ==
    /\ Frames \subseteq [type : Nat, payload : Seq(Nat)]
    /\ kMaxFrame \in Nat
    /\ SocketBuffer \in Nat \ {0}
    /\ MaxSent \in Nat /\ MaxDamage \in Nat

VARIABLES
    sender,         \* open or closed
    out,            \* send_exact: what is left to send of the frame
    stream,         \* units sent and not yet received
    receiver,       \* open, or failed once recv_frame has returned false
    got,            \* recv_frame: units of the frame received so far
    damaged,        \* units damaged so far
    sent,           \* history: the frames given to send_frame
    delivered       \* history: the frames recv_frame has returned

fvars == <<sender, out, stream, receiver, got, damaged, sent, delivered>>

-----------------------------------------------------------------------------
(* The frame format. *)

kMagic == 7
kVersion == 1
NoValue == -1           \* a value no unit is sent with

HeaderSize == 4

Header(m) ==
    <<<<"magic", kMagic>>, <<"version", kVersion>>, <<"type", m.type>>,
      <<"length", Len(m.payload)>>>>

Text(m) == Header(m) \o [i \in 1 .. Len(m.payload) |-> <<"byte", m.payload[i]>>]

crc32(text) == <<"crc", text>>

encode(m) == Append(Text(m), crc32(Tail(Text(m))))

\* The header that g begins with is acceptable.
GoodHeader(g) ==
    /\ g[1] = <<"magic", kMagic>>
    /\ g[2] = <<"version", kVersion>>
    /\ g[4][1] = "length" /\ g[4][2] \in 0 .. kMaxFrame

PayloadLen(g) == g[4][2]
FrameLen(g) == HeaderSize + PayloadLen(g) + 1

\* Mutation: the checksum read and not compared.
ChecksumIgnored(g) == TRUE

ChecksumHolds(g) == g[Len(g)] = crc32(SubSeq(g, 2, Len(g) - 1))

\* The frame in g, which decode() has accepted.
decode(g) ==
    [type |-> g[3][2],
     payload |-> [i \in 1 .. PayloadLen(g) |-> g[HeaderSize + i][2]]]

-----------------------------------------------------------------------------
(* The sender. *)

send_frame(m) ==
    /\ sender = "open" /\ out = << >>
    /\ Len(sent) < MaxSent
    /\ out' = encode(m)
    /\ sent' = Append(sent, m)
    /\ UNCHANGED <<sender, stream, receiver, got, damaged, delivered>>

\* Mutation: one call of send taken for the whole frame.
SentAtOnce(k) == << >>

\* What send_exact has left after a send of k units.
Unsent(k) == SubSeq(out, k + 1, Len(out))

\* One call of send in send_exact; it takes what there is room for.
send(k) ==
    /\ sender = "open" /\ receiver = "open"
    /\ k <= Len(out) /\ k <= SocketBuffer - Len(stream)
    /\ stream' = stream \o SubSeq(out, 1, k)
    /\ out' = Unsent(k)
    /\ UNCHANGED <<sender, receiver, got, damaged, sent, delivered>>

\* send reports that the peer is gone.
SendFails ==
    /\ sender = "open" /\ receiver = "failed" /\ out # << >>
    /\ sender' = "closed" /\ out' = << >>
    /\ UNCHANGED <<stream, receiver, got, damaged, sent, delivered>>

\* The sender's process ends; the end of the stream may be lost with it.
SenderEnds ==
    /\ sender = "open"
    /\ sender' = "closed" /\ out' = << >>
    /\ \E k \in 0 .. Len(stream) : stream' = SubSeq(stream, 1, k)
    /\ UNCHANGED <<receiver, got, damaged, sent, delivered>>

-----------------------------------------------------------------------------
(* The stream. *)

\* What unit u may turn into; a damaged length may still be a plausible one.
Spoilt(u) ==
    CASE u[1] = "length" -> {<<"length", n>> : n \in 0 .. kMaxFrame} \ {u}
      [] u[1] = "crc"    -> {crc32(<< >>)}
      [] OTHER           -> {<<u[1], NoValue>>}

Damage(i) ==
    /\ damaged < MaxDamage
    /\ i \in 1 .. Len(stream)
    /\ \E u \in Spoilt(stream[i]) : stream' = [stream EXCEPT ![i] = u]
    /\ damaged' = damaged + 1
    /\ UNCHANGED <<sender, out, receiver, got, sent, delivered>>

-----------------------------------------------------------------------------
(* The receiver. *)

\* What the recv_exact that is under way still asks for.
Missing(g) ==
    IF Len(g) < HeaderSize THEN HeaderSize - Len(g)
    ELSE IF Len(g) < HeaderSize + PayloadLen(g) THEN HeaderSize + PayloadLen(g) - Len(g)
    ELSE 1

Refused(g) ==
    \/ Len(g) = HeaderSize /\ ~GoodHeader(g)
    \/ Len(g) > HeaderSize /\ Len(g) = FrameLen(g) /\ ~ChecksumHolds(g)

Complete(g) == Len(g) > HeaderSize /\ Len(g) = FrameLen(g) /\ ChecksumHolds(g)

\* Mutation: recv counted on to return all that was asked for.
AllAtOnce(k) == k = Missing(got)

\* recv returns any number of units up to the number asked for.
MayReturn(k) == k \in 1 .. Missing(got)

\* One call of recv, and what recv_frame does with what it returns.
recv(k) ==
    LET g == got \o SubSeq(stream, 1, k)
    IN  /\ receiver = "open"
        /\ k <= Len(stream) /\ MayReturn(k)
        /\ stream' = SubSeq(stream, k + 1, Len(stream))
        /\ \/ Refused(g) /\ receiver' = "failed" /\ got' = << >> /\ UNCHANGED delivered
           \/ /\ Complete(g)
              /\ delivered' = Append(delivered, decode(g)) /\ got' = << >>
              /\ UNCHANGED receiver
           \/ ~Refused(g) /\ ~Complete(g) /\ got' = g /\ UNCHANGED <<receiver, delivered>>
        /\ UNCHANGED <<sender, out, damaged, sent>>

\* recv returns 0: the stream has ended.
RecvEnd ==
    /\ receiver = "open" /\ sender = "closed" /\ stream = << >>
    /\ receiver' = "failed" /\ got' = << >>
    /\ UNCHANGED <<sender, out, stream, damaged, sent, delivered>>

-----------------------------------------------------------------------------
FramingInit ==
    /\ sender = "open" /\ out = << >>
    /\ stream = << >>
    /\ receiver = "open" /\ got = << >>
    /\ damaged = 0
    /\ sent = << >> /\ delivered = << >>

SendSome == \E k \in 1 .. SocketBuffer : send(k)
RecvSome == \E k \in 1 .. SocketBuffer : recv(k)

FramingNext ==
    \/ \E m \in Frames : send_frame(m)
    \/ SendSome
    \/ SendFails
    \/ SenderEnds
    \/ \E i \in 1 .. SocketBuffer : Damage(i)
    \/ RecvSome
    \/ RecvEnd

\* The calls of send and recv return once they can.
FramingFairness == WF_fvars(SendSome) /\ WF_fvars(RecvSome) /\ WF_fvars(RecvEnd)

FramingSpec == FramingInit /\ [][FramingNext]_fvars /\ FramingFairness

-----------------------------------------------------------------------------
(* Correctness. *)

Channel == INSTANCE FrameChannel

(* The connection is a channel of whole frames: wherever send and recv cut *)
(* the stream, wherever the sender ends and whatever is damaged, the       *)
(* frames recv_frame returns are the frames sent, in order, without a gap  *)
(* ("assembling and verifying it", net.hpp).                               *)
ImplementsChannel == Channel!Spec

Oversized(m) == Len(m.payload) > kMaxFrame

\* Something a receiver may close the connection for.
Faulty ==
    \/ sender = "closed"
    \/ damaged > 0
    \/ \E i \in 1 .. Len(sent) : Oversized(sent[i])

(* recv_frame returns false only for a reason: a receiver never takes a    *)
(* healthy connection for a broken one because of how the stream was cut,  *)
(* and so never for a dead worker ("Returns false on disconnect or a       *)
(* malformed/oversized/checksum-failed frame", net.hpp).                   *)
NoFalseAlarm == receiver = "failed" => Faulty

(* Every frame sent is delivered unless there is a fault, also when it is  *)
(* longer than the socket's buffer and passes in many pieces.              *)
FramesArrive ==
    \A n \in 1 .. MaxSent :
        Len(sent) >= n ~> (Len(delivered) >= n \/ Faulty)
==============================================================================

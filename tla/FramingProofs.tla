---------------------------- MODULE FramingProofs ----------------------------
(***************************************************************************)
(* That one direction of a connection is a channel of whole frames, for    *)
(* frames of every length, every buffer size, every way send and recv cut  *)
(* the stream, a sender that ends anywhere and any damage; and that a      *)
(* receiver gives up only on a faulty connection.                          *)
(*                                                                         *)
(* The argument is about positions. Every frame sent has a place in the    *)
(* endless sequence of units the sender means to send; what the receiver   *)
(* holds, what is in the stream and what send_exact still has to send are, *)
(* one after the other, a stretch of that sequence that begins where the   *)
(* last frame delivered ends. Damage changes values and never kinds, so a  *)
(* unit that is read as a checksum is one, and an intact checksum fixes    *)
(* the length of its frame and with it where the frame began.              *)
(***************************************************************************)
EXTENDS Framing, SequenceTheorems, TLAPS

\* Units: of the header and the payload, and checksums of such units.
PlainUnit == {"magic", "version", "type", "length", "byte"} \X Int
Unit == PlainUnit \cup {crc32(text) : text \in Seq(PlainUnit)}

\* The number of units frame m is sent as.
UnitsOf(m) == Len(m.payload) + 5

\* All units between the sender and the receiver, first to last.
Line == got \o (stream \o out)

FTyped ==
    /\ sender \in {"open", "closed"}
    /\ receiver \in {"open", "failed"}
    /\ out \in Seq(Unit) /\ stream \in Seq(Unit) /\ got \in Seq(Unit)
    /\ damaged \in Nat
    /\ sent \in Seq(Frames) /\ delivered \in Seq(Frames)
    /\ sender = "closed" => out = << >>

\* Frame k of those in s has the places off[k] + 1 .. off[k + 1].
Layout(off, s) ==
    /\ off \in [1 .. Len(s) + 1 -> Nat]
    /\ \A k \in 1 .. Len(s) : off[k + 1] = off[k] + UnitsOf(s[k])
    /\ \A j, k \in 1 .. Len(s) + 1 : j < k => off[j] + 5 <= off[k]

\* Unit u was sent as v.
Like(u, v, harm) ==
    /\ u[1] = v[1]
    /\ v[1] = "crc" => u \in {v, crc32(<< >>)}
    /\ harm = 0 => u = v

\* Unit u comes from place q of the frames in s.
FromPlace(u, q, off, s, harm) ==
    \E k \in 1 .. Len(s) : \E i \in 1 .. UnitsOf(s[k]) :
        q = off[k] + i /\ Like(u, encode(s[k])[i], harm)

\* The units of line are those from place base + 1 on.
Carries(line, base, off, s, harm) ==
    /\ base + Len(line) <= off[Len(s) + 1]
    /\ \A p \in 1 .. Len(line) : FromPlace(line[p], base + p, off, s, harm)

Ordered ==
    receiver = "open" =>
        \E off \in [1 .. Len(sent) + 1 -> Nat] :
            /\ Layout(off, sent)
            /\ Len(delivered) <= Len(sent)
            /\ Carries(Line, off[Len(delivered) + 1], off, sent, damaged)
            /\ sender = "open" => off[Len(delivered) + 1] + Len(Line) = off[Len(sent) + 1]

FInv == FTyped /\ Ordered

-----------------------------------------------------------------------------
(* The frame format. *)

(* What SubSeq cuts out. *)
LEMMA Cut ==
    ASSUME NEW S, NEW s \in Seq(S), NEW a \in Nat, NEW b \in Nat,
           1 <= a, a <= b + 1, b <= Len(s)
    PROVE  /\ SubSeq(s, a, b) \in Seq(S)
           /\ Len(SubSeq(s, a, b)) = b - a + 1
           /\ \A i \in 1 .. b - a + 1 : SubSeq(s, a, b)[i] = s[i + (a - 1)]
OBVIOUS

(* A frame is its header, its payload and a checksum of all but the magic. *)
LEMMA EncodeShape ==
    ASSUME NEW m \in Frames
    PROVE  /\ Len(m.payload) \in Nat
           /\ UnitsOf(m) \in Nat /\ UnitsOf(m) >= 5
           /\ encode(m) \in Seq(Unit)
           /\ Len(encode(m)) = UnitsOf(m)
           /\ encode(m)[1] = <<"magic", kMagic>>
           /\ encode(m)[2] = <<"version", kVersion>>
           /\ encode(m)[3] = <<"type", m.type>>
           /\ encode(m)[4] = <<"length", Len(m.payload)>>
           /\ \A i \in 1 .. Len(m.payload) : encode(m)[4 + i] = <<"byte", m.payload[i]>>
           /\ encode(m)[UnitsOf(m)] = crc32(Tail(Text(m)))
           /\ Tail(Text(m)) \in Seq(PlainUnit)
           /\ Len(Tail(Text(m))) = UnitsOf(m) - 2
           /\ \A i \in 1 .. UnitsOf(m) - 2 : Tail(Text(m))[i] = encode(m)[i + 1]
           /\ \A i \in 1 .. UnitsOf(m) : encode(m)[i][1] = "crc" => i = UnitsOf(m)
<1> DEFINE pay == m.payload
           n == Len(pay)
           bytes == [i \in 1 .. n |-> <<"byte", pay[i]>>]
<1>1. m.type \in Nat /\ pay \in Seq(Nat) /\ n \in Nat
  BY FrameAssumption
<1>2. /\ Header(m) \in Seq(PlainUnit) /\ Len(Header(m)) = 4
      /\ Header(m)[1] = <<"magic", kMagic>> /\ Header(m)[2] = <<"version", kVersion>>
      /\ Header(m)[3] = <<"type", m.type>> /\ Header(m)[4] = <<"length", n>>
  BY <1>1 DEF Header, PlainUnit, kMagic, kVersion
<1>3. bytes \in Seq(PlainUnit) /\ Len(bytes) = n
  <2>1. \A i \in 1 .. n : <<"byte", pay[i]>> \in PlainUnit
    BY <1>1, ElementOfSeq DEF PlainUnit
  <2> QED BY <1>1, <2>1
<1>4. /\ Text(m) \in Seq(PlainUnit) /\ Len(Text(m)) = n + 4
      /\ \A i \in 1 .. n + 4 : Text(m)[i] = IF i <= 4 THEN Header(m)[i] ELSE bytes[i - 4]
  <2> HIDE DEF bytes, n, pay
  <2>1. Text(m) = Header(m) \o bytes
    BY DEF Text, bytes, n, pay
  <2>2. /\ Header(m) \o bytes \in Seq(PlainUnit)
        /\ Len(Header(m) \o bytes) = Len(Header(m)) + Len(bytes)
        /\ \A i \in 1 .. Len(Header(m)) + Len(bytes) : (Header(m) \o bytes)[i] =
             IF i <= Len(Header(m)) THEN Header(m)[i] ELSE bytes[i - Len(Header(m))]
    BY <1>2, <1>3, ConcatProperties, Zenon
  <2>3. Len(Header(m)) + Len(bytes) = n + 4
    BY <1>1, <1>2, <1>3
  <2> QED BY <1>2, <2>1, <2>2, <2>3
<1>5. Text(m) # << >>
  BY <1>4, <1>1
<1>6. /\ Tail(Text(m)) \in Seq(PlainUnit) /\ Len(Tail(Text(m))) = n + 3
      /\ \A i \in 1 .. n + 3 : Tail(Text(m))[i] = Text(m)[i + 1]
  BY <1>1, <1>4, <1>5, HeadTailProperties
<1>7. Text(m) \in Seq(Unit) /\ crc32(Tail(Text(m))) \in Unit
  BY <1>4, <1>6, SeqMonotonic DEF Unit
<1>8. /\ encode(m) \in Seq(Unit) /\ Len(encode(m)) = n + 5
      /\ \A i \in 1 .. n + 4 : encode(m)[i] = Text(m)[i]
      /\ encode(m)[n + 5] = crc32(Tail(Text(m)))
  BY <1>1, <1>4, <1>7, AppendProperties DEF encode
<1>9. \A i \in 1 .. n + 4 : encode(m)[i][1] # "crc"
  <2> SUFFICES ASSUME NEW i \in 1 .. n + 4 PROVE encode(m)[i][1] # "crc"
    OBVIOUS
  <2>1. Text(m)[i] \in PlainUnit
    BY <1>1, <1>4, ElementOfSeq
  <2> QED BY <1>8, <2>1 DEF PlainUnit
<1>10. \A i \in 1 .. n : encode(m)[4 + i] = <<"byte", pay[i]>>
  <2> SUFFICES ASSUME NEW i \in 1 .. n PROVE encode(m)[4 + i] = <<"byte", pay[i]>>
    OBVIOUS
  <2>1. 4 + i \in 1 .. n + 4 /\ ~(4 + i <= 4) /\ (4 + i) - 4 = i
    BY <1>1
  <2>2. bytes[(4 + i) - 4] = <<"byte", pay[i]>>
    BY <2>1
  <2> HIDE DEF bytes
  <2> QED BY <1>4, <1>8, <2>1, <2>2
<1>11. \A i \in 1 .. 4 : encode(m)[i] = Header(m)[i]
  <2> SUFFICES ASSUME NEW i \in 1 .. 4 PROVE encode(m)[i] = Header(m)[i]
    OBVIOUS
  <2>1. i \in 1 .. n + 4 /\ i <= 4
    BY <1>1
  <2> HIDE DEF bytes, n, pay
  <2> QED BY <1>4, <1>8, <2>1
<1> HIDE DEF bytes
<1>12. /\ encode(m)[1] = <<"magic", kMagic>> /\ encode(m)[2] = <<"version", kVersion>>
       /\ encode(m)[3] = <<"type", m.type>> /\ encode(m)[4] = <<"length", n>>
  BY <1>2, <1>11
<1>13. /\ UnitsOf(m) = n + 5 /\ UnitsOf(m) \in Nat /\ UnitsOf(m) >= 5
       /\ UnitsOf(m) - 2 = n + 3
  BY <1>1 DEF UnitsOf
<1>14. \A i \in 1 .. n + 3 : Tail(Text(m))[i] = encode(m)[i + 1]
  <2> SUFFICES ASSUME NEW i \in 1 .. n + 3 PROVE Tail(Text(m))[i] = encode(m)[i + 1]
    OBVIOUS
  <2>1. i + 1 \in 1 .. n + 4
    BY <1>1
  <2> QED BY <1>6, <1>8, <2>1
<1>15. \A i \in 1 .. n + 5 : encode(m)[i][1] = "crc" => i = n + 5
  BY <1>1, <1>9
<1> QED
  <2> HIDE DEF n
  <2>1. Len(m.payload) = n
    BY DEF n, pay
  <2> QED BY <1>1, <1>6, <1>8, <1>10, <1>12, <1>13, <1>14, <1>15, <2>1, Zenon DEF pay

(* A checksum that holds is one of a frame that was sent as g: decode()    *)
(* gives that frame back, whatever the magic.                              *)
LEMMA Verified ==
    ASSUME NEW m \in Frames, NEW g \in Seq(Unit), Len(g) > HeaderSize,
           SubSeq(g, 2, Len(g) - 1) = Tail(Text(m))
    PROVE  Len(g) = UnitsOf(m) /\ decode(g) = m
<1> DEFINE n == Len(m.payload)
<1>1. m.type \in Nat /\ m.payload \in Seq(Nat) /\ n \in Nat /\ Len(g) \in Nat /\ Len(g) > 4
  BY FrameAssumption DEF HeaderSize
<1>2. \A i \in 2 .. Len(g) - 1 : g[i] \in Unit
  BY <1>1, ElementOfSeq
<1>3. /\ Len(SubSeq(g, 2, Len(g) - 1)) = Len(g) - 2
      /\ \A i \in 1 .. Len(g) - 2 : SubSeq(g, 2, Len(g) - 1)[i] = g[i + 1]
  <2> DEFINE b == Len(g) - 1
  <2>1. b \in Nat /\ 2 <= b + 1 /\ b <= Len(g) /\ b - 2 + 1 = Len(g) - 2
    BY <1>1
  <2> HIDE DEF b
  <2>2. /\ Len(SubSeq(g, 2, b)) = b - 2 + 1
        /\ \A i \in 1 .. b - 2 + 1 : SubSeq(g, 2, b)[i] = g[i + (2 - 1)]
    BY <2>1, Cut
  <2>3. b = Len(g) - 1 /\ 2 - 1 = 1
    BY <1>1 DEF b
  <2> QED BY <2>1, <2>2, <2>3, Zenon
<1>4. Len(g) = UnitsOf(m)
  <2>1. UnitsOf(m) \in Nat /\ Len(Tail(Text(m))) = UnitsOf(m) - 2
    BY EncodeShape
  <2>2. Len(g) - 2 = UnitsOf(m) - 2
    BY <1>3, <2>1, Zenon
  <2> QED BY <1>1, <2>1, <2>2
<1>5. \A i \in 2 .. Len(g) - 1 : g[i] = encode(m)[i]
  <2> SUFFICES ASSUME NEW i \in 2 .. Len(g) - 1 PROVE g[i] = encode(m)[i]
    OBVIOUS
  <2>1. i - 1 \in 1 .. UnitsOf(m) - 2 /\ (i - 1) + 1 = i
    BY <1>1, <1>4
  <2>2. Tail(Text(m))[i - 1] = encode(m)[(i - 1) + 1]
    BY <2>1, EncodeShape, Zenon
  <2>3. i - 1 \in 1 .. Len(g) - 2
    BY <1>4, <2>1
  <2>4. Tail(Text(m))[i - 1] = g[(i - 1) + 1]
    BY <1>3, <2>3, Zenon
  <2> QED BY <2>1, <2>2, <2>4, Zenon
<1>6. g[3] = <<"type", m.type>> /\ g[4] = <<"length", n>>
  <2>1. 3 \in 2 .. Len(g) - 1 /\ 4 \in 2 .. Len(g) - 1
    BY <1>1
  <2>2. g[3] = encode(m)[3] /\ g[4] = encode(m)[4]
    BY <1>5, <2>1, Zenon
  <2> QED BY <2>2, EncodeShape, Zenon
<1>7. \A i \in 1 .. n : g[4 + i] = <<"byte", m.payload[i]>>
  <2> SUFFICES ASSUME NEW i \in 1 .. n PROVE g[4 + i] = <<"byte", m.payload[i]>>
    OBVIOUS
  <2>1. 4 + i \in 2 .. Len(g) - 1
    BY <1>1, <1>4 DEF UnitsOf
  <2> QED BY <1>5, <2>1, EncodeShape
<1>8. [i \in 1 .. n |-> g[4 + i][2]] = m.payload
  <2>1. \A i \in 1 .. n : g[4 + i][2] = m.payload[i]
    BY <1>7
  <2>2. m.payload = [i \in 1 .. n |-> m.payload[i]]
    BY <1>1
  <2> QED BY <2>1, <2>2
<1>9. decode(g) = [type |-> m.type, payload |-> m.payload]
  <2>1. PayloadLen(g) = n /\ g[3][2] = m.type
    BY <1>6 DEF PayloadLen
  <2>2. decode(g) = [type |-> g[3][2], payload |-> [i \in 1 .. n |-> g[4 + i][2]]]
    BY <2>1 DEF decode, HeaderSize
  <2> QED BY <1>8, <2>1, <2>2
<1> QED
  BY <1>4, <1>9, FrameAssumption

-----------------------------------------------------------------------------
(* Places. *)

(* What a layout says, place by place. *)
LEMMA LayoutFacts ==
    ASSUME NEW s \in Seq(Frames), NEW off, Layout(off, s)
    PROVE  /\ Len(s) \in Nat
           /\ \A k \in 1 .. Len(s) + 1 : off[k] \in Nat
           /\ \A k \in 1 .. Len(s) :
                /\ s[k] \in Frames
                /\ UnitsOf(s[k]) \in Nat /\ UnitsOf(s[k]) >= 5
                /\ off[k + 1] = off[k] + UnitsOf(s[k])
           /\ \A j, k \in 1 .. Len(s) + 1 : j < k => off[j] + 5 <= off[k]
<1>1. \A k \in 1 .. Len(s) : s[k] \in Frames
  BY ElementOfSeq
<1>2. \A k \in 1 .. Len(s) : UnitsOf(s[k]) \in Nat /\ UnitsOf(s[k]) >= 5
  BY <1>1, EncodeShape
<1> QED BY <1>1, <1>2 DEF Layout

(* A place belongs to one frame, and is one place of it. *)
LEMMA Located ==
    ASSUME NEW s \in Seq(Frames), NEW off, Layout(off, s),
           NEW d \in 1 .. Len(s), NEW p \in 1 .. UnitsOf(s[d]),
           NEW k \in 1 .. Len(s), NEW i \in 1 .. UnitsOf(s[k]),
           off[d] + p = off[k] + i
    PROVE  k = d /\ i = p
<1>1. /\ Len(s) \in Nat /\ d \in Nat /\ k \in Nat
      /\ d \in 1 .. Len(s) + 1 /\ d + 1 \in 1 .. Len(s) + 1
      /\ k \in 1 .. Len(s) + 1 /\ k + 1 \in 1 .. Len(s) + 1
  OBVIOUS
<1>2. /\ off[d] \in Nat /\ off[k] \in Nat /\ off[d + 1] \in Nat /\ off[k + 1] \in Nat
      /\ off[d + 1] = off[d] + UnitsOf(s[d]) /\ off[k + 1] = off[k] + UnitsOf(s[k])
      /\ UnitsOf(s[d]) \in Nat /\ UnitsOf(s[k]) \in Nat
      /\ k + 1 < d => off[k + 1] + 5 <= off[d]
      /\ d + 1 < k => off[d + 1] + 5 <= off[k]
  BY <1>1, LayoutFacts
<1> DEFINE a == off[d]
           a1 == off[d + 1]
           b == off[k]
           b1 == off[k + 1]
           u == UnitsOf(s[d])
           v == UnitsOf(s[k])
<1>3. a \in Nat /\ b \in Nat /\ a1 \in Nat /\ b1 \in Nat /\ u \in Nat /\ v \in Nat
  BY <1>2
<1>4. a1 = a + u /\ b1 = b + v /\ a + p = b + i /\ p \in 1 .. u /\ i \in 1 .. v
  BY <1>2
<1>5. /\ k + 1 < d => b1 + 5 <= a
      /\ d + 1 < k => a1 + 5 <= b
      /\ k + 1 = d => b1 = a
      /\ d + 1 = k => a1 = b
  BY <1>2
<1>6. k = d => a = b
  OBVIOUS
<1> HIDE DEF a, a1, b, b1, u, v
<1> QED BY <1>1, <1>3, <1>4, <1>5, <1>6

(* As long as there is a unit on the line there is a frame to deliver. *)
LEMMA SomethingPending ==
    ASSUME NEW s \in Seq(Frames), NEW off, Layout(off, s),
           NEW d \in Nat, d <= Len(s),
           NEW line \in Seq(Unit), NEW harm, Carries(line, off[d + 1], off, s, harm),
           Len(line) > 0
    PROVE  d + 1 \in 1 .. Len(s)
<1>1. off[d + 1] \in Nat /\ off[d + 1] + Len(line) <= off[Len(s) + 1]
  <2>1. d + 1 \in 1 .. Len(s) + 1
    OBVIOUS
  <2> QED BY <2>1, LayoutFacts DEF Carries
<1>2. d # Len(s)
  BY <1>1
<1> QED BY <1>2

(* What recv_frame takes for a whole frame is the next frame to deliver.   *)
(* Its last unit is an intact checksum, so it is as long as the frame that *)
(* checksum was made for, so that frame began where this one did.          *)
LEMMA Recognised ==
    ASSUME NEW s \in Seq(Frames), NEW off, Layout(off, s),
           NEW d \in Nat, d <= Len(s),
           NEW line \in Seq(Unit), NEW harm, Carries(line, off[d + 1], off, s, harm),
           NEW g \in Seq(Unit), Len(g) <= Len(line),
           \A p \in 1 .. Len(g) : g[p] = line[p],
           Complete(g)
    PROVE  /\ d + 1 \in 1 .. Len(s)
           /\ Len(g) = UnitsOf(s[d + 1])
           /\ decode(g) = s[d + 1]
<1>1. Len(g) > HeaderSize /\ Len(g) \in Nat /\ Len(g) > 4 /\ Len(line) \in Nat
  BY DEF Complete, HeaderSize
<1>2. d + 1 \in 1 .. Len(s)
  <2>1. Len(line) > 0
    BY <1>1
  <2> QED BY <2>1, SomethingPending
<1>3. g[Len(g)] = crc32(SubSeq(g, 2, Len(g) - 1))
  BY DEF Complete, ChecksumHolds
<1>4. PICK k \in 1 .. Len(s) : \E i \in 1 .. UnitsOf(s[k]) :
          /\ off[d + 1] + Len(g) = off[k] + i
          /\ Like(g[Len(g)], encode(s[k])[i], harm)
  <2>1. Len(g) \in 1 .. Len(line) /\ g[Len(g)] = line[Len(g)]
    BY <1>1
  <2>2. FromPlace(line[Len(g)], off[d + 1] + Len(g), off, s, harm)
    BY <2>1 DEF Carries
  <2> QED BY <2>1, <2>2 DEF FromPlace
<1>5. PICK i \in 1 .. UnitsOf(s[k]) :
          /\ off[d + 1] + Len(g) = off[k] + i
          /\ Like(g[Len(g)], encode(s[k])[i], harm)
  BY <1>4
<1>6. s[k] \in Frames /\ s[d + 1] \in Frames
  BY <1>2, ElementOfSeq
<1>7. encode(s[k])[i][1] = "crc"
  BY <1>3, <1>5 DEF Like, crc32
<1>8. i = UnitsOf(s[k]) /\ encode(s[k])[i] = crc32(Tail(Text(s[k])))
  BY <1>6, <1>7, EncodeShape
<1>9. g[Len(g)] \in {encode(s[k])[i], crc32(<< >>)}
  BY <1>5, <1>7 DEF Like
<1>10. /\ SubSeq(g, 2, Len(g) - 1) \in Seq(Unit)
       /\ Len(SubSeq(g, 2, Len(g) - 1)) = Len(g) - 2
  <2> DEFINE b == Len(g) - 1
  <2>1. b \in Nat /\ 2 <= b + 1 /\ b <= Len(g) /\ b - 2 + 1 = Len(g) - 2
    BY <1>1
  <2> HIDE DEF b
  <2>2. SubSeq(g, 2, b) \in Seq(Unit) /\ Len(SubSeq(g, 2, b)) = b - 2 + 1
    BY <2>1, Cut
  <2> QED BY <2>1, <2>2, Zenon DEF b
<1>11. SubSeq(g, 2, Len(g) - 1) # << >>
  <2>1. Len(SubSeq(g, 2, Len(g) - 1)) # 0
    BY <1>1, <1>10
  <2>2. Len(<< >>) = 0
    OBVIOUS
  <2> QED BY <2>1, <2>2, Zenon
<1>12. SubSeq(g, 2, Len(g) - 1) = Tail(Text(s[k]))
  <2>1. crc32(SubSeq(g, 2, Len(g) - 1)) = crc32(Tail(Text(s[k])))
        \/ crc32(SubSeq(g, 2, Len(g) - 1)) = crc32(<< >>)
    BY <1>3, <1>8, <1>9, Zenon
  <2> DEFINE text == SubSeq(g, 2, Len(g) - 1)
             other == Tail(Text(s[k]))
  <2>2. \A x, y : crc32(x) = crc32(y) => x = y
    BY DEF crc32
  <2> QED BY <1>11, <2>1, <2>2, Zenon
<1>13. Len(g) = UnitsOf(s[k]) /\ decode(g) = s[k]
  BY <1>1, <1>6, <1>12, Verified
<1>14. off[d + 1] = off[k]
  <2>1. Len(s) \in Nat /\ d + 1 \in 1 .. Len(s) + 1 /\ k \in 1 .. Len(s) + 1
    BY <1>2
  <2>2. off[d + 1] \in Nat /\ off[k] \in Nat
    BY <2>1, LayoutFacts
  <2> QED BY <1>1, <1>5, <1>8, <1>13, <2>2
<1>15. k = d + 1
  <2>1. Len(s) \in Nat /\ d + 1 \in 1 .. Len(s) + 1 /\ k \in 1 .. Len(s) + 1
    BY <1>2
  <2>2. /\ off[d + 1] \in Nat /\ off[k] \in Nat
        /\ k < d + 1 => off[k] + 5 <= off[d + 1]
        /\ d + 1 < k => off[d + 1] + 5 <= off[k]
    BY <2>1, LayoutFacts
  <2> QED BY <1>14, <2>1, <2>2
<1> QED BY <1>2, <1>13, <1>15

(* On a healthy line recv_frame has nothing to refuse. *)
LEMMA NothingRefused ==
    ASSUME NEW s \in Seq(Frames), NEW off, Layout(off, s),
           NEW d \in Nat, d <= Len(s),
           NEW line \in Seq(Unit), Carries(line, off[d + 1], off, s, 0),
           NEW g \in Seq(Unit), Len(g) <= Len(line),
           \A p \in 1 .. Len(g) : g[p] = line[p],
           \A k \in 1 .. Len(s) : ~Oversized(s[k])
    PROVE  ~Refused(g)
<1> SUFFICES ASSUME Len(g) >= 4 PROVE ~Refused(g)
  <2>1. Len(g) \in Nat
    OBVIOUS
  <2>2. Refused(g) => Len(g) = 4 \/ Len(g) > 4
    BY DEF Refused, HeaderSize
  <2>3. \A n \in Nat : n = 4 \/ n > 4 => n >= 4
    OBVIOUS
  <2> QED BY <2>1, <2>2, <2>3, Zenon
<1>1. Len(g) \in Nat /\ Len(line) \in Nat /\ Len(line) > 0
  OBVIOUS
<1>2. d + 1 \in 1 .. Len(s)
  <2>1. Len(line) > 0
    BY <1>1
  <2> QED BY <2>1, SomethingPending
<1> DEFINE m == s[d + 1]
<1>3. m \in Frames
  BY <1>2, ElementOfSeq
<1> HIDE DEF m
<1>4. \A p \in 1 .. Len(g) : p <= UnitsOf(m) => g[p] = encode(m)[p]
  <2> SUFFICES ASSUME NEW p \in 1 .. Len(g), p <= UnitsOf(m) PROVE g[p] = encode(m)[p]
    OBVIOUS
  <2>1. p \in 1 .. Len(line) /\ g[p] = line[p] /\ p \in 1 .. UnitsOf(m)
    BY <1>1, <1>3, EncodeShape
  <2>2. PICK k \in 1 .. Len(s) : \E i \in 1 .. UnitsOf(s[k]) :
            off[d + 1] + p = off[k] + i /\ Like(line[p], encode(s[k])[i], 0)
    BY <2>1 DEF Carries, FromPlace
  <2>3. PICK i \in 1 .. UnitsOf(s[k]) :
            off[d + 1] + p = off[k] + i /\ Like(line[p], encode(s[k])[i], 0)
    BY <2>2
  <2>4. k = d + 1 /\ i = p
    BY <1>2, <2>1, <2>3, Located DEF m
  <2> QED BY <2>1, <2>3, <2>4 DEF Like, m
<1>5. /\ Len(m.payload) \in Nat /\ UnitsOf(m) = Len(m.payload) + 5
      /\ UnitsOf(m) \in Nat /\ UnitsOf(m) >= 5
  BY <1>3, EncodeShape DEF UnitsOf
<1>6. /\ g[1] = <<"magic", kMagic>> /\ g[2] = <<"version", kVersion>>
      /\ g[4] = <<"length", Len(m.payload)>>
  <2>1. \A p \in 1 .. 4 : p \in 1 .. Len(g) /\ p <= UnitsOf(m)
    BY <1>1, <1>5
  <2>2. \A p \in 1 .. 4 : g[p] = encode(m)[p]
    BY <1>4, <2>1
  <2>3. g[1] = encode(m)[1] /\ g[2] = encode(m)[2] /\ g[4] = encode(m)[4]
    BY <2>2
  <2> QED BY <1>3, <2>3, EncodeShape
<1>7. GoodHeader(g)
  <2>1. Len(m.payload) <= kMaxFrame
    BY <1>2, <1>5, FrameAssumption DEF Oversized, m
  <2> QED BY <1>5, <1>6, <2>1, FrameAssumption DEF GoodHeader
<1>8. ASSUME Len(g) = FrameLen(g) PROVE ChecksumHolds(g)
  <2>1. Len(g) = UnitsOf(m)
    BY <1>5, <1>6, <1>8 DEF FrameLen, PayloadLen, HeaderSize
  <2>2. g[Len(g)] = crc32(Tail(Text(m)))
    <3>1. Len(g) \in 1 .. Len(g) /\ Len(g) <= UnitsOf(m)
      BY <1>1, <1>5, <2>1
    <3>2. g[Len(g)] = encode(m)[UnitsOf(m)]
      BY <1>4, <2>1, <3>1
    <3> QED BY <1>3, <3>2, EncodeShape
  <2> DEFINE b == Len(g) - 1
             t == SubSeq(g, 2, b)
  <2>3. b \in Nat /\ 2 <= b + 1 /\ b <= Len(g) /\ b - 2 + 1 = UnitsOf(m) - 2
    BY <1>1, <2>1
  <2>4. t \in Seq(Unit) /\ Len(t) = b - 2 + 1 /\ \A i \in 1 .. b - 2 + 1 : t[i] = g[i + (2 - 1)]
    <3> HIDE DEF b
    <3> QED BY <2>3, Cut
  <2> HIDE DEF b, t
  <2>5. /\ Tail(Text(m)) \in Seq(PlainUnit) /\ Len(Tail(Text(m))) = UnitsOf(m) - 2
        /\ \A i \in 1 .. UnitsOf(m) - 2 : Tail(Text(m))[i] = encode(m)[i + 1]
    BY <1>3, EncodeShape
  <2>6. Tail(Text(m)) \in Seq(Unit)
    BY <2>5, SeqMonotonic DEF Unit
  <2>7. \A i \in 1 .. Len(t) : t[i] = Tail(Text(m))[i]
    <3> SUFFICES ASSUME NEW i \in 1 .. Len(t) PROVE t[i] = Tail(Text(m))[i]
      OBVIOUS
    <3>1. i \in 1 .. UnitsOf(m) - 2 /\ i + 1 \in 1 .. Len(g) /\ i + 1 <= UnitsOf(m)
          /\ i + (2 - 1) = i + 1
      <4> DEFINE u == UnitsOf(m)
                 l == Len(t)
                 w == Len(g)
      <4>1. u \in Nat /\ u >= 5 /\ w = u /\ l = u - 2 /\ i \in 1 .. l
        BY <1>5, <2>1, <2>3, <2>4
      <4> HIDE DEF u, l, w
      <4>2. i \in 1 .. u - 2 /\ i + 1 \in 1 .. w /\ i + 1 <= u /\ i + (2 - 1) = i + 1
        BY ONLY <4>1
      <4> QED BY <4>2 DEF u, w
    <3>2. t[i] = g[i + 1]
      BY <2>3, <2>4, <3>1
    <3> QED BY <1>4, <2>5, <3>1, <3>2
  <2>8. Len(t) = Len(Tail(Text(m)))
    BY <2>3, <2>4, <2>5
  <2>9. t = Tail(Text(m))
    BY <2>4, <2>6, <2>7, <2>8, SeqEqual, Zenon
  <2> QED BY <2>2, <2>9, Zenon DEF ChecksumHolds, t, b
<1> QED BY <1>7, <1>8 DEF Refused

-----------------------------------------------------------------------------
(* The line. *)

(* Three stretches in a row, unit by unit. *)
LEMMA Joined ==
    ASSUME NEW S, NEW a \in Seq(S), NEW b \in Seq(S), NEW c \in Seq(S)
    PROVE  /\ a \o (b \o c) \in Seq(S)
           /\ Len(a \o (b \o c)) = Len(a) + Len(b) + Len(c)
           /\ \A i \in 1 .. Len(a) : (a \o (b \o c))[i] = a[i]
           /\ \A i \in 1 .. Len(b) : (a \o (b \o c))[i + Len(a)] = b[i]
           /\ \A i \in 1 .. Len(c) : (a \o (b \o c))[i + Len(a) + Len(b)] = c[i]
OBVIOUS

(* A sequence cut in two. *)
LEMMA CutInTwo ==
    ASSUME NEW S, NEW c \in Seq(S), NEW k \in Nat, k <= Len(c)
    PROVE  /\ SubSeq(c, 1, k) \in Seq(S) /\ SubSeq(c, k + 1, Len(c)) \in Seq(S)
           /\ Len(SubSeq(c, 1, k)) = k /\ Len(SubSeq(c, k + 1, Len(c))) = Len(c) - k
           /\ SubSeq(c, 1, k) \o SubSeq(c, k + 1, Len(c)) = c
<1>1. /\ SubSeq(c, 1, k) \in Seq(S) /\ SubSeq(c, k + 1, Len(c)) \in Seq(S)
      /\ Len(SubSeq(c, 1, k)) = k /\ Len(SubSeq(c, k + 1, Len(c))) = Len(c) - k
      /\ \A i \in 1 .. k : SubSeq(c, 1, k)[i] = c[i]
      /\ \A i \in 1 .. Len(c) - k : SubSeq(c, k + 1, Len(c))[i] = c[i + k]
  OBVIOUS
<1> DEFINE x == SubSeq(c, 1, k)
           y == SubSeq(c, k + 1, Len(c))
<1> HIDE DEF x, y
<1>2. /\ x \in Seq(S) /\ y \in Seq(S) /\ Len(x) = k /\ Len(y) = Len(c) - k
      /\ \A i \in 1 .. k : x[i] = c[i]
      /\ \A i \in 1 .. Len(c) - k : y[i] = c[i + k]
  BY <1>1, Zenon DEF x, y
<1>3. x \o y \in Seq(S) /\ Len(x \o y) = Len(c)
  BY <1>2
<1>4. ASSUME NEW i \in 1 .. Len(c) PROVE (x \o y)[i] = c[i]
  <2>1. CASE i <= k
    BY <1>2, <2>1
  <2>2. CASE ~(i <= k)
    <3>1. i - k \in 1 .. Len(c) - k /\ (i - k) + k = i
      BY <2>2
    <3>2. (x \o y)[i] = y[i - k]
      BY <1>2, <2>2
    <3> QED BY <1>2, <3>1, <3>2
  <2> QED BY <2>1, <2>2
<1>5. x \o y = c
  BY <1>3, <1>4, SeqEqual
<1> QED BY <1>1, <1>5, Zenon DEF x, y

(* It does not matter where a line is cut first. *)
LEMMA Regrouped ==
    ASSUME NEW S, NEW a \in Seq(S), NEW x \in Seq(S), NEW y \in Seq(S), NEW c \in Seq(S),
           NEW b, b = x \o y
    PROVE  /\ (a \o x) \o (y \o c) = a \o (b \o c)
           /\ (a \o x) \o y = a \o b
<1> DEFINE z == y \o c
<1>0. a \in Seq(S) /\ x \in Seq(S) /\ y \in Seq(S) /\ c \in Seq(S) /\ b = x \o y
  OBVIOUS
<1>1. z \in Seq(S)
  BY ONLY <1>0
<1>2. (x \o y) \o c = x \o (y \o c)
  BY ONLY <1>0, ConcatAssociative, SMTT(60)
<1> HIDE DEF z
<1>3. (a \o x) \o z = a \o (x \o z)
  BY ONLY <1>0, <1>1, ConcatAssociative, SMTT(60)
<1>4. (a \o x) \o y = a \o (x \o y)
  BY ONLY <1>0, ConcatAssociative, SMTT(60)
<1>5. (a \o x) \o z = a \o (b \o c)
  BY ONLY <1>0, <1>2, <1>3, Zenon DEF z
<1>6. (a \o x) \o y = a \o b
  BY ONLY <1>0, <1>4, Zenon
<1> QED BY <1>5, <1>6, Zenon DEF z

(* A line whose end is lost. *)
LEMMA ShortLine ==
    ASSUME NEW S, NEW a \in Seq(S), NEW b \in Seq(S), NEW c \in Seq(S),
           NEW x \in Seq(S), NEW y \in Seq(S), b = x \o y
    PROVE  /\ a \o x \in Seq(S)
           /\ Len(a \o x) <= Len(a \o (b \o c))
           /\ \A p \in 1 .. Len(a \o x) : (a \o x)[p] = (a \o (b \o c))[p]
<1> DEFINE z == y \o c
           g == a \o x
<1>0. /\ a \in Seq(S) /\ b \in Seq(S) /\ c \in Seq(S) /\ x \in Seq(S) /\ y \in Seq(S)
      /\ b = x \o y
  OBVIOUS
<1>1. z \in Seq(S) /\ g \in Seq(S)
  OBVIOUS
<1>2. g \o z = a \o (b \o c)
  <2>1. (a \o x) \o (y \o c) = a \o (b \o c)
    BY ONLY <1>0, Regrouped, SMTT(30)
  <2> QED BY <2>1, Zenon
<1> HIDE DEF z, g
<1>3. Len(g) <= Len(g \o z) /\ \A p \in 1 .. Len(g) : g[p] = (g \o z)[p]
  BY <1>1
<1> QED BY <1>1, <1>2, <1>3, Zenon DEF g

(* What is left of a line when its end is lost. *)
LEMMA CarriesPrefix ==
    ASSUME NEW off, NEW s, NEW harm, NEW base \in Nat, off[Len(s) + 1] \in Nat,
           NEW line \in Seq(Unit), Carries(line, base, off, s, harm),
           NEW part \in Seq(Unit), Len(part) <= Len(line),
           \A p \in 1 .. Len(part) : part[p] = line[p]
    PROVE  Carries(part, base, off, s, harm)
<1>1. base + Len(part) <= off[Len(s) + 1]
  <2>1. base + Len(line) <= off[Len(s) + 1] /\ Len(line) \in Nat /\ Len(part) \in Nat
    BY DEF Carries
  <2> DEFINE n == Len(line)
             q == Len(part)
             e == off[Len(s) + 1]
  <2>2. base + n <= e /\ n \in Nat /\ q \in Nat /\ q <= n /\ e \in Nat
    BY <2>1
  <2> HIDE DEF n, q, e
  <2>3. base + q <= e
    BY <2>2
  <2> QED BY <2>3 DEF q, e
<1>2. \A p \in 1 .. Len(part) : p \in 1 .. Len(line)
  OBVIOUS
<1> QED BY <1>1, <1>2 DEF Carries

(* What is left of a line when its beginning has been taken. *)
LEMMA CarriesRest ==
    ASSUME NEW off, NEW s, NEW harm, NEW base \in Nat,
           NEW g \in Seq(Unit), NEW rest \in Seq(Unit),
           Carries(g \o rest, base, off, s, harm)
    PROVE  Carries(rest, base + Len(g), off, s, harm)
<1>1. /\ Len(g) \in Nat /\ Len(rest) \in Nat
      /\ Len(g \o rest) = Len(g) + Len(rest)
      /\ \A i \in 1 .. Len(rest) : (g \o rest)[i + Len(g)] = rest[i]
  OBVIOUS
<1>2. (base + Len(g)) + Len(rest) <= off[Len(s) + 1]
  <2>1. (base + Len(g)) + Len(rest) = base + Len(g \o rest)
    BY <1>1
  <2> QED BY <2>1 DEF Carries
<1>3. ASSUME NEW p \in 1 .. Len(rest)
      PROVE  FromPlace(rest[p], (base + Len(g)) + p, off, s, harm)
  <2> DEFINE q == p + Len(g)
  <2>1. q \in 1 .. Len(g \o rest) /\ (g \o rest)[q] = rest[p] /\ base + q = (base + Len(g)) + p
    BY <1>1
  <2> HIDE DEF q
  <2>2. FromPlace((g \o rest)[q], base + q, off, s, harm)
    BY <2>1, Zenon DEF Carries
  <2> QED BY <2>1, <2>2, Zenon
<1> QED BY <1>2, <1>3, Zenon DEF Carries

(* A unit of a kind it was not sent as does not appear on a line. *)
LEMMA SpoiltLike ==
    ASSUME NEW u \in Unit, NEW w \in Spoilt(u), NEW v, NEW harm \in Nat, Like(u, v, harm)
    PROVE  w \in Unit /\ Like(w, v, harm + 1)
<1>1. u[1] = v[1] /\ harm + 1 # 0
  BY DEF Like
<1>2. CASE u[1] = "length"
  <2>1. PICK n \in 0 .. kMaxFrame : w = <<"length", n>>
    BY <1>2 DEF Spoilt
  <2>2. w \in Unit
    BY <2>1, FrameAssumption DEF Unit, PlainUnit
  <2> QED BY <1>1, <1>2, <2>1, <2>2 DEF Like
<1>3. CASE u[1] = "crc"
  <2>1. w = crc32(<< >>)
    BY <1>3 DEF Spoilt
  <2>2. w \in Unit
    <3>1. << >> \in Seq(PlainUnit)
      OBVIOUS
    <3> QED BY <2>1, <3>1, Zenon DEF Unit
  <2>3. w[1] = "crc"
    BY <2>1 DEF crc32
  <2> QED BY <1>1, <1>3, <2>1, <2>2, <2>3 DEF Like
<1>4. CASE u[1] # "length" /\ u[1] # "crc"
  <2>1. w = <<u[1], NoValue>>
    BY <1>4 DEF Spoilt
  <2>2. u \in PlainUnit
    BY <1>4 DEF Unit, crc32
  <2>3. w \in Unit /\ w[1] = u[1]
    BY <2>1, <2>2 DEF Unit, PlainUnit, NoValue
  <2> QED BY <1>1, <1>4, <2>3 DEF Like
<1> QED BY <1>2, <1>3, <1>4

(* Damage leaves every unit where it was. *)
LEMMA CarriesDamaged ==
    ASSUME NEW off, NEW s, NEW harm \in Nat, NEW base \in Nat,
           NEW line \in Seq(Unit), Carries(line, base, off, s, harm),
           NEW q \in 1 .. Len(line), NEW w \in Spoilt(line[q]),
           NEW hurt \in Seq(Unit), Len(hurt) = Len(line), hurt[q] = w,
           \A p \in 1 .. Len(line) : p # q => hurt[p] = line[p]
    PROVE  Carries(hurt, base, off, s, harm + 1)
<1>1. base + Len(hurt) <= off[Len(s) + 1]
  BY DEF Carries
<1>2. ASSUME NEW p \in 1 .. Len(hurt)
      PROVE  FromPlace(hurt[p], base + p, off, s, harm + 1)
  <2>1. p \in 1 .. Len(line) /\ line[p] \in Unit
    BY ElementOfSeq
  <2>2. PICK k \in 1 .. Len(s) : \E i \in 1 .. UnitsOf(s[k]) :
            base + p = off[k] + i /\ Like(line[p], encode(s[k])[i], harm)
    BY <2>1 DEF Carries, FromPlace
  <2>3. PICK i \in 1 .. UnitsOf(s[k]) :
            base + p = off[k] + i /\ Like(line[p], encode(s[k])[i], harm)
    BY <2>2
  <2>4. Like(hurt[p], encode(s[k])[i], harm + 1)
    <3>1. CASE p = q
      BY <2>1, <2>3, <3>1, SpoiltLike
    <3>2. CASE p # q
      <4>1. harm + 1 # 0 /\ hurt[p] = line[p]
        BY <2>1, <3>2
      <4> QED BY <2>3, <4>1 DEF Like
    <3> QED BY <3>1, <3>2
  <2> QED BY <2>3, <2>4 DEF FromPlace
<1> QED BY <1>1, <1>2 DEF Carries

(* One more frame sent takes the places after the last. *)
LEMMA LayoutMore ==
    ASSUME NEW s \in Seq(Frames), NEW off, Layout(off, s), NEW m \in Frames, NEW more,
           more = [k \in 1 .. Len(s) + 2 |->
                      IF k = Len(s) + 2 THEN off[Len(s) + 1] + UnitsOf(m) ELSE off[k]]
    PROVE  Layout(more, Append(s, m))
<1> DEFINE n == Len(s)
           t == Append(s, m)
<1>1. /\ n \in Nat /\ t \in Seq(Frames) /\ Len(t) = n + 1 /\ t[n + 1] = m
      /\ \A k \in 1 .. n : t[k] = s[k]
  BY AppendProperties
<1>2. UnitsOf(m) \in Nat /\ UnitsOf(m) >= 5
  BY EncodeShape
<1>3. /\ \A k \in 1 .. n + 1 : off[k] \in Nat
      /\ \A k \in 1 .. n : off[k + 1] = off[k] + UnitsOf(s[k])
      /\ \A j, k \in 1 .. n + 1 : j < k => off[j] + 5 <= off[k]
  BY LayoutFacts
<1>4. \A k \in 1 .. n + 1 : more[k] = off[k]
  BY <1>1
<1>5. more[n + 2] = off[n + 1] + UnitsOf(m)
  BY <1>1
<1>6. n + 1 \in 1 .. n + 1 /\ off[n + 1] \in Nat
  BY <1>1, <1>3
<1> HIDE DEF n, t
<1>7. more \in [1 .. n + 2 -> Nat]
  <2>1. ASSUME NEW k \in 1 .. n + 2 PROVE more[k] \in Nat
    <3>1. CASE k = n + 2
      <4>1. off[n + 1] + UnitsOf(m) \in Nat
        BY <1>2, <1>6
      <4> QED BY <1>5, <3>1, <4>1, Zenon
    <3>2. CASE k # n + 2
      <4>1. k \in 1 .. n + 1
        BY <1>1, <3>2
      <4> QED BY <1>3, <1>4, <4>1 DEF n
    <3> QED BY <3>1, <3>2
  <2>2. more = [k \in 1 .. n + 2 |-> more[k]]
    BY DEF n
  <2> QED BY <2>1, <2>2
<1>8. ASSUME NEW k \in 1 .. n + 1 PROVE more[k + 1] = more[k] + UnitsOf(t[k])
  <2>1. CASE k = n + 1
    <3>1. k + 1 = n + 2
      BY <1>1, <2>1
    <3> QED BY <1>1, <1>4, <1>5, <1>6, <2>1, <3>1
  <2>2. CASE k # n + 1
    <3>1. k \in 1 .. n /\ k + 1 \in 1 .. n + 1
      BY <1>1, <2>2
    <3> QED BY <1>1, <1>3, <1>4, <3>1
  <2> QED BY <2>1, <2>2
<1>9. ASSUME NEW j \in 1 .. n + 2, NEW k \in 1 .. n + 2, j < k PROVE more[j] + 5 <= more[k]
  <2>1. j \in 1 .. n + 1 /\ more[j] = off[j] /\ off[j] \in Nat
    <3>1. j \in 1 .. n + 1
      BY <1>1, <1>9
    <3> QED BY <1>3, <1>4, <3>1 DEF n
  <2>2. CASE k = n + 2
    <3>1. off[j] <= off[n + 1]
      <4>1. CASE j = n + 1
        BY <1>6, <4>1
      <4>2. CASE j # n + 1
        <5>1. off[j] + 5 <= off[n + 1]
          BY <1>1, <1>3, <1>6, <2>1, <4>2
        <5> QED BY <1>6, <2>1, <5>1
      <4> QED BY <4>1, <4>2
    <3> DEFINE a == off[j]
               e == off[n + 1]
               u == UnitsOf(m)
    <3>2. a \in Nat /\ e \in Nat /\ u \in Nat /\ u >= 5 /\ a <= e
      BY <1>2, <1>6, <2>1, <3>1
    <3>3. more[j] = a /\ more[k] = e + u
      BY <1>5, <2>1, <2>2
    <3> HIDE DEF a, e, u
    <3> QED BY <3>2, <3>3
  <2>3. CASE k # n + 2
    <3>1. k \in 1 .. n + 1
      BY <1>1, <2>3
    <3>2. more[k] = off[k] /\ off[j] + 5 <= off[k]
      BY <1>3, <1>4, <1>9, <2>1, <3>1 DEF n
    <3> QED BY <2>1, <3>2
  <2> QED BY <2>2, <2>3
<1>10. Len(t) + 1 = n + 2
  BY <1>1
<1> QED BY <1>1, <1>7, <1>8, <1>9, <1>10 DEF Layout, t

(* The frame just sent is on the line, after the others. *)
LEMMA CarriesMore ==
    ASSUME NEW s \in Seq(Frames), NEW off, Layout(off, s), NEW m \in Frames, NEW more,
           more = [k \in 1 .. Len(s) + 2 |->
                      IF k = Len(s) + 2 THEN off[Len(s) + 1] + UnitsOf(m) ELSE off[k]],
           NEW harm, NEW base \in Nat,
           NEW line \in Seq(Unit), Carries(line, base, off, s, harm),
           base + Len(line) = off[Len(s) + 1]
    PROVE  /\ Carries(line \o encode(m), base, more, Append(s, m), harm)
           /\ base + Len(line \o encode(m)) = more[Len(Append(s, m)) + 1]
<1> DEFINE n == Len(s)
           t == Append(s, m)
           long == line \o encode(m)
<1>1. /\ n \in Nat /\ t \in Seq(Frames) /\ Len(t) = n + 1 /\ t[n + 1] = m
      /\ \A k \in 1 .. n : t[k] = s[k]
  BY AppendProperties
<1>2. UnitsOf(m) \in Nat /\ encode(m) \in Seq(Unit) /\ Len(encode(m)) = UnitsOf(m)
  BY EncodeShape
<1>3. /\ \A k \in 1 .. n + 1 : more[k] = off[k]
      /\ more[n + 2] = off[n + 1] + UnitsOf(m)
  BY <1>1
<1>4. n + 1 \in 1 .. n + 1 /\ off[n + 1] \in Nat
  BY <1>1, LayoutFacts
<1>5. /\ Len(line) \in Nat /\ Len(long) = Len(line) + UnitsOf(m)
      /\ \A p \in 1 .. Len(line) : long[p] = line[p]
      /\ \A i \in 1 .. UnitsOf(m) : long[i + Len(line)] = encode(m)[i]
  BY <1>2
<1>6. base + Len(long) = more[Len(t) + 1]
  <2>1. Len(t) + 1 = n + 2
    BY <1>1
  <2>2. base + Len(long) = (base + Len(line)) + UnitsOf(m)
    BY <1>2, <1>5
  <2> QED BY <1>3, <2>1, <2>2
<1>7. ASSUME NEW p \in 1 .. Len(long) PROVE FromPlace(long[p], base + p, more, t, harm)
  <2>1. CASE p <= Len(line)
    <3>1. p \in 1 .. Len(line)
      BY <1>5, <2>1
    <3>2. PICK k \in 1 .. n : \E i \in 1 .. UnitsOf(s[k]) :
              base + p = off[k] + i /\ Like(line[p], encode(s[k])[i], harm)
      BY <3>1 DEF Carries, FromPlace
    <3>3. k \in 1 .. Len(t) /\ k \in 1 .. n + 1 /\ more[k] = off[k] /\ t[k] = s[k]
      BY <1>1, <1>3
    <3> QED BY <1>5, <3>1, <3>2, <3>3 DEF FromPlace
  <2>2. CASE ~(p <= Len(line))
    <3> DEFINE i == p - Len(line)
    <3>1. i \in 1 .. UnitsOf(m) /\ i + Len(line) = p
      BY <1>2, <1>5, <2>2
    <3>2. base + p = (base + Len(line)) + i
      BY <1>5, <3>1
    <3> HIDE DEF i
    <3>3. base + p = more[n + 1] + i
      BY <1>3, <1>4, <3>2
    <3>4. Like(long[p], encode(m)[i], harm)
      <4>1. long[p] = encode(m)[i]
        BY <1>5, <3>1, Zenon
      <4> QED BY <4>1 DEF Like
    <3>5. n + 1 \in 1 .. Len(t) /\ t[n + 1] = m
      BY <1>1
    <3> QED BY <3>1, <3>3, <3>4, <3>5, Zenon DEF FromPlace
  <2> QED BY <2>1, <2>2
<1>8. base + Len(long) <= more[Len(t) + 1]
  <2>1. base + Len(long) \in Nat
    BY <1>2, <1>5
  <2> DEFINE x == base + Len(long)
  <2>2. x \in Nat /\ x = more[Len(t) + 1]
    BY <1>6, <2>1
  <2> HIDE DEF x
  <2>3. x <= more[Len(t) + 1]
    BY <2>2
  <2> QED BY <2>3 DEF x
<1> QED BY <1>6, <1>7, <1>8 DEF Carries

-----------------------------------------------------------------------------
(* Each action keeps the invariant. *)

(* What the invariant says of an open connection. *)
OpenLine(off) ==
    /\ Layout(off, sent)
    /\ Len(delivered) <= Len(sent)
    /\ Carries(Line, off[Len(delivered) + 1], off, sent, damaged)
    /\ sender = "open" => off[Len(delivered) + 1] + Len(Line) = off[Len(sent) + 1]

\* What the invariant says of a line that is still read.
LEMMA OpenFacts ==
    ASSUME FInv, receiver = "open"
    PROVE  /\ \E off : OpenLine(off)
           /\ Line \in Seq(Unit)
           /\ Len(Line) = Len(got) + Len(stream) + Len(out)
<1>1. \E off : OpenLine(off)
  BY DEF FInv, Ordered, OpenLine
<1>2. Line \in Seq(Unit) /\ Len(Line) = Len(got) + Len(stream) + Len(out)
  BY Joined DEF FInv, FTyped, Line
<1> QED BY <1>1, <1>2

(* Where the frame to be delivered begins, and where the last one ends. *)
LEMMA Bounds ==
    ASSUME FInv, NEW off, OpenLine(off)
    PROVE  /\ Len(delivered) \in Nat /\ Len(sent) \in Nat
           /\ Len(delivered) + 1 \in 1 .. Len(sent) + 1
           /\ off[Len(delivered) + 1] \in Nat /\ off[Len(sent) + 1] \in Nat
           /\ off \in [1 .. Len(sent) + 1 -> Nat]
<1>1. sent \in Seq(Frames) /\ delivered \in Seq(Frames)
  BY DEF FInv, FTyped
<1>2. Len(delivered) \in Nat /\ Len(sent) \in Nat /\ Len(delivered) <= Len(sent)
  BY <1>1 DEF OpenLine
<1>3. off \in [1 .. Len(sent) + 1 -> Nat]
  BY DEF OpenLine, Layout
<1>4. Len(delivered) + 1 \in 1 .. Len(sent) + 1 /\ Len(sent) + 1 \in 1 .. Len(sent) + 1
  BY <1>2
<1> QED BY <1>2, <1>3, <1>4

\* At first the line is empty.
LEMMA FramingInitStep == FramingInit => FInv
<1> SUFFICES ASSUME FramingInit PROVE FInv
  OBVIOUS
<1>1. FTyped
  BY DEF FramingInit, FTyped
<1>2. Ordered
  <2> DEFINE off == [k \in 1 .. 1 |-> 0]
  <2>1. Len(sent) = 0 /\ Len(delivered) = 0 /\ Line = << >> /\ Len(Line) = 0
    BY DEF FramingInit, Line
  <2>2. 0 + 1 = 1 /\ off[1] = 0
    OBVIOUS
  <2>3. off \in [1 .. Len(sent) + 1 -> Nat]
    BY <2>1
  <2>4. Layout(off, sent)
    BY <2>1, <2>3 DEF Layout
  <2> HIDE DEF off
  <2>5. Carries(Line, off[Len(delivered) + 1], off, sent, damaged)
    BY <2>1, <2>2 DEF Carries
  <2>6. off[Len(delivered) + 1] + Len(Line) = off[Len(sent) + 1]
    BY <2>1, <2>2
  <2>7. Len(delivered) <= Len(sent)
    BY <2>1
  <2> QED BY <2>3, <2>4, <2>5, <2>6, <2>7 DEF Ordered
<1> QED BY <1>1, <1>2 DEF FInv

\* The sender encodes a frame.
LEMMA SendFrameStep ==
    ASSUME FInv, NEW m \in Frames, send_frame(m)
    PROVE  FInv'
<1>1. /\ sender = "open" /\ out = << >> /\ out' = encode(m) /\ sent' = Append(sent, m)
      /\ UNCHANGED <<sender, stream, receiver, got, damaged, delivered>>
  BY DEF send_frame
<1>2. encode(m) \in Seq(Unit)
  BY EncodeShape
<1>3. sent' \in Seq(Frames) /\ Len(sent') = Len(sent) + 1
  BY <1>1, AppendProperties DEF FInv, FTyped
<1>4. FTyped'
  BY <1>1, <1>2, <1>3 DEF FInv, FTyped
<1>5. Ordered'
  <2> SUFFICES ASSUME receiver' = "open"
               PROVE  \E off \in [1 .. Len(sent') + 1 -> Nat] : OpenLine(off)'
    BY DEF Ordered, OpenLine
  <2>1. PICK off : OpenLine(off)
    BY <1>1, OpenFacts
  <2>2. Line \in Seq(Unit)
    BY <1>1, OpenFacts
  <2> DEFINE more == [k \in 1 .. Len(sent) + 2 |->
                        IF k = Len(sent) + 2 THEN off[Len(sent) + 1] + UnitsOf(m) ELSE off[k]]
             base == off[Len(delivered) + 1]
  <2>3. /\ Len(delivered) \in Nat /\ Len(sent) \in Nat /\ Len(delivered) <= Len(sent)
        /\ Len(delivered) + 1 \in 1 .. Len(sent) + 1 /\ base \in Nat
    BY <2>1, Bounds DEF OpenLine
  <2>4. more[Len(delivered) + 1] = base
    BY <2>3
  <2> HIDE DEF more
  <2>5. Line' = Line \o encode(m)
    <3>1. Line = got \o stream /\ got \o stream \in Seq(Unit)
      BY <1>1 DEF Line, FInv, FTyped
    <3>2. Line' = got \o (stream \o encode(m))
      BY <1>1 DEF Line
    <3>3. (got \o stream) \o encode(m) = got \o (stream \o encode(m))
      <4>1. got \in Seq(Unit) /\ stream \in Seq(Unit)
        BY DEF FInv, FTyped
      <4> QED BY ONLY <1>2, <4>1, Regrouped
    <3> QED BY <3>1, <3>2, <3>3
  <2>6. Layout(more, sent')
    BY <1>1, <2>1, LayoutMore DEF OpenLine, FInv, FTyped, more
  <2> HIDE DEF base
  <2>7. /\ Layout(off, sent) /\ Carries(Line, base, off, sent, damaged)
        /\ base + Len(Line) = off[Len(sent) + 1] /\ sent \in Seq(Frames)
    BY <1>1, <2>1 DEF OpenLine, base, FInv, FTyped
  <2>8. /\ Carries(Line \o encode(m), base, more, Append(sent, m), damaged)
        /\ base + Len(Line \o encode(m)) = more[Len(Append(sent, m)) + 1]
    BY <2>2, <2>3, <2>7, CarriesMore DEF more
  <2>9. more \in [1 .. Len(sent') + 1 -> Nat]
    BY <2>6 DEF Layout
  <2>10. Len(delivered') <= Len(sent')
    BY <1>1, <1>3, <2>3
  <2>11. more[Len(delivered') + 1] = base
    BY <1>1, <2>4
  <2>12. Carries(Line', more[Len(delivered') + 1], more, sent', damaged')
    BY <1>1, <2>5, <2>8, <2>11
  <2>13. more[Len(delivered') + 1] + Len(Line') = more[Len(sent') + 1]
    BY <1>1, <2>5, <2>8, <2>11
  <2> QED BY <2>6, <2>9, <2>10, <2>12, <2>13 DEF OpenLine
<1> QED BY <1>4, <1>5 DEF FInv

(* A step that leaves the line, what was sent and what was delivered alone. *)
LEMMA SameLine ==
    ASSUME FInv, FTyped', Line' = Line, UNCHANGED <<sender, receiver, damaged, sent, delivered>>
    PROVE  FInv'
<1>1. Ordered'
  <2> SUFFICES ASSUME receiver' = "open"
               PROVE  \E off \in [1 .. Len(sent') + 1 -> Nat] : OpenLine(off)'
    BY DEF Ordered, OpenLine
  <2>1. PICK off : OpenLine(off)
    BY OpenFacts
  <2>2. OpenLine(off)'
    BY <2>1 DEF OpenLine
  <2>3. off \in [1 .. Len(sent') + 1 -> Nat]
    BY <2>1, Bounds
  <2> QED BY <2>2, <2>3
<1> QED BY <1>1 DEF FInv

\* The socket takes the first units of what is to be sent.
LEMMA SendStep ==
    ASSUME FInv, NEW k \in 1 .. SocketBuffer, send(k)
    PROVE  FInv'
<1>1. /\ k <= Len(out) /\ stream' = stream \o SubSeq(out, 1, k)
      /\ out' = SubSeq(out, k + 1, Len(out))
      /\ UNCHANGED <<sender, receiver, got, damaged, sent, delivered>>
      /\ sender = "open"
  BY DEF send, Unsent
<1>2. out \in Seq(Unit) /\ stream \in Seq(Unit) /\ got \in Seq(Unit) /\ k \in Nat
  BY FrameAssumption DEF FInv, FTyped
<1>3. SubSeq(out, 1, k) \in Seq(Unit) /\ SubSeq(out, k + 1, Len(out)) \in Seq(Unit)
  BY <1>1, <1>2, CutInTwo
<1>4. stream' \in Seq(Unit) /\ out' \in Seq(Unit)
  BY <1>1, <1>2, <1>3, ConcatProperties
<1>5. FTyped'
  BY <1>1, <1>4 DEF FInv, FTyped
<1>6. Line' = Line
  <2> DEFINE x == SubSeq(out, 1, k)
             y == SubSeq(out, k + 1, Len(out))
  <2>1. x \in Seq(Unit) /\ y \in Seq(Unit) /\ out = x \o y
    BY <1>1, <1>2, CutInTwo
  <2> HIDE DEF x, y
  <2>2. (stream \o x) \o y = stream \o out
    BY ONLY <1>2, <2>1, Regrouped
  <2>3. Line' = got \o ((stream \o x) \o y)
    BY <1>1, Zenon DEF Line, x, y
  <2> QED BY <2>2, <2>3, Zenon DEF Line
<1> QED BY <1>1, <1>5, <1>6, SameLine

\* The socket fails the sender.
LEMMA SendFailsStep ==
    ASSUME FInv, SendFails
    PROVE  FInv'
<1>1. FTyped'
  BY DEF SendFails, FInv, FTyped
<1>2. Ordered'
  BY DEF SendFails, Ordered
<1> QED BY <1>1, <1>2 DEF FInv

\* The sender closes its end.
LEMMA SenderEndsStep ==
    ASSUME FInv, SenderEnds
    PROVE  FInv'
<1>1. /\ sender' = "closed" /\ out' = << >>
      /\ UNCHANGED <<receiver, got, damaged, sent, delivered>>
  BY DEF SenderEnds
<1>2. PICK k \in 0 .. Len(stream) : stream' = SubSeq(stream, 1, k)
  BY DEF SenderEnds
<1>3. /\ stream \in Seq(Unit) /\ got \in Seq(Unit) /\ out \in Seq(Unit) /\ k \in Nat
      /\ k <= Len(stream) /\ Len(stream) \in Nat /\ Len(got) \in Nat /\ Len(out) \in Nat
  BY DEF FInv, FTyped
<1>4. /\ stream' \in Seq(Unit) /\ Len(stream') = k
      /\ \A i \in 1 .. k : stream'[i] = stream[i]
  BY <1>2, <1>3
<1>5. FTyped'
  BY <1>1, <1>4 DEF FInv, FTyped
<1>6. Ordered'
  <2> SUFFICES ASSUME receiver' = "open"
               PROVE  \E off \in [1 .. Len(sent') + 1 -> Nat] : OpenLine(off)'
    BY DEF Ordered, OpenLine
  <2>1. PICK off : OpenLine(off)
    BY <1>1, OpenFacts
  <2>2. Line \in Seq(Unit) /\ Len(Line) = Len(got) + Len(stream) + Len(out)
    BY <1>1, OpenFacts
  <2> DEFINE x == SubSeq(stream, 1, k)
             y == SubSeq(stream, k + 1, Len(stream))
             short == got \o x
  <2>3. x \in Seq(Unit) /\ y \in Seq(Unit) /\ stream = x \o y
    BY <1>3, CutInTwo
  <2> HIDE DEF x, y
  <2>4. Line' = short
    BY <1>1, <1>2, <1>3, <2>3 DEF Line, x
  <2>5. /\ short \in Seq(Unit) /\ Len(short) <= Len(got \o (stream \o out))
        /\ \A p \in 1 .. Len(short) : short[p] = (got \o (stream \o out))[p]
    BY ONLY <1>3, <2>3, ShortLine
  <2> HIDE DEF short
  <2>6. /\ Line' \in Seq(Unit) /\ Len(Line') <= Len(Line)
        /\ \A p \in 1 .. Len(Line') : Line'[p] = Line[p]
    BY <2>4, <2>5, Zenon DEF Line
  <2> DEFINE base == off[Len(delivered) + 1]
  <2>7. base \in Nat /\ off[Len(sent) + 1] \in Nat /\ off \in [1 .. Len(sent) + 1 -> Nat]
    BY <2>1, Bounds
  <2>8. Carries(Line, base, off, sent, damaged)
    BY <2>1 DEF OpenLine
  <2> HIDE DEF base
  <2>9. Carries(Line', base, off, sent, damaged)
    BY <2>2, <2>6, <2>7, <2>8, CarriesPrefix
  <2>10. OpenLine(off)'
    BY <1>1, <2>1, <2>9 DEF OpenLine, base
  <2> QED BY <1>1, <2>7, <2>10
<1> QED BY <1>5, <1>6 DEF FInv

\* A unit on the line is damaged.
LEMMA DamageStep ==
    ASSUME FInv, NEW i \in 1 .. SocketBuffer, Damage(i)
    PROVE  FInv'
<1>1. /\ i \in 1 .. Len(stream) /\ damaged' = damaged + 1
      /\ UNCHANGED <<sender, out, receiver, got, sent, delivered>>
  BY DEF Damage
<1>2. PICK u \in Spoilt(stream[i]) : stream' = [stream EXCEPT ![i] = u]
  BY DEF Damage
<1>3. /\ stream \in Seq(Unit) /\ got \in Seq(Unit) /\ out \in Seq(Unit) /\ damaged \in Nat
      /\ sent \in Seq(Frames) /\ stream[i] \in Unit
  BY <1>1, ElementOfSeq DEF FInv, FTyped
<1>4. u \in Unit
  <2>1. Like(stream[i], stream[i], 0)
    BY DEF Like
  <2> QED BY <1>3, <2>1, SpoiltLike
<1>5. /\ stream' \in Seq(Unit) /\ Len(stream') = Len(stream) /\ stream'[i] = u
      /\ \A j \in 1 .. Len(stream) : j # i => stream'[j] = stream[j]
  BY <1>1, <1>2, <1>3, <1>4, ExceptSeq
<1>6. FTyped'
  BY <1>1, <1>3, <1>5 DEF FInv, FTyped
<1>7. Ordered'
  <2> SUFFICES ASSUME receiver' = "open"
               PROVE  \E off \in [1 .. Len(sent') + 1 -> Nat] : OpenLine(off)'
    BY DEF Ordered, OpenLine
  <2>1. PICK off : OpenLine(off)
    BY <1>1, OpenFacts
  <2> DEFINE before == got \o (stream \o out)
             after  == got \o (stream' \o out)
             q == i + Len(got)
  <2>2. /\ before \in Seq(Unit) /\ Len(before) = Len(got) + Len(stream) + Len(out)
        /\ \A j \in 1 .. Len(got) : before[j] = got[j]
        /\ \A j \in 1 .. Len(stream) : before[j + Len(got)] = stream[j]
        /\ \A j \in 1 .. Len(out) : before[j + Len(got) + Len(stream)] = out[j]
    BY <1>3, Joined, SMTT(30)
  <2>3. /\ after \in Seq(Unit) /\ Len(after) = Len(got) + Len(stream) + Len(out)
        /\ \A j \in 1 .. Len(got) : after[j] = got[j]
        /\ \A j \in 1 .. Len(stream) : after[j + Len(got)] = stream'[j]
        /\ \A j \in 1 .. Len(out) : after[j + Len(got) + Len(stream)] = out[j]
    <3> DEFINE st == stream'
    <3>0. st \in Seq(Unit) /\ got \in Seq(Unit) /\ out \in Seq(Unit)
      BY <1>3, <1>5
    <3>1. Len(st) = Len(stream)
      BY <1>5
    <3> HIDE DEF st
    <3>2. /\ got \o (st \o out) \in Seq(Unit)
          /\ Len(got \o (st \o out)) = Len(got) + Len(st) + Len(out)
          /\ \A j \in 1 .. Len(got) : (got \o (st \o out))[j] = got[j]
          /\ \A j \in 1 .. Len(st) : (got \o (st \o out))[j + Len(got)] = st[j]
          /\ \A j \in 1 .. Len(out) : (got \o (st \o out))[j + Len(got) + Len(st)] = out[j]
      BY ONLY <3>0, Joined
    <3> QED BY <3>1, <3>2, Zenon DEF st
  <2>4. Len(got) \in Nat /\ Len(stream) \in Nat /\ Len(out) \in Nat
    BY <1>3
  <2>5. Line = before /\ Line' = after
    BY <1>1 DEF Line
  <2> HIDE DEF before, after
  <2>6. q \in 1 .. Len(before) /\ before[q] = stream[i] /\ after[q] = u
    <3>1. q \in 1 .. Len(before)
      BY <1>1, <2>2, <2>4
    <3>2. before[q] = stream[i] /\ after[q] = stream'[i]
      BY <1>1, <2>2, <2>3, Zenon
    <3> QED BY <1>5, <3>1, <3>2, Zenon
  <2>7. ASSUME NEW p \in 1 .. Len(before), p # q PROVE after[p] = before[p]
    <3>1. CASE p <= Len(got)
      BY <2>2, <2>3, <2>4, <3>1
    <3>2. CASE Len(got) < p /\ p <= Len(got) + Len(stream)
      <4> DEFINE j == p - Len(got)
      <4>1. j \in 1 .. Len(stream) /\ j # i /\ j + Len(got) = p
        BY <1>1, <2>4, <2>7, <3>2
      <4> HIDE DEF j
      <4>2. after[j + Len(got)] = before[j + Len(got)]
        BY <1>5, <2>2, <2>3, <4>1, Zenon
      <4> QED BY <4>1, <4>2
    <3>3. CASE Len(got) + Len(stream) < p
      <4> DEFINE j == p - Len(got) - Len(stream)
      <4>1. j \in 1 .. Len(out) /\ j + Len(got) + Len(stream) = p
        BY <2>2, <2>4, <3>3
      <4> HIDE DEF j
      <4>2. after[j + Len(got) + Len(stream)] = before[j + Len(got) + Len(stream)]
        BY <2>2, <2>3, <4>1, Zenon
      <4> QED BY <4>1, <4>2
    <3> QED BY <2>4, <3>1, <3>2, <3>3
  <2> DEFINE base == off[Len(delivered) + 1]
  <2>8. base \in Nat /\ off \in [1 .. Len(sent) + 1 -> Nat]
    BY <2>1, Bounds
  <2>9. Carries(before, base, off, sent, damaged)
    BY <2>1, <2>5 DEF OpenLine
  <2>10. Len(after) = Len(before)
    BY <2>2, <2>3
  <2>11. u \in Spoilt(before[q])
    BY <2>6
  <2> HIDE DEF base, q
  <2>12. Carries(after, base, off, sent, damaged + 1)
    BY <1>3, <2>2, <2>3, <2>6, <2>7, <2>8, <2>9, <2>10, <2>11, CarriesDamaged
  <2>13. OpenLine(off)'
    BY <1>1, <2>1, <2>5, <2>10, <2>12 DEF OpenLine, base
  <2> QED BY <1>1, <2>8, <2>13
<1> QED BY <1>6, <1>7 DEF FInv

(* What a call of recv makes of an open line: the units g that recv_frame  *)
(* then has are the first of the line, and the rest is still to come.      *)
LEMMA RecvTakes ==
    ASSUME FInv, NEW k \in 1 .. SocketBuffer, recv(k),
           NEW g, g = got \o SubSeq(stream, 1, k),
           NEW rest, rest = SubSeq(stream, k + 1, Len(stream)) \o out
    PROVE  /\ g \in Seq(Unit) /\ rest \in Seq(Unit)
           /\ Line = g \o rest
           /\ stream' \in Seq(Unit)
           /\ stream' \o out = rest
           /\ Len(g) <= Len(Line) /\ \A p \in 1 .. Len(g) : g[p] = Line[p]
<1> DEFINE x == SubSeq(stream, 1, k)
           y == SubSeq(stream, k + 1, Len(stream))
<1>1. stream' = y /\ k <= Len(stream)
  BY DEF recv
<1>2. stream \in Seq(Unit) /\ got \in Seq(Unit) /\ out \in Seq(Unit) /\ k \in Nat
  BY FrameAssumption DEF FInv, FTyped
<1>3. x \in Seq(Unit) /\ y \in Seq(Unit) /\ stream = x \o y
  BY <1>1, <1>2, CutInTwo
<1>4. g = got \o x /\ rest = y \o out
  OBVIOUS
<1> HIDE DEF x, y
<1>5. g \in Seq(Unit) /\ rest \in Seq(Unit)
  <2>1. got \o x \in Seq(Unit) /\ y \o out \in Seq(Unit)
    BY ONLY <1>2, <1>3, ConcatProperties
  <2> QED BY <1>4, <2>1, Zenon
<1>6. (got \o x) \o (y \o out) = got \o (stream \o out)
  BY ONLY <1>2, <1>3, Regrouped, SMTT(20)
<1>7. Line = g \o rest
  BY <1>4, <1>6, Zenon DEF Line
<1>8. Len(g) <= Len(g \o rest) /\ \A p \in 1 .. Len(g) : g[p] = (g \o rest)[p]
  BY ONLY <1>5
<1> QED BY <1>1, <1>3, <1>4, <1>5, <1>7, <1>8, Zenon

\* The receiver reads units, and a frame once it has enough of them.
LEMMA RecvStep ==
    ASSUME FInv, NEW k \in 1 .. SocketBuffer, recv(k)
    PROVE  /\ FInv'
           /\ delivered' # delivered =>
                /\ Len(delivered) < Len(sent)
                /\ delivered' = Append(delivered, sent[Len(delivered) + 1])
<1> DEFINE g == got \o SubSeq(stream, 1, k)
           rest == SubSeq(stream, k + 1, Len(stream)) \o out
<1>1. receiver = "open" /\ UNCHANGED <<sender, out, damaged, sent>>
  BY DEF recv
<1>2. \/ Refused(g) /\ receiver' = "failed" /\ got' = << >> /\ UNCHANGED delivered
      \/ /\ Complete(g)
         /\ delivered' = Append(delivered, decode(g)) /\ got' = << >>
         /\ UNCHANGED receiver
      \/ got' = g /\ UNCHANGED <<receiver, delivered>>
  BY DEF recv
<1>3. /\ g \in Seq(Unit) /\ rest \in Seq(Unit)
      /\ Line = g \o rest
      /\ stream' \in Seq(Unit)
      /\ stream' \o out = rest
      /\ Len(g) <= Len(Line) /\ \A p \in 1 .. Len(g) : g[p] = Line[p]
  BY RecvTakes, Zenon
<1> HIDE DEF g, rest
<1>4. PICK off : OpenLine(off)
  BY <1>1, OpenFacts
<1>5. Line \in Seq(Unit)
  BY <1>1, OpenFacts
<1> DEFINE d == Len(delivered)
           base == off[d + 1]
<1>6. /\ d \in Nat /\ Len(sent) \in Nat /\ d <= Len(sent) /\ d + 1 \in 1 .. Len(sent) + 1
      /\ base \in Nat /\ off \in [1 .. Len(sent) + 1 -> Nat]
  BY <1>4, Bounds DEF OpenLine
<1>7. /\ Layout(off, sent) /\ Carries(Line, base, off, sent, damaged) /\ sent \in Seq(Frames)
      /\ sender = "open" => base + Len(Line) = off[Len(sent) + 1]
  BY <1>4 DEF OpenLine, FInv, FTyped
<1>8. CASE Refused(g) /\ receiver' = "failed" /\ got' = << >> /\ UNCHANGED delivered
  <2>1. FTyped'
    BY <1>1, <1>3, <1>8 DEF FInv, FTyped
  <2>2. Ordered'
    BY <1>8 DEF Ordered
  <2> QED BY <1>8, <2>1, <2>2 DEF FInv
<1>9. CASE /\ Complete(g)
           /\ delivered' = Append(delivered, decode(g)) /\ got' = << >>
           /\ UNCHANGED receiver
  <2>1. d + 1 \in 1 .. Len(sent) /\ Len(g) = UnitsOf(sent[d + 1]) /\ decode(g) = sent[d + 1]
    <3>1. /\ g \in Seq(Unit) /\ Len(g) <= Len(Line) /\ \A p \in 1 .. Len(g) : g[p] = Line[p]
          /\ Complete(g)
      BY <1>3, <1>9
    <3> HIDE DEF d
    <3>2. /\ d \in Nat /\ d <= Len(sent) /\ sent \in Seq(Frames) /\ Layout(off, sent)
          /\ Line \in Seq(Unit) /\ Carries(Line, off[d + 1], off, sent, damaged)
      BY <1>5, <1>6, <1>7
    <3> QED BY ONLY <3>1, <3>2, Recognised
  <2>2. sent[d + 1] \in Frames
    BY <1>7, <2>1, ElementOfSeq
  <2>3. delivered' = Append(delivered, sent[d + 1])
    BY <1>9, <2>1
  <2>4. delivered' \in Seq(Frames) /\ Len(delivered') = d + 1
    BY <2>2, <2>3, AppendProperties DEF FInv, FTyped
  <2>5. FTyped'
    BY <1>1, <1>3, <1>9, <2>4 DEF FInv, FTyped
  <2>6. Line' = rest
    <3>1. Line' = << >> \o (stream' \o out)
      BY <1>1, <1>9 DEF Line
    <3> QED BY <1>3, <3>1
  <2>7. off[Len(delivered') + 1] = base + Len(g)
    <3>1. off[(d + 1) + 1] = off[d + 1] + UnitsOf(sent[d + 1])
      BY <1>7, <2>1, LayoutFacts
    <3> QED BY <2>1, <2>4, <3>1
  <2>8. Carries(rest, base + Len(g), off, sent, damaged)
    <3>1. Carries(g \o rest, base, off, sent, damaged)
      BY <1>3, <1>7, Zenon
    <3> HIDE DEF base
    <3> QED BY <1>3, <1>6, <3>1, CarriesRest
  <2>9. sender = "open" => (base + Len(g)) + Len(rest) = off[Len(sent) + 1]
    <3>1. Len(g \o rest) = Len(g) + Len(rest) /\ Len(g) \in Nat /\ Len(rest) \in Nat
      BY ONLY <1>3
    <3>2. base + Len(Line) = (base + Len(g)) + Len(rest)
      <4>1. base + Len(g \o rest) = (base + Len(g)) + Len(rest)
        <5> HIDE DEF base
        <5> QED BY <1>6, <3>1
      <4> QED BY <1>3, <4>1, Zenon
    <3> QED BY <1>7, <3>2
  <2>10. Len(delivered') <= Len(sent')
    BY <1>1, <1>6, <2>1, <2>4
  <2>11. OpenLine(off)'
    BY <1>1, <1>7, <2>6, <2>7, <2>8, <2>9, <2>10, Zenon DEF OpenLine
  <2>12. Ordered'
    BY <1>1, <1>6, <2>11 DEF Ordered, OpenLine
  <2>13. Len(delivered) < Len(sent)
    BY <1>6, <2>1
  <2> QED BY <2>3, <2>5, <2>12, <2>13 DEF FInv
<1>10. CASE got' = g /\ UNCHANGED <<receiver, delivered>>
  <2>1. FTyped'
    BY <1>1, <1>3, <1>10 DEF FInv, FTyped
  <2>2. Line' = Line
    BY <1>1, <1>3, <1>10, Zenon DEF Line
  <2> QED BY <1>1, <1>10, <2>1, <2>2, SameLine
<1> QED BY <1>2, <1>8, <1>9, <1>10

\* The receiver comes to the end of the line.
LEMMA RecvEndStep ==
    ASSUME FInv, RecvEnd
    PROVE  FInv'
<1>1. FTyped'
  BY DEF RecvEnd, FInv, FTyped
<1>2. Ordered'
  BY DEF RecvEnd, Ordered
<1> QED BY <1>1, <1>2 DEF FInv

\* Every step keeps the invariant.
LEMMA FInvStep == FInv /\ [FramingNext]_fvars => FInv'
<1> SUFFICES ASSUME FInv, [FramingNext]_fvars PROVE FInv'
  OBVIOUS
<1>1. CASE UNCHANGED fvars
  BY <1>1 DEF fvars, FInv, FTyped, Ordered, Line
<1>2. ASSUME NEW m \in Frames, send_frame(m) PROVE FInv'
  BY <1>2, SendFrameStep
<1>3. CASE SendSome
  BY <1>3, SendStep DEF SendSome
<1>4. CASE SendFails
  BY <1>4, SendFailsStep
<1>5. CASE SenderEnds
  BY <1>5, SenderEndsStep
<1>6. ASSUME NEW i \in 1 .. SocketBuffer, Damage(i) PROVE FInv'
  BY <1>6, DamageStep
<1>7. CASE RecvSome
  BY <1>7, RecvStep DEF RecvSome
<1>8. CASE RecvEnd
  BY <1>8, RecvEndStep
<1> QED BY <1>1, <1>2, <1>3, <1>4, <1>5, <1>6, <1>7, <1>8 DEF FramingNext

-----------------------------------------------------------------------------
(* The theorems. *)

(* What the receiver, the stream and the sender hold is always the stretch *)
(* of the frames sent that begins after the last frame delivered.          *)
THEOREM LineInvariant == FramingSpec => []FInv
<1>1. FramingInit => FInv
  BY FramingInitStep
<1>2. FInv /\ [FramingNext]_fvars => FInv'
  BY FInvStep
<1> QED BY <1>1, <1>2, PTL DEF FramingSpec

(* The frames recv_frame returns are the frames given to send_frame, in    *)
(* order, each once and without a gap, however send and recv cut the       *)
(* stream, wherever the sender ends and whatever is damaged: the           *)
(* connection implements the channel of frames the coordinator is          *)
(* specified over.                                                         *)
THEOREM FramingImplementsChannel == FramingSpec => ImplementsChannel
<1>1. FramingInit => Channel!Init
  BY DEF FramingInit, Channel!Init
<1>2. FInv /\ [FramingNext]_fvars => [Channel!Next]_<<sent, delivered>>
  <2> SUFFICES ASSUME FInv, [FramingNext]_fvars, ~UNCHANGED <<sent, delivered>>
               PROVE  Channel!Next
    OBVIOUS
  <2>1. CASE UNCHANGED fvars
    BY <2>1 DEF fvars
  <2>2. ASSUME NEW m \in Frames, send_frame(m) PROVE Channel!Next
    BY <2>2 DEF send_frame, Channel!Next, Channel!Send
  <2>3. CASE SendSome
    BY <2>3 DEF SendSome, send
  <2>4. CASE SendFails
    BY <2>4 DEF SendFails
  <2>5. CASE SenderEnds
    BY <2>5 DEF SenderEnds
  <2>6. ASSUME NEW i \in 1 .. SocketBuffer, Damage(i) PROVE Channel!Next
    BY <2>6 DEF Damage
  <2>7. CASE RecvSome
    <3>1. PICK k \in 1 .. SocketBuffer : recv(k)
      BY <2>7 DEF RecvSome
    <3>2. UNCHANGED sent
      BY <3>1 DEF recv
    <3>3. /\ Len(delivered) < Len(sent)
          /\ delivered' = Append(delivered, sent[Len(delivered) + 1])
      BY <3>1, <3>2, RecvStep
    <3> QED BY <3>2, <3>3 DEF Channel!Next, Channel!Deliver
  <2>8. CASE RecvEnd
    BY <2>8 DEF RecvEnd
  <2> QED BY <2>1, <2>2, <2>3, <2>4, <2>5, <2>6, <2>7, <2>8 DEF FramingNext
<1> QED BY <1>1, <1>2, LineInvariant, PTL DEF FramingSpec, ImplementsChannel, Channel!Spec

(* recv_frame returns false only when the sender has closed, a unit has    *)
(* been damaged or a frame was longer than a receiver accepts.             *)
THEOREM NoFalseAlarmCorrect == FramingSpec => []NoFalseAlarm
<1>1. FramingInit => NoFalseAlarm
  BY DEF FramingInit, NoFalseAlarm
<1>2. FInv /\ NoFalseAlarm /\ [FramingNext]_fvars => NoFalseAlarm'
  <2> SUFFICES ASSUME FInv, NoFalseAlarm, [FramingNext]_fvars PROVE NoFalseAlarm'
    OBVIOUS
  <2>1. sent \in Seq(Frames) /\ damaged \in Nat
    BY DEF FInv, FTyped
  <2>2. CASE UNCHANGED fvars
    BY <2>2 DEF fvars, NoFalseAlarm, Faulty
  <2>3. ASSUME NEW m \in Frames, send_frame(m) PROVE NoFalseAlarm'
    <3>1. sent' = Append(sent, m) /\ UNCHANGED <<sender, receiver, damaged>>
      BY <2>3 DEF send_frame
    <3>2. ASSUME NEW i \in 1 .. Len(sent), Oversized(sent[i])
          PROVE  i \in 1 .. Len(sent') /\ Oversized(sent'[i])
      BY <2>1, <3>1, <3>2, AppendProperties
    <3> QED BY <3>1, <3>2 DEF NoFalseAlarm, Faulty
  <2>4. CASE SendSome
    BY <2>4 DEF SendSome, send, NoFalseAlarm, Faulty
  <2>5. CASE SendFails
    BY <2>5 DEF SendFails, NoFalseAlarm, Faulty
  <2>6. CASE SenderEnds
    BY <2>6 DEF SenderEnds, NoFalseAlarm, Faulty
  <2>7. ASSUME NEW i \in 1 .. SocketBuffer, Damage(i) PROVE NoFalseAlarm'
    BY <2>1, <2>7 DEF Damage, NoFalseAlarm, Faulty
  <2>8. CASE RecvSome
    <3>1. PICK k \in 1 .. SocketBuffer : recv(k)
      BY <2>8 DEF RecvSome
    <3> DEFINE g == got \o SubSeq(stream, 1, k)
               rest == SubSeq(stream, k + 1, Len(stream)) \o out
    <3>2. receiver = "open" /\ UNCHANGED <<sender, damaged, sent>>
      BY <3>1 DEF recv
    <3>3. receiver' = "open" \/ Refused(g)
      BY <3>1 DEF recv
    <3>4. g \in Seq(Unit) /\ Len(g) <= Len(Line) /\ \A p \in 1 .. Len(g) : g[p] = Line[p]
      BY <3>1, RecvTakes, Zenon
    <3> HIDE DEF g, rest
    <3>5. ASSUME ~Faulty PROVE ~Refused(g)
      <4>1. damaged = 0 /\ \A i \in 1 .. Len(sent) : ~Oversized(sent[i])
        BY <2>1, <3>5 DEF Faulty
      <4>2. PICK off : OpenLine(off)
        BY <3>2, OpenFacts
      <4>3. Line \in Seq(Unit)
        BY <3>2, OpenFacts
      <4> DEFINE d == Len(delivered)
      <4>4. /\ d \in Nat /\ d <= Len(sent) /\ Layout(off, sent)
            /\ Carries(Line, off[d + 1], off, sent, 0)
        BY <4>1, <4>2, Bounds DEF OpenLine
      <4> HIDE DEF d
      <4> QED BY <2>1, <3>4, <4>1, <4>3, <4>4, NothingRefused
    <3>6. Faulty => Faulty'
      BY <3>2 DEF Faulty
    <3>7. Refused(g) => Faulty'
      BY <3>5, <3>6
    <3> QED BY <3>3, <3>7 DEF NoFalseAlarm
  <2>9. CASE RecvEnd
    BY <2>9 DEF RecvEnd, NoFalseAlarm, Faulty
  <2> QED BY <2>2, <2>3, <2>4, <2>5, <2>6, <2>7, <2>8, <2>9 DEF FramingNext
<1> QED BY <1>1, <1>2, LineInvariant, PTL DEF FramingSpec
==============================================================================

------------------------- MODULE PacketStreamProofs -------------------------
(***************************************************************************)
(* Theorems about PacketStream, for any payloads, sizes of a byte and      *)
(* number of packets, when nothing on the stream is damaged or looks like a*)
(* packet that was not sent.                                               *)
(***************************************************************************)
EXTENDS PacketStream, SequenceTheorems, TLAPS

\* No end byte is damaged, noise has no head byte, and no size is so large that
\* msgsize wraps around.
Regular ==
  /\ ~MayCorrupt
  /\ HeadByte \notin Noise
  /\ \A p \in Payload : Len(p) + MinSize < ByteBase * ByteBase

-----------------------------------------------------------------------------
(* The format                                                               *)

\* What fits in two bytes comes out of them as it went in.
LEMMA BytesConcat ==
  ASSUME NEW s \in Seq(Byte), NEW t \in Seq(Byte)
  PROVE  /\ s \o t \in Seq(Byte)
         /\ Len(s \o t) = Len(s) + Len(t)
         /\ \A i \in 1 .. Len(s) : (s \o t)[i] = s[i]
         /\ \A i \in 1 .. Len(t) : (s \o t)[Len(s) + i] = t[i]
<1>1. \A i \in 1 .. Len(s) : i \in 1 .. Len(s) + Len(t) /\ i <= Len(s)
  OBVIOUS
<1>2. \A i \in 1 .. Len(t) :
        /\ Len(s) + i \in 1 .. Len(s) + Len(t)
        /\ ~(Len(s) + i <= Len(s)) /\ Len(s) + i - Len(s) = i
  OBVIOUS
<1> QED BY <1>1, <1>2, ConcatProperties

LEMMA BytesAssociate ==
  ASSUME NEW s \in Seq(Byte), NEW t \in Seq(Byte), NEW u \in Seq(Byte)
  PROVE  (s \o t) \o u = s \o (t \o u)
  BY ConcatAssociative

LEMMA BytesCut ==
  ASSUME NEW s \in Seq(Byte), NEW m \in 1 .. Len(s) + 1, NEW n \in m - 1 .. Len(s)
  PROVE  /\ SubSeq(s, m, n) \in Seq(Byte)
         /\ Len(SubSeq(s, m, n)) = n - m + 1
         /\ \A i \in 1 .. n - m + 1 : SubSeq(s, m, n)[i] = s[i + m - 1]
<1>1. \A i \in m .. n : s[i] \in Byte
  BY ElementOfSeq
<1> QED BY <1>1, SubSeqProperties

LEMMA NoWrap ==
  ASSUME NEW size \in Nat, NEW range \in Nat, size + 4 < range
  PROVE  (size + 4) % range = size + 4
  OBVIOUS

LEMMA PackedNumber ==
  ASSUME NEW n \in Nat, n < ByteBase * ByteBase
  PROVE  /\ PackNum(n) \in Seq(Byte) /\ Len(PackNum(n)) = 2
         /\ UnpackNum(PackNum(n)) = n
<1> DEFINE q == n \div ByteBase
           r == n % ByteBase
<1>1. /\ q \in Nat /\ r \in 0 .. ByteBase - 1
      /\ n = ByteBase * q + r
  BY ByteAssumption
<1>2. q \in Byte /\ r \in Byte
  <2>1. q < ByteBase
    <3> SUFFICES ASSUME q >= ByteBase PROVE FALSE
      BY <1>1, ByteAssumption
    <3> HIDE DEF q, r
    <3>1. ByteBase * q >= ByteBase * ByteBase
      BY <1>1, ByteAssumption
    <3> QED BY <3>1, <1>1, ByteAssumption
  <2> QED BY <2>1, <1>1, ByteAssumption DEF Byte
<1> HIDE DEF q, r
<1>3. PackNum(n) = IF BigEndian THEN <<q, r>> ELSE <<r, q>>
  BY DEF PackNum, q, r
<1>4. PackNum(n) \in Seq(Byte) /\ Len(PackNum(n)) = 2
  BY <1>2, <1>3
<1>5. UnpackNum(PackNum(n)) = ByteBase * q + r
  <2>1. CASE BigEndian
    <3>1. PackNum(n)[1] = q /\ PackNum(n)[2] = r
      BY <2>1, <1>3
    <3> QED BY <2>1, <3>1 DEF UnpackNum
  <2>2. CASE ~BigEndian
    <3>1. PackNum(n)[1] = r /\ PackNum(n)[2] = q
      BY <2>2, <1>3
    <3>2. UnpackNum(PackNum(n)) = r + ByteBase * q
      BY <2>2, <3>1 DEF UnpackNum
    <3>3. ByteBase * q \in Nat
      BY <1>1, ByteAssumption
    <3> QED BY <3>2, <3>3, <1>1
  <2> QED BY <2>1, <2>2
<1> QED BY <1>1, <1>4, <1>5

LEMMA PackIs ==
  ASSUME NEW p \in Payload
  PROVE  /\ Pack(p) \in Seq(Byte)
         /\ p \in Seq(Byte) /\ Len(p) \in Nat /\ Len(Pack(p)) = Len(p) + 4
         /\ Pack(p)[1] = HeadByte
         /\ Pack(p)[Len(p) + 4] = EndByte
         /\ UnpackNum(<<Pack(p)[2], Pack(p)[3]>>) = Len(p)
         /\ \A i \in 1 .. Len(p) : Pack(p)[3 + i] = p[i]
<1> DEFINE size == PackNum(Len(p))
           one == <<HeadByte>>
           head == one \o size
           body == head \o p
<1>0. p \in Seq(Byte) /\ Len(p) \in Nat /\ Len(p) < ByteBase * ByteBase
  BY PayloadAssumption
<1>1. size \in Seq(Byte) /\ Len(size) = 2 /\ UnpackNum(size) = Len(p)
  BY <1>0, PackedNumber
<1>2. /\ one \in Seq(Byte) /\ Len(one) = 1 /\ one[1] = HeadByte
      /\ <<EndByte>> \in Seq(Byte) /\ Len(<<EndByte>>) = 1 /\ <<EndByte>>[1] = EndByte
  BY ByteAssumption
<1>5. Pack(p) = body \o <<EndByte>>
  BY DEF Pack
<1> HIDE DEF size, one
<1>3. /\ head \in Seq(Byte) /\ Len(head) = 3
      /\ head[1] = HeadByte /\ head[2] = size[1] /\ head[3] = size[2]
  <2>1. /\ head \in Seq(Byte) /\ Len(head) = Len(one) + Len(size)
        /\ \A i \in 1 .. Len(one) : head[i] = one[i]
        /\ \A i \in 1 .. Len(size) : head[Len(one) + i] = size[i]
    BY <1>1, <1>2, BytesConcat
  <2> HIDE DEF head
  <2>2. Len(head) = 3
    BY <1>1, <1>2, <2>1
  <2>3. 1 \in 1 .. Len(one) /\ 1 \in 1 .. Len(size) /\ 2 \in 1 .. Len(size)
        /\ Len(one) + 1 = 2 /\ Len(one) + 2 = 3
    BY <1>1, <1>2
  <2>4. head[1] = one[1] /\ head[2] = size[1] /\ head[3] = size[2]
    BY <2>1, <2>3, Zenon
  <2> QED BY <1>2, <2>1, <2>2, <2>4
<1> HIDE DEF head
<1>4. /\ body \in Seq(Byte) /\ Len(body) = 3 + Len(p)
      /\ \A i \in 1 .. 3 : body[i] = head[i]
      /\ \A i \in 1 .. Len(p) : body[3 + i] = p[i]
  <2>1. /\ body \in Seq(Byte) /\ Len(body) = Len(head) + Len(p)
        /\ \A i \in 1 .. Len(head) : body[i] = head[i]
        /\ \A i \in 1 .. Len(p) : body[Len(head) + i] = p[i]
    BY <1>0, <1>3, BytesConcat
  <2> HIDE DEF body
  <2> QED BY <1>3, <2>1
<1> HIDE DEF body
<1>6. /\ Pack(p) \in Seq(Byte) /\ Len(Pack(p)) = Len(p) + 4
      /\ \A i \in 1 .. Len(p) + 3 : Pack(p)[i] = body[i]
      /\ Pack(p)[Len(p) + 4] = EndByte
  <2>1. /\ Pack(p) \in Seq(Byte) /\ Len(Pack(p)) = Len(body) + 1
        /\ \A i \in 1 .. Len(body) : Pack(p)[i] = body[i]
        /\ \A i \in 1 .. 1 : Pack(p)[Len(body) + i] = <<EndByte>>[i]
    BY <1>2, <1>4, <1>5, BytesConcat
  <2>2. Len(body) = Len(p) + 3 /\ Len(p) + 3 + 1 = Len(p) + 4
    BY <1>0, <1>4
  <2>3. Pack(p)[Len(body) + 1] = EndByte
    BY <1>2, <2>1
  <2>4. Len(Pack(p)) = Len(p) + 4 /\ Pack(p)[Len(p) + 4] = EndByte
    <3>1. Len(body) + 1 = Len(p) + 4
      BY <1>0, <2>2
    <3> QED BY <2>1, <2>3, <3>1
  <2>5. \A i \in 1 .. Len(p) + 3 : Pack(p)[i] = body[i]
    BY <2>1, <2>2
  <2> QED BY <2>1, <2>4, <2>5
<1>7. size = <<size[1], size[2]>>
  BY <1>1
<1>8. \A i \in 1 .. Len(p) : 3 + i \in 1 .. Len(p) + 3
  BY <1>0
<1>9. Pack(p)[1] = HeadByte /\ Pack(p)[2] = size[1] /\ Pack(p)[3] = size[2]
  <2>1. \A i \in 1 .. 3 : i \in 1 .. Len(p) + 3
    BY <1>0
  <2>2. \A i \in 1 .. 3 : Pack(p)[i] = head[i]
    BY <1>4, <1>6, <2>1
  <2> QED BY <1>3, <2>2
<1>10. \A i \in 1 .. Len(p) : Pack(p)[3 + i] = p[i]
  BY <1>4, <1>6, <1>8
<1>11. UnpackNum(<<Pack(p)[2], Pack(p)[3]>>) = Len(p)
  BY <1>1, <1>7, <1>9
<1> QED BY <1>0, <1>6, <1>9, <1>10, <1>11

\* get_data() of a packed payload.
LEMMA ContentOfPack ==
  ASSUME NEW p \in Payload
  PROVE  Content(Pack(p)) = p
<1>0. /\ p \in Seq(Byte) /\ Len(p) \in Nat
      /\ Pack(p) \in Seq(Byte) /\ Len(Pack(p)) = Len(p) + 4
      /\ \A i \in 1 .. Len(p) : Pack(p)[3 + i] = p[i]
  BY PackIs
<1>1. Content(Pack(p)) = SubSeq(Pack(p), 4, Len(p) + 3)
  <2>1. Len(Pack(p)) - 1 = Len(p) + 3 /\ HeaderSize + 1 = 4
    BY <1>0 DEF HeaderSize
  <2> QED BY <2>1 DEF Content
<1>2. /\ 4 \in 1 .. Len(Pack(p)) + 1 /\ Len(p) + 3 \in 4 - 1 .. Len(Pack(p))
      /\ Len(p) + 3 - 4 + 1 = Len(p)
      /\ \A i \in 1 .. Len(p) : i + 4 - 1 = 3 + i
  BY <1>0
<1>3. /\ Content(Pack(p)) \in Seq(Byte) /\ Len(Content(Pack(p))) = Len(p)
      /\ \A i \in 1 .. Len(p) : Content(Pack(p))[i] = Pack(p)[i + 4 - 1]
  BY <1>0, <1>1, <1>2, BytesCut
<1>4. \A i \in 1 .. Len(p) : Content(Pack(p))[i] = p[i]
  BY <1>0, <1>2, <1>3
<1> QED BY <1>0, <1>3, <1>4, SeqEqual

-----------------------------------------------------------------------------
(* Where packets lie in a stream                                            *)

Size(p) == Len(p) + 4

PackedAt(bytes, p, a) ==
  /\ a + Size(p) <= Len(bytes)
  /\ \A j \in 1 .. Size(p) : bytes[a + j] = Pack(p)[j]

\* The payloads packed[from], packed[from + 1] and so on are packed in bytes one
\* after the other, the i-th after the first at[i] bytes, and no head byte is
\* outside of a packet.
Laid(bytes, packed, from, at) ==
  /\ at \in [from .. Len(packed) -> Nat]
  /\ \A i \in from .. Len(packed) : PackedAt(bytes, packed[i], at[i])
  /\ \A i, j \in from .. Len(packed) : i < j => at[i] + Size(packed[i]) <= at[j]
  /\ \A k \in 1 .. Len(bytes) :
       bytes[k] = HeadByte =>
         \E i \in from .. Len(packed) : k \in at[i] + 1 .. at[i] + Size(packed[i])

LEMMA SizeIs ==
  ASSUME NEW packed \in Seq(Payload), NEW i \in 1 .. Len(packed)
  PROVE  packed[i] \in Payload /\ Size(packed[i]) \in Nat /\ Size(packed[i]) >= 4
<1>1. packed[i] \in Payload
  BY ElementOfSeq
<1> QED BY <1>1, PackIs DEF Size

\* Reading on: the first bytes go, and with them the packets they are.
LEMMA LaidShift ==
  ASSUME NEW bytes \in Seq(Byte), NEW rest \in Seq(Byte), NEW packed \in Seq(Payload),
         NEW from \in Nat \ {0}, NEW to \in Nat, from <= to, NEW at, NEW d \in 0 .. Len(bytes),
         Laid(bytes, packed, from, at),
         Len(rest) = Len(bytes) - d,
         \A k \in 1 .. Len(rest) : rest[k] = bytes[k + d],
         \A i \in to .. Len(packed) : d <= at[i],
         \A i \in from .. Len(packed) : i < to => at[i] + Size(packed[i]) <= d
  PROVE  \E new : Laid(rest, packed, to, new)
<1> DEFINE new == [i \in to .. Len(packed) |-> at[i] - d]
<1>0. /\ Len(bytes) \in Nat /\ Len(packed) \in Nat /\ Len(rest) \in Nat
      /\ at \in [from .. Len(packed) -> Nat]
      /\ \A i \in to .. Len(packed) : i \in from .. Len(packed)
      /\ \A i \in from .. Len(packed) : i \in 1 .. Len(packed)
  BY DEF Laid
<1>s. \A i \in from .. Len(packed) : Size(packed[i]) \in Nat
  BY <1>0, SizeIs
<1>1. new \in [to .. Len(packed) -> Nat]
  BY <1>0
<1>2. ASSUME NEW i \in to .. Len(packed) PROVE PackedAt(rest, packed[i], new[i])
  <2>1. PackedAt(bytes, packed[i], at[i]) /\ d <= at[i] /\ at[i] \in Nat
    BY <1>0 DEF Laid
  <2>2. new[i] = at[i] - d /\ Size(packed[i]) \in Nat
    BY <1>0, <1>s
  <2>3. new[i] + Size(packed[i]) <= Len(rest)
    BY <2>1, <2>2, <1>0 DEF PackedAt
  <2>4. ASSUME NEW j \in 1 .. Size(packed[i]) PROVE rest[new[i] + j] = Pack(packed[i])[j]
    <3>1. new[i] + j \in 1 .. Len(rest) /\ new[i] + j + d = at[i] + j
      BY <2>1, <2>2, <2>3, <1>0
    <3>2. rest[new[i] + j] = bytes[at[i] + j]
      BY <3>1
    <3> QED BY <3>2, <2>1 DEF PackedAt
  <2> QED BY <2>3, <2>4 DEF PackedAt
<1>3. ASSUME NEW i \in to .. Len(packed), NEW j \in to .. Len(packed), i < j
      PROVE  new[i] + Size(packed[i]) <= new[j]
  <2>1. at[i] + Size(packed[i]) <= at[j]
    BY <1>0, <1>3 DEF Laid
  <2>2. new[i] = at[i] - d /\ new[j] = at[j] - d /\ at[i] \in Nat /\ at[j] \in Nat
    BY <1>0
  <2> QED BY <2>1, <2>2, <1>0, <1>s
<1>4. ASSUME NEW k \in 1 .. Len(rest), rest[k] = HeadByte
      PROVE  \E i \in to .. Len(packed) : k \in new[i] + 1 .. new[i] + Size(packed[i])
  <2>1. k + d \in 1 .. Len(bytes) /\ bytes[k + d] = HeadByte
    BY <1>0, <1>4
  <2>2. PICK i \in from .. Len(packed) : k + d \in at[i] + 1 .. at[i] + Size(packed[i])
    BY <2>1 DEF Laid
  <2>3. at[i] \in Nat /\ Size(packed[i]) \in Nat /\ k + d <= at[i] + Size(packed[i])
    BY <1>0, <1>s, <2>2
  <2>4. ~(i < to)
    <3> SUFFICES ASSUME i < to PROVE FALSE
      OBVIOUS
    <3>1. at[i] + Size(packed[i]) <= d
      OBVIOUS
    <3> QED BY <3>1, <2>3, <1>0
  <2>5. i \in to .. Len(packed)
    BY <2>4, <1>0
  <2>6. new[i] = at[i] - d
    BY <2>5
  <2>7. k \in new[i] + 1 .. new[i] + Size(packed[i])
    BY <2>2, <2>3, <2>6, <1>0
  <2> QED BY <2>5, <2>7
<1> HIDE DEF new
<1>5. Laid(rest, packed, to, new)
  BY <1>1, <1>2, <1>3, <1>4 DEF Laid
<1> QED BY <1>5

\* Sending on: bytes that are no head change nothing.
LEMMA LaidNoise ==
  ASSUME NEW bytes \in Seq(Byte), NEW packed \in Seq(Payload), NEW from \in Nat \ {0},
         NEW at, NEW b \in Byte \ {HeadByte}, Laid(bytes, packed, from, at)
  PROVE  Laid(Append(bytes, b), packed, from, at)
<1> DEFINE more == Append(bytes, b)
<1>1. /\ Len(bytes) \in Nat /\ Len(packed) \in Nat /\ Len(more) = Len(bytes) + 1
      /\ \A k \in 1 .. Len(bytes) : more[k] = bytes[k]
      /\ more[Len(bytes) + 1] = b
      /\ at \in [from .. Len(packed) -> Nat]
      /\ \A i \in from .. Len(packed) : i \in 1 .. Len(packed)
  BY DEF Laid
<1> HIDE DEF more
<1>2. ASSUME NEW i \in from .. Len(packed) PROVE PackedAt(more, packed[i], at[i])
  <2>1. PackedAt(bytes, packed[i], at[i]) /\ at[i] \in Nat /\ Size(packed[i]) \in Nat
    BY <1>1, SizeIs DEF Laid
  <2>2. \A j \in 1 .. Size(packed[i]) : at[i] + j \in 1 .. Len(bytes)
    BY <1>1, <2>1 DEF PackedAt
  <2>3. \A j \in 1 .. Size(packed[i]) : more[at[i] + j] = Pack(packed[i])[j]
    BY <1>1, <2>1, <2>2 DEF PackedAt
  <2>4. at[i] + Size(packed[i]) <= Len(more)
    BY <1>1, <2>1 DEF PackedAt
  <2> QED BY <2>3, <2>4 DEF PackedAt
<1>3. ASSUME NEW k \in 1 .. Len(more), more[k] = HeadByte
      PROVE  k \in 1 .. Len(bytes) /\ bytes[k] = HeadByte
  BY <1>1, <1>3
<1> SUFFICES Laid(more, packed, from, at)
  BY DEF more
<1> QED BY <1>2, <1>3 DEF Laid

\* Sending on: a packet more, behind all that is on its way.
LEMMA LaidMore ==
  ASSUME NEW bytes \in Seq(Byte), NEW packed \in Seq(Payload), NEW p \in Payload,
         NEW from \in 1 .. Len(packed) + 1, NEW at, Laid(bytes, packed, from, at)
  PROVE  \E new : Laid(bytes \o Pack(p), Append(packed, p), from, new)
<1> DEFINE more == bytes \o Pack(p)
           all == Append(packed, p)
           last == Len(packed) + 1
           new == [i \in from .. last |-> IF i = last THEN Len(bytes) ELSE at[i]]
<1>0. Size(p) \in Nat /\ Len(Pack(p)) = Size(p) /\ Pack(p) \in Seq(Byte)
  <2>1. Len(p) \in Nat /\ Pack(p) \in Seq(Byte) /\ Len(Pack(p)) = Len(p) + 4
    BY PackIs
  <2> QED BY <2>1 DEF Size
<1>1. /\ Len(bytes) \in Nat /\ Len(packed) \in Nat /\ last \in Nat
      /\ Size(p) \in Nat /\ Len(Pack(p)) = Size(p) /\ Pack(p) \in Seq(Byte)
      /\ at \in [from .. Len(packed) -> Nat]
      /\ \A i \in from .. Len(packed) : i \in 1 .. Len(packed)
      /\ \A i \in from .. last : i = last \/ i \in from .. Len(packed)
  BY <1>0 DEF Laid
<1>2. /\ Len(more) = Len(bytes) + Size(p)
      /\ \A k \in 1 .. Len(bytes) : more[k] = bytes[k]
      /\ \A k \in 1 .. Size(p) : more[Len(bytes) + k] = Pack(p)[k]
  <2>1. /\ Len(more) = Len(bytes) + Len(Pack(p))
        /\ \A k \in 1 .. Len(bytes) : more[k] = bytes[k]
        /\ \A k \in 1 .. Len(Pack(p)) : more[Len(bytes) + k] = Pack(p)[k]
    BY <1>0, BytesConcat
  <2> HIDE DEF more
  <2> QED BY <1>0, <2>1
<1>3. /\ Len(all) = last /\ all[last] = p
      /\ \A i \in 1 .. Len(packed) : all[i] = packed[i]
  OBVIOUS
<1>4. /\ new \in [from .. last -> Nat]
      /\ new[last] = Len(bytes)
      /\ \A i \in from .. Len(packed) : new[i] = at[i]
  BY <1>1
<1>5. \A i \in from .. Len(packed) :
        /\ all[i] = packed[i] /\ new[i] = at[i] /\ at[i] \in Nat
        /\ Size(packed[i]) \in Nat /\ PackedAt(bytes, packed[i], at[i])
        /\ at[i] + Size(packed[i]) <= Len(bytes)
  BY <1>1, <1>3, <1>4, SizeIs DEF Laid, PackedAt
<1> HIDE DEF more, all, new
<1>6. ASSUME NEW i \in from .. last PROVE PackedAt(more, all[i], new[i])
  <2>1. CASE i = last
    BY <2>1, <1>1, <1>2, <1>3, <1>4 DEF PackedAt
  <2>2. CASE i \in from .. Len(packed)
    <3>1. \A j \in 1 .. Size(packed[i]) : at[i] + j \in 1 .. Len(bytes)
      BY <2>2, <1>1, <1>5
    <3>2. \A j \in 1 .. Size(packed[i]) : more[at[i] + j] = Pack(packed[i])[j]
      BY <2>2, <3>1, <1>2, <1>5 DEF PackedAt
    <3>3. at[i] + Size(packed[i]) <= Len(more)
      BY <2>2, <1>1, <1>2, <1>5
    <3> QED BY <2>2, <3>2, <3>3, <1>5 DEF PackedAt
  <2> QED BY <2>1, <2>2, <1>1
<1>7. ASSUME NEW i \in from .. last, NEW j \in from .. last, i < j
      PROVE  new[i] + Size(all[i]) <= new[j]
  <2>1. i \in from .. Len(packed)
    BY <1>1, <1>7
  <2>2. CASE j = last
    BY <2>1, <2>2, <1>4, <1>5
  <2>3. CASE j \in from .. Len(packed)
    BY <2>1, <2>3, <1>5, <1>7 DEF Laid
  <2> QED BY <2>2, <2>3, <1>1
<1>8. ASSUME NEW k \in 1 .. Len(more), more[k] = HeadByte
      PROVE  \E i \in from .. last : k \in new[i] + 1 .. new[i] + Size(all[i])
  <2>1. CASE k <= Len(bytes)
    <3>1. k \in 1 .. Len(bytes) /\ bytes[k] = HeadByte
      BY <2>1, <1>1, <1>2, <1>8
    <3>2. PICK i \in from .. Len(packed) : k \in at[i] + 1 .. at[i] + Size(packed[i])
      BY <3>1 DEF Laid
    <3>3. i \in from .. last
      BY <1>1
    <3> QED BY <3>2, <3>3, <1>5
  <2>2. CASE ~(k <= Len(bytes))
    <3>1. k \in Len(bytes) + 1 .. Len(bytes) + Size(p)
      BY <2>2, <1>1, <1>2
    <3>2. last \in from .. last
      BY <1>1
    <3> QED BY <3>1, <3>2, <1>3, <1>4
  <2> QED BY <2>1, <2>2
<1>9. Laid(more, all, from, new)
  BY <1>3, <1>4, <1>6, <1>7, <1>8 DEF Laid
<1> QED BY <1>9 DEF more, all

\* A head byte in front is that of the first packet, which is there as a whole.
LEMMA LaidFront ==
  ASSUME NEW bytes \in Seq(Byte), NEW packed \in Seq(Payload), NEW from \in Nat \ {0},
         NEW at, Laid(bytes, packed, from, at), Len(bytes) > 0, bytes[1] = HeadByte
  PROVE  from \in 1 .. Len(packed) /\ at[from] = 0 /\ PackedAt(bytes, packed[from], 0)
<1>1. /\ Len(bytes) \in Nat /\ Len(packed) \in Nat
      /\ at \in [from .. Len(packed) -> Nat]
      /\ \A i \in from .. Len(packed) : i \in 1 .. Len(packed)
  BY DEF Laid
<1>2. 1 \in 1 .. Len(bytes)
  BY <1>1
<1>3. PICK i \in from .. Len(packed) : 1 \in at[i] + 1 .. at[i] + Size(packed[i])
  BY <1>2 DEF Laid
<1>4. at[i] = 0 /\ from \in from .. Len(packed) /\ from \in 1 .. Len(packed)
  BY <1>1, <1>3
<1>5. i = from
  <2> SUFFICES ASSUME from < i PROVE FALSE
    BY <1>1
  <2>1. at[from] + Size(packed[from]) <= at[i] /\ at[from] \in Nat
    BY <1>1, <1>4 DEF Laid
  <2> QED BY <2>1, <1>4, SizeIs
<1> QED BY <1>4, <1>5 DEF Laid

\* A byte in front that is no head belongs to no packet.
LEMMA LaidBehind ==
  ASSUME NEW bytes \in Seq(Byte), NEW packed \in Seq(Payload), NEW from \in Nat \ {0},
         NEW at, Laid(bytes, packed, from, at), bytes[1] # HeadByte,
         NEW i \in from .. Len(packed)
  PROVE  1 <= at[i]
<1>1. i \in 1 .. Len(packed) /\ at[i] \in Nat /\ PackedAt(bytes, packed[i], at[i])
  BY DEF Laid
<1>2. packed[i] \in Payload /\ Size(packed[i]) \in Nat /\ Size(packed[i]) >= 4
  BY <1>1, SizeIs
<1>3. at[i] = 0 => bytes[1] = Pack(packed[i])[1]
  <2> SUFFICES ASSUME at[i] = 0 PROVE bytes[1] = Pack(packed[i])[1]
    OBVIOUS
  <2>1. 1 \in 1 .. Size(packed[i]) /\ at[i] + 1 = 1
    BY <1>2
  <2> QED BY <2>1, <1>1 DEF PackedAt
<1>4. Pack(packed[i])[1] = HeadByte
  BY <1>2, PackIs
<1> QED BY <1>1, <1>3, <1>4

-----------------------------------------------------------------------------
(* Types                                                                    *)

LEMMA CutType ==
  ASSUME NEW s \in Seq(Byte), NEW m \in Nat \ {0}, NEW n \in 0 .. Len(s)
  PROVE  SubSeq(s, m, n) \in Seq(Byte)
<1>1. \A i \in m .. n : s[i] \in Byte
  BY ElementOfSeq
<1> QED BY <1>1, SubSeqProperties

\* What a header says is a number.
LEMMA HeaderType ==
  ASSUME TypeOK, Len(buffer) >= MinSize
  PROVE  /\ WithHeader \in Seq(Byte) /\ DataSize \in Nat
         /\ ClearBufferN(buffer, HeaderSize) \in Seq(Byte)
<1>0. buffer \in Seq(Byte) /\ data \in Seq(Byte) /\ Len(buffer) \in Nat /\ Len(buffer) >= 4
  BY DEF TypeOK, MinSize
<1> DEFINE cut == SubSeq(buffer, 1, 3)
<1>1. cut \in Seq(Byte) /\ Len(cut) = 3
  BY <1>0, BytesCut
<1>2. WithHeader = data \o cut
  BY <1>0 DEF WithHeader, ReadBufferN, HeaderSize
<1>3. WithHeader \in Seq(Byte) /\ Len(WithHeader) = Len(data) + Len(cut)
  <2> HIDE DEF cut
  <2> QED BY <1>0, <1>1, <1>2, BytesConcat
<1>4. DataSize \in Nat
  <2> DEFINE two == SubSeq(WithHeader, 2, 3)
  <2>1. two \in Seq(Byte) /\ Len(two) = 2
    BY <1>0, <1>1, <1>3, BytesCut
  <2>2. two[1] \in Nat /\ two[2] \in Nat
    BY <2>1, ElementOfSeq, ByteAssumption DEF Byte
  <2>3. DataSize = UnpackNum(two)
    BY DEF DataSize, HeaderSize
  <2> HIDE DEF two
  <2>4. ByteBase * two[1] \in Nat /\ ByteBase * two[2] \in Nat
    BY <2>2, ByteAssumption
  <2> QED BY <2>2, <2>3, <2>4 DEF UnpackNum
<1>5. ClearBufferN(buffer, HeaderSize) = SubSeq(buffer, 4, Len(buffer))
  BY <1>0 DEF ClearBufferN, HeaderSize
<1> QED BY <1>0, <1>3, <1>4, <1>5, CutType

\* read_buffer_n() and clear_buffer_n() of bytes are bytes.
LEMMA BufferType ==
  ASSUME NEW buf \in Seq(Byte), NEW str \in Seq(Byte), NEW n \in Nat
  PROVE  ReadBufferN(buf, str, n) \in Seq(Byte) /\ ClearBufferN(buf, n) \in Seq(Byte)
<1>1. ASSUME ~(n > Len(buf)) PROVE str \o SubSeq(buf, 1, n) \in Seq(Byte)
  <2>1. n \in 0 .. Len(buf)
    BY <1>1
  <2>2. SubSeq(buf, 1, n) \in Seq(Byte)
    BY <2>1, CutType
  <2> QED BY <2>2
<1>2. ClearBufferN(buf, n) \in Seq(Byte)
  BY CutType DEF ClearBufferN
<1> QED BY <1>1, <1>2 DEF ReadBufferN

LEMMA InitTypes == Init => TypeOK
<1>1. 0 \in 0 .. MaxPackets
  BY BoundAssumption
<1>2. \A S : <<>> \in Seq(S)
  BY EmptySeq
<1> QED BY <1>1, <1>2, Zenon DEF Init, TypeOK

LEMMA StepTypes ==
  ASSUME TypeOK, [Next]_vars
  PROVE  TypeOK'
<1> USE DEF TypeOK
<1>1. ASSUME NEW p \in Payload, Send(p) PROVE TypeOK'
  <2>1. Pack(p) \in Seq(Byte)
    BY PackIs
  <2>2. wire \o Pack(p) \in Seq(Byte)
    BY <2>1
  <2>3. units + 1 \in 0 .. MaxPackets
    BY <1>1, BoundAssumption DEF Send
  <2>4. Append(sent, p) \in Seq(Payload)
    OBVIOUS
  <2> QED BY <1>1, <2>2, <2>3, <2>4 DEF Send
<1>2. CASE SendNoise
  <2>1. units + 1 \in 0 .. MaxPackets
    BY <1>2, BoundAssumption DEF SendNoise
  <2>2. ASSUME NEW b \in Noise PROVE Append(wire, b) \in Seq(Byte)
    BY NoiseAssumption
  <2>3. ASSUME NEW p \in Payload, NEW b \in Byte
        PROVE  wire \o Front(Pack(p)) \o <<b>> \in Seq(Byte)
    <3>1. /\ Pack(p) \in Seq(Byte) /\ Len(Pack(p)) \in Nat
          /\ Len(Pack(p)) - 1 \in 0 .. Len(Pack(p))
      <4>1. Pack(p) \in Seq(Byte) /\ Len(p) \in Nat /\ Len(Pack(p)) = Len(p) + 4
        BY PackIs
      <4> QED BY <4>1
    <3>2. Front(Pack(p)) \in Seq(Byte)
      BY <3>1, CutType DEF Front
    <3>3. <<b>> \in Seq(Byte)
      OBVIOUS
    <3> QED BY <3>2, <3>3
  <2> QED BY <1>2, <2>1, <2>2, <2>3 DEF SendNoise
<1>3. CASE Arrive
  <2>1. PICK n \in 1 .. Len(wire) :
          /\ buffer' = buffer \o SubSeq(wire, 1, n)
          /\ wire' = SubSeq(wire, n + 1, Len(wire))
    BY <1>3 DEF Arrive
  <2>2. SubSeq(wire, 1, n) \in Seq(Byte) /\ SubSeq(wire, n + 1, Len(wire)) \in Seq(Byte)
    BY CutType
  <2> QED BY <1>3, <2>1, <2>2 DEF Arrive
<1>4. CASE ReadPacket
  BY <1>4 DEF ReadPacket, wireVars
<1>5. CASE ReturnNothing
  BY <1>5 DEF ReturnNothing, wireVars
<1>6. CASE SkipByte
  <2>1. buffer' \in Seq(Byte)
    BY <1>6, BufferType DEF SkipByte, Skipped
  <2> QED BY <1>6, <2>1 DEF SkipByte, wireVars
<1>7. CASE TakePacket
  <2> DEFINE body == ClearBufferN(buffer, HeaderSize)
  <2>1. WithHeader \in Seq(Byte) /\ DataSize + 1 \in Nat /\ body \in Seq(Byte)
    BY <1>7, HeaderType DEF TakePacket, HeadFound
  <2>2. /\ data' = ReadBufferN(body, WithHeader, DataSize + 1)
        /\ buffer' \in {body, ClearBufferN(body, DataSize + 1)}
        /\ received' \in {received, Append(received, data')}
        /\ reading' \in {FALSE, reading}
    BY <1>7 DEF TakePacket
  <2> HIDE DEF body
  <2>3. data' \in Seq(Byte) /\ buffer' \in Seq(Byte)
    BY <2>1, <2>2, BufferType
  <2>4. received' \in Seq(Seq(Byte))
    <3>1. ASSUME NEW packet \in Seq(Byte) PROVE Append(received, packet) \in Seq(Seq(Byte))
      BY AppendProperties
    <3> QED BY <2>2, <2>3, <3>1
  <2> QED BY <1>7, <2>2, <2>3, <2>4 DEF TakePacket, wireVars
<1>8. CASE UNCHANGED vars
  BY <1>8 DEF vars
<1> QED BY <1>1, <1>2, <1>3, <1>4, <1>5, <1>6, <1>7, <1>8 DEF Next, Round

-----------------------------------------------------------------------------
(* What is read is what was sent                                            *)

\* What was sent and has not been read.
Stream == buffer \o wire

Due == Len(received) + 1

\* The packets read are those sent first, and what is on its way has the others.
Faithful ==
  /\ reading => data = <<>>
  /\ Len(received) <= Len(sent)
  /\ \A i \in DOMAIN received : received[i] = Pack(sent[i])
  /\ \E at : Laid(Stream, sent, Due, at)

Inv == TypeOK /\ Faithful

LEMMA InitInv == Init => Inv
<1> SUFFICES ASSUME Init PROVE Faithful
  BY InitTypes DEF Inv
<1>1. sent = <<>> /\ Stream = <<>> /\ received = <<>> /\ Due = 1 /\ ~reading
  BY DEF Init, Stream, Due
<1>2. Laid(<<>>, <<>>, 1, [i \in 1 .. 0 |-> 0])
  BY DEF Laid
<1> QED BY <1>1, <1>2 DEF Faithful

\* What the sender and the network do leaves the reader alone.
LEMMA SendingKeeps ==
  ASSUME Inv, UNCHANGED <<reading, data, received>>,
         Len(sent) <= Len(sent'), \A i \in DOMAIN sent : sent'[i] = sent[i],
         \E at : Laid(Stream', sent', Due, at)
  PROVE  Faithful'
<1>1. Due' = Due
  BY DEF Due
<1>2. DOMAIN received \subseteq DOMAIN sent /\ Len(received) <= Len(sent')
  BY DEF Inv, Faithful, TypeOK
<1>3. \A i \in DOMAIN received : received[i] = Pack(sent'[i])
  BY <1>2 DEF Inv, Faithful
<1> QED BY <1>1, <1>2, <1>3 DEF Inv, Faithful

LEMMA SendStep ==
  ASSUME Inv, NEW p \in Payload, Send(p)
  PROVE  Faithful'
<1>1. /\ buffer \in Seq(Byte) /\ wire \in Seq(Byte) /\ sent \in Seq(Payload)
      /\ Stream \in Seq(Byte) /\ Due \in 1 .. Len(sent) + 1
  BY BytesConcat DEF Inv, TypeOK, Faithful, Stream, Due
<1>2. Pack(p) \in Seq(Byte)
  BY PackIs
<1>3. Stream' = Stream \o Pack(p)
  <2>1. (buffer \o wire) \o Pack(p) = buffer \o (wire \o Pack(p))
    BY <1>1, <1>2, ConcatAssociative
  <2> QED BY <2>1 DEF Send, Stream
<1>4. sent' = Append(sent, p)
  BY DEF Send
<1>5. PICK at : Laid(Stream, sent, Due, at)
  BY DEF Inv, Faithful
<1>6. \E new : Laid(Stream', sent', Due, new)
  BY <1>1, <1>3, <1>4, <1>5, LaidMore
<1>7. Len(sent) <= Len(sent') /\ \A i \in DOMAIN sent : sent'[i] = sent[i]
  BY <1>1, <1>4
<1> QED BY <1>6, <1>7, SendingKeeps DEF Send

LEMMA NoiseStep ==
  ASSUME Regular, Inv, SendNoise
  PROVE  Faithful'
<1>1. /\ buffer \in Seq(Byte) /\ wire \in Seq(Byte) /\ sent \in Seq(Payload)
      /\ Stream \in Seq(Byte) /\ Due \in Nat \ {0}
  BY BytesConcat DEF Inv, TypeOK, Stream, Due
<1>2. PICK b \in Byte \ {HeadByte} : wire' = Append(wire, b)
  BY NoiseAssumption DEF SendNoise, Regular
<1>3. Stream' = Append(Stream, b)
  <2>1. <<b>> \in Seq(Byte) /\ Append(wire, b) = wire \o <<b>>
    BY <1>1, AppendIsConcat
  <2>2. Append(Stream, b) = Stream \o <<b>>
    BY <1>1, AppendIsConcat
  <2>3. buffer' = buffer
    BY DEF SendNoise
  <2> QED BY <1>1, <1>2, <2>1, <2>2, <2>3, ConcatAssociative DEF Stream
<1>4. PICK at : Laid(Stream, sent, Due, at)
  BY DEF Inv, Faithful
<1>5. Laid(Stream', sent, Due, at)
  BY <1>1, <1>3, <1>4, LaidNoise
<1> QED BY <1>1, <1>5, SendingKeeps DEF SendNoise

\* Arriving moves bytes from the wire to the buffer.
LEMMA ArriveStep ==
  ASSUME Inv, Arrive
  PROVE  Faithful'
<1>1. buffer \in Seq(Byte) /\ wire \in Seq(Byte) /\ sent \in Seq(Payload)
  BY DEF Inv, TypeOK
<1>2. PICK n \in 1 .. Len(wire) :
        /\ buffer' = buffer \o SubSeq(wire, 1, n)
        /\ wire' = SubSeq(wire, n + 1, Len(wire))
  BY DEF Arrive
<1>3. SubSeq(wire, 1, n) \in Seq(Byte) /\ SubSeq(wire, n + 1, Len(wire)) \in Seq(Byte)
  BY <1>1, CutType
<1>4. SubSeq(wire, 1, n) \o SubSeq(wire, n + 1, Len(wire)) = wire
  <2>1. 1 \in 1 .. Len(wire) + 1 /\ n \in 1 - 1 .. Len(wire) /\ Len(wire) \in n .. Len(wire)
    BY <1>1
  <2> QED BY <1>1, <2>1, ConcatAdjacentSubSeq, SubSeqFull
<1>5. Stream' = Stream
  <2> DEFINE come == SubSeq(wire, 1, n)
             left == SubSeq(wire, n + 1, Len(wire))
  <2>1. come \in Seq(Byte) /\ left \in Seq(Byte)
    BY <1>3
  <2> HIDE DEF come, left
  <2>2. (buffer \o come) \o left = buffer \o (come \o left)
    BY <1>1, <2>1, BytesAssociate
  <2>3. buffer' = buffer \o come /\ wire' = left /\ come \o left = wire
    BY <1>2, <1>4 DEF come, left
  <2> QED BY <2>2, <2>3 DEF Stream
<1> QED BY <1>1, <1>5, SendingKeeps DEF Arrive, Inv, Faithful

\* The first n bytes of the buffer go: what that makes of the stream.
LEMMA StreamCut ==
  ASSUME TypeOK, NEW n \in 0 .. Len(buffer)
  PROVE  LET rest == ClearBufferN(buffer, n) \o wire
         IN  /\ rest \in Seq(Byte) /\ Len(rest) = Len(Stream) - n
             /\ \A k \in 1 .. Len(rest) : rest[k] = Stream[k + n]
<1> DEFINE left == ClearBufferN(buffer, n)
           rest == left \o wire
<1>1. buffer \in Seq(Byte) /\ wire \in Seq(Byte) /\ Len(buffer) \in Nat /\ Len(wire) \in Nat
  BY DEF TypeOK
<1>2. /\ left \in Seq(Byte) /\ Len(left) = Len(buffer) - n
      /\ \A k \in 1 .. Len(buffer) - n : left[k] = buffer[k + n]
  <2>1. n + 1 \in 1 .. Len(buffer) + 1 /\ Len(buffer) \in (n + 1) - 1 .. Len(buffer)
    BY <1>1
  <2>2. /\ left \in Seq(Byte) /\ Len(left) = Len(buffer) - (n + 1) + 1
        /\ \A k \in 1 .. Len(buffer) - (n + 1) + 1 : left[k] = buffer[k + (n + 1) - 1]
    BY <1>1, <2>1, BytesCut DEF ClearBufferN
  <2> HIDE DEF left
  <2> QED BY <1>1, <2>2
<1>3. /\ Stream \in Seq(Byte) /\ Len(Stream) = Len(buffer) + Len(wire)
      /\ \A k \in 1 .. Len(buffer) : Stream[k] = buffer[k]
      /\ \A k \in 1 .. Len(wire) : Stream[Len(buffer) + k] = wire[k]
  BY <1>1, BytesConcat DEF Stream
<1> HIDE DEF left
<1>4. /\ rest \in Seq(Byte) /\ Len(rest) = Len(left) + Len(wire)
      /\ \A k \in 1 .. Len(left) : rest[k] = left[k]
      /\ \A k \in 1 .. Len(wire) : rest[Len(left) + k] = wire[k]
  BY <1>1, <1>2, BytesConcat
<1> HIDE DEF rest
<1>5. Len(rest) = Len(Stream) - n
  BY <1>1, <1>2, <1>3, <1>4
<1>6. ASSUME NEW k \in 1 .. Len(rest) PROVE rest[k] = Stream[k + n]
  <2>1. CASE k <= Len(left)
    <3>1. k \in 1 .. Len(left) /\ k + n \in 1 .. Len(buffer) /\ k \in 1 .. Len(buffer) - n
      BY <2>1, <1>1, <1>2
    <3> QED BY <3>1, <1>2, <1>3, <1>4
  <2>2. CASE ~(k <= Len(left))
    <3>1. PICK j \in 1 .. Len(wire) : k = Len(left) + j
      <4>1. k - Len(left) \in 1 .. Len(wire) /\ k = Len(left) + (k - Len(left))
        BY <2>2, <1>1, <1>2, <1>4
      <4> QED BY <4>1
    <3>2. k + n = Len(buffer) + j
      BY <3>1, <1>1, <1>2
    <3> QED BY <3>1, <3>2, <1>3, <1>4
  <2> QED BY <2>1, <2>2
<1> QED BY <1>4, <1>5, <1>6 DEF rest, left

\* What a round finds in front of it.
LEMMA HeaderIs ==
  ASSUME Inv, reading, Len(buffer) >= MinSize
  PROVE  /\ buffer \in Seq(Byte) /\ Len(buffer) \in Nat /\ Len(buffer) >= 4
         /\ WithHeader = SubSeq(buffer, 1, 3)
         /\ WithHeader[1] = buffer[1]
         /\ DataSize = UnpackNum(<<buffer[2], buffer[3]>>)
         /\ Stream[1] = buffer[1] /\ Len(Stream) > 0
<1>1. /\ buffer \in Seq(Byte) /\ wire \in Seq(Byte)
      /\ Len(buffer) \in Nat /\ Len(buffer) >= 4 /\ data = <<>>
  BY DEF Inv, TypeOK, Faithful, MinSize
<1> DEFINE head == SubSeq(buffer, 1, 3)
<1>2. /\ head \in Seq(Byte) /\ Len(head) = 3
      /\ head[1] = buffer[1] /\ head[2] = buffer[2] /\ head[3] = buffer[3]
  <2>1. /\ head \in Seq(Byte) /\ Len(head) = 3 - 1 + 1
        /\ \A i \in 1 .. 3 - 1 + 1 : head[i] = buffer[i + 1 - 1]
    BY <1>1, BytesCut
  <2> HIDE DEF head
  <2> QED BY <2>1
<1>3. WithHeader = data \o head
  BY <1>1 DEF WithHeader, ReadBufferN, HeaderSize
<1> HIDE DEF head
<1>4. WithHeader = head
  <2>1. <<>> \o head = head
    BY <1>2, ConcatEmptySeq
  <2> QED BY <1>1, <1>3, <2>1
<1>5. SubSeq(head, 2, 3) = <<buffer[2], buffer[3]>>
  <2> DEFINE two == SubSeq(head, 2, 3)
  <2>1. 2 \in 1 .. Len(head) + 1 /\ 3 \in 2 - 1 .. Len(head)
    BY <1>2
  <2>2. /\ two \in Seq(Byte) /\ Len(two) = 3 - 2 + 1
        /\ \A i \in 1 .. 3 - 2 + 1 : two[i] = head[i + 2 - 1]
    BY <1>2, <2>1, BytesCut
  <2> HIDE DEF two
  <2>3. Len(two) = 2 /\ two[1] = head[2] /\ two[2] = head[3]
    BY <2>2
  <2>4. two = <<two[1], two[2]>>
    BY <2>2, <2>3
  <2> QED BY <1>2, <2>3, <2>4 DEF two
<1>6. DataSize = UnpackNum(<<buffer[2], buffer[3]>>)
  BY <1>4, <1>5 DEF DataSize, HeaderSize
<1>7. Stream[1] = buffer[1] /\ Len(Stream) > 0
  <2>1. /\ Len(Stream) = Len(buffer) + Len(wire)
        /\ \A k \in 1 .. Len(buffer) : Stream[k] = buffer[k]
    BY <1>1, BytesConcat DEF Stream
  <2> QED BY <1>1, <2>1
<1> QED BY <1>1, <1>2, <1>4, <1>6, <1>7 DEF head

\* A byte that is skipped is one of no packet.
LEMMA SkipStep ==
  ASSUME Inv, SkipByte
  PROVE  Faithful'
<1>1. /\ reading /\ Len(buffer) >= MinSize /\ WithHeader[1] # HeadByte
      /\ data' = <<>> /\ buffer' = ClearBufferN(buffer, 1)
      /\ UNCHANGED <<wire, sent, received>>
  BY DEF SkipByte, Skipped, HeadFound, wireVars
<1>2. /\ Stream[1] # HeadByte /\ 1 \in 0 .. Len(buffer) /\ Len(Stream) > 0
      /\ Stream \in Seq(Byte) /\ sent \in Seq(Payload) /\ Due \in Nat \ {0}
  BY <1>1, HeaderIs, BytesConcat DEF Inv, TypeOK, Stream, Due
<1>3. PICK at : Laid(Stream, sent, Due, at)
  BY DEF Inv, Faithful
<1>4. /\ Stream' \in Seq(Byte) /\ Len(Stream') = Len(Stream) - 1
      /\ \A k \in 1 .. Len(Stream') : Stream'[k] = Stream[k + 1]
  BY <1>1, <1>2, StreamCut DEF Stream, Inv
<1>5. /\ \A i \in Due .. Len(sent) : 1 <= at[i]
      /\ \A i \in Due .. Len(sent) : i < Due => at[i] + Size(sent[i]) <= 1
      /\ 1 \in 0 .. Len(Stream) /\ Due <= Due
  BY <1>2, <1>3, LaidBehind
<1>6. \E new : Laid(Stream', sent, Due, new)
  BY <1>2, <1>3, <1>4, <1>5, LaidShift
<1>7. sent' = sent /\ Due' = Due /\ received' = received
  BY <1>1 DEF Due
<1> QED BY <1>1, <1>6, <1>7 DEF Inv, Faithful

\* What is taken by its size is the next packet that was sent, from its head to
\* its end.
LEMMA TakenIsNext ==
  ASSUME Regular, Inv, TakePacket
  PROVE  LET p == sent[Due]
         IN  /\ Due \in 1 .. Len(sent) /\ p \in Payload
             /\ Size(p) \in 0 .. Len(buffer)
             /\ data' = Pack(p) /\ received' = Append(received, Pack(p)) /\ ~reading'
             /\ buffer' = ClearBufferN(buffer, Size(p))
             /\ \A at : Laid(Stream, sent, Due, at) => at[Due] = 0
<1> DEFINE p == sent[Due]
<1>1. reading /\ Len(buffer) >= MinSize /\ WithHeader[1] = HeadByte
  BY DEF TakePacket, HeadFound
<1>2. /\ buffer \in Seq(Byte) /\ wire \in Seq(Byte) /\ sent \in Seq(Payload)
      /\ Stream \in Seq(Byte) /\ Due \in Nat \ {0} /\ data = <<>>
  BY <1>1, BytesConcat DEF Inv, TypeOK, Faithful, Stream, Due
<1>3. /\ \A k \in 1 .. Len(buffer) : Stream[k] = buffer[k]
      /\ WithHeader = SubSeq(buffer, 1, 3)
      /\ DataSize = UnpackNum(<<buffer[2], buffer[3]>>)
      /\ Stream[1] = HeadByte /\ Len(Stream) > 0 /\ Len(buffer) \in Nat /\ Len(buffer) >= 4
  BY <1>1, <1>2, HeaderIs, BytesConcat DEF Stream
<1>4. \A at : Laid(Stream, sent, Due, at) =>
        Due \in 1 .. Len(sent) /\ at[Due] = 0 /\ PackedAt(Stream, p, 0)
  BY <1>2, <1>3, LaidFront
<1>5. PICK at : Laid(Stream, sent, Due, at)
  BY DEF Inv, Faithful
<1>6. Due \in 1 .. Len(sent) /\ PackedAt(Stream, p, 0) /\ p \in Payload
  BY <1>2, <1>4, <1>5, ElementOfSeq
<1>7. /\ p \in Seq(Byte) /\ Len(p) \in Nat /\ Pack(p) \in Seq(Byte)
      /\ Size(p) = Len(p) + 4 /\ Len(Pack(p)) = Len(p) + 4
      /\ Pack(p)[Len(p) + 4] = EndByte
      /\ UnpackNum(<<Pack(p)[2], Pack(p)[3]>>) = Len(p)
  BY <1>6, PackIs DEF Size
<1> HIDE DEF p
<1>8. \A j \in 1 .. Len(p) + 4 : j <= Len(buffer) => buffer[j] = Pack(p)[j]
  <2> SUFFICES ASSUME NEW j \in 1 .. Len(p) + 4, j <= Len(buffer)
               PROVE  buffer[j] = Pack(p)[j]
    OBVIOUS
  <2>1. Stream[0 + j] = Pack(p)[j]
    BY <1>6, <1>7 DEF PackedAt
  <2>2. j \in 1 .. Len(buffer) /\ 0 + j = j
    BY <1>3
  <2> QED BY <2>1, <2>2, <1>3
<1>9. DataSize = Len(p)
  <2>1. buffer[2] = Pack(p)[2] /\ buffer[3] = Pack(p)[3]
    BY <1>3, <1>7, <1>8
  <2> QED BY <2>1, <1>3, <1>7
<1>10. Len(buffer) >= Len(p) + 4
  <2>1. Len(p) + 4 < ByteBase * ByteBase
    BY <1>6 DEF Regular, MinSize
  <2> DEFINE range == ByteBase * ByteBase
  <2>2. range \in Nat
    BY ByteAssumption
  <2>3. MsgSize(Len(p)) = (Len(p) + 4) % range
    BY DEF MsgSize, MinSize
  <2> HIDE DEF range
  <2>4. Len(p) + 4 < range
    BY <2>1 DEF range
  <2>5. MsgSize(Len(p)) = Len(p) + 4
    BY <2>2, <2>3, <2>4, <1>7, NoWrap
  <2> QED BY <2>5, <1>9 DEF TakePacket, Complete
<1> DEFINE body == ClearBufferN(buffer, 3)
           tail == SubSeq(body, 1, Len(p) + 1)
<1>11. /\ body \in Seq(Byte) /\ Len(body) = Len(buffer) - 3
       /\ \A i \in 1 .. Len(buffer) - 3 : body[i] = buffer[i + 3]
  <2>1. 4 \in 1 .. Len(buffer) + 1 /\ Len(buffer) \in 4 - 1 .. Len(buffer)
    BY <1>3
  <2> HIDE DEF body
  <2>3. body = SubSeq(buffer, 4, Len(buffer))
    BY DEF body, ClearBufferN
  <2>2. /\ body \in Seq(Byte) /\ Len(body) = Len(buffer) - 4 + 1
        /\ \A i \in 1 .. Len(buffer) - 4 + 1 : body[i] = buffer[i + 4 - 1]
    BY <1>2, <2>1, <2>3, BytesCut
  <2> QED BY <1>3, <2>2
<1> HIDE DEF body
<1>12. /\ tail \in Seq(Byte) /\ Len(tail) = Len(p) + 1
       /\ \A i \in 1 .. Len(p) + 1 : tail[i] = body[i]
  <2>1. 1 \in 1 .. Len(body) + 1 /\ Len(p) + 1 \in 1 - 1 .. Len(body)
    BY <1>3, <1>7, <1>10, <1>11
  <2>2. /\ tail \in Seq(Byte) /\ Len(tail) = Len(p) + 1 - 1 + 1
        /\ \A i \in 1 .. Len(p) + 1 - 1 + 1 : tail[i] = body[i + 1 - 1]
    BY <1>11, <2>1, BytesCut
  <2> HIDE DEF tail
  <2> QED BY <1>7, <2>2
<1>13. data' = WithHeader \o tail
  <2>1. data' = ReadBufferN(body, WithHeader, Len(p) + 1)
    BY <1>9 DEF TakePacket, HeaderSize, body
  <2>2. ~(Len(p) + 1 > Len(body))
    BY <1>3, <1>7, <1>10, <1>11
  <2> QED BY <2>1, <2>2 DEF ReadBufferN
<1> HIDE DEF tail
<1>14. /\ WithHeader \in Seq(Byte) /\ Len(WithHeader) = 3
       /\ \A i \in 1 .. 3 : WithHeader[i] = buffer[i]
  <2>1. 1 \in 1 .. Len(buffer) + 1 /\ 3 \in 1 - 1 .. Len(buffer)
    BY <1>3
  <2>2. /\ WithHeader \in Seq(Byte) /\ Len(WithHeader) = 3 - 1 + 1
        /\ \A i \in 1 .. 3 - 1 + 1 : WithHeader[i] = buffer[i + 1 - 1]
    BY <1>2, <1>3, <2>1, BytesCut
  <2> QED BY <2>2
<1>15. data' = Pack(p)
  <2>1. /\ data' \in Seq(Byte) /\ Len(data') = Len(WithHeader) + Len(tail)
        /\ \A i \in 1 .. Len(WithHeader) : data'[i] = WithHeader[i]
        /\ \A i \in 1 .. Len(tail) : data'[Len(WithHeader) + i] = tail[i]
    BY <1>12, <1>13, <1>14, BytesConcat
  <2>2. Len(data') = Len(p) + 4
    BY <1>7, <1>12, <1>14, <2>1
  <2>3. ASSUME NEW i \in 1 .. Len(p) + 4 PROVE data'[i] = Pack(p)[i]
    <3>0. buffer[i] = Pack(p)[i]
      BY <1>3, <1>7, <1>8, <1>10
    <3>1. CASE i <= 3
      <4>1. i \in 1 .. 3
        BY <3>1
      <4> QED BY <4>1, <3>0, <2>1, <1>14
    <3>2. CASE ~(i <= 3)
      <4>1. PICK j \in 1 .. Len(p) + 1 : i = 3 + j
        <5>1. i - 3 \in 1 .. Len(p) + 1 /\ i = 3 + (i - 3)
          BY <3>2, <1>7
        <5> QED BY <5>1
      <4>2. j \in 1 .. Len(buffer) - 3 /\ j + 3 = i
        BY <4>1, <1>3, <1>7, <1>10
      <4>3. data'[3 + j] = tail[j] /\ tail[j] = body[j] /\ body[j] = buffer[j + 3]
        BY <4>1, <4>2, <2>1, <1>11, <1>12, <1>14
      <4> QED BY <4>1, <4>2, <4>3, <3>0
    <3> QED BY <3>1, <3>2
  <2> QED BY <1>7, <2>1, <2>2, <2>3, SeqEqual
<1>16. Last(data') = EndByte
  BY <1>7, <1>15 DEF Last
<1>17. /\ buffer' = ClearBufferN(body, Len(p) + 1)
       /\ received' = Append(received, data') /\ reading' = FALSE
  BY <1>9, <1>16 DEF TakePacket, HeaderSize, body
<1>18. buffer' = ClearBufferN(buffer, Size(p))
  <2>1. body = SubSeq(buffer, 4, Len(buffer))
    BY DEF body, ClearBufferN
  <2>2. buffer' = SubSeq(body, Len(p) + 2, Len(body))
    <3>1. Len(p) + 1 + 1 = Len(p) + 2
      BY <1>7
    <3> QED BY <3>1, <1>17 DEF ClearBufferN
  <2>3. ClearBufferN(buffer, Size(p)) = SubSeq(buffer, Len(p) + 5, Len(buffer))
    <3>1. Size(p) + 1 = Len(p) + 5
      BY <1>7
    <3> QED BY <3>1 DEF ClearBufferN
  <2> DEFINE one == SubSeq(body, Len(p) + 2, Len(body))
             two == SubSeq(buffer, Len(p) + 5, Len(buffer))
             size == Len(buffer) - Len(p) - 4
  <2>4. /\ one \in Seq(Byte) /\ Len(one) = size
        /\ \A i \in 1 .. size : one[i] = buffer[i + Len(p) + 4]
    <3>1. /\ Len(p) + 2 \in 1 .. Len(body) + 1
          /\ Len(body) \in (Len(p) + 2) - 1 .. Len(body)
          /\ Len(body) - (Len(p) + 2) + 1 = size
      BY <1>3, <1>7, <1>10, <1>11
    <3>2. /\ one \in Seq(Byte) /\ Len(one) = size
          /\ \A i \in 1 .. size : one[i] = body[i + (Len(p) + 2) - 1]
      BY <1>11, <3>1, BytesCut
    <3> HIDE DEF one
    <3>3. ASSUME NEW i \in 1 .. size PROVE one[i] = buffer[i + Len(p) + 4]
      <4>1. /\ i + (Len(p) + 2) - 1 \in 1 .. Len(buffer) - 3
            /\ i + (Len(p) + 2) - 1 + 3 = i + Len(p) + 4
        BY <1>3, <1>7, <1>10
      <4> QED BY <4>1, <3>2, <1>11
    <3> QED BY <3>2, <3>3
  <2>5. /\ two \in Seq(Byte) /\ Len(two) = size
        /\ \A i \in 1 .. size : two[i] = buffer[i + Len(p) + 4]
    <3>1. /\ Len(p) + 5 \in 1 .. Len(buffer) + 1
          /\ Len(buffer) \in (Len(p) + 5) - 1 .. Len(buffer)
          /\ Len(buffer) - (Len(p) + 5) + 1 = size
      BY <1>3, <1>7, <1>10
    <3>2. /\ two \in Seq(Byte) /\ Len(two) = size
          /\ \A i \in 1 .. size : two[i] = buffer[i + (Len(p) + 5) - 1]
      BY <1>2, <3>1, BytesCut
    <3> HIDE DEF two
    <3>3. \A i \in 1 .. size : i + (Len(p) + 5) - 1 = i + Len(p) + 4
      BY <1>3, <1>7
    <3> QED BY <3>2, <3>3
  <2> HIDE DEF one, two
  <2>6. one = two
    BY <2>4, <2>5, SeqEqual
  <2> QED BY <2>2, <2>3, <2>6 DEF one, two
<1>19. Size(p) \in 0 .. Len(buffer)
  BY <1>3, <1>7, <1>10
<1> QED BY <1>4, <1>6, <1>15, <1>17, <1>18, <1>19 DEF p

LEMMA TakeStep ==
  ASSUME Regular, Inv, TakePacket
  PROVE  Faithful'
<1> DEFINE p == sent[Due]
           d == Size(p)
<1>1. /\ Due \in 1 .. Len(sent) /\ p \in Payload
      /\ d \in 0 .. Len(buffer)
      /\ received' = Append(received, Pack(p)) /\ ~reading'
      /\ buffer' = ClearBufferN(buffer, d)
      /\ \A at : Laid(Stream, sent, Due, at) => at[Due] = 0
  BY TakenIsNext
<1>2. wire' = wire /\ sent' = sent
  BY DEF TakePacket, wireVars
<1>3. /\ sent \in Seq(Payload) /\ received \in Seq(Seq(Byte)) /\ Len(received) \in Nat
      /\ Stream \in Seq(Byte) /\ Pack(p) \in Seq(Byte)
      /\ Len(Stream) = Len(buffer) + Len(wire) /\ Len(buffer) \in Nat /\ Len(wire) \in Nat
  <2>1. Pack(p) \in Seq(Byte)
    BY <1>1, PackIs
  <2>2. Stream \in Seq(Byte) /\ Len(Stream) = Len(buffer) + Len(wire)
    BY BytesConcat DEF Inv, TypeOK, Stream
  <2> HIDE DEF p
  <2> QED BY <2>1, <2>2 DEF Inv, TypeOK
<1>4. PICK at : Laid(Stream, sent, Due, at)
  BY DEF Inv, Faithful
<1>5. /\ Stream' \in Seq(Byte) /\ Len(Stream') = Len(Stream) - d
      /\ \A k \in 1 .. Len(Stream') : Stream'[k] = Stream[k + d]
  <2>1. Stream' = ClearBufferN(buffer, d) \o wire
    BY <1>1, <1>2 DEF Stream
  <2> HIDE DEF d
  <2> QED BY <1>1, <2>1, StreamCut DEF Inv
<1>6. Due' = Due + 1 /\ Due \in Nat \ {0} /\ Len(received') = Due
  BY <1>1, <1>3 DEF Due
<1>7. /\ at[Due] = 0
      /\ \A i \in Due + 1 .. Len(sent) : d <= at[i]
      /\ \A i \in Due .. Len(sent) : i < Due + 1 => at[i] + Size(sent[i]) <= d
  <2>1. at[Due] = 0
    BY <1>1, <1>4
  <2>2. ASSUME NEW i \in Due + 1 .. Len(sent) PROVE d <= at[i]
    <3>1. Due \in Due .. Len(sent) /\ i \in Due .. Len(sent) /\ Due < i
      BY <1>1, <1>6
    <3>2. at[Due] + Size(sent[Due]) <= at[i]
      BY <3>1, <1>4 DEF Laid
    <3> QED BY <2>1, <3>2, <1>1
  <2>3. ASSUME NEW i \in Due .. Len(sent), i < Due + 1 PROVE at[i] + Size(sent[i]) <= d
    <3>1. i = Due
      BY <2>3, <1>6
    <3> QED BY <3>1, <2>1, <1>1
  <2> QED BY <2>1, <2>2, <2>3
<1>8. d \in 0 .. Len(Stream)
  BY <1>1, <1>3
<1> HIDE DEF d
<1>9. \E new : Laid(Stream', sent, Due + 1, new)
  <2>1. Due + 1 \in Nat /\ Due <= Due + 1
    BY <1>6
  <2> QED BY <1>3, <1>4, <1>5, <1>6, <1>7, <1>8, <2>1, LaidShift
<1>10. \A i \in DOMAIN received' : received'[i] = Pack(sent[i])
  <2> SUFFICES ASSUME NEW i \in 1 .. Len(received) + 1
               PROVE  Append(received, Pack(p))[i] = Pack(sent[i])
    BY <1>1, <1>3
  <2>1. CASE i = Due
    BY <2>1, <1>3 DEF Due
  <2>2. CASE i \in 1 .. Len(received)
    BY <2>2, <1>3 DEF Inv, Faithful
  <2> QED BY <2>1, <2>2, <1>3 DEF Due
<1>11. Len(received') <= Len(sent)
  BY <1>1, <1>3, <1>6
<1> QED BY <1>1, <1>2, <1>6, <1>9, <1>10, <1>11 DEF Faithful

LEMMA StepInv ==
  ASSUME Regular, Inv, [Next]_vars
  PROVE  Inv'
<1> SUFFICES Faithful'
  BY StepTypes DEF Inv
<1>1. ASSUME UNCHANGED <<wire, sent, buffer, received>>, reading' => data' = <<>>
      PROVE  Faithful'
  BY <1>1 DEF Inv, Faithful, Stream, Due
<1>2. CASE ReadPacket
  BY <1>1, <1>2 DEF ReadPacket, wireVars
<1>3. CASE ReturnNothing
  BY <1>1, <1>3 DEF ReturnNothing, wireVars
<1>4. CASE UNCHANGED vars
  BY <1>1, <1>4 DEF vars, Inv, Faithful
<1> QED BY <1>2, <1>3, <1>4, SendStep, NoiseStep, ArriveStep, SkipStep, TakeStep DEF Next, Round

LEMMA InvHolds ==
  ASSUME Regular
  PROVE  Spec => []Inv
<1>1. Init => Inv
  BY InitInv
<1>2. Inv /\ [Next]_vars => Inv'
  BY StepInv
<1> QED BY <1>1, <1>2, PTL DEF Spec

-----------------------------------------------------------------------------
(* Theorems                                                                 *)

\* read_from_buffer() handles bytes, whatever is on the stream, with sizes that
\* wrap around and packets that are damaged too.
THEOREM TypeCorrect == Spec => []TypeOK
<1>1. Init => TypeOK
  BY InitTypes
<1>2. TypeOK /\ [Next]_vars => TypeOK'
  BY StepTypes
<1> QED BY <1>1, <1>2, PTL DEF Spec

\* The packets read are those packed, in the order they were packed in, for any
\* payloads, however the stream is cut and wherever read_packet() was called.
THEOREM InOrderHolds ==
  ASSUME Regular
  PROVE  Spec => []InOrder
<1>1. Inv => InOrder
  <2> DEFINE read == [i \in DOMAIN received |-> Content(received[i])]
  <2> SUFFICES ASSUME Inv PROVE IsPrefix(read, sent)
    BY DEF InOrder
  <2>1. /\ sent \in Seq(Payload) /\ received \in Seq(Seq(Byte))
        /\ Len(received) \in Nat /\ Len(received) <= Len(sent)
        /\ DOMAIN received = 1 .. Len(received)
    BY DEF Inv, TypeOK, Faithful
  <2>2. \A i \in 1 .. Len(received) :
          sent[i] \in Payload /\ read[i] = sent[i]
    <3> SUFFICES ASSUME NEW i \in 1 .. Len(received)
                 PROVE  sent[i] \in Payload /\ read[i] = sent[i]
      OBVIOUS
    <3>1. i \in 1 .. Len(sent)
      BY <2>1
    <3>2. sent[i] \in Payload
      BY <2>1, <3>1, ElementOfSeq
    <3>3. received[i] = Pack(sent[i])
      BY <2>1 DEF Inv, Faithful
    <3> QED BY <2>1, <3>2, <3>3, ContentOfPack
  <2>3. read \in Seq(Payload) /\ Len(read) = Len(received)
    BY <2>1, <2>2
  <2> DEFINE first == SubSeq(sent, 1, Len(received))
  <2>4. /\ first \in Seq(Payload) /\ Len(first) = Len(received)
        /\ \A i \in 1 .. Len(received) : first[i] = sent[i]
    BY <2>1, <2>2
  <2> HIDE DEF read, first
  <2>5. read = first
    BY <2>2, <2>3, <2>4, SeqEqual
  <2>6. SubSeq(read, 1, Len(read)) = read
    BY <2>3, SubSeqFull
  <2> QED BY <2>1, <2>3, <2>5, <2>6 DEF IsPrefix, first
<1> QED BY <1>1, InvHolds, PTL

\* A packet that is read has the format packet.h draws: the rounds of
\* read_from_buffer() put none together from parts of others.
THEOREM WellFormedHolds ==
  ASSUME Regular
  PROVE  Spec => []WellFormed
<1>1. Inv => WellFormed
  <2> SUFFICES ASSUME Inv, NEW i \in DOMAIN received
               PROVE  received[i] = Pack(Content(received[i]))
    BY DEF WellFormed
  <2>1. i \in 1 .. Len(sent) /\ sent \in Seq(Payload) /\ received[i] = Pack(sent[i])
    BY DEF Inv, TypeOK, Faithful
  <2>2. sent[i] \in Payload
    BY <2>1, ElementOfSeq
  <2> QED BY <2>1, <2>2, ContentOfPack
<1> QED BY <1>1, InvHolds, PTL

=============================================================================

---------------------------- MODULE PacketStream ----------------------------
(***************************************************************************)
(* Packet (ae/packet.cpp) over a ListBuffer (ae/list_buffer.cpp): one end  *)
(* packs payloads, the stream cuts the bytes where it likes, the other end *)
(* appends what comes to its buffer and calls read_packet().               *)
(*                                                                         *)
(*      head    | size    | data    | end                                  *)
(*      1 byte  | 2 bytes | N bytes | 1 byte                               *)
(*                                                                         *)
(* Packet::read_from_buffer() is a loop; each of its rounds is a step here.*)
(***************************************************************************)
EXTENDS Naturals, Sequences, SequencesExt

CONSTANTS
  ByteBase,      \* how many values a byte has: 256 in the code
  HeadByte,      \* Packet::HeadByte
  EndByte,       \* Packet::EndByte
  BigEndian,     \* Packet::Mode is DataMode::BigEndian
  Payload,       \* the payloads that are packed
  Noise,         \* bytes that may be on the stream between two packets
  MayCorrupt,    \* may the stream damage the end byte of a packet?
  MaxPackets     \* bound: packets and noise bytes sent

Byte == 0 .. ByteBase - 1

ASSUME ByteAssumption == ByteBase \in Nat \ {0} /\ {HeadByte, EndByte} \subseteq Byte
ASSUME ModeAssumption == BigEndian \in BOOLEAN /\ MayCorrupt \in BOOLEAN
ASSUME PayloadAssumption ==
  \A p \in Payload : p \in Seq(Byte) /\ Len(p) < ByteBase * ByteBase
ASSUME NoiseAssumption == Noise \subseteq Byte
ASSUME BoundAssumption == MaxPackets \in Nat

VARIABLES
  units,      \* history: how many packets and noise bytes were sent
  sent,       \* history: the payloads packed
  wire,       \* bytes on their way
  buffer,     \* ListBuffer::buffer_
  reading,    \* read_from_buffer() is in its loop
  data,       \* the local string of read_from_buffer()
  received    \* history: the packets read, as byte strings

vars == <<units, sent, wire, buffer, reading, data, received>>
wireVars == <<units, sent, wire>>

Init ==
  /\ units = 0
  /\ sent = <<>>
  /\ wire = <<>>
  /\ buffer = <<>>
  /\ reading = FALSE
  /\ data = <<>>
  /\ received = <<>>

-----------------------------------------------------------------------------
(* Packet: sizes and packing                                                *)

MinSize == 4
HeaderSize == 3

\* Mutant: the low byte is not masked.
PackNumUnmasked(n) ==
  IF BigEndian THEN <<n \div ByteBase, n>> ELSE <<n, n \div ByteBase>>

\* pack_num() and unpack_num() of an uint16_t.
PackNum(n) ==
  IF BigEndian THEN <<n \div ByteBase, n % ByteBase>>
               ELSE <<n % ByteBase, n \div ByteBase>>

\* Mutant: the bytes come in the other order.
UnpackNumSwapped(b) ==
  IF BigEndian THEN b[1] + ByteBase * b[2] ELSE ByteBase * b[1] + b[2]

UnpackNum(b) ==
  IF BigEndian THEN ByteBase * b[1] + b[2] ELSE b[1] + ByteBase * b[2]

Pack(payload) ==
  <<HeadByte>> \o PackNum(Len(payload)) \o payload \o <<EndByte>>

\* uint16_t msgsize
MsgSize(size) == (size + MinSize) % (ByteBase * ByteBase)

\* get_data() and data_size() of a packet that was read.
Content(packet) == SubSeq(packet, HeaderSize + 1, Len(packet) - 1)

-----------------------------------------------------------------------------
(* The stream                                                               *)

Send(payload) ==
  /\ units < MaxPackets
  /\ units' = units + 1
  /\ sent' = Append(sent, payload)
  /\ wire' = wire \o Pack(payload)
  /\ UNCHANGED <<buffer, reading, data, received>>

\* Something that is no packet, or no longer one.
SendNoise ==
  /\ units < MaxPackets
  /\ units' = units + 1
  /\ \/ \E b \in Noise : wire' = Append(wire, b)
     \/ /\ MayCorrupt
        /\ \E p \in Payload : \E b \in Byte \ {EndByte} :
             wire' = wire \o Front(Pack(p)) \o <<b>>
  /\ UNCHANGED <<sent, buffer, reading, data, received>>

\* The message callback appends what a read brought.
Arrive ==
  /\ ~reading
  /\ \E n \in 1 .. Len(wire) :
       /\ buffer' = buffer \o SubSeq(wire, 1, n)
       /\ wire' = SubSeq(wire, n + 1, Len(wire))
  /\ UNCHANGED <<units, sent, reading, data, received>>

-----------------------------------------------------------------------------
(* ListBuffer                                                               *)

\* What read_buffer_n() leaves in str: all of the n bytes or none.
ReadBufferN(buf, str, n) == IF n > Len(buf) THEN str ELSE str \o SubSeq(buf, 1, n)

ClearBufferN(buf, n) == SubSeq(buf, n + 1, Len(buf))

-----------------------------------------------------------------------------
(* Packet::read_from_buffer()                                               *)

ReadPacket ==
  /\ ~reading
  /\ reading' = TRUE
  /\ data' = <<>>
  /\ UNCHANGED <<wireVars, buffer, received>>

\* Mutant: a packet whose end byte is missing is taken as complete.
CompleteEarly(size) == Len(buffer) + 1 >= MsgSize(size)

\* size >= msgsize
Complete(size) == Len(buffer) >= MsgSize(size)

\* data after the header was appended to what is in it already.
WithHeader == ReadBufferN(buffer, data, HeaderSize)

HeadFound == Len(buffer) >= MinSize /\ WithHeader[1] = HeadByte

DataSize == UnpackNum(SubSeq(WithHeader, 2, HeaderSize))

\* return -1
ReturnNothing ==
  /\ reading
  /\ Len(buffer) < MinSize \/ (HeadFound /\ ~Complete(DataSize))
  /\ reading' = FALSE
  /\ UNCHANGED <<wireVars, buffer, data, received>>

\* Mutant: two bytes are skipped at a time.
SkippedTwo == 2

\* The byte in front is not a head: look at the next one.
Skipped == 1

SkipByte ==
  /\ reading
  /\ Len(buffer) >= MinSize
  /\ ~HeadFound
  /\ data' = <<>>
  /\ buffer' = ClearBufferN(buffer, Skipped)
  /\ UNCHANGED <<wireVars, reading, received>>

\* A whole packet, by its size; it is delivered if it ends as it should.
TakePacket ==
  /\ reading
  /\ HeadFound
  /\ Complete(DataSize)
  /\ LET body == ClearBufferN(buffer, HeaderSize)
     IN  /\ data' = ReadBufferN(body, WithHeader, DataSize + 1)
         /\ IF Last(data') = EndByte
            THEN /\ buffer' = ClearBufferN(body, DataSize + 1)
                 /\ received' = Append(received, data')
                 /\ reading' = FALSE
            ELSE /\ buffer' = body
                 /\ UNCHANGED <<received, reading>>
  /\ UNCHANGED wireVars

-----------------------------------------------------------------------------
Round == ReturnNothing \/ SkipByte \/ TakePacket

Next ==
  \/ \E p \in Payload : Send(p)
  \/ SendNoise
  \/ Arrive
  \/ ReadPacket
  \/ Round

\* The bytes arrive, and the user reads until nothing is left.
Fairness == SF_vars(Arrive) /\ WF_vars(ReadPacket) /\ WF_vars(Round)

Spec == Init /\ [][Next]_vars

FairSpec == Spec /\ Fairness

-----------------------------------------------------------------------------
(* Properties                                                               *)

\* Every variable has its type.
TypeOK ==
  /\ units \in 0 .. MaxPackets
  /\ sent \in Seq(Payload)
  /\ wire \in Seq(Byte)
  /\ buffer \in Seq(Byte)
  /\ reading \in BOOLEAN
  /\ data \in Seq(Byte)
  /\ received \in Seq(Seq(Byte))

\* However the stream is cut, and whatever noise without a head byte is between
\* them: the packets read are the packets packed, in order, though payloads and
\* sizes may look like heads and ends.
InOrder ==
  ~MayCorrupt /\ HeadByte \notin Noise =>
    IsPrefix([i \in DOMAIN received |-> Content(received[i])], sent)

\* A packet that was read has the format packet.h draws: a head, a size, as many
\* bytes as the size says, and an end.
WellFormed ==
  \A i \in DOMAIN received : received[i] = Pack(Content(received[i]))

\* read_from_buffer() returns, and what was sent is read in the end.
AllReceived ==
  \A n \in 1 .. MaxPackets : Len(sent) = n ~> Len(received) >= n
=============================================================================

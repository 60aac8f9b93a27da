--------------------------- MODULE MCPacketStream ---------------------------
(***************************************************************************)
(* PacketStream for TLC, with bytes of four values, so that sizes and      *)
(* payloads often look like heads and ends.                                *)
(***************************************************************************)
EXTENDS PacketStream

Ambiguous == {<<>>, <<EndByte>>, <<HeadByte, EndByte>>}

\* The longest payload whose packet has a size that fits in two bytes.
Longest == Ambiguous \union {[i \in 1 .. ByteBase * ByteBase - 5 |-> 0]}
=============================================================================

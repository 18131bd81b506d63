---------------------------- MODULE PacketStream ----------------------------
(***************************************************************************)
(* FrameParser between two sides of a connection: what one of them encodes *)
(* arrives in chunks of any size, is buffered, cut into frames and         *)
(* decoded.  A peer with another implementation may get a byte wrong.      *)
(***************************************************************************)
EXTENDS Packets

CONSTANTS
  Packet,       \* the packets that may be sent
  Chunk,        \* how many bytes a read may return, apart from all there are
  WrongByte,    \* bound: what a wrong byte may be
  WrongAt,      \* bound: which byte of a packet it may be
  MaxPackets    \* bound: packets sent; one with a wrong byte is the last

ASSUME PacketAssumption == Packet \subseteq AnyPacket
ASSUME ChunkAssumption == Chunk \subseteq Nat \ {0}
ASSUME WrongAssumption == WrongByte \subseteq Byte /\ WrongAt \subseteq Nat \ {0}
ASSUME BoundsAssumption == MaxPackets \in Nat

VARIABLES
  sent,      \* the packets sent
  wire,      \* bytes that have not been read
  buf,       \* FrameParser.buf
  received,  \* what next_packet answered
  frame,     \* the last frame it decoded
  failed,    \* next_packet answered an error
  faulty     \* history: the last packet sent was written with a wrong byte

vars == <<sent, wire, buf, received, frame, failed, faulty>>

-----------------------------------------------------------------------------
\* A packet as it is written: as encode_packet does, or with one byte wrong.
Wrong(bytes) ==
  {[bytes EXCEPT ![i] = byte] : i \in {n \in WrongAt : n <= Len(bytes)}, byte \in WrongByte}
    \ {bytes}

Write(p, bytes) ==
  /\ Len(sent) < MaxPackets
  /\ ~faulty
  /\ Encodable(p)
  /\ sent' = Append(sent, p)
  /\ wire' = wire \o bytes
  /\ UNCHANGED <<buf, received, frame, failed>>

Send(p) == Write(p, EncodePacket(p)) /\ UNCHANGED faulty

SendWrong(p) == faulty' = TRUE /\ \E bytes \in Wrong(EncodePacket(p)) : Write(p, bytes)

Push ==
  /\ ~failed
  /\ wire # <<>>
  /\ \E n \in {k \in Chunk : k < Len(wire)} \cup {Len(wire)} :
       /\ buf' = buf \o SubSeq(wire, 1, n)
       /\ wire' = SubSeq(wire, n + 1, Len(wire))
  /\ UNCHANGED <<sent, received, frame, failed, faulty>>

\* next_packet, when next_frame is Ready: the frame is drained before it is decoded.
NextPacket ==
  LET next == NextFrame(buf)
      packet == DecodePacket(next.frame)
  IN  /\ ~failed
      /\ next.is = "Ready"
      /\ frame' = next.frame
      /\ buf' = SubSeq(buf, Len(next.frame) + 1, Len(buf))
      /\ failed' = (packet = Malformed)
      /\ received' = IF packet = Malformed THEN received ELSE Append(received, packet)
      /\ UNCHANGED <<sent, wire, faulty>>

BadHeader ==
  /\ ~failed
  /\ NextFrame(buf).is = "Err"
  /\ failed' = TRUE
  /\ UNCHANGED <<sent, wire, buf, received, frame, faulty>>

Init ==
  /\ sent = <<>>
  /\ wire = <<>>
  /\ buf = <<>>
  /\ received = <<>>
  /\ frame = <<>>
  /\ failed = FALSE
  /\ faulty = FALSE

Parse == NextPacket \/ BadHeader

Next ==
  \/ \E p \in Packet : Send(p)
  \/ \E p \in Packet : SendWrong(p)
  \/ Push
  \/ Parse

Spec == Init /\ [][Next]_vars

-----------------------------------------------------------------------------
(***************************************************************************)
(* Types: what is written are bytes, what is answered are packets.         *)
(***************************************************************************)
TypeOK ==
  /\ sent \in Seq(Packet)
  /\ wire \in Seq(Byte)
  /\ buf \in Seq(Byte)
  /\ frame \in Seq(Byte)
  /\ received \in Seq(AnyPacket)
  /\ failed \in BOOLEAN
  /\ faulty \in BOOLEAN

(***************************************************************************)
(* As long as the peer writes what encode_packet does, the parser answers  *)
(* the packets that were sent, all fields alike and in order, however the  *)
(* reads cut them, and no error.                                           *)
(***************************************************************************)
InOrder == ~faulty => IsPrefix(received, sent) /\ ~failed

(***************************************************************************)
(* What next_frame says it needs is what the frame lacks, if its header is *)
(* there, and never more: an owner that waits for so many bytes does not   *)
(* wait for a packet that the peer has not sent.                           *)
(***************************************************************************)
NeedExact ==
  LET next == NextFrame(buf)
      lacks == Len(EncodePacket(sent[Len(received) + 1])) - Len(buf)
  IN  ~faulty /\ next.is = "Need" /\ Len(received) < Len(sent) =>
        /\ next.bytes <= lacks
        /\ ParseFixedHeader(buf) # NeedMore => next.bytes = lacks

(***************************************************************************)
(* The decoder accepts only what the encoder writes: the packet it makes   *)
(* of a frame can be encoded, and has that frame's first byte and body.    *)
(* (The length may have been written with more digits than it needs.)      *)
(***************************************************************************)
DecodesWhatIsEncoded ==
  frame # <<>> /\ ~failed =>
    LET p == Last(received)
    IN  /\ Encodable(p)
        /\ EncodePacket(p)[1] = frame[1]
        /\ IsSuffix(Body(p), frame)
        /\ Len(frame) = 1 + DecodeRemainingLength(Tail(frame)).len + Len(Body(p))

(***************************************************************************)
(* When all has been read and next_frame wants more, no packet is left in  *)
(* the buffer: none waits there for bytes that do not belong to it.        *)
(***************************************************************************)
AllReceived ==
  ~faulty /\ wire = <<>> /\ NextFrame(buf).is = "Need" => received = sent /\ buf = <<>>
=============================================================================

------------------------------- MODULE Frames -------------------------------
(***************************************************************************)
(* Framing: what the encoders put before a body, and how FrameParser finds *)
(* out how much of its buffer is the first frame.                          *)
(***************************************************************************)
EXTENDS RemainingLength

\* The first byte has the type and the flags of the packet.
Framed(first, body) == <<first>> \o EncodeRemainingLength(Len(body)) \o body

\* parse_fixed_header.  An empty buffer lacks a byte, like an unfinished length.
ParseFixedHeader(bytes) == IF bytes = <<>> THEN NeedMore ELSE DecodeRemainingLength(Tail(bytes))

FrameLen(header) == 1 + header.len + header.value

NeedAll(header, bytes) == FrameLen(header)  \* mutant: the bytes that are there count again
Needed(header, bytes) == FrameLen(header) - Len(bytes)

(***************************************************************************)
(* next_frame: Need, Ready or an error.                                    *)
(***************************************************************************)
IsOverfull(header, bytes) == Len(bytes) > FrameLen(header)  \* mutant: waits for one byte more
IsComplete(header, bytes) == Len(bytes) >= FrameLen(header)

NextFrame(bytes) ==
  LET header == ParseFixedHeader(bytes)
  IN  IF header = NeedMore THEN [is |-> "Need", bytes |-> 1]
      ELSE IF header = MalformedLength THEN [is |-> "Err"]
      ELSE IF IsComplete(header, bytes)
        THEN [is |-> "Ready", frame |-> SubSeq(bytes, 1, FrameLen(header))]
        ELSE [is |-> "Need", bytes |-> Needed(header, bytes)]
=============================================================================

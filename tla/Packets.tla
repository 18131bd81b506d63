------------------------------- MODULE Packets -------------------------------
(***************************************************************************)
(* encode_packet and decode_packet, on bytes.  A packet is a record, its   *)
(* QoS a number, a string or payload a sequence of bytes.                  *)
(*                                                                         *)
(* Abstracted: which error a decoder reports, as every one of them ends    *)
(* the thread alike; strings are ASCII, so that a string with a byte above *)
(* 127 is refused as bad UTF-8.                                            *)
(***************************************************************************)
EXTENDS Frames, SequencesExt

CONSTANT None  \* an empty Option

Byte == 0 .. 255
Ascii == 0 .. 127
Word == 0 .. 65535  \* a u16
Qos == 0 .. 2

\* A Vec<u8> and a String, no longer than a length of 16 bits can say.
Data == {bytes \in Seq(Byte) : Len(bytes) \in Word}
Text == {bytes \in Seq(Ascii) : Len(bytes) \in Word}

\* PacketType.
Types == <<"connect", "connack", "publish", "puback", "pubrec", "pubrel", "pubcomp",
           "subscribe", "suback", "unsubscribe", "unsuback", "pingreq", "pingresp", "disconnect">>

Acks == {"puback", "pubrec", "pubrel", "pubcomp", "unsuback"}
Bare == {"pingreq", "pingresp", "disconnect"}

Malformed == [type |-> "malformed"]

Will == [topic : Text, message : Data, qos : Qos, retain : BOOLEAN]

ASSUME NoneAssumption == None \notin Data \cup Will

\* Packet, with what the type of a field allows.
AnyPacket ==
  [type : {"connect"}, clean_session : BOOLEAN, keep_alive : Word, client_id : Text,
   will : Will \cup {None}, username : Text \cup {None}, password : Data \cup {None}]
    \cup [type : {"connack"}, session_present : BOOLEAN, code : Byte]
    \cup [type : {"publish"}, dup : BOOLEAN, qos : Qos, retain : BOOLEAN, topic : Text,
          pkid : Word, payload : Seq(Byte)]
    \cup [type : Acks, pkid : Word]
    \cup [type : {"subscribe"}, pkid : Word, filters : Seq([path : Text, qos : Qos])]
    \cup [type : {"suback"}, pkid : Word, return_codes : Seq(Byte)]
    \cup [type : {"unsubscribe"}, pkid : Word, filters : Seq(Text)]
    \cup [type : Bare]

Flag(b) == IF b THEN 1 ELSE 0
Bit(n, weight) == (n \div weight) % 2 = 1

-----------------------------------------------------------------------------
(***************************************************************************)
(* Encoding.  The length of a string is cut to 16 bits.                    *)
(***************************************************************************)
WriteU16(v) == <<(v \div 256) % 256, v % 256>>
WriteBytesLittle(bytes) ==  \* mutant: the length has its bytes in the wrong order
  <<Len(bytes) % 256, (Len(bytes) \div 256) % 256>> \o bytes
WriteBytes(bytes) == WriteU16(Len(bytes)) \o bytes

\* An Option<String> or Option<Vec<u8>> in the payload of CONNECT.
WriteOption(bytes) == IF bytes = None THEN <<>> ELSE WriteBytes(bytes)

\* construct_flags.
ConnectFlags(p) ==
  2 * Flag(p.clean_session)
    + (IF p.will = None THEN 0 ELSE 4 + 8 * p.will.qos + 32 * Flag(p.will.retain))
    + 64 * Flag(p.password # None)
    + 128 * Flag(p.username # None)

ConnectBody(p) ==
  WriteBytes(<<77, 81, 84, 84>>) \o <<4, ConnectFlags(p)>> \o WriteU16(p.keep_alive)
    \o WriteBytes(p.client_id)
    \o (IF p.will = None THEN <<>> ELSE WriteBytes(p.will.topic) \o WriteBytes(p.will.message))
    \o WriteOption(p.username) \o WriteOption(p.password)

PublishBody(p) ==
  WriteBytes(p.topic) \o (IF p.qos > 0 THEN WriteU16(p.pkid) ELSE <<>>) \o p.payload

SubscribeBody(p) ==
  WriteU16(p.pkid)
    \o FlattenSeq([i \in DOMAIN p.filters |-> WriteBytes(p.filters[i].path) \o <<p.filters[i].qos>>])

UnsubscribeBody(p) ==
  WriteU16(p.pkid) \o FlattenSeq([i \in DOMAIN p.filters |-> WriteBytes(p.filters[i])])

Body(p) ==
  CASE p.type = "connect" -> ConnectBody(p)
    [] p.type = "connack" -> <<Flag(p.session_present), p.code>>
    [] p.type = "publish" -> PublishBody(p)
    [] p.type \in Acks -> WriteU16(p.pkid)
    [] p.type = "subscribe" -> SubscribeBody(p)
    [] p.type = "suback" -> WriteU16(p.pkid) \o p.return_codes
    [] p.type = "unsubscribe" -> UnsubscribeBody(p)
    [] p.type \in Bare -> <<>>

Flags(p) ==
  CASE p.type = "publish" -> 8 * Flag(p.dup) + 2 * p.qos + Flag(p.retain)
    [] p.type \in {"pubrel", "subscribe", "unsubscribe"} -> 2
    [] OTHER -> 0

ValidSubAckCode(code) == code \in {0, 1, 2, 128}

ValidConnAck(p) == p.code \in 0 .. 5 /\ (p.session_present => p.code = 0)

\* encode_packet answers Ok.
Encodable(p) ==
  /\ p.type = "connect" => (p.password # None => p.username # None)
  /\ p.type = "connack" => ValidConnAck(p)
  /\ p.type = "publish" => (p.qos = 0 <=> p.pkid = 0)
  /\ p.type \in Acks \cup {"subscribe", "suback", "unsubscribe"} => p.pkid # 0
  /\ p.type \in {"subscribe", "unsubscribe"} => p.filters # <<>>
  /\ p.type = "suback" =>
       p.return_codes # <<>> /\ \A code \in ToSet(p.return_codes) : ValidSubAckCode(code)
  /\ Len(Body(p)) <= MaxRemainingLen

TypeCode(type) == CHOOSE code \in DOMAIN Types : Types[code] = type

EncodePacket(p) == Framed(16 * TypeCode(p.type) + Flags(p), Body(p))

-----------------------------------------------------------------------------
(***************************************************************************)
(* Decoding: read_u8, read_u16, read_mqtt_bytes and read_mqtt_string, one  *)
(* field after another, until one finds too few bytes.                     *)
(***************************************************************************)
U16(bytes) == 256 * bytes[1] + bytes[2]

SizeOf(field, input) ==
  CASE field = "u8" -> 1
    [] field = "u16" -> 2
    [] field = "none" -> 0
    [] OTHER -> IF Len(input) < 2 THEN 2 ELSE 2 + U16(input)

ValueOf(field, bytes) ==
  CASE field = "u8" -> bytes[1]
    [] field = "u16" -> U16(bytes)
    [] field = "none" -> None
    [] OTHER -> SubSeq(bytes, 3, Len(bytes))

IsText(bytes) == \A byte \in ToSet(bytes) : byte < 128

ReadField(r, field) ==
  LET size == SizeOf(field, r.rest)
      value == ValueOf(field, SubSeq(r.rest, 1, size))
  IN  IF /\ r.ok
         /\ Len(r.rest) >= size
         /\ field = "string" => IsText(value)
        THEN [ok |-> TRUE, values |-> Append(r.values, value),
              rest |-> SubSeq(r.rest, size + 1, Len(r.rest))]
        ELSE [r EXCEPT !.ok = FALSE]

Read(fields, input) ==
  LET after[n \in 0 .. Len(fields)] ==
        IF n = 0 THEN [ok |-> TRUE, values |-> <<>>, rest |-> input]
        ELSE ReadField(after[n - 1], fields[n])
  IN  after[Len(fields)]

\* A turn of the loops of decode_subscribe and decode_unsubscribe, and all turns:
\* no more than there are bytes.
ReadItem(fields, r) ==
  LET item == Read(fields, r.rest)
  IN  IF r.ok /\ r.rest # <<>>
        THEN [ok |-> item.ok, items |-> Append(r.items, item.values), rest |-> item.rest]
        ELSE r

ReadAll(fields, input) ==
  LET after[n \in 0 .. Len(input)] ==
        IF n = 0 THEN [ok |-> TRUE, items |-> <<>>, rest |-> input]
        ELSE ReadItem(fields, after[n - 1])
  IN  after[Len(input)]

\* A field of the payload of CONNECT that a flag announces.
Announced(flag, field) == IF flag THEN field ELSE "none"

DecodeConnect(body) ==
  LET head == Read(<<"string", "u8", "u8", "u16">>, body)
      flags == head.values[3]
      has_will == Bit(flags, 4)
      will_qos == (flags \div 8) % 4
      tail == Read(<<"string", Announced(has_will, "string"), Announced(has_will, "bytes"),
                     Announced(Bit(flags, 128), "string"), Announced(Bit(flags, 64), "bytes")>>,
                   head.rest)
  IN  IF /\ head.ok
         /\ head.values[1] = <<77, 81, 84, 84>> /\ head.values[2] = 4
         /\ ~Bit(flags, 1)
         /\ has_will \/ (will_qos = 0 /\ ~Bit(flags, 32))
         /\ will_qos \in Qos
         /\ Bit(flags, 64) => Bit(flags, 128)
         /\ tail.ok /\ tail.rest = <<>>
        THEN [type |-> "connect", clean_session |-> Bit(flags, 2),
              keep_alive |-> head.values[4], client_id |-> tail.values[1],
              will |-> IF has_will
                         THEN [topic |-> tail.values[2], message |-> tail.values[3],
                               qos |-> will_qos, retain |-> Bit(flags, 32)]
                         ELSE None,
              username |-> tail.values[4], password |-> tail.values[5]]
        ELSE Malformed

DecodeConnAck(body) ==
  LET p == [type |-> "connack", session_present |-> body[1] = 1, code |-> body[2]]
  IN  IF Len(body) = 2 /\ body[1] \in {0, 1} /\ ValidConnAck(p) THEN p ELSE Malformed

DecodePublish(flags, body) ==
  LET qos == (flags \div 2) % 4
      head == Read(IF qos > 0 THEN <<"string", "u16">> ELSE <<"string">>, body)
      pkid == IF qos > 0 THEN head.values[2] ELSE 0
  IN  IF qos \in Qos /\ head.ok /\ (qos > 0 => pkid # 0)
        THEN [type |-> "publish", dup |-> Bit(flags, 8), qos |-> qos, retain |-> Bit(flags, 1),
              topic |-> head.values[1], pkid |-> pkid, payload |-> head.rest]
        ELSE Malformed

\* decode_puback_like and decode_unsuback.
DecodeAck(type, body) ==
  IF Len(body) = 2 /\ U16(body) # 0 THEN [type |-> type, pkid |-> U16(body)] ELSE Malformed

\* What decode_subscribe, decode_suback and decode_unsubscribe have in common.
StartsWithPkid(body) == Len(body) > 2 /\ U16(body) # 0
AfterPkid(body) == SubSeq(body, 3, Len(body))

DecodeSubscribe(body) ==
  LET read == ReadAll(<<"string", "u8">>, AfterPkid(body))
  IN  IF StartsWithPkid(body) /\ read.ok /\ \A i \in DOMAIN read.items : read.items[i][2] \in Qos
        THEN [type |-> "subscribe", pkid |-> U16(body),
              filters |-> [i \in DOMAIN read.items |->
                             [path |-> read.items[i][1], qos |-> read.items[i][2]]]]
        ELSE Malformed

DecodeUnsubscribe(body) ==
  LET read == ReadAll(<<"string">>, AfterPkid(body))
  IN  IF StartsWithPkid(body) /\ read.ok
        THEN [type |-> "unsubscribe", pkid |-> U16(body),
              filters |-> [i \in DOMAIN read.items |-> read.items[i][1]]]
        ELSE Malformed

DecodeSubAck(body) ==
  IF StartsWithPkid(body) /\ \A code \in ToSet(AfterPkid(body)) : ValidSubAckCode(code)
    THEN [type |-> "suback", pkid |-> U16(body), return_codes |-> AfterPkid(body)]
    ELSE Malformed

(***************************************************************************)
(* decode_packet, of a frame whose header is complete.                     *)
(***************************************************************************)
DecodeBody(type, flags, body) ==
  CASE type = "connect" -> DecodeConnect(body)
    [] type = "connack" -> DecodeConnAck(body)
    [] type = "publish" -> DecodePublish(flags, body)
    [] type \in Acks -> DecodeAck(type, body)
    [] type = "subscribe" -> DecodeSubscribe(body)
    [] type = "suback" -> DecodeSubAck(body)
    [] type = "unsubscribe" -> DecodeUnsubscribe(body)
    [] type \in Bare -> IF body = <<>> THEN [type |-> type] ELSE Malformed

FlagsIgnored(type, flags) == TRUE  \* mutant
FlagsAccepted(type, flags) ==
  type # "publish" =>
    flags = IF type \in {"pubrel", "subscribe", "unsubscribe"} THEN 2 ELSE 0

DecodePacket(frame) ==
  LET code == frame[1] \div 16
      flags == frame[1] % 16
      length == DecodeRemainingLength(Tail(frame))
      body == SubSeq(frame, 2 + length.len, 1 + length.len + length.value)
  IN  IF code \in DOMAIN Types /\ FlagsAccepted(Types[code], flags)
        THEN DecodeBody(Types[code], flags, body)
        ELSE Malformed
=============================================================================

------------------------- MODULE PacketStream_proofs -------------------------
(***************************************************************************)
(* A stream of packets is parsed as it was sent, for any packets and any   *)
(* cuts; and of any bytes only packets are made.                           *)
(*                                                                         *)
(* The invariant is that what is in the buffer and on the wire are the     *)
(* packets that have been sent and not received, one after the other; what *)
(* the codec does with one of them is proved in Codec_proofs.              *)
(***************************************************************************)
EXTENDS PacketStream, Codec_proofs

-----------------------------------------------------------------------------
(***************************************************************************)
(* The stream of encoded packets, cut at any place.                        *)
(***************************************************************************)
\* The front of a sequence.
LEMMA FrontOf ==
  ASSUME NEW T, NEW s \in Seq(T), NEW n \in 0 .. Len(s)
  PROVE  \A i \in 1 .. n : SubSeq(s, 1, n)[i] = s[i]
<1>1. Len(s) \in Nat
  BY LenProperties
<1>2. \A i \in 1 .. n : i \in 1 .. Len(s)
  BY <1>1
<1>3. \A i \in 1 .. n : s[i] \in T
  BY <1>2, ElementOfSeq, Zenon
<1>4. 1 \in Int /\ n \in Int
  OBVIOUS
<1>5. \A i \in 1 .. n - 1 + 1 : SubSeq(s, 1, n)[i] = s[1 + i - 1]
  BY <1>3, <1>4, SubSeqProperties, SMT
<1>6. \A i \in 1 .. n : i \in 1 .. n - 1 + 1 /\ 1 + i - 1 = i
  OBVIOUS
<1> QED BY <1>5, <1>6, Zenon

\* Of two sequences that agree the shorter is the front of the longer.
LEMMA SameFront ==
  ASSUME NEW T, NEW s \in Seq(T), NEW t \in Seq(T), Len(s) <= Len(t),
         \A i \in 1 .. Len(s) : s[i] = t[i]
  PROVE  SubSeq(t, 1, Len(s)) = s
<1>1. Len(s) \in Nat /\ Len(t) \in Nat
  BY LenProperties
<1>2. Len(s) \in 0 .. Len(t)
  BY <1>1
<1>3. SubSeq(t, 1, Len(s)) \in Seq(T) /\ Len(SubSeq(t, 1, Len(s))) = Len(s)
  BY <1>2, Parts, Zenon
<1>4. \A i \in 1 .. Len(s) : SubSeq(t, 1, Len(s))[i] = t[i]
  BY <1>2, FrontOf, Zenon
<1> DEFINE h == SubSeq(t, 1, Len(s))
<1> HIDE DEF h
<1>5. h \in Seq(T) /\ Len(h) = Len(s) /\ \A i \in 1 .. Len(h) : h[i] = s[i]
  BY <1>3, <1>4, Zenon DEF h
<1>6. h = s
  BY <1>5, SeqEqual, Zenon
<1> QED BY <1>6, Zenon DEF h

\* Two cuts of the same bytes: the front that is shorter begins the other one.
LEMMA TwoCuts ==
  ASSUME NEW a \in Bytes, NEW b \in Bytes, NEW c \in Bytes, NEW d \in Bytes,
         a \o b = c \o d, Len(a) <= Len(c)
  PROVE  SubSeq(c, 1, Len(a)) = a
<1>1. Len(a) \in Nat /\ Len(c) \in Nat
  BY LenProperties DEF Bytes
<1>2. \A i \in 1 .. Len(a) : i \in 1 .. Len(c)
  BY <1>1
<1>3. \A i \in 1 .. Len(a) : (a \o b)[i] = a[i]
  BY CutBytes, Zenon
<1>4. \A i \in 1 .. Len(c) : (c \o d)[i] = c[i]
  BY CutBytes, Zenon
<1>5. \A i \in 1 .. Len(a) : a[i] = c[i]
  BY <1>2, <1>3, <1>4, Zenon
<1> QED BY <1>5, SameFront, Zenon DEF Bytes

\* What c leaves of a begins d, and b is the rest of d.
Overlap(a, b, c, d) ==
  /\ SubSeq(a, Len(c) + 1, Len(a)) \in Bytes
  /\ a = c \o SubSeq(a, Len(c) + 1, Len(a))
  /\ SubSeq(a, Len(c) + 1, Len(a)) \o b = d

\* When the second cut is the shorter, what it leaves begins in the first one.
LEMMA CutAgain ==
  ASSUME NEW a \in Bytes, NEW b \in Bytes, NEW c \in Bytes, NEW d \in Bytes,
         a \o b = c \o d, Len(c) <= Len(a)
  PROVE  Overlap(a, b, c, d)
<1> DEFINE rest == SubSeq(a, Len(c) + 1, Len(a))
<1>1. Len(a) \in Nat /\ Len(c) \in Nat
  BY LenProperties DEF Bytes
<1>2. Len(c) \in 0 .. Len(a)
  BY <1>1
<1>3. SubSeq(a, 1, Len(c)) = c
  BY TwoCuts, Zenon
<1>4. rest \in Bytes /\ SubSeq(a, 1, Len(c)) \o rest = a
  BY <1>2, PartsOfBytes, Zenon
<1>5. a = c \o rest
  BY <1>3, <1>4, Zenon
<1> HIDE DEF rest
<1>6. c \o (rest \o b) = c \o d
  <2>1. (c \o rest) \o b = c \o (rest \o b)
    BY <1>4, Joined, Zenon
  <2> QED BY <1>5, <2>1, Zenon
<1>7. rest \o b \in Bytes
  BY <1>4, CutBytes, Zenon
<1> DEFINE e == rest \o b
<1>8. SubSeq(c \o e, Len(c) + 1, Len(c \o e)) = e
  <2> HIDE DEF e
  <2>1. e \in Bytes
    BY <1>7, Zenon DEF e
  <2> QED BY <2>1, CutBytes, Zenon
<1>9. SubSeq(c \o d, Len(c) + 1, Len(c \o d)) = d
  BY CutBytes, Zenon
<1>10. e = d
  BY <1>6, <1>8, <1>9, Zenon
<1> QED BY <1>4, <1>5, <1>10, Zenon DEF rest, Overlap

\* What packets s come to when they are written one after the other, from the
\* one after the n-th.
Rests(s, t) ==
  /\ \A n \in 0 .. Len(s) : t[n] \in Bytes
  /\ t[Len(s)] = <<>>
  /\ \A n \in 1 .. Len(s) : t[n - 1] = EncodePacket(s[n]) \o t[n]

\* With one more packet all of it is longer by that packet.
LEMMA OneMore ==
  ASSUME NEW s \in Seq(Packet), \A i \in 1 .. Len(s) : Encodable(s[i]), NEW t, Rests(s, t),
         NEW p \in Packet, Encodable(p)
  PROVE  \E u : Rests(Append(s, p), u)
                /\ \A n \in 0 .. Len(s) : u[n] = t[n] \o EncodePacket(p)
<1> DEFINE e == EncodePacket(p)
           r == Append(s, p)
           u == [n \in 0 .. Len(s) + 1 |-> IF n <= Len(s) THEN t[n] \o e ELSE <<>>]
<1>1. Len(s) \in Nat
  BY LenProperties
<1>2. e \in Bytes
  BY PacketAssumption, DecodedAsEncoded
<1>3. /\ Len(r) = Len(s) + 1
      /\ \A i \in 1 .. Len(s) : r[i] = s[i]
      /\ r[Len(s) + 1] = p
  BY AppendProperties
<1> HIDE DEF e, r
<1>4. /\ \A n \in 0 .. Len(s) : u[n] = t[n] \o e
      /\ u[Len(s) + 1] = <<>>
  <2>1. /\ \A n \in 0 .. Len(s) : n \in 0 .. Len(s) + 1 /\ n <= Len(s)
        /\ Len(s) + 1 \in 0 .. Len(s) + 1 /\ ~(Len(s) + 1 <= Len(s))
    BY <1>1
  <2> QED BY <2>1, Zenon
<1> HIDE DEF u
<1>5. \A n \in 0 .. Len(r) : u[n] \in Bytes
  <2>1. \A n \in 0 .. Len(r) : n \in 0 .. Len(s) \/ n = Len(s) + 1
    BY <1>1, <1>3
  <2>2. <<>> \in Bytes
    BY EmptySeq, Zenon DEF Bytes
  <2>3. \A x \in Bytes : x \o e \in Bytes
    BY <1>2, CutBytes, Zenon
  <2> QED BY <1>4, <2>1, <2>2, <2>3, Zenon DEF Rests
<1>6. ASSUME NEW n \in 1 .. Len(r) PROVE u[n - 1] = EncodePacket(r[n]) \o u[n]
  <2>1. CASE n \in 1 .. Len(s)
    <3>1. n \in 0 .. Len(s) /\ n - 1 \in 0 .. Len(s)
      BY <1>1, <2>1
    <3> DEFINE a == EncodePacket(s[n])
               b == t[n]
    <3>2. t[n - 1] = a \o b
      BY <2>1, Zenon DEF Rests
    <3>3. a \in Bytes
      <4>1. s[n] \in Packet
        BY <2>1, ElementOfSeq, Zenon
      <4>2. s[n] \in AnyPacket /\ Encodable(s[n])
        BY <2>1, <4>1, PacketAssumption
      <4> QED BY <4>2, DecodedAsEncoded, Zenon
    <3>4. b \in Bytes
      BY <3>1, Zenon DEF Rests
    <3> HIDE DEF a, b
    <3>5. (a \o b) \o e = a \o (b \o e)
      BY <1>2, <3>3, <3>4, Joined, Zenon
    <3> QED BY <1>3, <1>4, <2>1, <3>1, <3>2, <3>5, Zenon DEF a, b
  <2>2. CASE n = Len(s) + 1
    <3>1. n - 1 = Len(s) /\ Len(s) \in 0 .. Len(s)
      BY <1>1, <2>2
    <3>2. u[n - 1] = <<>> \o e
      BY <1>4, <3>1, Zenon DEF Rests
    <3>3. <<>> \o e = e /\ e \o <<>> = e
      BY <1>2, ConcatEmptySeq, Zenon DEF Bytes
    <3> QED BY <1>3, <1>4, <2>2, <3>2, <3>3, Zenon DEF e
  <2> QED BY <1>1, <1>3, <2>1, <2>2
<1>7. Rests(r, u)
  BY <1>3, <1>4, <1>5, <1>6, Zenon DEF Rests
<1> QED BY <1>4, <1>7, Zenon DEF e, r

-----------------------------------------------------------------------------
\* What an encoded packet is to next_frame.
LEMMA EncodedFrame ==
  ASSUME NEW p \in AnyPacket, Encodable(p)
  PROVE  /\ EncodePacket(p) \in Bytes
         /\ \A rest \in Bytes :
              NextFrame(EncodePacket(p) \o rest) = [is |-> "Ready", frame |-> EncodePacket(p)]
         /\ \A n \in Nat : n < Len(EncodePacket(p)) =>
              LET part == SubSeq(EncodePacket(p), 1, n)
                  lacks == Len(EncodePacket(p)) - n
              IN  /\ NextFrame(part).is = "Need"
                  /\ NextFrame(part).bytes \in 1 .. lacks
                  /\ ParseFixedHeader(part) # NeedMore => NextFrame(part).bytes = lacks
<1> DEFINE first == 16 * TypeCode(p.type) + Flags(p)
           body == Body(p)
<1>1. first \in Byte /\ body \in Bytes /\ Len(body) <= MaxRemainingLen
  BY EncodedParts, Zenon
<1>2. EncodePacket(p) = Framed(first, body)
  BY Zenon DEF EncodePacket
<1>3. EncodePacket(p) \in Bytes
  BY DecodedAsEncoded, Zenon
<1> HIDE DEF first, body
<1>4. ASSUME NEW rest \in Bytes
      PROVE  NextFrame(EncodePacket(p) \o rest) = [is |-> "Ready", frame |-> EncodePacket(p)]
  BY <1>1, <1>2, FrameFound
<1>5. ASSUME NEW n \in Nat, n < Len(EncodePacket(p))
      PROVE  LET part == SubSeq(EncodePacket(p), 1, n)
                 lacks == Len(EncodePacket(p)) - n
             IN  /\ NextFrame(part).is = "Need"
                 /\ NextFrame(part).bytes \in 1 .. lacks
                 /\ ParseFixedHeader(part) # NeedMore => NextFrame(part).bytes = lacks
  BY <1>1, <1>2, <1>5, FrameAwaited
<1> QED BY <1>3, <1>4, <1>5

\* What next_frame answers when the packets s are on their way, those after
\* the k-th in the buffer and on the wire.
Waiting(s, k, bytes) ==
  LET e == EncodePacket(s[k + 1])
      next == NextFrame(bytes)
  IN  /\ Len(bytes) < Len(e)
      /\ next.is = "Need"
      /\ next.bytes \in 1 .. Len(e) - Len(bytes)
      /\ ParseFixedHeader(bytes) # NeedMore => next.bytes = Len(e) - Len(bytes)

\* Or the next one has arrived, and what follows it are the others.
Arrived(s, k, bytes, more, t) ==
  LET e == EncodePacket(s[k + 1])
  IN  /\ NextFrame(bytes) = [is |-> "Ready", frame |-> e]
      /\ SubSeq(bytes, Len(e) + 1, Len(bytes)) \o more = t[k + 1]

\* However the reads cut the stream, it is one or the other, or all is read.
LEMMA OnTheWay ==
  ASSUME NEW s \in Seq(Packet), \A i \in 1 .. Len(s) : Encodable(s[i]), NEW t, Rests(s, t),
         NEW k \in 0 .. Len(s), NEW bytes \in Bytes, NEW more \in Bytes, bytes \o more = t[k]
  PROVE  \/ k = Len(s) /\ bytes = <<>> /\ NextFrame(bytes).is = "Need"
         \/ k + 1 \in 1 .. Len(s) /\ Waiting(s, k, bytes)
         \/ k + 1 \in 1 .. Len(s) /\ Arrived(s, k, bytes, more, t)
<1>1. Len(s) \in Nat /\ Len(bytes) \in Nat
  BY LenProperties DEF Bytes
<1>2. CASE k = Len(s)
  <2>1. bytes \o more = <<>>
    BY <1>2, Zenon DEF Rests
  <2>2. bytes = <<>>
    BY <2>1, ConcatEqualIffEmpty DEF Bytes
  <2>3. NextFrame(<<>>).is = "Need"
    BY DEF NextFrame, ParseFixedHeader
  <2> QED BY <1>2, <2>2, <2>3, Zenon
<1>3. CASE k # Len(s)
  <2>1. k + 1 \in 1 .. Len(s) /\ (k + 1) - 1 = k /\ k + 1 \in 0 .. Len(s)
    BY <1>1, <1>3
  <2> DEFINE p == s[k + 1]
             e == EncodePacket(p)
             r == t[k + 1]
  <2>2. p \in AnyPacket /\ Encodable(p)
    <3>1. p \in Packet /\ Encodable(p)
      BY <2>1, ElementOfSeq, Zenon
    <3> QED BY <3>1, PacketAssumption
  <2>3. t[k] = e \o r /\ r \in Bytes
    BY <2>1, Zenon DEF Rests
  <2> HIDE DEF p
  <2>4. /\ e \in Bytes
        /\ \A rest \in Bytes : NextFrame(e \o rest) = [is |-> "Ready", frame |-> e]
    BY <2>2, EncodedFrame, Zenon
  <2>5. Len(e) \in Nat
    BY <2>4, LenProperties DEF Bytes
  <2>6. CASE Len(bytes) < Len(e)
    <3>1. /\ NextFrame(SubSeq(e, 1, Len(bytes))).is = "Need"
          /\ NextFrame(SubSeq(e, 1, Len(bytes))).bytes \in 1 .. Len(e) - Len(bytes)
          /\ ParseFixedHeader(SubSeq(e, 1, Len(bytes))) # NeedMore =>
               NextFrame(SubSeq(e, 1, Len(bytes))).bytes = Len(e) - Len(bytes)
      BY <1>1, <2>2, <2>6, EncodedFrame
    <3> HIDE DEF e, r
    <3>2. Len(bytes) <= Len(e)
      BY <1>1, <2>5, <2>6
    <3>3. bytes \o more = e \o r
      BY <2>3, Zenon
    <3>4. SubSeq(e, 1, Len(bytes)) = bytes
      BY <2>3, <2>4, <3>2, <3>3, TwoCuts, Zenon
    <3>5. Waiting(s, k, bytes)
      BY <2>6, <3>1, <3>4, Zenon DEF Waiting, e, p
    <3> QED BY <2>1, <3>5, Zenon
  <2>7. CASE Len(e) <= Len(bytes)
    <3> HIDE DEF e, r
    <3> DEFINE rest == SubSeq(bytes, Len(e) + 1, Len(bytes))
    <3>1. bytes \o more = e \o r
      BY <2>3, Zenon
    <3>2. rest \in Bytes /\ bytes = e \o rest /\ rest \o more = r
      <4>1. e \in Bytes /\ r \in Bytes /\ Len(e) <= Len(bytes)
        BY <2>3, <2>4, <2>7, Zenon
      <4>2. Overlap(bytes, more, e, r)
        BY <3>1, <4>1, CutAgain, Zenon
      <4> QED BY <4>2, Zenon DEF Overlap
    <3> HIDE DEF rest
    <3>3. NextFrame(bytes) = [is |-> "Ready", frame |-> e]
      BY <2>4, <3>2, Zenon
    <3>4. Arrived(s, k, bytes, more, t)
      BY <3>2, <3>3, Zenon DEF Arrived, rest, e, r, p
    <3> QED BY <2>1, <3>4, Zenon
  <2> QED BY <1>1, <2>5, <2>6, <2>7
<1> QED BY <1>2, <1>3, Zenon

-----------------------------------------------------------------------------
(***************************************************************************)
(* The invariant: received is the front of sent, and what is in the buffer *)
(* and on the wire are the other packets, one after the other.             *)
(***************************************************************************)
InStream ==
  ~faulty => /\ ~failed
             /\ Len(received) <= Len(sent)
             /\ \A i \in 1 .. Len(received) : received[i] = sent[i]
             /\ \E t : Rests(sent, t) /\ buf \o wire = t[Len(received)]

\* With it, the types and what holds of the last frame, it is inductive.
IInv ==
  /\ TypeOK
  /\ \A i \in 1 .. Len(sent) : Encodable(sent[i])
  /\ InStream
  /\ DecodesWhatIsEncoded

-----------------------------------------------------------------------------
\* The types are what next_frame and encode_packet need.
LEMMA Typed ==
  ASSUME TypeOK
  PROVE  /\ sent \in Seq(Packet) /\ Len(sent) \in Nat
         /\ wire \in Bytes /\ buf \in Bytes /\ frame \in Bytes
         /\ received \in Seq(AnyPacket) /\ Len(received) \in Nat
         /\ failed \in BOOLEAN /\ faulty \in BOOLEAN
BY LenProperties DEF TypeOK, Bytes

\* It holds at first.
LEMMA Started == Init => IInv
<1> SUFFICES ASSUME Init PROVE IInv
  OBVIOUS
<1> USE DEF Init
<1>1. TypeOK
  BY EmptySeq DEF TypeOK
<1>2. Len(sent) = 0 /\ Len(received) = 0
  BY EmptySeq
<1>3. \A i \in 1 .. Len(sent) : Encodable(sent[i])
  BY <1>2
<1>4. \E t : Rests(sent, t) /\ buf \o wire = t[Len(received)]
  <2> DEFINE t == [n \in {0} |-> <<>>]
  <2>1. <<>> \in Bytes /\ buf \o wire = <<>>
    BY EmptySeq, ConcatEmptySeq DEF Bytes
  <2>2. t[0] = <<>>
    OBVIOUS
  <2> HIDE DEF t
  <2>3. \A n \in 0 .. Len(sent) : t[n] \in Bytes
    BY <1>2, <2>1, <2>2
  <2>4. \A n \in 1 .. Len(sent) : FALSE
    BY <1>2
  <2>5. Rests(sent, t)
    BY <1>2, <2>2, <2>3, <2>4, Zenon DEF Rests
  <2> QED BY <1>2, <2>1, <2>2, <2>5, Zenon
<1>5. InStream
  BY <1>2, <1>4 DEF InStream
<1>6. DecodesWhatIsEncoded
  BY Zenon DEF DecodesWhatIsEncoded
<1> QED BY <1>1, <1>3, <1>5, <1>6, Zenon DEF IInv

\* What is the same whether or not a byte is wrong.
LEMMA WritesKeep ==
  ASSUME IInv, NEW p \in Packet, NEW bytes \in Bytes, Write(p, bytes), faulty' \in BOOLEAN
  PROVE  /\ TypeOK'
         /\ (\A i \in 1 .. Len(sent) : Encodable(sent[i]))'
         /\ DecodesWhatIsEncoded'
<1>1. TypeOK /\ \A i \in 1 .. Len(sent) : Encodable(sent[i])
  BY Zenon DEF IInv
<1>2. /\ sent' = Append(sent, p) /\ wire' = wire \o bytes /\ Encodable(p)
      /\ UNCHANGED <<buf, received, frame, failed>>
  BY DEF Write
<1>3. /\ Append(sent, p) \in Seq(Packet)
      /\ Len(Append(sent, p)) = Len(sent) + 1
      /\ \A i \in 1 .. Len(sent) : Append(sent, p)[i] = sent[i]
      /\ Append(sent, p)[Len(sent) + 1] = p
  BY <1>1, Typed, AppendProperties
<1>4. wire \o bytes \in Bytes
  BY <1>1, Typed, CutBytes, Zenon
<1>5. TypeOK'
  BY <1>1, <1>2, <1>3, <1>4 DEF TypeOK, Bytes
<1>6. \A i \in 1 .. Len(sent') : Encodable(sent'[i])
  <2>1. \A i \in 1 .. Len(sent) + 1 : i \in 1 .. Len(sent) \/ i = Len(sent) + 1
    BY <1>1, Typed
  <2> QED BY <1>1, <1>2, <1>3, <2>1, Zenon
<1>7. DecodesWhatIsEncoded'
  BY <1>2 DEF IInv, DecodesWhatIsEncoded
<1> QED BY <1>5, <1>6, <1>7, Zenon

\* A packet that is written follows the others.
LEMMA Sending ==
  ASSUME IInv, NEW p \in Packet, Send(p)
  PROVE  IInv'
<1> DEFINE e == EncodePacket(p)
<1>1. Write(p, e) /\ faulty' = faulty
  BY DEF Send
<1>2. /\ sent' = Append(sent, p) /\ wire' = wire \o e /\ Encodable(p) /\ ~faulty
      /\ buf' = buf /\ received' = received /\ failed' = failed
  BY <1>1 DEF Write
<1>3. e \in Bytes
  BY <1>2, PacketAssumption, DecodedAsEncoded
<1> HIDE DEF e
<1>4. TypeOK /\ \A i \in 1 .. Len(sent) : Encodable(sent[i])
  BY Zenon DEF IInv
<1>5. /\ sent \in Seq(Packet) /\ Len(sent) \in Nat /\ wire \in Bytes /\ buf \in Bytes
      /\ Len(received) \in Nat /\ faulty \in BOOLEAN
  BY <1>4, Typed, Zenon
<1>6. /\ TypeOK'
      /\ (\A i \in 1 .. Len(sent) : Encodable(sent[i]))'
      /\ DecodesWhatIsEncoded'
  BY <1>1, <1>3, <1>5, WritesKeep
<1>7. PICK t : Rests(sent, t) /\ buf \o wire = t[Len(received)]
  BY <1>2, Zenon DEF IInv, InStream
<1>8. /\ ~failed /\ Len(received) <= Len(sent)
      /\ \A i \in 1 .. Len(received) : received[i] = sent[i]
  BY <1>2, Zenon DEF IInv, InStream
<1>9. PICK u : /\ Rests(Append(sent, p), u)
               /\ \A n \in 0 .. Len(sent) : u[n] = t[n] \o e
  <2>1. \E u : Rests(Append(sent, p), u)
               /\ \A n \in 0 .. Len(sent) : u[n] = t[n] \o EncodePacket(p)
    BY <1>2, <1>4, <1>5, <1>7, OneMore
  <2> QED BY <2>1, Zenon DEF e
<1>10. Rests(sent', u) /\ buf' \o wire' = u[Len(received')]
  <2>1. Len(received) \in 0 .. Len(sent)
    BY <1>5, <1>8
  <2>2. (buf \o wire) \o e = buf \o (wire \o e)
    BY <1>3, <1>5, Joined, Zenon
  <2> QED BY <1>2, <1>7, <1>9, <2>1, <2>2, Zenon
<1>11. /\ Len(received') <= Len(sent')
       /\ \A i \in 1 .. Len(received') : received'[i] = sent'[i]
  <2>1. /\ Len(Append(sent, p)) = Len(sent) + 1
        /\ \A i \in 1 .. Len(sent) : Append(sent, p)[i] = sent[i]
    BY <1>5, AppendProperties
  <2>2. Len(received) <= Len(sent) + 1 /\ \A i \in 1 .. Len(received) : i \in 1 .. Len(sent)
    BY <1>5, <1>8
  <2> QED BY <1>2, <1>8, <2>1, <2>2, Zenon
<1>12. InStream'
  BY <1>2, <1>8, <1>10, <1>11, Zenon DEF InStream
<1> QED BY <1>6, <1>12, Zenon DEF IInv

\* A packet with a wrong byte is the last, and only types count from then on.
LEMMA SendingWrong ==
  ASSUME IInv, NEW p \in Packet, SendWrong(p)
  PROVE  IInv'
<1>1. PICK bytes \in Wrong(EncodePacket(p)) : Write(p, bytes)
  BY DEF SendWrong
<1>2. faulty' = TRUE /\ Encodable(p)
  BY <1>1 DEF SendWrong, Write
<1>3. EncodePacket(p) \in Bytes
  BY <1>2, PacketAssumption, DecodedAsEncoded
<1>4. bytes \in Bytes
  <2> DEFINE e == EncodePacket(p)
  <2>1. PICK i \in {n \in WrongAt : n <= Len(e)}, byte \in WrongByte : bytes = [e EXCEPT ![i] = byte]
    BY <1>1 DEF Wrong
  <2> HIDE DEF e
  <2>2. e \in Seq(Byte) /\ Len(e) \in Nat
    BY <1>3, LenProperties DEF e, Bytes
  <2>3. i \in 1 .. Len(e) /\ byte \in Byte
    BY <2>2, WrongAssumption
  <2> QED BY <2>1, <2>2, <2>3, ExceptSeq, Zenon DEF Bytes
<1>5. /\ TypeOK'
      /\ (\A i \in 1 .. Len(sent) : Encodable(sent[i]))'
      /\ DecodesWhatIsEncoded'
  BY <1>1, <1>2, <1>4, WritesKeep
<1>6. InStream'
  BY <1>2 DEF InStream
<1> QED BY <1>5, <1>6, Zenon DEF IInv

\* What a read takes from the wire goes to the end of the buffer.
LEMMA Pushing ==
  ASSUME IInv, Push
  PROVE  IInv'
<1>1. TypeOK
  BY Zenon DEF IInv
<1>2. wire \in Bytes /\ buf \in Bytes /\ Len(wire) \in Nat
  BY <1>1, Typed, LenProperties DEF Bytes
<1>3. PICK n \in {k \in Chunk : k < Len(wire)} \cup {Len(wire)} :
        /\ buf' = buf \o SubSeq(wire, 1, n)
        /\ wire' = SubSeq(wire, n + 1, Len(wire))
  BY DEF Push
<1>4. UNCHANGED <<sent, received, frame, failed, faulty>>
  BY DEF Push
<1>5. n \in 0 .. Len(wire)
  BY <1>2, ChunkAssumption
<1> DEFINE a == SubSeq(wire, 1, n)
           b == SubSeq(wire, n + 1, Len(wire))
<1>6. a \in Bytes /\ b \in Bytes /\ a \o b = wire
  BY <1>2, <1>5, PartsOfBytes, Zenon
<1> HIDE DEF a, b
<1>7. buf' = buf \o a /\ wire' = b
  BY <1>3, Zenon DEF a, b
<1>8. buf \o a \in Bytes
  BY <1>2, <1>6, CutBytes, Zenon
<1>9. (buf \o a) \o b = buf \o (a \o b)
  BY <1>2, <1>6, Joined, Zenon
<1>10. buf' \o wire' = buf \o wire
  BY <1>6, <1>7, <1>9, Zenon
<1>11. TypeOK'
  BY <1>1, <1>4, <1>6, <1>7, <1>8 DEF TypeOK, Bytes
<1>12. InStream'
  <2>1. InStream
    BY Zenon DEF IInv
  <2> QED BY <1>4, <1>10, <2>1 DEF InStream
<1>13. /\ (\A i \in 1 .. Len(sent) : Encodable(sent[i]))'
       /\ DecodesWhatIsEncoded'
  BY <1>4 DEF IInv, DecodesWhatIsEncoded
<1> QED BY <1>11, <1>12, <1>13, Zenon DEF IInv

-----------------------------------------------------------------------------
\* What next_frame finds, as long as no byte is wrong.
LEMMA Finds ==
  ASSUME IInv, ~faulty
  PROVE  LET k == Len(received)
         IN  \/ k = Len(sent) /\ buf = <<>> /\ NextFrame(buf).is = "Need"
             \/ k + 1 \in 1 .. Len(sent) /\ Waiting(sent, k, buf)
             \/ /\ k + 1 \in 1 .. Len(sent)
                /\ \E t : Rests(sent, t) /\ Arrived(sent, k, buf, wire, t)
<1>1. TypeOK /\ \A i \in 1 .. Len(sent) : Encodable(sent[i])
  BY Zenon DEF IInv
<1>2. /\ sent \in Seq(Packet) /\ Len(sent) \in Nat /\ wire \in Bytes /\ buf \in Bytes
      /\ Len(received) \in Nat
  BY <1>1, Typed, Zenon
<1>3. PICK t : Rests(sent, t) /\ buf \o wire = t[Len(received)]
  BY Zenon DEF IInv, InStream
<1>4. Len(received) \in 0 .. Len(sent)
  <2>1. Len(received) <= Len(sent)
    BY Zenon DEF IInv, InStream
  <2> QED BY <1>2, <2>1
<1> QED BY <1>1, <1>2, <1>3, <1>4, OnTheWay, Zenon

\* Of a packet that has arrived, decode_packet makes that packet.
LEMMA Takes ==
  ASSUME IInv, ~faulty, NextFrame(buf).is = "Ready"
  PROVE  LET k == Len(received)
             f == NextFrame(buf).frame
         IN  /\ k + 1 \in 1 .. Len(sent)
             /\ DecodePacket(f) = sent[k + 1]
             /\ DecodePacket(f) # Malformed
             /\ \E t : Rests(sent, t) /\ SubSeq(buf, Len(f) + 1, Len(buf)) \o wire = t[k + 1]
<1> DEFINE k == Len(received)
<1>1. ~(NextFrame(buf).is = "Need")
  OBVIOUS
<1>2. /\ k + 1 \in 1 .. Len(sent)
      /\ \E t : Rests(sent, t) /\ Arrived(sent, k, buf, wire, t)
  BY <1>1, Finds, Zenon DEF Waiting
<1>3. PICK t : Rests(sent, t) /\ Arrived(sent, k, buf, wire, t)
  BY <1>2, Zenon
<1> DEFINE p == sent[k + 1]
<1>4. p \in AnyPacket /\ Encodable(p)
  <2>1. sent \in Seq(Packet)
    BY Typed, Zenon DEF IInv
  <2>2. p \in Packet /\ Encodable(p)
    BY <1>2, <2>1, ElementOfSeq, Zenon DEF IInv
  <2> QED BY <2>2, PacketAssumption
<1> HIDE DEF p
<1>5. DecodePacket(EncodePacket(p)) = p /\ p # Malformed
  BY <1>4, DecodedAsEncoded, Zenon
<1>6. /\ NextFrame(buf) = [is |-> "Ready", frame |-> EncodePacket(p)]
      /\ SubSeq(buf, Len(EncodePacket(p)) + 1, Len(buf)) \o wire = t[k + 1]
  BY <1>3, Zenon DEF Arrived, p
<1>7. NextFrame(buf).frame = EncodePacket(p)
  BY <1>6
<1> QED BY <1>2, <1>3, <1>5, <1>6, <1>7, Zenon DEF p

\* What next_packet takes is the next packet that was sent.
LEMMA TakingPacket ==
  ASSUME IInv, NextPacket
  PROVE  IInv'
<1> DEFINE f == NextFrame(buf).frame
           packet == DecodePacket(f)
<1>1. /\ ~failed
      /\ NextFrame(buf).is = "Ready"
      /\ frame' = f
      /\ buf' = SubSeq(buf, Len(f) + 1, Len(buf))
      /\ failed' = (packet = Malformed)
      /\ received' = IF packet = Malformed THEN received ELSE Append(received, packet)
      /\ sent' = sent /\ wire' = wire /\ faulty' = faulty
  BY DEF NextPacket
<1>2. TypeOK /\ \A i \in 1 .. Len(sent) : Encodable(sent[i])
  BY Zenon DEF IInv
<1>3. /\ wire \in Bytes /\ buf \in Bytes /\ received \in Seq(AnyPacket)
      /\ Len(received) \in Nat /\ Len(sent) \in Nat /\ faulty \in BOOLEAN
  BY <1>2, Typed, Zenon
<1>4. Whole(f) /\ Len(f) \in 0 .. Len(buf)
  BY <1>1, <1>3, ReadyFrame, Zenon
<1>5. f \in Bytes /\ buf' \in Bytes
  BY <1>1, <1>3, <1>4, PartsOfBytes, Zenon DEF Whole
<1>6. packet # Malformed => /\ packet \in AnyPacket
                            /\ Encodable(packet)
                            /\ EncodePacket(packet)[1] = f[1]
                            /\ IsSuffix(Body(packet), f)
                            /\ Len(f) = 1 + DecodeRemainingLength(Tail(f)).len + Len(Body(packet))
  <2> HIDE DEF f
  <2> QED BY <1>4, EncodedAsDecoded
<1>7. ~faulty => /\ Len(received) + 1 \in 1 .. Len(sent)
                 /\ packet = sent[Len(received) + 1]
                 /\ packet # Malformed
                 /\ \E t : Rests(sent, t) /\ buf' \o wire' = t[Len(received) + 1]
  BY <1>1, Takes, Zenon
<1> HIDE DEF f, packet
<1>8. packet # Malformed => /\ received' \in Seq(AnyPacket)
                            /\ Len(received') = Len(received) + 1
                            /\ \A i \in 1 .. Len(received) : received'[i] = received[i]
                            /\ received'[Len(received) + 1] = packet
  BY <1>1, <1>3, <1>6, AppendProperties
<1>9. TypeOK'
  <2>1. received' \in Seq(AnyPacket)
    BY <1>1, <1>3, <1>8, Zenon
  <2>2. sent' \in Seq(Packet) /\ wire' \in Bytes /\ faulty' \in BOOLEAN
    BY <1>1, <1>2, Typed, Zenon
  <2>3. frame' \in Bytes /\ buf' \in Bytes /\ failed' \in BOOLEAN
    BY <1>1, <1>5
  <2> QED BY <2>1, <2>2, <2>3, Zenon DEF TypeOK, Bytes
<1>10. InStream'
  <2> SUFFICES ASSUME ~faulty
               PROVE  /\ ~failed'
                      /\ Len(received') <= Len(sent')
                      /\ \A i \in 1 .. Len(received') : received'[i] = sent'[i]
                      /\ \E t : Rests(sent', t) /\ buf' \o wire' = t[Len(received')]
    BY <1>1, Zenon DEF InStream
  <2>1. ~failed' /\ Len(received') = Len(received) + 1
    BY <1>1, <1>7, <1>8, Zenon
  <2>2. \E t : Rests(sent', t) /\ buf' \o wire' = t[Len(received')]
    BY <1>1, <1>7, <2>1, Zenon
  <2>3. \A i \in 1 .. Len(received) : received[i] = sent[i]
    BY Zenon DEF IInv, InStream
  <2>4. ASSUME NEW i \in 1 .. Len(received') PROVE received'[i] = sent'[i]
    <3>1. CASE i \in 1 .. Len(received)
      BY <1>1, <1>7, <1>8, <2>3, <3>1, Zenon
    <3>2. CASE i = Len(received) + 1
      BY <1>1, <1>7, <1>8, <3>2, Zenon
    <3> QED BY <1>3, <2>1, <3>1, <3>2
  <2>5. Len(received') <= Len(sent')
    BY <1>1, <1>3, <1>7, <2>1
  <2> QED BY <2>1, <2>2, <2>4, <2>5, Zenon
<1>11. DecodesWhatIsEncoded'
  <2> SUFFICES ASSUME packet # Malformed
               PROVE  /\ Encodable(Last(received'))
                      /\ EncodePacket(Last(received'))[1] = frame'[1]
                      /\ IsSuffix(Body(Last(received')), frame')
                      /\ Len(frame') = 1 + DecodeRemainingLength(Tail(frame')).len
                                         + Len(Body(Last(received')))
    BY <1>1, Zenon DEF DecodesWhatIsEncoded
  <2>1. Last(received') = packet
    BY <1>8, Zenon DEF Last
  <2> QED BY <1>1, <1>6, <2>1, Zenon
<1>12. (\A i \in 1 .. Len(sent) : Encodable(sent[i]))'
  BY <1>1, <1>2, Zenon
<1> QED BY <1>9, <1>10, <1>11, <1>12, Zenon DEF IInv

\* A header is refused only when a byte was wrong.
LEMMA RefusingHeader ==
  ASSUME IInv, BadHeader
  PROVE  IInv'
<1>1. /\ NextFrame(buf).is = "Err" /\ failed' = TRUE
      /\ UNCHANGED <<sent, wire, buf, received, frame, faulty>>
  BY DEF BadHeader
<1>2. faulty
  <2>1. ~faulty => FALSE
    <3> SUFFICES ASSUME ~faulty PROVE FALSE
      OBVIOUS
    <3>1. ~(NextFrame(buf).is = "Need")
      BY <1>1
    <3>2. \E t : Arrived(sent, Len(received), buf, wire, t)
      BY <3>1, Finds, Zenon DEF Waiting
    <3>3. NextFrame(buf) = [is |-> "Ready", frame |-> EncodePacket(sent[Len(received) + 1])]
      BY <3>2, Zenon DEF Arrived
    <3> QED BY <1>1, <3>3
  <2>2. faulty \in BOOLEAN
    BY Typed, Zenon DEF IInv
  <2> QED BY <2>1, <2>2, Zenon
<1>3. TypeOK'
  BY <1>1 DEF IInv, TypeOK
<1>4. InStream' /\ DecodesWhatIsEncoded'
  BY <1>1, <1>2 DEF InStream, DecodesWhatIsEncoded
<1>5. (\A i \in 1 .. Len(sent) : Encodable(sent[i]))'
  BY <1>1 DEF IInv
<1> QED BY <1>3, <1>4, <1>5, Zenon DEF IInv

\* Every step keeps the invariant.
LEMMA Kept ==
  ASSUME IInv, [Next]_vars
  PROVE  IInv'
<1>1. CASE \E p \in Packet : Send(p)
  BY <1>1, Sending, Zenon
<1>2. CASE \E p \in Packet : SendWrong(p)
  BY <1>2, SendingWrong, Zenon
<1>3. CASE Push
  BY <1>3, Pushing, Zenon
<1>4. CASE NextPacket
  BY <1>4, TakingPacket, Zenon
<1>5. CASE BadHeader
  BY <1>5, RefusingHeader, Zenon
<1>6. CASE UNCHANGED vars
  BY <1>6 DEF vars, IInv, TypeOK, InStream, DecodesWhatIsEncoded
<1> QED BY <1>1, <1>2, <1>3, <1>4, <1>5, <1>6, Zenon DEF Next, Parse

\* The invariant of the specification.
LEMMA Invariant == Spec => []IInv
BY Started, Kept, PTL DEF Spec

-----------------------------------------------------------------------------
\* What is written, buffered and cut off are bytes, and whatever the peer
\* writes, next_packet answers packets, every field within its type.
THEOREM StreamTypes == Spec => []TypeOK
<1>1. IInv => TypeOK
  BY Zenon DEF IInv
<1> QED BY Invariant, <1>1, PTL

\* As long as the peer writes what encode_packet does, next_packet answers what
\* was sent, in order, and no error, however the reads cut it: for any packets.
THEOREM ReceivedAsSent == Spec => []InOrder
<1>1. IInv => InOrder
  <2> SUFFICES ASSUME IInv, ~faulty PROVE IsPrefix(received, sent) /\ ~failed
    BY Zenon DEF InOrder
  <2>1. /\ ~failed /\ Len(received) <= Len(sent)
        /\ \A i \in 1 .. Len(received) : received[i] = sent[i]
    BY Zenon DEF IInv, InStream
  <2>2. /\ sent \in Seq(Packet) /\ received \in Seq(AnyPacket)
        /\ Len(sent) \in Nat /\ Len(received) \in Nat
    BY Typed, Zenon DEF IInv
  <2>3. sent \in Seq(AnyPacket)
    BY <2>2, PacketAssumption, SeqMonotonic, Zenon
  <2>4. SubSeq(sent, 1, Len(received)) = received
    BY <2>1, <2>2, <2>3, SameFront, Zenon
  <2>5. SubSeq(received, 1, Len(received)) = received
    BY <2>2, SubSeqFull, Zenon
  <2> QED BY <2>1, <2>4, <2>5, Zenon DEF IsPrefix
<1> QED BY Invariant, <1>1, PTL

\* next_frame never wants more bytes than the packet lacks that has begun, and
\* exactly those once the fixed header is there.
THEOREM WantsWhatIsLacking == Spec => []NeedExact
<1>1. IInv => NeedExact
  <2> DEFINE k == Len(received)
             e == EncodePacket(sent[k + 1])
             next == NextFrame(buf)
  <2> SUFFICES ASSUME IInv, ~faulty, next.is = "Need", k < Len(sent)
               PROVE  /\ next.bytes <= Len(e) - Len(buf)
                      /\ ParseFixedHeader(buf) # NeedMore => next.bytes = Len(e) - Len(buf)
    BY Zenon DEF NeedExact
  <2>1. Len(sent) \in Nat /\ k \in Nat
    BY Typed, Zenon DEF IInv
  <2>2. k # Len(sent)
    BY <2>1
  <2>3. ~\E t : Arrived(sent, k, buf, wire, t)
    <3>1. next # [is |-> "Ready", frame |-> e]
      OBVIOUS
    <3> QED BY <3>1, Zenon DEF Arrived
  <2>4. Waiting(sent, k, buf)
    BY <2>2, <2>3, Finds, Zenon
  <2>5. /\ next.bytes \in 1 .. Len(e) - Len(buf)
        /\ ParseFixedHeader(buf) # NeedMore => next.bytes = Len(e) - Len(buf)
    BY <2>4, Zenon DEF Waiting
  <2> HIDE DEF e, next
  <2>6. \A x, y : x \in 1 .. y => x <= y
    OBVIOUS
  <2> QED BY <2>5, <2>6, Zenon
<1> QED BY Invariant, <1>1, PTL

\* Whatever the peer writes, decode_packet accepts nothing that encode_packet
\* could not have written, but for the digits of the length.
THEOREM AcceptsWhatIsEncoded == Spec => []DecodesWhatIsEncoded
<1>1. IInv => DecodesWhatIsEncoded
  BY Zenon DEF IInv
<1> QED BY Invariant, <1>1, PTL

\* When all has been read and next_frame wants more, every packet has been
\* answered and the buffer is empty.
THEOREM NothingStays == Spec => []AllReceived
<1>1. IInv => AllReceived
  <2> SUFFICES ASSUME IInv, ~faulty, wire = <<>>, NextFrame(buf).is = "Need"
               PROVE  received = sent /\ buf = <<>>
    BY Zenon DEF AllReceived
  <2> DEFINE k == Len(received)
  <2>1. /\ sent \in Seq(Packet) /\ received \in Seq(AnyPacket) /\ buf \in Bytes
        /\ Len(sent) \in Nat /\ k \in Nat
    BY Typed, Zenon DEF IInv
  <2>2. /\ k <= Len(sent)
        /\ \A i \in 1 .. k : received[i] = sent[i]
    BY Zenon DEF IInv, InStream
  <2>3. ~\E t : Arrived(sent, k, buf, wire, t)
    <3>1. \A e : NextFrame(buf) # [is |-> "Ready", frame |-> e]
      OBVIOUS
    <3> QED BY <3>1, Zenon DEF Arrived
  <2>4. ~(k + 1 \in 1 .. Len(sent) /\ Waiting(sent, k, buf))
    <3> SUFFICES ASSUME k + 1 \in 1 .. Len(sent), Waiting(sent, k, buf) PROVE FALSE
      BY Zenon
    <3>1. PICK t : Rests(sent, t) /\ buf \o wire = t[k]
      BY Zenon DEF IInv, InStream
    <3> DEFINE e == EncodePacket(sent[k + 1])
               r == t[k + 1]
    <3>2. (k + 1) - 1 = k /\ k + 1 \in 0 .. Len(sent)
      BY <2>1
    <3>3. t[k] = e \o r /\ r \in Bytes
      BY <3>1, <3>2, Zenon DEF Rests
    <3>4. e \in Bytes
      <4>1. sent[k + 1] \in Packet /\ Encodable(sent[k + 1])
        BY <2>1, ElementOfSeq, Zenon DEF IInv
      <4>2. sent[k + 1] \in AnyPacket
        BY <4>1, PacketAssumption
      <4> QED BY <4>1, <4>2, DecodedAsEncoded, Zenon
    <3>5. Len(buf) < Len(e)
      BY Zenon DEF Waiting
    <3> HIDE DEF e, r
    <3>6. buf = e \o r
      <4>1. buf \o <<>> = buf
        BY <2>1, ConcatEmptySeq, Zenon DEF Bytes
      <4> QED BY <3>1, <3>3, <4>1, Zenon
    <3>7. Len(buf) = Len(e) + Len(r) /\ Len(e) \in Nat /\ Len(r) \in Nat
      BY <3>3, <3>4, <3>6, CutBytes, Zenon
    <3> QED BY <3>5, <3>7
  <2>5. k = Len(sent) /\ buf = <<>>
    BY <2>3, <2>4, Finds, Zenon
  <2>6. sent \in Seq(AnyPacket)
    BY <2>1, PacketAssumption, SeqMonotonic, Zenon
  <2>7. received = sent
    BY <2>1, <2>2, <2>5, <2>6, SeqEqual, Zenon
  <2> QED BY <2>5, <2>7, Zenon
<1> QED BY Invariant, <1>1, PTL
=============================================================================

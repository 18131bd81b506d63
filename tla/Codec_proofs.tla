---------------------------- MODULE Codec_proofs ----------------------------
(***************************************************************************)
(* What the codec writes and reads, for all packets and all bytes:         *)
(*                                                                         *)
(* Framing: with the fixed header that the encoders write, next_frame      *)
(* finds every body again, of up to MaxRemainingLen bytes, however the     *)
(* reads cut it, and its frames end where their headers say.               *)
(*                                                                         *)
(* Packets: decode_packet makes of what encode_packet writes the packet it *)
(* was written from, and accepts nothing else but for the digits of the    *)
(* length.  The proofs follow the code: fields, one field after another,   *)
(* the loops over filters, and then the packets by type, each with two     *)
(* lemmas, RoundTrip and Faithful.                                         *)
(*                                                                         *)
(* Zenon cannot read a number as large as MaxRemainingLen, nor SMT a range *)
(* up to it: the lemmas MaxValue and Bounded keep it away from both, and   *)
(* the ranges of bytes have names.                                         *)
(***************************************************************************)
EXTENDS Packets, SequenceTheorems, WellFoundedInduction, TLAPS

\* A byte that another byte of a length follows, and one that ends it.
Continued == 128 .. 255
Ending == 0 .. 127

\* What encoders write and parsers read.
Bytes == Seq(Byte)

\* Which of the two a byte is shows in its value.
LEMMA ByteKinds ==
  /\ \A byte \in Continued : byte \in Byte /\ byte >= 128 /\ ~(byte < 128)
  /\ \A byte \in Ending : byte \in Byte /\ byte < 128 /\ ~(byte >= 128)
  BY SMT DEF Byte, Continued, Ending

\* One step of the loop in encode_remaining_length.
LEMMA DivMod ==
  ASSUME NEW x \in Nat
  PROVE  /\ x \div 128 \in Nat
         /\ x % 128 \in Ending
         /\ x = (x % 128) + (x \div 128) * 128
  BY SMT DEF Ending

\* The largest length, as far as the proofs need it.
LEMMA MaxValue == MaxRemainingLen \in Nat /\ MaxRemainingLen <= 268435455
  BY SMT DEF MaxRemainingLen

\* A length is a natural number, and four digits are enough for it.
LEMMA Bounded ==
  ASSUME NEW len \in 0 .. MaxRemainingLen
  PROVE  len \in Nat /\ len <= 268435455
  BY MaxValue, SMT

\* The powers of 128 that the digits stand for.
LEMMA Weights == \A i \in 1 .. 4 : Weight[i] \in {1, 128, 16384, 2097152}
  BY SMT DEF Weight

\* What is numbered from one on is a sequence.
LEMMA Numbered ==
  ASSUME NEW S, NEW n \in Nat, NEW f \in [1 .. n -> S]
  PROVE  f \in Seq(S) /\ Len(f) = n
<1>1. f \in Seq(S)
  BY SeqDef, Zenon
<1> QED
  BY <1>1, LenProperties, SMT

\* encode_remaining_length writes one to four bytes.
LEMMA EncodedLength ==
  ASSUME NEW len \in 0 .. MaxRemainingLen
  PROVE  /\ EncodeRemainingLength(len) \in Bytes
         /\ Len(EncodeRemainingLength(len)) = Digits(len)
         /\ Digits(len) \in 1 .. 4
<1>1. Digits(len) \in 1 .. 4
  BY SMT DEF Digits
<1>2. \A i \in 1 .. 4 : len \div Weight[i] \in Nat
  BY Weights, Bounded, SMT
<1>3. \A i \in 1 .. 4 : (len \div Weight[i]) % 128 \in Ending
  BY <1>2, DivMod, SMT
<1>4. \A i \in 1 .. Digits(len) :
        ((len \div Weight[i]) % 128) + (IF i < Digits(len) THEN 128 ELSE 0) \in Byte
  BY <1>1, <1>3, SMT DEF Byte, Ending
<1>5. EncodeRemainingLength(len) \in [1 .. Digits(len) -> Byte]
  BY <1>4, SMT DEF EncodeRemainingLength
<1>6. Digits(len) \in Nat
  BY <1>1, SMT
<1>7. EncodeRemainingLength(len) \in Bytes /\ Len(EncodeRemainingLength(len)) = Digits(len)
  BY <1>5, <1>6, Numbered, Zenon DEF Bytes
<1> QED
  BY <1>1, <1>7, Zenon

\* The digits of a length, each times its weight, are the length.
LEMMA DigitsAddUp ==
  ASSUME NEW len \in 0 .. MaxRemainingLen
  PROVE  /\ Digits(len) = 1 => len % 128 = len
         /\ Digits(len) = 2 => (len % 128) + ((len \div 128) % 128) * 128 = len
         /\ Digits(len) = 3 =>
              (len % 128) + ((len \div 128) % 128) * 128 + ((len \div 16384) % 128) * 16384 = len
         /\ Digits(len) = 4 =>
              (len % 128) + ((len \div 128) % 128) * 128 + ((len \div 16384) % 128) * 16384
                + ((len \div 2097152) % 128) * 2097152 = len
<1>1. CASE len < 128
  BY <1>1, SMT DEF Digits
<1>2. CASE len >= 128 /\ len < 16384
  BY <1>2, SMT DEF Digits
<1>3. CASE len >= 16384 /\ len < 2097152
  BY <1>3, SMT DEF Digits
<1>4. CASE len >= 2097152
  <2> DEFINE b == len \div 128
             c == len \div 16384
             d == len \div 2097152
  <2>1. len \in Nat /\ len <= 268435455
    BY Bounded, SMT
  <2>2. b \in Nat /\ c \in Nat /\ d \in Nat
    BY <2>1, SMT
  <2>3. c = b \div 128 /\ d = c \div 128
    BY <2>1, SMT
  <2>4. d < 128
    BY <2>1, SMT
  <2>5. len = (len % 128) + b * 128
    BY <2>1, DivMod, SMT
  <2>6. b = (b % 128) + c * 128 /\ c = (c % 128) + d * 128
    BY <2>2, <2>3, DivMod, SMT
  <2>7. d % 128 = d
    BY <2>2, <2>4, SMT
  <2>8. Digits(len) = 4
    BY <1>4, <2>1, SMT DEF Digits
  <2>9. b % 128 \in Nat /\ c % 128 \in Nat /\ len % 128 \in Nat
    BY <2>1, <2>2, DivMod, SMT
  <2>10. (len % 128) + (b % 128) * 128 + (c % 128) * 16384 + (d % 128) * 2097152 = len
    <3> HIDE DEF b, c, d
    <3> QED BY <2>1, <2>2, <2>5, <2>6, <2>7, <2>9, SMT
  <2> QED
    BY <2>8, <2>10, SMT
<1>5. len \in Nat
  BY Bounded, SMT
<1> QED
  BY <1>1, <1>2, <1>3, <1>4, <1>5, SMT

\* The k first bytes of the encoded length, at the head of bytes.
StartsAs(bytes, len, k) ==
  /\ k <= Len(bytes)
  /\ \A i \in 1 .. k : bytes[i] = EncodeRemainingLength(len)[i]

\* A byte carries its digit, and is continued unless it is the last.
LEMMA EncodedByte ==
  ASSUME NEW len \in 0 .. MaxRemainingLen, NEW i \in 1 .. Digits(len)
  PROVE  /\ i < Digits(len) =>
              /\ EncodeRemainingLength(len)[i] \in Continued
              /\ EncodeRemainingLength(len)[i] % 128 = (len \div Weight[i]) % 128
         /\ i = Digits(len) =>
              /\ EncodeRemainingLength(len)[i] \in Ending
              /\ EncodeRemainingLength(len)[i] % 128 = (len \div Weight[i]) % 128
<1> DEFINE digit == (len \div Weight[i]) % 128
<1>1. i \in 1 .. 4
  BY EncodedLength, SMT
<1>2. len \div Weight[i] \in Nat
  BY <1>1, Weights, Bounded, SMT
<1>3. digit \in Ending
  BY <1>2, DivMod, SMT
<1>4. EncodeRemainingLength(len)[i] = digit + (IF i < Digits(len) THEN 128 ELSE 0)
  BY SMT DEF EncodeRemainingLength
<1> HIDE DEF digit
<1>5. i < Digits(len) => /\ EncodeRemainingLength(len)[i] \in Continued
                         /\ EncodeRemainingLength(len)[i] % 128 = digit
  BY <1>3, <1>4, SMT DEF Continued, Ending
<1>6. i = Digits(len) => /\ EncodeRemainingLength(len)[i] \in Ending
                         /\ EncodeRemainingLength(len)[i] % 128 = digit
  BY <1>3, <1>4, SMT DEF Continued, Ending
<1> QED
  BY <1>5, <1>6, SMT DEF digit

\* Every byte but the last is 128 or more.
LEMMA EncodedRange ==
  ASSUME NEW len \in 0 .. MaxRemainingLen, NEW i \in 1 .. Digits(len)
  PROVE  IF i < Digits(len) THEN EncodeRemainingLength(len)[i] \in Continued
                            ELSE EncodeRemainingLength(len)[i] \in Ending
<1>1. Digits(len) \in 1 .. 4 /\ i \in 1 .. 4
  BY EncodedLength, SMT
<1>2. CASE i < Digits(len)
  BY <1>2, EncodedByte, Zenon
<1>3. CASE i = Digits(len)
  BY <1>1, <1>3, EncodedByte, SMT
<1> QED
  BY <1>1, <1>2, <1>3, SMT

\* decode_remaining_length undoes encode_remaining_length, whatever bytes follow.
LEMMA DecodedWhole ==
  ASSUME NEW len \in 0 .. MaxRemainingLen, NEW bytes \in Bytes,
         StartsAs(bytes, len, Digits(len))
  PROVE  DecodeRemainingLength(bytes) = Decoded(len, Digits(len))
<1> DEFINE n == Digits(len)
<1>1. n \in 1 .. 4
  BY EncodedLength, SMT
<1>2. \A i \in 1 .. n : bytes[i] % 128 = (len \div Weight[i]) % 128
  BY <1>1, EncodedByte, SMT DEF StartsAs
<1> HIDE DEF n
<1>3. \A i \in 1 .. n : IF i < n THEN bytes[i] \in Continued ELSE bytes[i] \in Ending
  <2> TAKE i \in 1 .. n
  <2>1. i \in 1 .. Digits(len)
    BY DEF n
  <2>2. bytes[i] = EncodeRemainingLength(len)[i]
    BY <2>1, Zenon DEF StartsAs
  <2>3. CASE i < n
    BY <2>1, <2>2, <2>3, EncodedRange, Zenon DEF n
  <2>4. CASE ~(i < n)
    BY <2>1, <2>2, <2>4, EncodedRange, Zenon DEF n
  <2> QED
    BY <2>3, <2>4, Zenon
<1>4. /\ \A i \in 1 .. n - 1 : bytes[i] \in Continued
      /\ bytes[n] \in Ending
  BY <1>1, <1>3, SMT
<1>5. n \in DOMAIN bytes
  <2>1. n <= Len(bytes) /\ Len(bytes) \in Nat /\ DOMAIN bytes = 1 .. Len(bytes)
    BY LenProperties, SMT DEF Bytes, StartsAs, n
  <2> QED
    BY <1>1, <2>1, SMT
<1>6. \A i \in 1 .. n - 1 : bytes[i] >= 128 /\ ~(bytes[i] < 128)
  BY <1>4, ByteKinds, Zenon
<1>7. bytes[n] < 128 /\ ~(bytes[n] >= 128)
  BY <1>4, ByteKinds, Zenon
<1>8. \A m \in 1 .. 4 : EndsAt(bytes, m) <=> m = n
  <2> TAKE m \in 1 .. 4
  <2>1. CASE m < n
    <3>1. m # n /\ m \in 1 .. n - 1
      BY <2>1, <1>1, SMT
    <3> QED
      BY <1>6, <3>1, Zenon DEF EndsAt
  <2>2. CASE m = n
    BY <1>5, <1>6, <1>7, <2>2, Zenon DEF EndsAt
  <2>3. CASE m > n
    <3>1. m # n /\ n \in 1 .. m - 1
      BY <2>3, <1>1, SMT
    <3> QED
      BY <1>7, <3>1, Zenon DEF EndsAt
  <2> QED
    BY <2>1, <2>2, <2>3, <1>1, SMT
<1>9. (CHOOSE m \in 1 .. 4 : EndsAt(bytes, m)) = n
  BY <1>1, <1>8, SMT
<1>10. Value(bytes, n) = len
  <2>1. len \div 1 = len
    BY Bounded, SMT
  <2>2. Weight[1] = 1 /\ Weight[2] = 128 /\ Weight[3] = 16384 /\ Weight[4] = 2097152
    BY SMT DEF Weight
  <2>3. \A i \in 1 .. n : Digit(bytes, i, n) = ((len \div Weight[i]) % 128) * Weight[i]
    BY <1>1, <1>2, SMT DEF Digit
  <2>4. \A i \in 1 .. 4 : i > n => Digit(bytes, i, n) = 0
    BY <1>1, SMT DEF Digit
  <2>5. len % 128 \in Nat /\ (len \div 128) % 128 \in Nat /\ (len \div 16384) % 128 \in Nat
        /\ (len \div 2097152) % 128 \in Nat
    BY Bounded, SMT
  <2>6. CASE n = 1
    BY <2>1, <2>2, <2>3, <2>4, <2>5, <2>6, DigitsAddUp, SMT DEF Value, n
  <2>7. CASE n = 2
    BY <2>1, <2>2, <2>3, <2>4, <2>5, <2>7, DigitsAddUp, SMT DEF Value, n
  <2>8. CASE n = 3
    BY <2>1, <2>2, <2>3, <2>4, <2>5, <2>8, DigitsAddUp, SMT DEF Value, n
  <2>9. CASE n = 4
    BY <2>1, <2>2, <2>3, <2>4, <2>5, <2>9, DigitsAddUp, SMT DEF Value, n
  <2> QED
    BY <1>1, <2>6, <2>7, <2>8, <2>9, SMT
<1>11. \E m \in 1 .. 4 : EndsAt(bytes, m)
  BY <1>1, <1>8, SMT
<1> QED
  BY <1>9, <1>10, <1>11, Zenon DEF DecodeRemainingLength, n

\* Of a part of an encoded length it says that a byte is missing.
LEMMA DecodedPart ==
  ASSUME NEW len \in 0 .. MaxRemainingLen, NEW bytes \in Bytes,
         Len(bytes) < Digits(len), StartsAs(bytes, len, Len(bytes))
  PROVE  DecodeRemainingLength(bytes) = NeedMore
<1>1. Digits(len) \in 1 .. 4 /\ Len(bytes) \in Nat /\ DOMAIN bytes = 1 .. Len(bytes)
  BY EncodedLength, LenProperties, SMT DEF Bytes
<1>2. \A i \in 1 .. Len(bytes) : bytes[i] \in Continued
  <2> TAKE i \in 1 .. Len(bytes)
  <2>1. i \in 1 .. Digits(len) /\ i < Digits(len)
    BY <1>1, SMT
  <2>2. bytes[i] = EncodeRemainingLength(len)[i]
    BY SMT DEF StartsAs
  <2> QED
    BY <2>1, <2>2, EncodedRange, Zenon
<1>3. ~\E m \in 1 .. 4 : EndsAt(bytes, m)
  <2>1. \A m \in 1 .. Len(bytes) : ~(bytes[m] < 128)
    <3> TAKE m \in 1 .. Len(bytes)
    <3>1. bytes[m] \in Continued
      BY <1>2, Zenon
    <3> QED
      BY <3>1, ByteKinds, Zenon
  <2> QED
    BY <1>1, <2>1, Zenon DEF EndsAt
<1>4. Len(bytes) < 4
  BY <1>1, SMT
<1> QED
  BY <1>3, <1>4, Zenon DEF DecodeRemainingLength

\* How long a frame is, and where its length is written.
LEMMA FramedParts ==
  ASSUME NEW first \in Byte, NEW body \in Bytes, Len(body) <= MaxRemainingLen
  PROVE  LET len == Len(body)
             whole == Framed(first, body)
         IN  /\ len \in 0 .. MaxRemainingLen
             /\ whole \in Bytes
             /\ Len(whole) = 1 + Digits(len) + len
             /\ \A i \in 1 .. Digits(len) : whole[i + 1] = EncodeRemainingLength(len)[i]
<1> DEFINE len == Len(body)
           digits == EncodeRemainingLength(len)
           head == <<first>> \o digits
<1>1. len \in 0 .. MaxRemainingLen
  BY LenProperties, MaxValue, SMT DEF Bytes
<1>2. digits \in Bytes /\ Len(digits) = Digits(len) /\ Digits(len) \in 1 .. 4
  BY <1>1, EncodedLength, Zenon
<1>3. <<first>> \in Bytes /\ Len(<<first>>) = 1
  BY SMT DEF Bytes
<1> HIDE DEF digits
<1>4. /\ head \in Bytes
      /\ Len(head) = 1 + Digits(len)
      /\ \A i \in 1 .. Digits(len) : head[i + 1] = digits[i]
  <2>1. /\ head \in Bytes
        /\ Len(head) = Len(<<first>>) + Len(digits)
        /\ \A i \in 1 .. Len(<<first>>) + Len(digits) :
             head[i] = IF i <= Len(<<first>>) THEN <<first>>[i] ELSE digits[i - Len(<<first>>)]
    BY <1>2, <1>3, ConcatProperties, Zenon DEF Bytes
  <2> HIDE DEF head
  <2> QED
    BY <1>2, <1>3, <2>1, SMT
<1> HIDE DEF head
<1>5. /\ head \o body \in Bytes
      /\ Len(head \o body) = Len(head) + Len(body)
      /\ \A i \in 1 .. Len(head) + Len(body) :
           (head \o body)[i] = IF i <= Len(head) THEN head[i] ELSE body[i - Len(head)]
  BY <1>4, ConcatProperties, Zenon DEF Bytes
<1>6. Framed(first, body) = head \o body
  BY Zenon DEF Framed, head, digits
<1>7. \A i \in 1 .. Digits(len) : Framed(first, body)[i + 1] = digits[i]
  <2> TAKE i \in 1 .. Digits(len)
  <2>1. i + 1 \in 1 .. Len(head) + Len(body) /\ i + 1 <= Len(head)
    BY <1>1, <1>2, <1>4, MaxValue, SMT
  <2>2. Framed(first, body)[i + 1] = head[i + 1]
    BY <1>5, <1>6, <2>1, Zenon
  <2> QED
    BY <1>4, <2>2, Zenon
<1> QED
  BY <1>1, <1>4, <1>5, <1>6, <1>7, Zenon DEF digits

\* Bytes that begin like a frame have the encoded length after the first byte.
LEMMA TailStarts ==
  ASSUME NEW first \in Byte, NEW body \in Bytes, Len(body) <= MaxRemainingLen,
         NEW bytes \in Bytes, bytes # <<>>, NEW k \in 0 .. Digits(Len(body)), k < Len(bytes),
         \A i \in 1 .. k + 1 : bytes[i] = Framed(first, body)[i]
  PROVE  /\ Tail(bytes) \in Bytes
         /\ Len(Tail(bytes)) = Len(bytes) - 1
         /\ StartsAs(Tail(bytes), Len(body), k)
<1>1. /\ Tail(bytes) \in Bytes
      /\ Len(Tail(bytes)) = Len(bytes) - 1
      /\ \A i \in 1 .. Len(Tail(bytes)) : Tail(bytes)[i] = bytes[i + 1]
  BY HeadTailProperties, Zenon DEF Bytes
<1>2. Len(bytes) \in Nat /\ Digits(Len(body)) \in 1 .. 4
  BY LenProperties, FramedParts, EncodedLength, Zenon DEF Bytes
<1>3. \A i \in 1 .. k : Tail(bytes)[i] = EncodeRemainingLength(Len(body))[i]
  <2> TAKE i \in 1 .. k
  <2>1. i \in 1 .. Len(Tail(bytes)) /\ i + 1 \in 1 .. k + 1 /\ i \in 1 .. Digits(Len(body))
    BY <1>1, <1>2, SMT
  <2>2. Tail(bytes)[i] = Framed(first, body)[i + 1]
    BY <1>1, <2>1, Zenon
  <2> QED
    BY <2>1, <2>2, FramedParts, Zenon
<1>4. k <= Len(Tail(bytes))
  BY <1>1, <1>2, SMT
<1> QED
  BY <1>1, <1>3, <1>4, Zenon DEF StartsAs

\* The fixed header is read when its last byte is there.
LEMMA HeaderWhole ==
  ASSUME NEW first \in Byte, NEW body \in Bytes, Len(body) <= MaxRemainingLen,
         NEW bytes \in Bytes, Digits(Len(body)) < Len(bytes),
         \A i \in 1 .. Digits(Len(body)) + 1 : bytes[i] = Framed(first, body)[i]
  PROVE  /\ ParseFixedHeader(bytes) = Decoded(Len(body), Digits(Len(body)))
         /\ ParseFixedHeader(bytes) # NeedMore
         /\ ParseFixedHeader(bytes) # MalformedLength
         /\ FrameLen(ParseFixedHeader(bytes)) = Len(Framed(first, body))
<1> DEFINE len == Len(body)
<1>1. len \in 0 .. MaxRemainingLen /\ Len(Framed(first, body)) = 1 + Digits(len) + len
  BY FramedParts, Zenon
<1>2. Digits(len) \in 1 .. 4 /\ len \in Nat
  BY <1>1, EncodedLength, LenProperties, Zenon DEF Bytes
<1>3. bytes # <<>> /\ Digits(len) \in 0 .. Digits(len)
  BY <1>2, EmptySeq, SMT DEF Bytes
<1>4. /\ Tail(bytes) \in Bytes
      /\ StartsAs(Tail(bytes), len, Digits(len))
  BY <1>3, TailStarts, Zenon
<1>5. DecodeRemainingLength(Tail(bytes)) = Decoded(len, Digits(len))
  BY <1>1, <1>4, DecodedWhole, Zenon
<1>6. ParseFixedHeader(bytes) = Decoded(len, Digits(len))
  BY <1>3, <1>5, Zenon DEF ParseFixedHeader
<1> HIDE DEF len
<1>7. /\ Decoded(len, Digits(len)).is = "Ok"
      /\ Decoded(len, Digits(len)).len = Digits(len)
      /\ Decoded(len, Digits(len)).value = len
  BY SMT DEF Decoded
<1>8. NeedMore.is # "Ok" /\ MalformedLength.is # "Ok"
  BY SMT DEF NeedMore, MalformedLength
<1>9. FrameLen(Decoded(len, Digits(len))) = 1 + Digits(len) + len
  BY <1>7, Zenon DEF FrameLen
<1> QED
  BY <1>1, <1>6, <1>7, <1>8, <1>9, Zenon DEF len

\* Whatever follows a frame, next_frame takes that frame and no byte of the
\* rest: for every body that encode_remaining_length accepts.
THEOREM FrameFound ==
  ASSUME NEW first \in Byte, NEW body \in Bytes, Len(body) <= MaxRemainingLen,
         NEW rest \in Bytes
  PROVE  NextFrame(Framed(first, body) \o rest) = [is |-> "Ready", frame |-> Framed(first, body)]
<1> DEFINE whole == Framed(first, body)
           bytes == whole \o rest
           header == ParseFixedHeader(bytes)
<1>1. whole \in Bytes /\ Len(body) \in Nat /\ Len(whole) = 1 + Digits(Len(body)) + Len(body)
  BY FramedParts, LenProperties, Zenon DEF Bytes
<1>2. Digits(Len(body)) \in 1 .. 4
  BY FramedParts, EncodedLength, Zenon
<1> HIDE DEF whole
<1>3. /\ bytes \in Bytes
      /\ Len(bytes) = Len(whole) + Len(rest)
      /\ \A i \in 1 .. Len(whole) + Len(rest) :
           bytes[i] = IF i <= Len(whole) THEN whole[i] ELSE rest[i - Len(whole)]
  BY <1>1, ConcatProperties, Zenon DEF Bytes
<1>4. Len(rest) \in Nat /\ Len(whole) \in Nat
  BY <1>1, LenProperties, Zenon DEF Bytes
<1> HIDE DEF bytes
<1>5. Digits(Len(body)) < Len(bytes) /\ Len(bytes) >= Len(whole) /\ 1 <= Len(whole)
  BY <1>1, <1>2, <1>3, <1>4, SMT
<1>6. \A i \in 1 .. Digits(Len(body)) + 1 : bytes[i] = whole[i]
  <2> TAKE i \in 1 .. Digits(Len(body)) + 1
  <2>1. i \in 1 .. Len(whole) + Len(rest) /\ i <= Len(whole)
    BY <1>1, <1>2, <1>4, SMT
  <2> QED
    BY <1>3, <2>1, Zenon
<1>7. header # NeedMore /\ header # MalformedLength /\ FrameLen(header) = Len(whole)
  BY <1>3, <1>5, <1>6, HeaderWhole, Zenon DEF whole
<1>8. SubSeq(bytes, 1, Len(whole)) = whole
  <2>1. 1 \in 1 .. Len(whole) /\ Len(whole) \in 1 .. Len(whole)
    BY <1>4, <1>5, SMT
  <2>2. SubSeq(bytes, 1, Len(whole)) = SubSeq(whole, 1, Len(whole))
    BY <1>1, <2>1, SubSeqOfConcat1, Zenon DEF Bytes, bytes
  <2> QED
    BY <1>1, <2>2, SubSeqFull, Zenon DEF Bytes
<1>9. IsComplete(header, bytes)
  BY <1>5, <1>7, Zenon DEF IsComplete
<1> HIDE DEF header
<1>10. NextFrame(bytes) = [is |-> "Ready", frame |-> whole]
  BY <1>7, <1>8, <1>9, Zenon DEF NextFrame, header
<1> QED
  BY <1>10, Zenon DEF bytes, whole

\* Of the first n bytes of a frame, next_frame makes no frame and no error; it
\* wants at least one byte and never more than the frame lacks, and exactly
\* what it lacks once the fixed header is there.
THEOREM FrameAwaited ==
  ASSUME NEW first \in Byte, NEW body \in Bytes, Len(body) <= MaxRemainingLen,
         NEW n \in Nat, n < Len(Framed(first, body))
  PROVE  LET next == NextFrame(SubSeq(Framed(first, body), 1, n))
             lacks == Len(Framed(first, body)) - n
         IN  /\ next.is = "Need"
             /\ next.bytes \in 1 .. lacks
             /\ ParseFixedHeader(SubSeq(Framed(first, body), 1, n)) # NeedMore => next.bytes = lacks
<1> DEFINE whole == Framed(first, body)
           bytes == SubSeq(whole, 1, n)
           header == ParseFixedHeader(bytes)
           len == Len(body)
<1>1. /\ whole \in Bytes
      /\ len \in 0 .. MaxRemainingLen
      /\ len \in Nat
      /\ Len(whole) = 1 + Digits(len) + len
  BY FramedParts, LenProperties, Zenon DEF Bytes
<1>2. Digits(len) \in 1 .. 4
  BY <1>1, EncodedLength, Zenon
<1>3. n < Len(whole) /\ Len(whole) \in Nat
  BY <1>1, LenProperties, Zenon DEF Bytes
<1> HIDE DEF whole
<1>4. /\ bytes \in Bytes
      /\ Len(bytes) = n
      /\ \A i \in 1 .. n : bytes[i] = whole[i]
  <2>1. \A i \in 1 .. n : whole[i] \in Byte
    <3> TAKE i \in 1 .. n
    <3>1. i \in 1 .. Len(whole)
      BY <1>3, SMT
    <3> QED
      BY <1>1, <3>1, ElementOfSeq, Zenon DEF Bytes
  <2>2. 1 \in Int /\ n \in Int
    BY SMT
  <2>3. /\ bytes \in Seq(Byte)
        /\ Len(bytes) = IF 1 <= n THEN n - 1 + 1 ELSE 0
        /\ \A i \in 1 .. n - 1 + 1 : bytes[i] = whole[1 + i - 1]
    BY <2>1, <2>2, SubSeqProperties, SMT
  <2>4. n - 1 + 1 = n /\ (~(1 <= n) => n = 0) /\ \A i \in 1 .. n : 1 + i - 1 = i
    BY SMT
  <2>5. Len(bytes) = n
    BY <2>3, <2>4, Zenon
  <2>6. \A i \in 1 .. n : bytes[i] = whole[i]
    BY <2>3, <2>4, Zenon
  <2> QED
    BY <2>3, <2>5, <2>6, Zenon DEF Bytes
<1> HIDE DEF bytes, len
<1>5. CASE n <= Digits(len)
  <2>1. header = NeedMore
    <3>1. CASE n = 0
      <4>1. bytes = <<>>
        BY <1>4, <3>1, EmptySeq, SMT DEF Bytes
      <4> QED
        BY <4>1, Zenon DEF ParseFixedHeader
    <3>2. CASE n > 0
      <4>1. n - 1 \in 0 .. Digits(len) /\ n - 1 < Len(bytes) /\ (n - 1) + 1 = n /\ n - 1 < Digits(len)
        BY <1>2, <1>4, <1>5, <3>2, SMT
      <4>2. bytes # <<>>
        BY <1>4, <3>2, EmptySeq, SMT DEF Bytes
      <4>3. /\ Tail(bytes) \in Bytes
            /\ Len(Tail(bytes)) = n - 1
            /\ StartsAs(Tail(bytes), len, n - 1)
        BY <1>4, <4>1, <4>2, TailStarts, Zenon DEF whole, len
      <4>4. DecodeRemainingLength(Tail(bytes)) = NeedMore
        BY <1>1, <4>1, <4>3, DecodedPart, Zenon
      <4> QED
        BY <4>2, <4>4, Zenon DEF ParseFixedHeader
    <3> QED
      BY <3>1, <3>2, SMT
  <2>2. NextFrame(bytes).is = "Need" /\ NextFrame(bytes).bytes = 1
    BY <2>1, SMT DEF NextFrame
  <2>3. 1 \in 1 .. Len(whole) - n
    BY <1>3, SMT
  <2> QED
    BY <2>1, <2>2, <2>3, Zenon DEF bytes, whole
<1>6. CASE n > Digits(len)
  <2>1. Digits(len) < Len(bytes) /\ \A i \in 1 .. Digits(len) + 1 : i \in 1 .. n
    BY <1>2, <1>4, <1>6, SMT
  <2>2. header # NeedMore /\ header # MalformedLength /\ FrameLen(header) = Len(whole)
    BY <1>4, <2>1, HeaderWhole, Zenon DEF whole, len
  <2>3. ~(Len(bytes) >= Len(whole))
    BY <1>3, <1>4, SMT
  <2>4. Needed(header, bytes) = Len(whole) - n
    BY <1>4, <2>2, Zenon DEF Needed
  <2>5. ~IsComplete(header, bytes)
    BY <2>2, <2>3, Zenon DEF IsComplete
  <2> HIDE DEF header
  <2>6. NextFrame(bytes).is = "Need" /\ NextFrame(bytes).bytes = Len(whole) - n
    <3>1. NextFrame(bytes) = [is |-> "Need", bytes |-> Needed(header, bytes)]
      BY <2>2, <2>5, Zenon DEF NextFrame, header
    <3> QED
      BY <2>4, <3>1, SMT
  <2>7. Len(whole) - n \in 1 .. Len(whole) - n
    BY <1>3, SMT
  <2> QED
    BY <2>6, <2>7, Zenon DEF bytes, whole, len
<1>7. n <= Digits(len) \/ n > Digits(len)
  BY <1>2, SMT
<1> QED
  BY <1>5, <1>6, <1>7, Zenon

-----------------------------------------------------------------------------
(***************************************************************************)
(* Numbers and sequences.                                                  *)
(***************************************************************************)
LEMMA Smallest ==
  ASSUME NEW S \in SUBSET Nat, S # {}
  PROVE  \E x \in S : \A y \in S : x <= y
<1>1. PICK x \in S : \A y \in S : ~(<<y, x>> \in OpToRel(<, Nat))
  BY NatLessThanWellFounded, WFMin, Zenon
<1>2. \A y \in S : ~(y < x)
  BY <1>1 DEF OpToRel
<1> QED BY <1>2

\* Induction, for the numbers of a set.
LEMMA Induction ==
  ASSUME NEW S, 0 \in S, \A n \in Nat : n \in S => n + 1 \in S
  PROVE  Nat \subseteq S
<1> DEFINE others == {n \in Nat : n \notin S}
<1>1. SUFFICES ASSUME others # {} PROVE FALSE
  OBVIOUS
<1>2. PICK x \in others : \A y \in others : x <= y
  <2>1. others \in SUBSET Nat
    OBVIOUS
  <2> HIDE DEF others
  <2> QED BY <2>1, <1>1, Smallest, Zenon
<1>3. x - 1 \in Nat /\ (x - 1) + 1 = x /\ ~(x <= x - 1)
  BY <1>2
<1>4. x - 1 \in S
  BY <1>2, <1>3
<1> QED BY <1>2, <1>3, <1>4

\* What a recursive definition says of a function, and that there is one if
\* each step leads from a value to a value.
Steps(V) == [Nat -> [V -> V]]

\* The function that such a definition describes.
Follows(f, V, base, step) ==
  /\ f \in [Nat -> V]
  /\ f[0] = base
  /\ \A n \in Nat : f[n + 1] = step[n][f[n]]

\* A function that follows a definition by steps.
LEMMA Recursion ==
  ASSUME NEW V, NEW base \in V, NEW step \in Steps(V)
  PROVE  \E f : Follows(f, V, base, step)
<1> USE DEF Steps
<1> DEFINE Upto(n, g) == /\ g \in [0 .. n -> V]
                         /\ g[0] = base
                         /\ \A k \in 0 .. n : k < n => g[k + 1] = step[k][g[k]]
           S == {n \in Nat : \E g : Upto(n, g)}
           part == [n \in Nat |-> CHOOSE g : Upto(n, g)]
           f == [n \in Nat |-> part[n][n]]
<1>1. 0 \in S
  <2> DEFINE g == [k \in 0 .. 0 |-> base]
  <2>1. Upto(0, g)
    OBVIOUS
  <2> QED BY <2>1
<1>2. ASSUME NEW n \in Nat, n \in S PROVE n + 1 \in S
  <2>1. PICK g : Upto(n, g)
    BY <1>2
  <2> DEFINE h == [k \in 0 .. n + 1 |-> IF k <= n THEN g[k] ELSE step[n][g[n]]]
  <2>2. g[n] \in V /\ step[n][g[n]] \in V
    BY <2>1
  <2>3. h \in [0 .. n + 1 -> V] /\ h[0] = base
    BY <2>1, <2>2
  <2>4. ASSUME NEW k \in 0 .. n + 1, k < n + 1 PROVE h[k + 1] = step[k][h[k]]
    <3>1. CASE k < n
      BY <3>1, <2>1, <2>4
    <3>2. CASE k = n
      BY <3>2
    <3> QED BY <3>1, <3>2, <2>4
  <2>5. Upto(n + 1, h)
    BY <2>3, <2>4
  <2> HIDE DEF h, Upto
  <2> QED BY <2>5, n + 1 \in Nat
<1>3. Nat \subseteq S
  <2> HIDE DEF S
  <2> QED BY <1>1, <1>2, Induction, Zenon
<1>4. ASSUME NEW n \in Nat PROVE Upto(n, part[n])
  BY <1>3
<1>5. ASSUME NEW n \in Nat, NEW m \in Nat, n <= m PROVE part[n][n] = part[m][n]
  <2> DEFINE Same == {k \in Nat : k <= n => part[n][k] = part[m][k]}
  <2>1. Upto(n, part[n]) /\ Upto(m, part[m])
    BY <1>4
  <2>2. 0 \in Same
    BY <2>1
  <2>3. ASSUME NEW k \in Nat, k \in Same PROVE k + 1 \in Same
    <3> SUFFICES ASSUME k + 1 <= n PROVE part[n][k + 1] = part[m][k + 1]
      OBVIOUS
    <3>1. k \in 0 .. n /\ k < n /\ k \in 0 .. m /\ k < m
      BY <1>5
    <3>2. part[n][k] = part[m][k]
      BY <2>3, <3>1
    <3> HIDE DEF part
    <3> QED BY <2>1, <3>1, <3>2
  <2>4. Nat \subseteq Same
    <3> HIDE DEF Same
    <3> QED BY <2>2, <2>3, Induction, Zenon
  <2>5. n \in Same
    BY <2>4
  <2> QED BY <2>5
<1> HIDE DEF part
<1>6. f \in [Nat -> V] /\ f[0] = base
  BY <1>4
<1>7. ASSUME NEW n \in Nat PROVE f[n + 1] = step[n][f[n]]
  <2>1. part[n + 1][n + 1] = step[n][part[n + 1][n]]
    BY <1>4, n + 1 \in Nat, n \in 0 .. n + 1, n < n + 1
  <2>2. part[n][n] = part[n + 1][n]
    BY <1>5, n + 1 \in Nat, n <= n + 1
  <2> QED BY <2>1, <2>2
<1> HIDE DEF f
<1>8. Follows(f, V, base, step)
  BY <1>6, <1>7, Zenon DEF Follows
<1> QED BY <1>8, Zenon

\* What two sequences that follow one another are cut into.
LEMMA Cut ==
  ASSUME NEW T, NEW s \in Seq(T), NEW t \in Seq(T)
  PROVE  /\ s \o t \in Seq(T)
         /\ Len(s \o t) = Len(s) + Len(t)
         /\ SubSeq(s \o t, 1, Len(s)) = s
         /\ SubSeq(s \o t, Len(s) + 1, Len(s \o t)) = t
         /\ \A i \in 1 .. Len(s) : (s \o t)[i] = s[i]
<1>1. /\ s \o t \in Seq(T)
      /\ Len(s \o t) = Len(s) + Len(t)
      /\ \A i \in 1 .. Len(s) + Len(t) : (s \o t)[i] = IF i <= Len(s) THEN s[i] ELSE t[i - Len(s)]
  BY ConcatProperties, Zenon
<1>2. Len(s) \in Nat /\ Len(t) \in Nat
  BY LenProperties
<1>3. SubSeq(s \o t, 1, Len(s)) = s
  <2>1. CASE s = <<>>
    BY <2>1, SubSeqEmpty
  <2>2. CASE s # <<>>
    <3>1. 1 \in 1 .. Len(s) /\ Len(s) \in 1 .. Len(s)
      BY <2>2, EmptySeq
    <3> QED BY <3>1, SubSeqOfConcat1, SubSeqFull, Zenon
  <2> QED BY <2>1, <2>2
<1>4. SubSeq(s \o t, Len(s) + 1, Len(s \o t)) = t
  <2>1. CASE t = <<>>
    BY <2>1, <1>1, <1>2, SubSeqEmpty
  <2>2. CASE t # <<>>
    <3>1. Len(t) > 0
      BY <2>2, EmptySeq
    <3>2. /\ Len(s) + 1 \in Len(s) + 1 .. Len(s) + Len(t)
          /\ Len(s) + Len(t) \in Len(s) + 1 .. Len(s) + Len(t)
          /\ (Len(s) + 1) - Len(s) = 1 /\ (Len(s) + Len(t)) - Len(s) = Len(t)
      BY <3>1, <1>2
    <3>3. SubSeq(s \o t, Len(s) + 1, Len(s) + Len(t)) = SubSeq(t, 1, Len(t))
      BY <3>2, SubSeqOfConcat2
    <3> QED BY <3>3, <1>1, SubSeqFull, Zenon
  <2> QED BY <2>1, <2>2
<1>5. \A i \in 1 .. Len(s) : (s \o t)[i] = s[i]
  BY <1>1, <1>2
<1> QED BY <1>1, <1>3, <1>4, <1>5, Zenon

\* The parts of a sequence, before and after a place.
LEMMA Parts ==
  ASSUME NEW T, NEW s \in Seq(T), NEW n \in 0 .. Len(s)
  PROVE  /\ SubSeq(s, 1, n) \in Seq(T)
         /\ Len(SubSeq(s, 1, n)) = n
         /\ SubSeq(s, n + 1, Len(s)) \in Seq(T)
         /\ Len(SubSeq(s, n + 1, Len(s))) = Len(s) - n
         /\ SubSeq(s, 1, n) \o SubSeq(s, n + 1, Len(s)) = s
<1>1. Len(s) \in Nat
  BY LenProperties
<1>2. \A i \in 1 .. Len(s) : s[i] \in T
  BY ElementOfSeq
<1>3. SubSeq(s, 1, n) \in Seq(T) /\ Len(SubSeq(s, 1, n)) = n
  <2>1. (\A i \in 1 .. n : s[i] \in T) /\ n \in Int /\ 1 \in Int
    BY <1>1, <1>2
  <2>2. /\ SubSeq(s, 1, n) \in Seq(T)
        /\ Len(SubSeq(s, 1, n)) = IF 1 <= n THEN n - 1 + 1 ELSE 0
    BY <2>1, SubSeqProperties
  <2> QED BY <2>2
<1>4. SubSeq(s, n + 1, Len(s)) \in Seq(T) /\ Len(SubSeq(s, n + 1, Len(s))) = Len(s) - n
  <2>1. (\A i \in n + 1 .. Len(s) : s[i] \in T) /\ n + 1 \in Int /\ Len(s) \in Int
    BY <1>1, <1>2
  <2>2. /\ SubSeq(s, n + 1, Len(s)) \in Seq(T)
        /\ Len(SubSeq(s, n + 1, Len(s)))
             = IF n + 1 <= Len(s) THEN Len(s) - (n + 1) + 1 ELSE 0
    BY <2>1, SubSeqProperties
  <2> QED BY <2>2, <1>1
<1>5. SubSeq(s, 1, n) \o SubSeq(s, n + 1, Len(s)) = s
  <2>1. 1 \in 1 .. Len(s) + 1 /\ n \in 1 - 1 .. Len(s) /\ Len(s) \in n .. Len(s)
    BY <1>1
  <2> QED BY <2>1, ConcatAdjacentSubSeq, SubSeqFull, Zenon
<1> QED BY <1>3, <1>4, <1>5, Zenon

\* The same of bytes.
LEMMA CutBytes ==
  ASSUME NEW s \in Bytes, NEW t \in Bytes
  PROVE  /\ s \o t \in Bytes
         /\ Len(s) \in Nat /\ Len(t) \in Nat
         /\ Len(s \o t) = Len(s) + Len(t)
         /\ SubSeq(s \o t, 1, Len(s)) = s
         /\ SubSeq(s \o t, Len(s) + 1, Len(s \o t)) = t
         /\ \A i \in 1 .. Len(s) : (s \o t)[i] = s[i]
<1>1. s \in Seq(Byte) /\ t \in Seq(Byte)
  BY Zenon DEF Bytes
<1>2. /\ s \o t \in Seq(Byte)
      /\ Len(s \o t) = Len(s) + Len(t)
      /\ SubSeq(s \o t, 1, Len(s)) = s
      /\ SubSeq(s \o t, Len(s) + 1, Len(s \o t)) = t
  BY <1>1, Cut, SMTT(30)
<1>3. \A i \in 1 .. Len(s) : (s \o t)[i] = s[i]
  BY <1>1, Cut, SMTT(30)
<1> QED BY <1>1, <1>2, <1>3, LenProperties, Zenon DEF Bytes

\* The parts of bytes, before and after a place.
LEMMA PartsOfBytes ==
  ASSUME NEW s \in Bytes, NEW n \in 0 .. Len(s)
  PROVE  /\ SubSeq(s, 1, n) \in Bytes
         /\ Len(SubSeq(s, 1, n)) = n
         /\ SubSeq(s, n + 1, Len(s)) \in Bytes
         /\ Len(SubSeq(s, n + 1, Len(s))) = Len(s) - n
         /\ SubSeq(s, 1, n) \o SubSeq(s, n + 1, Len(s)) = s
<1>1. s \in Seq(Byte)
  BY Zenon DEF Bytes
<1>2. /\ SubSeq(s, 1, n) \in Seq(Byte)
      /\ Len(SubSeq(s, 1, n)) = n
      /\ SubSeq(s, n + 1, Len(s)) \in Seq(Byte)
      /\ Len(SubSeq(s, n + 1, Len(s))) = Len(s) - n
      /\ SubSeq(s, 1, n) \o SubSeq(s, n + 1, Len(s)) = s
  BY <1>1, Parts, Zenon
<1> QED BY <1>2, Zenon DEF Bytes

\* It does not matter in which order bytes are joined.
LEMMA Joined ==
  ASSUME NEW s \in Bytes, NEW t \in Bytes, NEW u \in Bytes
  PROVE  (s \o t) \o u = s \o (t \o u)
BY ConcatAssociative, SMT DEF Bytes

-----------------------------------------------------------------------------
(***************************************************************************)
(* Fields.                                                                 *)
(***************************************************************************)
Field == {"u8", "u16", "none", "string", "bytes"}

\* The values a field can have, and how they are written.
Fits(field) ==
  CASE field = "u8" -> Byte
    [] field = "u16" -> Word
    [] field = "none" -> {None}
    [] field = "string" -> Text
    [] field = "bytes" -> Data

\* The bytes of a field with that value.
Written(field, value) ==
  CASE field = "u8" -> <<value>>
    [] field = "u16" -> WriteU16(value)
    [] field = "none" -> <<>>
    [] OTHER -> WriteBytes(value)

\* A reader that has taken values and has the bytes rest before it.
Reader(values, rest) == [ok |-> TRUE, values |-> values, rest |-> rest]

\* The words, kept away from provers that would count up to 65535.
LEMMA WordRange == \A n : n \in Word <=> n \in Nat /\ n <= 65535
<1>1. PICK m \in Nat : m = 65535
  BY SMT
<1>2. Word = 0 .. m
  BY <1>1, SMT DEF Word
<1>3. \A n : n \in Word <=> n \in Nat /\ n <= m
  BY <1>2, SMT
<1> QED BY <1>1, <1>3, SMT

\* A word is a natural number.
LEMMA WordIsNat == Word \subseteq Nat
BY WordRange, SMT

\* 16 bits are two bytes, most significant first.
LEMMA WordWritten ==
  ASSUME NEW v \in Word
  PROVE  /\ WriteU16(v) \in Bytes
         /\ Len(WriteU16(v)) = 2
         /\ U16(WriteU16(v)) = v
<1>1. (v \div 256) % 256 \in Byte /\ v % 256 \in Byte /\ 256 * ((v \div 256) % 256) + (v % 256) = v
  <2> DEFINE x == v \div 256
  <2>1. v \in Nat /\ v <= 65535
    BY WordRange, SMT
  <2>2. x \in Nat /\ x <= 255 /\ v % 256 \in 0 .. 255 /\ v = 256 * x + (v % 256)
    BY <2>1
  <2>3. x % 256 = x
    <3> HIDE DEF x
    <3> QED BY <2>2
  <2>4. \A b \in 0 .. 255 : b \in Byte
    BY DEF Byte
  <2>5. x \in 0 .. 255
    BY <2>2
  <2>6. x % 256 \in Byte /\ v % 256 \in Byte /\ 256 * (x % 256) + (v % 256) = v
    <3> HIDE DEF x
    <3> QED BY <2>2, <2>3, <2>4, <2>5
  <2> QED BY <2>6
<1> QED BY <1>1 DEF WriteU16, U16, Bytes

\* Two bytes, read as a u16, are written again.
LEMMA WordRead ==
  ASSUME NEW x \in Byte, NEW y \in Byte
  PROVE  /\ 256 * x + y \in Word
         /\ WriteU16(256 * x + y) = <<x, y>>
<1>1. 256 * x + y \in Word
  <2>1. x \in Nat /\ y \in Nat /\ x <= 255 /\ y <= 255
    BY SMT DEF Byte
  <2> QED BY <2>1, WordRange, SMT
<1>2. (256 * x + y) \div 256 = x /\ x % 256 = x /\ (256 * x + y) % 256 = y
  BY DEF Byte
<1> QED BY <1>1, <1>2 DEF WriteU16

\* The two first bytes decide what U16 is.
LEMMA WordFollowed ==
  ASSUME NEW s \in Bytes, Len(s) >= 2, NEW t \in Bytes
  PROVE  U16(s \o t) = U16(s)
<1>1. 1 \in 1 .. Len(s) /\ 2 \in 1 .. Len(s)
  BY LenProperties DEF Bytes
<1>2. (s \o t)[1] = s[1] /\ (s \o t)[2] = s[2]
  BY <1>1, CutBytes, Zenon
<1> QED BY <1>2, Zenon DEF U16

\* A String is a Vec<u8> of text.
LEMMA TextIsData ==
  /\ Text \subseteq Data
  /\ \A v \in Data : v \in Bytes /\ Len(v) \in Word
  /\ \A v \in Data : v \in Text <=> IsText(v)
<1>1. \A v \in Data : v \in Bytes /\ Len(v) \in Word
  BY DEF Data, Bytes
<1>2. ASSUME NEW v \in Text PROVE v \in Data
  <2>1. v \in Seq(Ascii) /\ Len(v) \in Word
    BY DEF Text
  <2>2. Ascii \subseteq Byte
    BY DEF Byte, Ascii
  <2>3. v \in Seq(Byte)
    BY <2>1, <2>2, SeqMonotonic
  <2> QED BY <2>1, <2>3 DEF Data
<1>3. ASSUME NEW v \in Data PROVE v \in Text <=> IsText(v)
  <2>1. v \in Seq(Byte) /\ Len(v) \in Word /\ DOMAIN v = 1 .. Len(v) /\ Len(v) \in Nat
    BY LenProperties DEF Data
  <2>2. \A i \in DOMAIN v : v[i] \in Byte
    BY <2>1, ElementOfSeq, Zenon
  <2>3. ASSUME v \in Text PROVE IsText(v)
    <3>1. v \in Seq(Ascii)
      BY <2>3 DEF Text
    <3>2. \A i \in DOMAIN v : v[i] \in Ascii
      BY <3>1, <2>1, ElementOfSeq, Zenon
    <3>3. \A byte \in Ascii : byte < 128
      BY DEF Ascii
    <3> QED BY <3>2, <3>3, Zenon DEF IsText, ToSet
  <2>4. ASSUME IsText(v) PROVE v \in Text
    <3>1. \A i \in DOMAIN v : v[i] < 128
      BY <2>4, Zenon DEF IsText, ToSet
    <3>2. \A byte \in Byte : byte < 128 => byte \in Ascii
      BY DEF Ascii, Byte
    <3>3. \A i \in 1 .. Len(v) : v[i] \in Ascii
      BY <3>1, <3>2, <2>1, <2>2, Zenon
    <3>4. v \in [1 .. Len(v) -> Byte]
      BY <2>1, LenProperties, Zenon
    <3>5. v \in [1 .. Len(v) -> Ascii]
      BY <3>3, <3>4
    <3>6. v \in Seq(Ascii)
      BY <3>5, <2>1, SeqDef, ZenonT(60)
    <3> QED BY <3>6, <2>1, Zenon DEF Text
  <2> QED BY <2>3, <2>4
<1> QED BY <1>1, <1>2, <1>3

\* write_mqtt_bytes, if the length is not cut.
LEMMA BytesWritten ==
  ASSUME NEW v \in Data
  PROVE  /\ WriteBytes(v) \in Bytes
         /\ Len(WriteBytes(v)) = 2 + Len(v)
         /\ U16(WriteBytes(v)) = Len(v)
         /\ SubSeq(WriteBytes(v), 3, Len(WriteBytes(v))) = v
<1> DEFINE l == WriteU16(Len(v))
<1>1. v \in Bytes /\ Len(v) \in Word
  BY TextIsData, Zenon
<1>2. l \in Bytes /\ Len(l) = 2 /\ U16(l) = Len(v)
  BY <1>1, WordWritten, Zenon
<1>3. WriteBytes(v) = l \o v
  BY Zenon DEF WriteBytes
<1> HIDE DEF l
<1>4. U16(l \o v) = U16(l)
  <2>1. Len(l) >= 2
    BY <1>2
  <2> QED BY <1>1, <1>2, <2>1, WordFollowed, Zenon
<1>5. /\ l \o v \in Bytes
      /\ Len(l \o v) = Len(l) + Len(v)
      /\ SubSeq(l \o v, Len(l) + 1, Len(l \o v)) = v
  BY <1>1, <1>2, CutBytes, Zenon
<1>6. Len(l) + 1 = 3
  BY <1>2
<1> QED BY <1>2, <1>3, <1>4, <1>5, <1>6

\* What is written of a field is of the size that is read, and has its value.
LEMMA FieldWritten ==
  ASSUME NEW field \in Field, NEW v \in Fits(field), NEW t \in Bytes
  PROVE  /\ Written(field, v) \in Bytes
         /\ SizeOf(field, Written(field, v) \o t) = Len(Written(field, v))
         /\ ValueOf(field, Written(field, v)) = v
         /\ field = "string" => IsText(v)
<1>1. CASE field = "u8"
  <2>1. v \in Byte
    BY <1>1 DEF Fits
  <2>2. Written(field, v) = <<v>> /\ SizeOf(field, Written(field, v) \o t) = 1
    BY <1>1 DEF Written, SizeOf
  <2>3. ValueOf(field, <<v>>) = v
    BY <1>1 DEF ValueOf
  <2>4. <<v>> \in Bytes /\ Len(<<v>>) = 1 /\ field # "string"
    BY <1>1, <2>1 DEF Bytes
  <2> QED BY <2>2, <2>3, <2>4, Zenon
<1>2. CASE field = "u16"
  <2>1. v \in Word
    BY <1>2 DEF Fits
  <2>2. Written(field, v) = WriteU16(v) /\ SizeOf(field, Written(field, v) \o t) = 2
    BY <1>2 DEF Written, SizeOf
  <2>3. ValueOf(field, WriteU16(v)) = U16(WriteU16(v)) /\ field # "string"
    BY <1>2 DEF ValueOf
  <2>4. WriteU16(v) \in Bytes /\ Len(WriteU16(v)) = 2 /\ U16(WriteU16(v)) = v
    BY <2>1, WordWritten, Zenon
  <2> QED BY <2>2, <2>3, <2>4, Zenon
<1>3. CASE field = "none"
  <2>1. v = None
    BY <1>3 DEF Fits
  <2>2. Written(field, v) = <<>> /\ SizeOf(field, Written(field, v) \o t) = 0
    BY <1>3 DEF Written, SizeOf
  <2>3. ValueOf(field, <<>>) = None
    BY <1>3 DEF ValueOf
  <2>4. <<>> \in Bytes /\ Len(<<>>) = 0 /\ field # "string"
    BY <1>3, EmptySeq, Zenon DEF Bytes
  <2> QED BY <2>1, <2>2, <2>3, <2>4, Zenon
<1>4. CASE field \in {"string", "bytes"}
  <2> DEFINE w == WriteBytes(v)
  <2>1. v \in Data /\ (field = "string" => IsText(v))
    BY <1>4, TextIsData DEF Fits
  <2>2. Written(field, v) = w
    BY <1>4 DEF Written
  <2>3. w \in Bytes /\ Len(w) = 2 + Len(v) /\ U16(w) = Len(v) /\ SubSeq(w, 3, Len(w)) = v
    BY <2>1, BytesWritten
  <2>4. Len(v) \in Nat /\ Len(t) \in Nat
    BY <2>1, TextIsData, LenProperties DEF Bytes
  <2> HIDE DEF w
  <2>5. U16(w \o t) = U16(w)
    <3>1. Len(w) >= 2
      BY <2>3, <2>4
    <3> QED BY <2>3, <3>1, WordFollowed, Zenon
  <2>6. Len(w \o t) = Len(w) + Len(t)
    BY <2>3, CutBytes, Zenon
  <2>7. ~(Len(w \o t) < 2)
    BY <2>3, <2>4, <2>6
  <2>8. SizeOf(field, w \o t) = 2 + U16(w \o t)
    BY <1>4, <2>7 DEF SizeOf
  <2>9. ValueOf(field, w) = SubSeq(w, 3, Len(w))
    BY <1>4 DEF ValueOf
  <2> QED BY <2>1, <2>2, <2>3, <2>5, <2>8, <2>9
<1> QED BY <1>1, <1>2, <1>3, <1>4 DEF Field

\* Reading a field takes what is written of it, and no byte more.
LEMMA FieldRead ==
  ASSUME NEW field \in Field, NEW v \in Fits(field), NEW t \in Bytes, NEW values
  PROVE  ReadField(Reader(values, Written(field, v) \o t), field) = Reader(Append(values, v), t)
<1> DEFINE w == Written(field, v)
           r == Reader(values, w \o t)
           size == SizeOf(field, w \o t)
<1>1. w \in Bytes /\ size = Len(w) /\ ValueOf(field, w) = v /\ (field = "string" => IsText(v))
  BY FieldWritten
<1>2. r.ok /\ r.values = values /\ r.rest = w \o t
  BY DEF Reader
<1> HIDE DEF w, r
<1>3. /\ Len(w \o t) = Len(w) + Len(t)
      /\ SubSeq(w \o t, 1, Len(w)) = w
      /\ SubSeq(w \o t, Len(w) + 1, Len(w \o t)) = t
  BY <1>1, CutBytes, Zenon
<1>4. Len(w \o t) >= size
  BY <1>1, <1>3, LenProperties DEF Bytes
<1> HIDE DEF size
<1>5. ValueOf(field, SubSeq(w \o t, 1, size)) = v /\ SubSeq(w \o t, size + 1, Len(w \o t)) = t
  BY <1>1, <1>3
<1>6. ReadField(r, field) = [ok |-> TRUE, values |-> Append(values, v), rest |-> t]
  BY <1>1, <1>2, <1>4, <1>5 DEF ReadField, size
<1> QED BY <1>6, Zenon DEF Reader, r, w

\* A u16 at the head of bytes.
LEMMA WordAtHead ==
  ASSUME NEW s \in Bytes, Len(s) >= 2
  PROVE  /\ U16(s) \in Word
         /\ SubSeq(s, 1, 2) = WriteU16(U16(s))
         /\ s = WriteU16(U16(s)) \o SubSeq(s, 3, Len(s))
<1> DEFINE h == SubSeq(s, 1, 2)
<1>1. Len(s) \in Nat
  BY LenProperties DEF Bytes
<1>2. 2 \in 0 .. Len(s) /\ 2 + 1 = 3
  BY <1>1
<1>3. h \in Bytes /\ Len(h) = 2 /\ SubSeq(s, 3, Len(s)) \in Bytes
  BY <1>2, PartsOfBytes
<1>4. h \o SubSeq(s, 3, Len(s)) = s
  BY <1>2, PartsOfBytes
<1> HIDE DEF h
<1>5. 1 \in 1 .. Len(h) /\ 2 \in 1 .. Len(h) /\ Len(h) >= 2
  BY <1>3
<1>6. h[1] \in Byte /\ h[2] \in Byte
  BY <1>3, <1>5, ElementOfSeq, Zenon DEF Bytes
<1>7. U16(h) \in Word /\ WriteU16(U16(h)) = <<h[1], h[2]>>
  BY <1>6, WordRead, Zenon DEF U16
<1>8. h = <<h[1], h[2]>>
  BY <1>3 DEF Bytes
<1>9. U16(h \o SubSeq(s, 3, Len(s))) = U16(h)
  BY <1>3, <1>5, WordFollowed, Zenon
<1> QED BY <1>4, <1>7, <1>8, <1>9, Zenon DEF h

\* What a field is read from is what is written of its value, and more.
LEMMA FieldTaken ==
  ASSUME NEW field \in Field, NEW r, r.rest \in Bytes, ReadField(r, field).ok
  PROVE  /\ r.ok
         /\ \E v \in Fits(field), t \in Bytes :
              /\ r.rest = Written(field, v) \o t
              /\ ReadField(r, field) = Reader(Append(r.values, v), t)
<1> DEFINE s == r.rest
           size == SizeOf(field, s)
           w == SubSeq(s, 1, size)
           t == SubSeq(s, size + 1, Len(s))
           v == ValueOf(field, w)
<1>1. /\ r.ok
      /\ Len(s) >= size
      /\ field = "string" => IsText(v)
      /\ ReadField(r, field) = Reader(Append(r.values, v), t)
  BY DEF ReadField, Reader
<1>2. Len(s) \in Nat
  BY LenProperties DEF Bytes
<1> HIDE DEF s
<1>3. /\ size \in 0 .. Len(s)
      /\ field \in {"string", "bytes"} => Len(s) >= 2 /\ size = 2 + U16(s)
  <2>1. CASE field = "u8"
    <3>1. size = 1
      BY <2>1 DEF SizeOf
    <3> QED BY <3>1, <2>1, <1>1, <1>2
  <2>2. CASE field = "u16"
    <3>1. size = 2
      BY <2>2 DEF SizeOf
    <3> QED BY <3>1, <2>2, <1>1, <1>2
  <2>3. CASE field = "none"
    <3>1. size = 0
      BY <2>3 DEF SizeOf
    <3> QED BY <3>1, <2>3, <1>1, <1>2
  <2>4. CASE field \in {"string", "bytes"}
    <3>1. size = IF Len(s) < 2 THEN 2 ELSE 2 + U16(s)
      BY <2>4 DEF SizeOf
    <3>2. Len(s) >= 2 /\ size = 2 + U16(s)
      BY <3>1, <1>1, <1>2
    <3>3. U16(s) \in Word
      BY <3>2, WordAtHead DEF s
    <3>4. U16(s) \in Nat
      BY <3>3, WordIsNat, Zenon
    <3> QED BY <3>2, <3>4, <1>1, <1>2
  <2> QED BY <2>1, <2>2, <2>3, <2>4 DEF Field
<1> HIDE DEF size
<1>4. w \in Bytes /\ Len(w) = size /\ t \in Bytes
  BY <1>3, PartsOfBytes DEF s
<1>5. w \o t = s
  BY <1>3, PartsOfBytes DEF s
<1> HIDE DEF w, t
<1>6. v \in Fits(field) /\ w = Written(field, v)
  <2>1. CASE field = "u8"
    <3>1. Len(w) = 1
      BY <2>1, <1>4 DEF size, SizeOf
    <3>2. w[1] \in Byte /\ w = <<w[1]>>
      BY <3>1, <1>4 DEF Bytes
    <3> QED BY <2>1, <3>2 DEF Fits, Written, ValueOf
  <2>2. CASE field = "u16"
    <3>1. Len(w) = 2 /\ Len(w) >= 2
      BY <2>2, <1>4 DEF size, SizeOf
    <3>2. U16(w) \in Word /\ SubSeq(w, 1, Len(w)) = WriteU16(U16(w))
      BY <3>1, <1>4, WordAtHead
    <3>3. SubSeq(w, 1, Len(w)) = w
      BY <1>4, SubSeqFull, Zenon DEF Bytes
    <3>4. v = U16(w)
      BY <2>2 DEF ValueOf
    <3> QED BY <2>2, <3>2, <3>3, <3>4 DEF Fits, Written
  <2>3. CASE field = "none"
    <3>1. Len(w) = 0
      BY <2>3, <1>4 DEF size, SizeOf
    <3>2. w = <<>>
      BY <3>1, <1>4, EmptySeq DEF Bytes
    <3> QED BY <2>3, <3>2 DEF Fits, Written, ValueOf
  <2>4. CASE field \in {"string", "bytes"}
    <3>1. U16(s) \in Word /\ U16(s) \in Nat
      <4>1. Len(s) >= 2
        BY <2>4, <1>3
      <4>2. U16(s) \in Word
        BY <4>1, WordAtHead DEF s
      <4> QED BY <4>2, WordIsNat, Zenon
    <3>2. Len(w) >= 2 /\ Len(w) = 2 + U16(s) /\ 2 \in 0 .. Len(w) /\ 2 + 1 = 3
      BY <3>1, <2>4, <1>3, <1>4
    <3>3. U16(w \o t) = U16(w)
      BY <1>4, <3>2, WordFollowed, Zenon
    <3>4. v = SubSeq(w, 3, Len(w))
      BY <2>4 DEF ValueOf
    <3>5. v \in Bytes /\ Len(v) = Len(w) - 2
      <4>1. SubSeq(w, 3, Len(w)) \in Bytes /\ Len(SubSeq(w, 3, Len(w))) = Len(w) - 2
        <5>1. \A n \in 0 .. Len(w) : /\ SubSeq(w, n + 1, Len(w)) \in Bytes
                                     /\ Len(SubSeq(w, n + 1, Len(w))) = Len(w) - n
          BY <1>4, PartsOfBytes, Zenon
        <5> QED BY <5>1, <3>2
      <4> QED BY <4>1, <3>4
    <3>6. Len(v) = U16(w)
      BY <3>1, <3>2, <3>3, <3>5, <1>5
    <3>7. w = WriteU16(U16(w)) \o v
      BY <3>2, <3>4, <1>4, WordAtHead
    <3>8. w = WriteBytes(v)
      BY <3>6, <3>7 DEF WriteBytes
    <3>9. v \in Data
      BY <3>1, <3>3, <3>5, <3>6, <1>5 DEF Data, Bytes
    <3> HIDE DEF v
    <3>10. field = "string" => v \in Text
      BY <1>1, <3>9, TextIsData DEF v
    <3> QED BY <2>4, <3>8, <3>9, <3>10 DEF Fits, Written
  <2> QED BY <2>1, <2>2, <2>3, <2>4 DEF Field
<1> HIDE DEF v
<1>7. r.rest = Written(field, v) \o t /\ ReadField(r, field) = Reader(Append(r.values, v), t)
  BY <1>1, <1>5, <1>6, Zenon DEF s
<1> QED BY <1>1, <1>4, <1>6, <1>7, Zenon

-----------------------------------------------------------------------------
(***************************************************************************)
(* Reading one field after another.                                        *)
(***************************************************************************)
FieldValue == Byte \cup Word \cup {None} \cup Data

\* What Read and ReadField answer, and start from.
Readers == [ok : BOOLEAN, values : Seq(FieldValue), rest : Bytes]

\* A reader stays one when a field is read.
LEMMA FieldReader ==
  ASSUME NEW r \in Readers, NEW field \in Field
  PROVE  ReadField(r, field) \in Readers
<1>1. r.ok \in BOOLEAN /\ r.values \in Seq(FieldValue) /\ r.rest \in Bytes
  BY DEF Readers
<1>2. CASE ReadField(r, field).ok
  <2>1. PICK v \in Fits(field), t \in Bytes : ReadField(r, field) = Reader(Append(r.values, v), t)
    BY <1>1, <1>2, FieldTaken, Zenon
  <2>2. v \in FieldValue
    BY TextIsData DEF Fits, FieldValue, Field
  <2>3. Append(r.values, v) \in Seq(FieldValue)
    BY <1>1, <2>2, AppendProperties, Zenon
  <2> QED BY <2>1, <2>3 DEF Readers, Reader
<1>3. CASE ~ReadField(r, field).ok
  <2>1. ReadField(r, field) = [r EXCEPT !.ok = FALSE]
    BY <1>3 DEF ReadField
  <2> QED BY <2>1 DEF Readers
<1> QED BY <1>2, <1>3

\* What defines the steps of Read.
ReadStep(fields, input, after) ==
  [n \in 0 .. Len(fields) |->
     IF n = 0 THEN [ok |-> TRUE, values |-> <<>>, rest |-> input]
     ELSE ReadField(after[n - 1], fields[n])]

\* The steps of Read.
LEMMA ReadSteps ==
  ASSUME NEW fields \in Seq(Field), NEW input \in Bytes
  PROVE  \E after : /\ Read(fields, input) = after[Len(fields)]
                    /\ after[0] = Reader(<<>>, input)
                    /\ \A n \in 1 .. Len(fields) : after[n] = ReadField(after[n - 1], fields[n])
<1> DEFINE start == Reader(<<>>, input)
           Turn(n, r) == IF n + 1 \in 1 .. Len(fields) THEN ReadField(r, fields[n + 1]) ELSE r
           step == [n \in Nat |-> [r \in Readers |-> Turn(n, r)]]
           after == CHOOSE f : f = ReadStep(fields, input, f)
<1>1. start \in Readers
  BY EmptySeq DEF Reader, Readers
<1>2. \A n \in Nat, r \in Readers : Turn(n, r) \in Readers
  <2> SUFFICES ASSUME NEW n \in Nat, NEW r \in Readers PROVE Turn(n, r) \in Readers
    OBVIOUS
  <2>1. CASE n + 1 \in 1 .. Len(fields)
    <3>1. fields[n + 1] \in Field
      BY <2>1, ElementOfSeq, Zenon
    <3>2. ReadField(r, fields[n + 1]) \in Readers
      BY <3>1, FieldReader, Zenon
    <3> QED BY <2>1, <3>2
  <2>2. CASE n + 1 \notin 1 .. Len(fields)
    BY <2>2
  <2> QED BY <2>1, <2>2
<1> HIDE DEF start
<1>3. step \in Steps(Readers)
  <2> HIDE DEF Turn
  <2> QED BY <1>2 DEF Steps
<1>4. \A n \in Nat, r \in Readers : step[n][r] = Turn(n, r)
  <2> HIDE DEF Turn
  <2> QED OBVIOUS
<1> HIDE DEF step
<1>5. PICK f : Follows(f, Readers, start, step)
  BY <1>1, <1>3, Recursion, Zenon
<1>6. \A n \in Nat : f[n + 1] = Turn(n, f[n])
  <2> HIDE DEF Turn
  <2> QED BY <1>4, <1>5 DEF Follows
<1> DEFINE g == [n \in 0 .. Len(fields) |-> f[n]]
<1>7. g = ReadStep(fields, input, g)
  <2>1. Len(fields) \in Nat
    BY LenProperties
  <2>2. ASSUME NEW n \in 1 .. Len(fields) PROVE f[n] = ReadField(g[n - 1], fields[n])
    <3>1. n - 1 \in Nat /\ (n - 1) + 1 = n /\ n - 1 \in 0 .. Len(fields)
      BY <2>1
    <3>2. f[n] = Turn(n - 1, f[n - 1])
      BY <3>1, <1>6
    <3>3. Turn(n - 1, f[n - 1]) = ReadField(f[n - 1], fields[n])
      BY <3>1
    <3> QED BY <3>1, <3>2, <3>3
  <2>3. \A n \in 0 .. Len(fields) : n # 0 => n \in 1 .. Len(fields)
    BY <2>1
  <2>4. f[0] = [ok |-> TRUE, values |-> <<>>, rest |-> input]
    BY <1>5, Zenon DEF start, Reader, Follows
  <2> HIDE DEF g
  <2>5. \A n \in 0 .. Len(fields) :
          f[n] = IF n = 0 THEN [ok |-> TRUE, values |-> <<>>, rest |-> input]
                 ELSE ReadField(g[n - 1], fields[n])
    BY <2>2, <2>3, <2>4, Zenon
  <2> QED BY <2>5, Zenon DEF ReadStep, g
<1> HIDE DEF g
<1>8. after = ReadStep(fields, input, after)
  BY <1>7, Zenon
<1>9. Read(fields, input) = after[Len(fields)]
  BY Zenon DEF Read, ReadStep
<1> HIDE DEF after
<1>10. 0 \in 0 .. Len(fields) /\ \A n \in 1 .. Len(fields) : n \in 0 .. Len(fields) /\ n # 0
  BY LenProperties
<1>11. after[0] = start
  BY <1>8, <1>10, Zenon DEF ReadStep, start, Reader
<1>12. \A n \in 1 .. Len(fields) : after[n] = ReadField(after[n - 1], fields[n])
  BY <1>8, <1>10, Zenon DEF ReadStep
<1> QED BY <1>9, <1>11, <1>12, Zenon DEF start

\* The n first fields have the values v, and rests[i + 1] is what follows the
\* i-th of them.
Chain(fields, n, v, rests) ==
  /\ v \in Seq(FieldValue) /\ Len(v) = n
  /\ rests \in Seq(Bytes) /\ Len(rests) = n + 1
  /\ \A i \in 1 .. n : /\ v[i] \in Fits(fields[i])
                       /\ rests[i] = Written(fields[i], v[i]) \o rests[i + 1]

\* What is written of some fields is read.
LEMMA WrittenIsRead ==
  ASSUME NEW fields \in Seq(Field), NEW v, NEW rests, Chain(fields, Len(fields), v, rests)
  PROVE  Read(fields, rests[1]) = Reader(v, rests[Len(fields) + 1])
<1> DEFINE N == Len(fields)
<1>1. N \in Nat
  BY LenProperties
<1>2. /\ v \in Seq(FieldValue) /\ Len(v) = N
      /\ \A i \in 1 .. N + 1 : rests[i] \in Bytes
      /\ \A i \in 1 .. N : /\ v[i] \in Fits(fields[i])
                           /\ rests[i] = Written(fields[i], v[i]) \o rests[i + 1]
  <2>1. \A i \in 1 .. N + 1 : rests[i] \in Bytes
    BY ElementOfSeq, Zenon DEF Chain
  <2> QED BY <2>1, Zenon DEF Chain
<1>3. rests[1] \in Bytes
  BY <1>1, <1>2
<1>4. PICK after : /\ Read(fields, rests[1]) = after[Len(fields)]
                   /\ after[0] = Reader(<<>>, rests[1])
                   /\ \A n \in 1 .. Len(fields) : after[n] = ReadField(after[n - 1], fields[n])
  BY <1>3, ReadSteps, Zenon
<1> DEFINE T == {n \in Nat : n <= N => after[n] = Reader(SubSeq(v, 1, n), rests[n + 1])}
<1> HIDE DEF N
<1>5. 0 \in T
  <2>1. SubSeq(v, 1, 0) = <<>> /\ 0 + 1 = 1
    BY SubSeqEmpty
  <2>2. after[0] = Reader(SubSeq(v, 1, 0), rests[0 + 1])
    BY <1>4, <2>1, Zenon
  <2> QED BY <2>2, 0 \in Nat, Zenon
<1>6. ASSUME NEW n \in Nat, n \in T PROVE n + 1 \in T
  <2> SUFFICES ASSUME n + 1 <= N
               PROVE  after[n + 1] = Reader(SubSeq(v, 1, n + 1), rests[(n + 1) + 1])
    OBVIOUS
  <2> DEFINE m == n + 1
  <2>1. n <= N /\ m \in 1 .. N /\ m - 1 = n /\ m \in 1 .. N + 1 /\ m + 1 \in 1 .. N + 1
    BY <1>1
  <2>2. after[n] = Reader(SubSeq(v, 1, n), rests[m])
    BY <1>6, <2>1
  <2> HIDE DEF m
  <2>3. after[m] = ReadField(Reader(SubSeq(v, 1, n), rests[m]), fields[m])
    BY <1>4, <2>1, <2>2, Zenon DEF N
  <2>4. fields[m] \in Field /\ v[m] \in Fits(fields[m]) /\ rests[m + 1] \in Bytes
    BY <1>2, <2>1, ElementOfSeq, Zenon DEF N
  <2>5. rests[m] = Written(fields[m], v[m]) \o rests[m + 1]
    BY <1>2, <2>1
  <2>6. after[m] = Reader(Append(SubSeq(v, 1, n), v[m]), rests[m + 1])
    <3>1. ReadField(Reader(SubSeq(v, 1, n), Written(fields[m], v[m]) \o rests[m + 1]), fields[m])
            = Reader(Append(SubSeq(v, 1, n), v[m]), rests[m + 1])
      BY <2>4, FieldRead, Zenon
    <3> QED BY <2>3, <2>5, <3>1, Zenon
  <2>7. Append(SubSeq(v, 1, n), v[m]) = SubSeq(v, 1, m)
    <3>1. 1 \in 1 .. Len(v) /\ m \in 1 .. Len(v)
      BY <2>1, <1>2
    <3>2. SubSeq(v, 1, m) = SubSeq(v, 1, m - 1) \o <<v[m]>>
      BY <3>1, <1>2, <2>1, SubSeqRecursiveSecond
    <3>3. v[m] \in FieldValue /\ SubSeq(v, 1, n) \in Seq(FieldValue)
      BY <3>1, <1>2, <2>1
    <3>4. Append(SubSeq(v, 1, n), v[m]) = SubSeq(v, 1, n) \o <<v[m]>>
      BY <3>3, AppendIsConcat, Zenon
    <3> QED BY <3>2, <3>4, <2>1
  <2> QED BY <2>6, <2>7 DEF m
<1>7. Nat \subseteq T
  <2> HIDE DEF T
  <2> QED BY <1>5, <1>6, Induction, Zenon
<1>8. after[N] = Reader(SubSeq(v, 1, N), rests[N + 1])
  BY <1>1, <1>7
<1>9. SubSeq(v, 1, N) = v
  BY <1>2, SubSeqFull, Zenon
<1> QED BY <1>4, <1>8, <1>9, Zenon DEF N

\* What some fields are read from is what is written of them, and more.
LEMMA ReadIsWritten ==
  ASSUME NEW fields \in Seq(Field), NEW input \in Bytes, Read(fields, input).ok
  PROVE  \E v, rests : /\ Chain(fields, Len(fields), v, rests)
                       /\ rests[1] = input
                       /\ Read(fields, input) = Reader(v, rests[Len(fields) + 1])
<1> DEFINE N == Len(fields)
<1>1. N \in Nat
  BY LenProperties
<1>2. PICK after : /\ Read(fields, input) = after[Len(fields)]
                   /\ after[0] = Reader(<<>>, input)
                   /\ \A n \in 1 .. Len(fields) : after[n] = ReadField(after[n - 1], fields[n])
  BY ReadSteps, Zenon
<1> DEFINE Done(n, v, rests) == /\ Chain(fields, n, v, rests)
                                /\ rests[1] = input
                                /\ after[n] = Reader(v, rests[n + 1])
           T == {n \in Nat : n <= N => after[n] \in Readers
                                       /\ (after[n].ok => \E v, rests : Done(n, v, rests))}
<1> HIDE DEF N
<1>3. 0 \in T
  <2>1. Done(0, <<>>, <<input>>)
    BY <1>2, EmptySeq DEF Chain
  <2>2. after[0] \in Readers
    BY <1>2, EmptySeq DEF Readers, Reader
  <2> HIDE DEF Done
  <2> QED BY <2>1, <2>2
<1>4. ASSUME NEW n \in Nat, n \in T PROVE n + 1 \in T
  <2> DEFINE m == n + 1
  <2> SUFFICES ASSUME m <= N
               PROVE  /\ after[m] \in Readers
                      /\ after[m].ok => \E v, rests : Done(m, v, rests)
    OBVIOUS
  <2>1. n <= N /\ m \in 1 .. N /\ m - 1 = n
    BY <1>1
  <2>2. after[n] \in Readers /\ (after[n].ok => \E v, rests : Done(n, v, rests))
    BY <1>4, <2>1
  <2> HIDE DEF m
  <2>3. fields[m] \in Field /\ after[m] = ReadField(after[n], fields[m])
    BY <1>2, <2>1, ElementOfSeq DEF N
  <2>4. after[m] \in Readers
    BY <2>2, <2>3, FieldReader, Zenon
  <2>5. ASSUME after[m].ok PROVE \E v, rests : Done(m, v, rests)
    <3>1. after[n].rest \in Bytes
      BY <2>2 DEF Readers
    <3>2. after[n].ok
      BY <3>1, <2>3, <2>5, FieldTaken, Zenon
    <3>3. PICK x \in Fits(fields[m]), t \in Bytes :
            /\ after[n].rest = Written(fields[m], x) \o t
            /\ ReadField(after[n], fields[m]) = Reader(Append(after[n].values, x), t)
      BY <3>1, <2>3, <2>5, FieldTaken, ZenonT(60)
    <3>4. PICK v, rests : Done(n, v, rests)
      BY <3>2, <2>2
    <3>5. after[n].values = v /\ after[n].rest = rests[n + 1]
      BY <3>4 DEF Reader
    <3>6. x \in FieldValue
      BY <2>3, TextIsData DEF Fits, FieldValue, Field
    <3> DEFINE w == Append(v, x)
               more == Append(rests, t)
    <3>7. /\ v \in Seq(FieldValue) /\ Len(v) = n
          /\ rests \in Seq(Bytes) /\ Len(rests) = n + 1
          /\ \A i \in 1 .. n : /\ v[i] \in Fits(fields[i])
                               /\ rests[i] = Written(fields[i], v[i]) \o rests[i + 1]
      BY <3>4, Zenon DEF Chain
    <3>8. /\ w \in Seq(FieldValue) /\ Len(w) = m /\ w[m] = x
          /\ \A i \in 1 .. n : w[i] = v[i]
      BY <3>6, <3>7, AppendProperties DEF m
    <3>9. /\ more \in Seq(Bytes) /\ Len(more) = m + 1 /\ more[m + 1] = t
          /\ \A i \in 1 .. m : more[i] = rests[i]
      BY <3>3, <3>7, AppendProperties DEF m
    <3> HIDE DEF w, more
    <3>10. ASSUME NEW i \in 1 .. m
           PROVE  w[i] \in Fits(fields[i]) /\ more[i] = Written(fields[i], w[i]) \o more[i + 1]
      <4>1. CASE i \in 1 .. n
        <5>1. i + 1 \in 1 .. m /\ more[i + 1] = rests[i + 1]
          BY <4>1, <3>9 DEF m
        <5> QED BY <4>1, <5>1, <3>7, <3>8, <3>9
      <4>2. CASE i = m
        <5>1. more[m] = rests[m] /\ rests[m] = Written(fields[m], x) \o t
          BY <3>3, <3>5, <3>9 DEF m
        <5> QED BY <4>2, <5>1, <3>3, <3>8, <3>9
      <4>3. i \in 1 .. n \/ i = m
        BY DEF m
      <4> QED BY <4>1, <4>2, <4>3, Zenon
    <3>11. Chain(fields, m, w, more)
      BY <3>8, <3>9, <3>10, Zenon DEF Chain
    <3>12. more[1] = input
      <4>1. 1 \in 1 .. m
        BY DEF m
      <4> QED BY <4>1, <3>4, <3>9
    <3>13. after[m] = Reader(w, more[m + 1])
      BY <2>3, <3>3, <3>5, <3>9, Zenon DEF w
    <3>14. Done(m, w, more)
      BY <3>11, <3>12, <3>13
    <3> HIDE DEF Done
    <3> QED BY <3>14
  <2> QED BY <2>4, <2>5
<1>5. Nat \subseteq T
  <2> HIDE DEF T
  <2> QED BY <1>3, <1>4, Induction, Zenon
<1>6. after[N].ok => \E v, rests : Done(N, v, rests)
  <2>1. N \in T /\ N <= N
    BY <1>1, <1>5
  <2> HIDE DEF Done
  <2> QED BY <2>1
<1> QED BY <1>2, <1>6, Zenon DEF N

-----------------------------------------------------------------------------
(***************************************************************************)
(* FlattenSeq.                                                             *)
(***************************************************************************)
\* rests[i] is what follows the first i - 1 pieces, the last of them nothing.
Pieces(pieces, rests) ==
  /\ pieces \in Seq(Bytes)
  /\ rests \in Seq(Bytes) /\ Len(rests) = Len(pieces) + 1
  /\ rests[Len(pieces) + 1] = <<>>
  /\ \A i \in 1 .. Len(pieces) : rests[i] = pieces[i] \o rests[i + 1]

\* What defines the steps of FlattenSeq.
FlattenStep(pieces, flatten) ==
  [i \in 1 .. Len(pieces) |-> IF i = 1 THEN pieces[i] ELSE flatten[i - 1] \o pieces[i]]

\* The steps of FlattenSeq.
LEMMA FlattenSteps ==
  ASSUME NEW pieces \in Seq(Bytes), pieces # <<>>
  PROVE  \E flat : /\ FlattenSeq(pieces) = flat[Len(pieces)]
                   /\ flat[1] = pieces[1]
                   /\ \A i \in 1 .. Len(pieces) : flat[i] \in Bytes
                   /\ \A i \in 1 .. Len(pieces) : i # 1 => flat[i] = flat[i - 1] \o pieces[i]
<1> DEFINE N == Len(pieces)
           Turn(n, r) == IF n + 1 \in 1 .. N THEN r \o pieces[n + 1] ELSE r
           step == [n \in Nat |-> [r \in Bytes |-> Turn(n, r)]]
           flat == CHOOSE f : f = FlattenStep(pieces, f)
<1>1. N \in Nat /\ N # 0 /\ 1 \in 1 .. N
  BY EmptySeq, LenProperties
<1>2. \A n \in 1 .. N : pieces[n] \in Bytes
  BY ElementOfSeq, Zenon
<1> HIDE DEF N
<1>3. \A n \in Nat, r \in Bytes : Turn(n, r) \in Bytes
  BY <1>2, CutBytes, Zenon
<1>4. step \in Steps(Bytes)
  <2> HIDE DEF Turn
  <2> QED BY <1>3 DEF Steps
<1>5. \A n \in Nat, r \in Bytes : step[n][r] = Turn(n, r)
  <2> HIDE DEF Turn
  <2> QED OBVIOUS
<1> HIDE DEF step
<1>6. <<>> \in Bytes
  BY EmptySeq, Zenon DEF Bytes
<1>7. PICK f : Follows(f, Bytes, <<>>, step)
  BY <1>4, <1>6, Recursion, Zenon
<1>8. f[0] = <<>> /\ \A n \in Nat : f[n] \in Bytes /\ f[n + 1] = Turn(n, f[n])
  <2> HIDE DEF Turn
  <2> QED BY <1>5, <1>7 DEF Follows
<1>9. ASSUME NEW n \in 1 .. N PROVE f[n] \in Bytes /\ f[n] = f[n - 1] \o pieces[n]
  <2>1. n - 1 \in Nat /\ (n - 1) + 1 = n /\ n \in Nat
    OBVIOUS
  <2>2. f[n] = Turn(n - 1, f[n - 1])
    BY <1>8, <2>1
  <2>3. Turn(n - 1, f[n - 1]) = f[n - 1] \o pieces[n]
    BY <2>1
  <2> QED BY <1>8, <2>1, <2>2, <2>3
<1>10. f[1] = pieces[1]
  <2>1. f[1] = f[0] \o pieces[1]
    <3>1. 0 \in Nat /\ 0 + 1 = 1
      OBVIOUS
    <3>2. f[1] = Turn(0, f[0])
      <4> HIDE DEF Turn
      <4> QED BY <1>8, <3>1
    <3> QED BY <1>1, <3>1, <3>2
  <2>2. pieces[1] \in Seq(Byte)
    BY <1>1, <1>2, Zenon DEF Bytes
  <2> QED BY <1>8, <2>1, <2>2, ConcatEmptySeq, Zenon
<1> DEFINE g == [i \in 1 .. N |-> f[i]]
<1>11. g = FlattenStep(pieces, g)
  <2>1. ASSUME NEW i \in 1 .. N, i # 1 PROVE f[i] = g[i - 1] \o pieces[i]
    <3>1. i - 1 \in 1 .. N
      BY <2>1, <1>1
    <3> QED BY <3>1, <1>9
  <2> HIDE DEF g
  <2>2. \A i \in 1 .. N : f[i] = IF i = 1 THEN pieces[i] ELSE g[i - 1] \o pieces[i]
    BY <2>1, <1>10
  <2> QED BY <2>2, Zenon DEF FlattenStep, g, N
<1> HIDE DEF g
<1>12. flat = FlattenStep(pieces, flat)
  BY <1>11, Zenon
<1>13. FlattenSeq(pieces) = flat[N]
  <2>1. ~(Len(pieces) = 0)
    BY <1>1 DEF N
  <2> QED BY <2>1, Zenon DEF FlattenSeq, FlattenStep, N
<1> HIDE DEF flat
<1>14. flat[1] = pieces[1]
  BY <1>1, <1>12, Zenon DEF FlattenStep, N
<1>15. \A i \in 1 .. N : i # 1 => flat[i] = flat[i - 1] \o pieces[i]
  BY <1>12, Zenon DEF FlattenStep, N
<1> DEFINE T == {n \in Nat : n + 1 <= N => flat[n + 1] \in Bytes}
<1>16. 0 \in T
  BY <1>1, <1>2, <1>14
<1>17. ASSUME NEW n \in Nat, n \in T PROVE n + 1 \in T
  <2> SUFFICES ASSUME (n + 1) + 1 <= N PROVE flat[(n + 1) + 1] \in Bytes
    OBVIOUS
  <2> DEFINE m == (n + 1) + 1
  <2>1. m \in 1 .. N /\ m # 1 /\ m - 1 = n + 1 /\ n + 1 <= N
    BY <1>1
  <2>2. flat[n + 1] \in Bytes
    BY <1>17, <2>1
  <2> HIDE DEF m
  <2>3. flat[m] = flat[n + 1] \o pieces[m] /\ pieces[m] \in Bytes
    BY <1>2, <1>15, <2>1
  <2>4. flat[m] \in Bytes
    BY <2>2, <2>3, CutBytes, Zenon
  <2> QED BY <2>4 DEF m
<1>18. Nat \subseteq T
  <2> HIDE DEF T
  <2> QED BY <1>16, <1>17, Induction, Zenon
<1>19. ASSUME NEW i \in 1 .. N PROVE flat[i] \in Bytes
  <2>1. i - 1 \in T /\ (i - 1) + 1 = i
    BY <1>18
  <2> QED BY <2>1
<1> QED BY <1>13, <1>14, <1>15, <1>19, Zenon DEF N

\* The pieces, put together, are what follows none of them.
LEMMA FlattenPieces ==
  ASSUME NEW pieces, NEW rests, Pieces(pieces, rests)
  PROVE  FlattenSeq(pieces) = rests[1]
<1> DEFINE N == Len(pieces)
<1>1. N \in Nat /\ pieces \in Seq(Bytes)
  BY LenProperties DEF Pieces
<1>2. CASE pieces = <<>>
  <2>1. N = 0 /\ N + 1 = 1
    BY <1>2, EmptySeq
  <2>2. rests[1] = <<>>
    BY <2>1 DEF Pieces
  <2> QED BY <1>2, <2>1, <2>2 DEF FlattenSeq
<1>3. CASE pieces # <<>>
  <2>1. PICK flat : /\ FlattenSeq(pieces) = flat[Len(pieces)]
                    /\ flat[1] = pieces[1]
                    /\ \A i \in 1 .. Len(pieces) : flat[i] \in Bytes
                    /\ \A i \in 1 .. Len(pieces) : i # 1 => flat[i] = flat[i - 1] \o pieces[i]
    BY <1>1, <1>3, FlattenSteps, Zenon
  <2> DEFINE T == {n \in Nat : \A k \in 1 .. N : k = n + 1 => rests[1] = flat[k] \o rests[k + 1]}
  <2>2. /\ \A i \in 1 .. N : rests[i] = pieces[i] \o rests[i + 1]
        /\ \A i \in 1 .. N + 1 : rests[i] \in Bytes
        /\ \A i \in 1 .. N : pieces[i] \in Bytes
    <3>1. rests \in Seq(Bytes) /\ Len(rests) = N + 1 /\ pieces \in Seq(Bytes)
      BY DEF Pieces
    <3> QED BY <3>1, ElementOfSeq, Zenon DEF Pieces
  <2>3. N # 0 /\ 1 \in 1 .. N
    BY <1>1, <1>3, EmptySeq
  <2> HIDE DEF N
  <2>4. 0 \in T
    <3>1. rests[1] = flat[1] \o rests[1 + 1]
      BY <2>1, <2>2, <2>3, Zenon
    <3>2. \A k \in 1 .. N : k = 0 + 1 => k = 1
      OBVIOUS
    <3> QED BY <3>1, <3>2, 0 \in Nat, Zenon
  <2>5. ASSUME NEW n \in Nat, n \in T PROVE n + 1 \in T
    <3> SUFFICES ASSUME NEW m \in 1 .. N, m = (n + 1) + 1 PROVE rests[1] = flat[m] \o rests[m + 1]
      BY n + 1 \in Nat, Zenon
    <3> DEFINE k == n + 1
    <3>1. m # 1 /\ m - 1 = k /\ k + 1 = m /\ k \in 1 .. N /\ m \in 1 .. N + 1 /\ m + 1 \in 1 .. N + 1
      BY <1>1
    <3>2. rests[1] = flat[k] \o rests[k + 1]
      BY <2>5, <3>1
    <3> HIDE DEF k
    <3>3. flat[m] = flat[k] \o pieces[m] /\ rests[m] = pieces[m] \o rests[m + 1]
      BY <2>1, <2>2, <3>1, Zenon DEF N
    <3>4. flat[k] \in Bytes /\ pieces[m] \in Bytes /\ rests[m + 1] \in Bytes
      BY <2>1, <2>2, <3>1, Zenon DEF N
    <3>5. (flat[k] \o pieces[m]) \o rests[m + 1] = flat[k] \o (pieces[m] \o rests[m + 1])
      BY <3>4, Joined, Zenon
    <3> QED BY <3>1, <3>2, <3>3, <3>5, Zenon
  <2>6. Nat \subseteq T
    <3> HIDE DEF T
    <3> QED BY <2>4, <2>5, Induction, Zenon
  <2>7. rests[1] = flat[N] \o rests[N + 1]
    <3>1. N - 1 \in Nat /\ N = (N - 1) + 1 /\ N \in 1 .. N
      BY <1>1, <2>3 DEF N
    <3>2. N - 1 \in T
      BY <2>6, <3>1
    <3> QED BY <3>1, <3>2
  <2>8. rests[N + 1] = <<>>
    BY DEF Pieces, N
  <2>9. flat[N] \in Seq(Byte)
    <3>1. N \in 1 .. N
      BY <1>1, <2>3
    <3> QED BY <3>1, <2>1, Zenon DEF N, Bytes
  <2> QED BY <2>1, <2>7, <2>8, <2>9, ConcatEmptySeq, Zenon DEF N
<1> QED BY <1>2, <1>3

\* For any pieces there are such rests.
LEMMA PiecesHaveRests ==
  ASSUME NEW pieces \in Seq(Bytes)
  PROVE  \E rests : Pieces(pieces, rests)
<1> DEFINE N == Len(pieces)
           Turn(n, r) == IF N - n \in 1 .. N THEN pieces[N - n] \o r ELSE r
           step == [n \in Nat |-> [r \in Bytes |-> Turn(n, r)]]
<1>1. N \in Nat
  BY LenProperties
<1>2. \A n \in 1 .. N : pieces[n] \in Bytes
  BY ElementOfSeq, Zenon
<1> HIDE DEF N
<1>3. \A n \in Nat, r \in Bytes : Turn(n, r) \in Bytes
  BY <1>2, CutBytes, Zenon
<1>4. step \in Steps(Bytes)
  <2> HIDE DEF Turn
  <2> QED BY <1>3 DEF Steps
<1>5. \A n \in Nat, r \in Bytes : step[n][r] = Turn(n, r)
  <2> HIDE DEF Turn
  <2> QED OBVIOUS
<1> HIDE DEF step
<1>6. <<>> \in Bytes
  BY EmptySeq, Zenon DEF Bytes
<1>7. PICK f : Follows(f, Bytes, <<>>, step)
  BY <1>4, <1>6, Recursion, Zenon
<1>8. f[0] = <<>> /\ \A n \in Nat : f[n] \in Bytes /\ f[n + 1] = Turn(n, f[n])
  <2> HIDE DEF Turn
  <2> QED BY <1>5, <1>7 DEF Follows
<1> DEFINE rests == [i \in 1 .. N + 1 |-> f[N + 1 - i]]
<1>9. rests \in Seq(Bytes) /\ Len(rests) = N + 1
  <2>1. rests \in [1 .. N + 1 -> Bytes] /\ N + 1 \in Nat
    BY <1>1, <1>8
  <2> HIDE DEF rests
  <2> QED BY <2>1, Numbered, Zenon
<1>10. rests[N + 1] = <<>>
  <2>1. N + 1 \in 1 .. N + 1 /\ N + 1 - (N + 1) = 0
    BY <1>1
  <2> QED BY <1>8, <2>1
<1>11. ASSUME NEW i \in 1 .. N PROVE rests[i] = pieces[i] \o rests[i + 1]
  <2> DEFINE n == N - i
  <2>1. n \in Nat /\ N - n = i /\ N + 1 - i = n + 1 /\ N + 1 - (i + 1) = n
    BY <1>1
  <2>2. rests[i] = f[n + 1] /\ rests[i + 1] = f[n]
    BY <1>1, <2>1
  <2>3. f[n + 1] = Turn(n, f[n]) /\ Turn(n, f[n]) = pieces[i] \o f[n]
    BY <1>8, <2>1
  <2> QED BY <2>2, <2>3
<1> HIDE DEF rests
<1>12. Pieces(pieces, rests)
  BY <1>9, <1>10, <1>11, Zenon DEF Pieces, N
<1> QED BY <1>12, Zenon

-----------------------------------------------------------------------------
(***************************************************************************)
(* The loops over entries.                                                 *)
(***************************************************************************)
\* Read keeps the types.
LEMMA ReadReader ==
  ASSUME NEW fields \in Seq(Field), NEW input \in Bytes
  PROVE  Read(fields, input) \in Readers
<1>1. PICK after : /\ Read(fields, input) = after[Len(fields)]
                   /\ after[0] = Reader(<<>>, input)
                   /\ \A n \in 1 .. Len(fields) : after[n] = ReadField(after[n - 1], fields[n])
  BY ReadSteps, Zenon
<1> DEFINE T == {n \in Nat : \A m \in 0 .. Len(fields) : m = n => after[m] \in Readers}
<1>2. 0 \in T
  <2>1. after[0] \in Readers
    BY <1>1, EmptySeq DEF Readers, Reader
  <2> QED BY <2>1
<1>3. ASSUME NEW n \in Nat, n \in T PROVE n + 1 \in T
  <2> SUFFICES ASSUME NEW m \in 0 .. Len(fields), m = n + 1 PROVE after[m] \in Readers
    BY n + 1 \in Nat, Zenon
  <2>1. m \in 1 .. Len(fields) /\ m - 1 = n /\ n \in 0 .. Len(fields)
    BY LenProperties
  <2>2. after[n] \in Readers /\ fields[m] \in Field
    BY <1>3, <2>1, ElementOfSeq, Zenon
  <2>3. after[m] = ReadField(after[n], fields[m])
    BY <1>1, <2>1
  <2> QED BY <2>2, <2>3, FieldReader, Zenon
<1>4. Nat \subseteq T
  <2> HIDE DEF T
  <2> QED BY <1>2, <1>3, Induction, Zenon
<1>5. Len(fields) \in Nat /\ Len(fields) \in 0 .. Len(fields)
  BY LenProperties
<1> QED BY <1>1, <1>4, <1>5, Zenon

\* A loop that has taken items and has the bytes rest before it.
Loop(items, rest) == [ok |-> TRUE, items |-> items, rest |-> rest]

\* The values that one turn of a loop reads.
Item == Seq(FieldValue)

\* What ReadAll and ReadItem answer, and start from.
Loops == [ok : BOOLEAN, items : Seq(Item), rest : Bytes]

\* A turn of a loop keeps the types.
LEMMA ItemLoop ==
  ASSUME NEW fields \in Seq(Field), NEW r \in Loops
  PROVE  ReadItem(fields, r) \in Loops
<1> DEFINE item == Read(fields, r.rest)
<1>1. r.items \in Seq(Item) /\ r.rest \in Bytes
  BY DEF Loops
<1>2. item \in Readers
  BY <1>1, ReadReader, Zenon
<1> HIDE DEF item
<1>3. item.ok \in BOOLEAN /\ item.values \in Item /\ item.rest \in Bytes
  BY <1>2 DEF Readers, Item
<1>4. Append(r.items, item.values) \in Seq(Item)
  BY <1>1, <1>3, AppendProperties, Zenon
<1>5. ReadItem(fields, r) = IF r.ok /\ r.rest # <<>>
        THEN [ok |-> item.ok, items |-> Append(r.items, item.values), rest |-> item.rest]
        ELSE r
  BY DEF ReadItem, item
<1> QED BY <1>3, <1>4, <1>5 DEF Loops

\* What defines the turns of ReadAll.
LoopStep(fields, input, after) ==
  [n \in 0 .. Len(input) |->
     IF n = 0 THEN [ok |-> TRUE, items |-> <<>>, rest |-> input]
     ELSE ReadItem(fields, after[n - 1])]

\* The turns of ReadAll.
LEMMA LoopSteps ==
  ASSUME NEW fields \in Seq(Field), NEW input \in Bytes
  PROVE  \E after : /\ ReadAll(fields, input) = after[Len(input)]
                    /\ after[0] = Loop(<<>>, input)
                    /\ \A n \in 0 .. Len(input) : after[n] \in Loops
                    /\ \A n \in 1 .. Len(input) : after[n] = ReadItem(fields, after[n - 1])
<1> DEFINE start == Loop(<<>>, input)
           step == [n \in Nat |-> [r \in Loops |-> ReadItem(fields, r)]]
           after == CHOOSE f : f = LoopStep(fields, input, f)
           N == Len(input)
<1>1. start \in Loops
  BY EmptySeq DEF Loop, Loops
<1>2. N \in Nat
  BY LenProperties DEF Bytes
<1> HIDE DEF start, N
<1>3. step \in Steps(Loops) /\ \A n \in Nat, r \in Loops : step[n][r] = ReadItem(fields, r)
  BY ItemLoop DEF Steps
<1> HIDE DEF step
<1>4. PICK f : Follows(f, Loops, start, step)
  BY <1>1, <1>3, Recursion, Zenon
<1>5. f[0] = start /\ \A n \in Nat : f[n] \in Loops /\ f[n + 1] = ReadItem(fields, f[n])
  BY <1>3, <1>4 DEF Follows
<1> DEFINE g == [n \in 0 .. N |-> f[n]]
<1>6. g = LoopStep(fields, input, g)
  <2>1. ASSUME NEW n \in 0 .. N, n # 0 PROVE f[n] = ReadItem(fields, g[n - 1])
    <3>1. n - 1 \in Nat /\ (n - 1) + 1 = n /\ n - 1 \in 0 .. N
      BY <1>2, <2>1
    <3>2. f[n] = ReadItem(fields, f[n - 1])
      BY <1>5, <3>1
    <3> QED BY <3>1, <3>2
  <2>2. f[0] = [ok |-> TRUE, items |-> <<>>, rest |-> input]
    BY <1>5, Zenon DEF start, Loop
  <2> HIDE DEF g
  <2>3. \A n \in 0 .. N :
          f[n] = IF n = 0 THEN [ok |-> TRUE, items |-> <<>>, rest |-> input]
                 ELSE ReadItem(fields, g[n - 1])
    BY <2>1, <2>2, Zenon
  <2> QED BY <2>3, Zenon DEF LoopStep, g, N
<1> HIDE DEF g
<1>7. after = LoopStep(fields, input, after)
  BY <1>6, Zenon
<1>8. ReadAll(fields, input) = after[N]
  BY Zenon DEF ReadAll, LoopStep, N
<1> HIDE DEF after
<1>9. 0 \in 0 .. N /\ \A n \in 1 .. N : n \in 0 .. N /\ n # 0
  BY <1>2
<1>10. after[0] = start
  BY <1>7, <1>9, Zenon DEF LoopStep, start, Loop, N
<1>11. \A n \in 1 .. N : after[n] = ReadItem(fields, after[n - 1])
  BY <1>7, <1>9, Zenon DEF LoopStep, N
<1> DEFINE T == {n \in Nat : \A m \in 0 .. N : m = n => after[m] \in Loops}
<1>12. 0 \in T
  BY <1>1, <1>10
<1>13. ASSUME NEW n \in Nat, n \in T PROVE n + 1 \in T
  <2> SUFFICES ASSUME NEW m \in 0 .. N, m = n + 1 PROVE after[m] \in Loops
    BY n + 1 \in Nat, Zenon
  <2>1. m \in 1 .. N /\ m - 1 = n /\ n \in 0 .. N
    BY <1>2
  <2>2. after[n] \in Loops
    BY <1>13, <2>1, Zenon
  <2>3. after[m] = ReadItem(fields, after[n])
    BY <1>11, <2>1
  <2> QED BY <2>2, <2>3, ItemLoop, Zenon
<1>14. Nat \subseteq T
  <2> HIDE DEF T
  <2> QED BY <1>12, <1>13, Induction, Zenon
<1>15. \A n \in 0 .. N : after[n] \in Loops
  <2>1. \A n \in 0 .. N : n \in Nat
    BY <1>2
  <2> QED BY <1>14, <2>1, Zenon
<1> QED BY <1>8, <1>10, <1>11, <1>15, Zenon DEF start, N

\* rests[i + 1] is what follows the i-th of n entries, none of them empty.
Entries(fields, n, items, rests) ==
  /\ items \in Seq(Item) /\ Len(items) = n
  /\ rests \in Seq(Bytes) /\ Len(rests) = n + 1
  /\ \A i \in 1 .. n : /\ Read(fields, rests[i]) = Reader(items[i], rests[i + 1])
                       /\ Len(rests[i + 1]) < Len(rests[i])

\* A turn takes an entry; when nothing is left, a turn does nothing.
LEMMA TurnTakes ==
  ASSUME NEW fields, NEW items, NEW s, NEW item, NEW t, s # <<>>,
         Read(fields, s) = Reader(item, t)
  PROVE  ReadItem(fields, Loop(items, s)) = Loop(Append(items, item), t)
<1> DEFINE r == Loop(items, s)
           read == Reader(item, t)
<1>1. r.ok /\ r.items = items /\ r.rest = s
  BY DEF Loop
<1>2. read.ok = TRUE /\ read.values = item /\ read.rest = t
  BY DEF Reader
<1>3. Read(fields, r.rest) = read
  BY <1>1
<1> HIDE DEF r, read
<1>4. ReadItem(fields, r) =
        [ok |-> read.ok, items |-> Append(r.items, read.values), rest |-> read.rest]
  BY <1>1, <1>3 DEF ReadItem
<1>5. ReadItem(fields, r) = Loop(Append(items, item), t)
  BY <1>1, <1>2, <1>4, Zenon DEF Loop
<1> QED BY <1>5 DEF r

\* A turn that finds no bytes does nothing.
LEMMA TurnEnds ==
  ASSUME NEW fields, NEW items
  PROVE  ReadItem(fields, Loop(items, <<>>)) = Loop(items, <<>>)
BY DEF ReadItem, Loop

\* A sequence that grows to its end.
LEMMA Grown ==
  ASSUME NEW S, NEW s \in Seq(S), NEW m \in 1 .. Len(s)
  PROVE  Append(SubSeq(s, 1, m - 1), s[m]) = SubSeq(s, 1, m)
<1>1. 1 \in 1 .. Len(s) /\ m \in 1 .. m /\ Len(s) \in Nat /\ m - 1 \in 0 .. Len(s)
  BY LenProperties
<1>2. SubSeq(s, 1, m) = SubSeq(s, 1, m - 1) \o <<s[m]>>
  BY <1>1, SubSeqRecursiveSecond
<1>3. s[m] \in S /\ SubSeq(s, 1, m - 1) \in Seq(S)
  BY <1>1, Parts, ElementOfSeq
<1>4. Append(SubSeq(s, 1, m - 1), s[m]) = SubSeq(s, 1, m - 1) \o <<s[m]>>
  BY <1>3, AppendIsConcat, Zenon
<1> QED BY <1>2, <1>4

\* There are no more entries than bytes.
LEMMA FewEntries ==
  ASSUME NEW fields, NEW n \in Nat, NEW items, NEW rests, Entries(fields, n, items, rests)
  PROVE  n <= Len(rests[1])
<1> DEFINE T == {k \in Nat : \A m \in 1 .. n + 1 : m = k + 1 => Len(rests[m]) + k <= Len(rests[1])}
<1>1. \A i \in 1 .. n + 1 : Len(rests[i]) \in Nat
  <2>1. \A i \in 1 .. n + 1 : rests[i] \in Bytes
    BY ElementOfSeq, Zenon DEF Entries
  <2> QED BY <2>1, LenProperties DEF Bytes
<1>2. 0 \in T
  BY <1>1
<1>3. ASSUME NEW k \in Nat, k \in T PROVE k + 1 \in T
  <2> SUFFICES ASSUME NEW m \in 1 .. n + 1, m = (k + 1) + 1
               PROVE  Len(rests[m]) + (k + 1) <= Len(rests[1])
    BY k + 1 \in Nat, Zenon
  <2> DEFINE j == k + 1
  <2>1. j \in 1 .. n /\ j \in 1 .. n + 1 /\ j + 1 = m /\ 1 \in 1 .. n + 1
    OBVIOUS
  <2>2. Len(rests[j]) + k <= Len(rests[1])
    BY <1>3, <2>1
  <2> HIDE DEF j
  <2>3. Len(rests[m]) < Len(rests[j])
    BY <2>1 DEF Entries
  <2>4. Len(rests[m]) \in Nat /\ Len(rests[j]) \in Nat /\ Len(rests[1]) \in Nat
    BY <1>1, <2>1
  <2>5. \A x, y, z \in Nat : y + k <= z /\ x < y => x + (k + 1) <= z
    OBVIOUS
  <2> QED BY <2>2, <2>3, <2>4, <2>5, Zenon
<1>4. Nat \subseteq T
  <2> HIDE DEF T
  <2> QED BY <1>2, <1>3, Induction, Zenon
<1>5. n + 1 \in 1 .. n + 1 /\ 1 \in 1 .. n + 1
  OBVIOUS
<1>6. Len(rests[n + 1]) + n <= Len(rests[1])
  BY <1>4, <1>5
<1> QED BY <1>1, <1>5, <1>6

\* The loop reads all entries and ends.
LEMMA EntriesRead ==
  ASSUME NEW fields \in Seq(Field), NEW n \in Nat, NEW items, NEW rests,
         Entries(fields, n, items, rests), rests[n + 1] = <<>>
  PROVE  ReadAll(fields, rests[1]) = Loop(items, <<>>)
<1> DEFINE N == Len(rests[1])
<1>1. /\ items \in Seq(Item) /\ Len(items) = n
      /\ rests \in Seq(Bytes) /\ Len(rests) = n + 1
      /\ \A i \in 1 .. n : /\ Read(fields, rests[i]) = Reader(items[i], rests[i + 1])
                           /\ Len(rests[i + 1]) < Len(rests[i])
  BY DEF Entries
<1>2. \A i \in 1 .. n + 1 : rests[i] \in Bytes /\ Len(rests[i]) \in Nat
  <2>1. \A i \in 1 .. n + 1 : rests[i] \in Bytes
    BY <1>1, ElementOfSeq, Zenon
  <2> QED BY <2>1, LenProperties DEF Bytes
<1>3. 1 \in 1 .. n + 1
  OBVIOUS
<1>4. rests[1] \in Bytes /\ N \in Nat /\ n <= N
  BY <1>2, <1>3, FewEntries
<1>5. PICK after : /\ ReadAll(fields, rests[1]) = after[N]
                   /\ after[0] = Loop(<<>>, rests[1])
                   /\ \A k \in 1 .. N : after[k] = ReadItem(fields, after[k - 1])
  BY <1>4, LoopSteps, Zenon
<1> HIDE DEF N
<1> DEFINE State(m) == IF m <= n THEN Loop(SubSeq(items, 1, m), rests[m + 1]) ELSE Loop(items, <<>>)
           T == {k \in Nat : \A m \in 0 .. N : m = k => after[m] = State(m)}
<1>6. SubSeq(items, 1, n) = items
  BY <1>1, SubSeqFull, Zenon
<1>7. 0 \in T
  <2>1. SubSeq(items, 1, 0) = <<>>
    BY SubSeqEmpty
  <2>2. State(0) = Loop(<<>>, rests[1])
    <3>1. 0 <= n /\ 0 + 1 = 1
      OBVIOUS
    <3> QED BY <2>1, <3>1, Zenon
  <2> HIDE DEF State
  <2> QED BY <1>5, <2>2
<1>8. ASSUME NEW k \in Nat, k \in T PROVE k + 1 \in T
  <2> SUFFICES ASSUME NEW m \in 0 .. N, m = k + 1 PROVE after[m] = State(m)
    BY k + 1 \in Nat, Zenon
  <2>1. m \in 1 .. N /\ m - 1 = k /\ k \in 0 .. N /\ m \in Nat
    BY <1>4
  <2>2. after[k] = State(k)
    <3> HIDE DEF State
    <3> QED BY <1>8, <2>1
  <2>3. after[m] = ReadItem(fields, after[k])
    BY <1>5, <2>1
  <2>4. CASE m <= n
    <3>1. m \in 1 .. n /\ k <= n /\ k + 1 = m /\ m + 1 \in 1 .. n + 1 /\ m \in 1 .. n + 1
      BY <2>1, <2>4
    <3>2. after[k] = Loop(SubSeq(items, 1, k), rests[m])
      BY <2>2, <3>1
    <3>3. rests[m] # <<>>
      <4>1. Len(rests[m + 1]) < Len(rests[m]) /\ Len(rests[m + 1]) \in Nat
        BY <1>1, <1>2, <3>1
      <4>2. Len(<<>>) = 0
        OBVIOUS
      <4> QED BY <4>1, <4>2
    <3>4. Read(fields, rests[m]) = Reader(items[m], rests[m + 1])
      BY <1>1, <3>1
    <3>5. after[m] = Loop(Append(SubSeq(items, 1, k), items[m]), rests[m + 1])
      <4>1. ReadItem(fields, Loop(SubSeq(items, 1, k), rests[m]))
              = Loop(Append(SubSeq(items, 1, k), items[m]), rests[m + 1])
        BY <3>3, <3>4, TurnTakes, SMT
      <4> QED BY <2>3, <3>2, <4>1, Zenon
    <3>6. Append(SubSeq(items, 1, m - 1), items[m]) = SubSeq(items, 1, m)
      BY <1>1, <3>1, Grown, Zenon
    <3> QED BY <2>1, <2>4, <3>5, <3>6
  <2>5. CASE ~(m <= n)
    <3>1. State(k) = Loop(items, <<>>)
      <4>1. CASE k = n
        BY <4>1, <1>6
      <4>2. CASE k # n
        <5>1. ~(k <= n)
          BY <4>2, <2>1, <2>5
        <5> QED BY <5>1
      <4> QED BY <4>1, <4>2
    <3>2. after[m] = Loop(items, <<>>)
      <4> HIDE DEF State
      <4> QED BY <2>2, <2>3, <3>1, TurnEnds, Zenon
    <3> QED BY <2>5, <3>2
  <2> QED BY <2>4, <2>5
<1>9. Nat \subseteq T
  <2> HIDE DEF T
  <2> QED BY <1>7, <1>8, Induction, Zenon
<1>10. after[N] = State(N)
  <2>1. N \in T /\ N \in 0 .. N
    BY <1>4, <1>9
  <2> HIDE DEF State
  <2> QED BY <2>1
<1>11. State(N) = Loop(items, <<>>)
  <2>1. CASE N = n
    BY <2>1, <1>6
  <2>2. CASE N # n
    <3>1. ~(N <= n)
      BY <2>2, <1>4
    <3> QED BY <3>1
  <2> QED BY <2>1, <2>2
<1> QED BY <1>5, <1>10, <1>11

\* Reading these fields takes a byte at least.
Consumes(fields) ==
  \A s \in Bytes : Read(fields, s).ok => Len(Read(fields, s).rest) < Len(s)

\* A loop that ends without an error has read entries, all there are.
LEMMA LoopRead ==
  ASSUME NEW fields \in Seq(Field), Consumes(fields), NEW input \in Bytes,
         ReadAll(fields, input).ok
  PROVE  \E n \in Nat : \E items, rests :
           /\ Entries(fields, n, items, rests)
           /\ rests[1] = input
           /\ rests[n + 1] = <<>>
           /\ ReadAll(fields, input) = Loop(items, <<>>)
<1> DEFINE N == Len(input)
<1>1. N \in Nat
  BY LenProperties DEF Bytes
<1>2. PICK after : /\ ReadAll(fields, input) = after[N]
                   /\ after[0] = Loop(<<>>, input)
                   /\ \A k \in 0 .. N : after[k] \in Loops
                   /\ \A k \in 1 .. N : after[k] = ReadItem(fields, after[k - 1])
  BY LoopSteps, Zenon
<1> HIDE DEF N
<1> DEFINE Taken(k, n, items, rests) ==
             /\ n \in Nat
             /\ Entries(fields, n, items, rests)
             /\ rests[1] = input
             /\ after[k] = Loop(items, rests[n + 1])
             /\ rests[n + 1] = <<>> \/ Len(rests[n + 1]) <= N - k
           Good(k) == after[k].ok => \E n, items, rests : Taken(k, n, items, rests)
           T == {k \in Nat : \A m \in 0 .. N : m = k => Good(m)}
<1>3. 0 \in T
  <2>1. Taken(0, 0, <<>>, <<input>>)
    <3>1. <<>> \in Seq(Item) /\ Len(<<>>) = 0 /\ <<input>> \in Seq(Bytes) /\ Len(<<input>>) = 0 + 1
      BY EmptySeq
    <3>2. Entries(fields, 0, <<>>, <<input>>)
      BY <3>1 DEF Entries
    <3>3. <<input>>[0 + 1] = input /\ <<input>>[1] = input /\ N - 0 = N /\ N <= N
      BY <1>1
    <3> QED BY <1>2, <3>2, <3>3 DEF N
  <2> HIDE DEF Taken
  <2>2. Good(0)
    BY <2>1, Zenon
  <2> HIDE DEF Good
  <2> QED BY <2>2
<1>4. ASSUME NEW k \in Nat, k \in T PROVE k + 1 \in T
  <2> SUFFICES ASSUME NEW m \in 0 .. N, m = k + 1, after[m].ok
               PROVE  \E n, items, rests : Taken(m, n, items, rests)
    <3> HIDE DEF Taken
    <3>1. \A m \in 0 .. N : m = k + 1 => Good(m)
      OBVIOUS
    <3> HIDE DEF Good
    <3> QED BY <3>1, k + 1 \in Nat, Zenon
  <2>1. m \in 1 .. N /\ m - 1 = k /\ k \in 0 .. N
    BY <1>1
  <2>2. Good(k)
    <3> HIDE DEF Good
    <3> QED BY <1>4, <2>1
  <2>3. after[m] = ReadItem(fields, after[k]) /\ after[k] \in Loops
    BY <1>2, <2>1
  <2>4. after[k].ok
    BY <2>3 DEF ReadItem
  <2>5. PICK n, items, rests : Taken(k, n, items, rests)
    <3> HIDE DEF Taken
    <3> QED BY <2>2, <2>4, Zenon
  <2>6. /\ n \in Nat
        /\ rests[1] = input
        /\ after[k] = Loop(items, rests[n + 1])
        /\ rests[n + 1] = <<>> \/ Len(rests[n + 1]) <= N - k
        /\ items \in Seq(Item) /\ Len(items) = n
        /\ rests \in Seq(Bytes) /\ Len(rests) = n + 1
        /\ \A i \in 1 .. n : /\ Read(fields, rests[i]) = Reader(items[i], rests[i + 1])
                             /\ Len(rests[i + 1]) < Len(rests[i])
    BY <2>5, Zenon DEF Entries
  <2> DEFINE s == rests[n + 1]
  <2>7. CASE s = <<>>
    <3>1. after[m] = Loop(items, <<>>)
      BY <2>3, <2>6, <2>7, TurnEnds, Zenon
    <3>2. Taken(m, n, items, rests)
      BY <2>5, <2>7, <3>1
    <3> HIDE DEF Taken
    <3> QED BY <3>2
  <2>8. CASE s # <<>>
    <3> DEFINE item == Read(fields, s)
    <3>1. s \in Bytes
      <4>1. n + 1 \in 1 .. Len(rests)
        BY <2>6
      <4> QED BY <4>1, <2>6, ElementOfSeq, Zenon
    <3>2. item \in Readers
      BY <3>1, ReadReader, Zenon
    <3>3. after[m] = [ok |-> item.ok, items |-> Append(items, item.values), rest |-> item.rest]
      <4>1. after[k].ok /\ after[k].rest = s /\ after[k].items = items
        BY <2>6 DEF Loop
      <4> QED BY <4>1, <2>3, <2>8 DEF ReadItem
    <3>4. item.ok
      BY <3>3
    <3>5. Len(item.rest) < Len(s)
      BY <3>1, <3>4, Zenon DEF Consumes
    <3> HIDE DEF item, s
    <3>6. item.ok = TRUE /\ item.values \in Item /\ item.rest \in Bytes
      BY <3>2, <3>4 DEF Readers, Item
    <3>7. item = Reader(item.values, item.rest)
      BY <3>2, <3>6 DEF Readers, Reader
    <3> DEFINE more == Append(items, item.values)
               left == Append(rests, item.rest)
    <3>8. /\ more \in Seq(Item) /\ Len(more) = n + 1 /\ more[n + 1] = item.values
          /\ \A i \in 1 .. n : more[i] = items[i]
      BY <2>6, <3>6, AppendProperties, ZenonT(60)
    <3>9. /\ left \in Seq(Bytes) /\ Len(left) = (n + 1) + 1 /\ left[(n + 1) + 1] = item.rest
          /\ \A i \in 1 .. n + 1 : left[i] = rests[i]
      BY <2>6, <3>6, AppendProperties
    <3> HIDE DEF more, left
    <3>10. ASSUME NEW i \in 1 .. n + 1
           PROVE  /\ Read(fields, left[i]) = Reader(more[i], left[i + 1])
                  /\ Len(left[i + 1]) < Len(left[i])
      <4>1. CASE i \in 1 .. n
        <5>1. i + 1 \in 1 .. n + 1 /\ i \in 1 .. n + 1
          BY <4>1, <2>6
        <5>2. left[i] = rests[i] /\ left[i + 1] = rests[i + 1] /\ more[i] = items[i]
          BY <5>1, <4>1, <3>8, <3>9
        <5> QED BY <4>1, <5>2, <2>6
      <4>2. CASE i = n + 1
        <5>1. left[i] = s /\ left[i + 1] = item.rest /\ more[i] = item.values
          BY <4>2, <3>8, <3>9 DEF s
        <5> QED BY <5>1, <3>5, <3>7 DEF item
      <4>3. i \in 1 .. n \/ i = n + 1
        BY <2>6
      <4> QED BY <4>1, <4>2, <4>3, Zenon
    <3>11. Entries(fields, n + 1, more, left)
      BY <3>8, <3>9, <3>10, Zenon DEF Entries
    <3>12. left[1] = input
      <4>1. 1 \in 1 .. n + 1
        BY <2>6
      <4> QED BY <4>1, <2>6, <3>9
    <3>13. after[m] = Loop(more, left[(n + 1) + 1])
      BY <3>3, <3>6, <3>9, Zenon DEF Loop, more
    <3>14. Len(left[(n + 1) + 1]) <= N - m
      <4>1. Len(s) <= N - k
        BY <2>6, <2>8 DEF s
      <4>2. Len(s) \in Nat /\ Len(item.rest) \in Nat
        BY <3>1, <3>6, LenProperties DEF Bytes
      <4>3. Len(item.rest) <= N - m
        BY <4>1, <4>2, <3>5, <1>1, <2>1
      <4> QED BY <4>3, <3>9
    <3>15. Taken(m, n + 1, more, left)
      BY <2>6, <3>11, <3>12, <3>13, <3>14
    <3> HIDE DEF Taken
    <3> QED BY <3>15
  <2> QED BY <2>7, <2>8
<1>5. Nat \subseteq T
  <2> HIDE DEF T
  <2> QED BY <1>3, <1>4, Induction, Zenon
<1>6. Good(N)
  <2>1. N \in T /\ N \in 0 .. N
    BY <1>1, <1>5
  <2> HIDE DEF Good
  <2> QED BY <2>1
<1>7. PICK n, items, rests : Taken(N, n, items, rests)
  <2> HIDE DEF Taken
  <2> QED BY <1>2, <1>6, Zenon
<1>8. rests[n + 1] = <<>>
  <2> SUFFICES ASSUME Len(rests[n + 1]) <= N - N PROVE rests[n + 1] = <<>>
    BY <1>7
  <2>1. rests[n + 1] \in Seq(Byte)
    <3>1. rests \in Seq(Bytes) /\ Len(rests) = n + 1 /\ n \in Nat
      BY <1>7, Zenon DEF Entries
    <3>2. n + 1 \in 1 .. Len(rests)
      BY <3>1
    <3> QED BY <3>1, <3>2, ElementOfSeq, Zenon DEF Bytes
  <2>2. Len(rests[n + 1]) \in Nat
    BY <2>1, LenProperties, Zenon
  <2>3. Len(rests[n + 1]) = 0
    BY <2>2, <1>1
  <2> QED BY <2>1, <2>3, EmptySeq
<1> QED BY <1>2, <1>7, <1>8, Zenon

-----------------------------------------------------------------------------
(***************************************************************************)
(* Packets.                                                                *)
(***************************************************************************)
\* The fields of a packet, by its type.
LEMMA PacketFields ==
  ASSUME NEW p \in AnyPacket
  PROVE  /\ p.type = "connect" =>
              p \in [type : {"connect"}, clean_session : BOOLEAN, keep_alive : Word,
                     client_id : Text, will : Will \cup {None}, username : Text \cup {None},
                     password : Data \cup {None}]
         /\ p.type = "connack" => p \in [type : {"connack"}, session_present : BOOLEAN, code : Byte]
         /\ p.type = "publish" =>
              p \in [type : {"publish"}, dup : BOOLEAN, qos : Qos, retain : BOOLEAN, topic : Text,
                     pkid : Word, payload : Seq(Byte)]
         /\ p.type \in Acks => p \in [type : Acks, pkid : Word]
         /\ p.type = "subscribe" =>
              p \in [type : {"subscribe"}, pkid : Word, filters : Seq([path : Text, qos : Qos])]
         /\ p.type = "suback" => p \in [type : {"suback"}, pkid : Word, return_codes : Seq(Byte)]
         /\ p.type = "unsubscribe" =>
              p \in [type : {"unsubscribe"}, pkid : Word, filters : Seq(Text)]
         /\ p.type \in Bare => p \in [type : Bare]
         /\ \/ p.type \in {"connect", "connack", "publish", "subscribe", "suback", "unsubscribe"}
            \/ p.type \in Acks
            \/ p.type \in Bare
BY DEF AnyPacket, Acks, Bare

\* Body and DecodeBody, by type.
LEMMA BodyOf ==
  ASSUME NEW p
  PROVE  /\ p.type = "connect" => Body(p) = ConnectBody(p)
         /\ p.type = "connack" => Body(p) = <<Flag(p.session_present), p.code>>
         /\ p.type = "publish" => Body(p) = PublishBody(p)
         /\ p.type \in Acks => Body(p) = WriteU16(p.pkid)
         /\ p.type = "subscribe" => Body(p) = SubscribeBody(p)
         /\ p.type = "suback" => Body(p) = WriteU16(p.pkid) \o p.return_codes
         /\ p.type = "unsubscribe" => Body(p) = UnsubscribeBody(p)
         /\ p.type \in Bare => Body(p) = <<>>
BY DEF Body, Acks, Bare

\* What decodes the body, by the type.
LEMMA DecodeBodyOf ==
  ASSUME NEW type, NEW flags, NEW body
  PROVE  /\ type = "connect" => DecodeBody(type, flags, body) = DecodeConnect(body)
         /\ type = "connack" => DecodeBody(type, flags, body) = DecodeConnAck(body)
         /\ type = "publish" => DecodeBody(type, flags, body) = DecodePublish(flags, body)
         /\ type \in Acks => DecodeBody(type, flags, body) = DecodeAck(type, body)
         /\ type = "subscribe" => DecodeBody(type, flags, body) = DecodeSubscribe(body)
         /\ type = "suback" => DecodeBody(type, flags, body) = DecodeSubAck(body)
         /\ type = "unsubscribe" => DecodeBody(type, flags, body) = DecodeUnsubscribe(body)
         /\ type \in Bare =>
              DecodeBody(type, flags, body) = IF body = <<>> THEN [type |-> type] ELSE Malformed
BY DEF DecodeBody, Acks, Bare

\* What a packet is to the codec: its body is bytes, its flags are four bits,
\* and of both decode_packet makes the packet again.
RoundTrip(p) ==
  /\ Body(p) \in Bytes
  /\ Flags(p) \in 0 .. 15
  /\ FlagsAccepted(p.type, Flags(p))
  /\ DecodeBody(p.type, Flags(p), Body(p)) = p

\* What decode_packet makes of a body, if not an error, is written like that body.
Faithful(type, flags, body) ==
  LET p == DecodeBody(type, flags, body)
  IN  p # Malformed =>
        /\ p.type = type
        /\ p \in AnyPacket
        /\ Flags(p) = flags
        /\ Body(p) = body
        /\ Len(body) <= MaxRemainingLen => Encodable(p)

\* Acknowledgements: what is written is read again.
LEMMA AckRoundTrip ==
  ASSUME NEW p \in AnyPacket, p.type \in Acks, Encodable(p)
  PROVE  RoundTrip(p)
<1>1. p \in [type : Acks, pkid : Word]
  BY PacketFields
<1>2. p.pkid \in Word /\ p.pkid # 0
  BY <1>1 DEF Encodable
<1>3. Body(p) = WriteU16(p.pkid)
  BY BodyOf
<1>4. Body(p) \in Bytes /\ Len(Body(p)) = 2 /\ U16(Body(p)) = p.pkid
  BY <1>2, <1>3, WordWritten, Zenon
<1>5. Flags(p) \in 0 .. 15 /\ FlagsAccepted(p.type, Flags(p))
  BY DEF Flags, FlagsAccepted, Acks
<1>6. DecodeBody(p.type, Flags(p), Body(p)) = DecodeAck(p.type, Body(p))
  BY DecodeBodyOf
<1>7. DecodeAck(p.type, Body(p)) = [type |-> p.type, pkid |-> p.pkid]
  BY <1>2, <1>4 DEF DecodeAck
<1>8. [type |-> p.type, pkid |-> p.pkid] = p
  BY <1>1
<1> QED BY <1>4, <1>5, <1>6, <1>7, <1>8, Zenon DEF RoundTrip

\* Acknowledgements: what is accepted is what is written.
LEMMA AckFaithful ==
  ASSUME NEW type \in Acks, NEW flags \in 0 .. 15, FlagsAccepted(type, flags), NEW body \in Bytes
  PROVE  Faithful(type, flags, body)
<1> DEFINE p == DecodeBody(type, flags, body)
<1>1. p = DecodeAck(type, body)
  BY DecodeBodyOf
<1>2. SUFFICES ASSUME p # Malformed
               PROVE  /\ p.type = type /\ p \in AnyPacket /\ Flags(p) = flags /\ Body(p) = body
                      /\ Len(body) <= MaxRemainingLen => Encodable(p)
  BY Zenon DEF Faithful
<1>3. Len(body) = 2 /\ U16(body) # 0 /\ p = [type |-> type, pkid |-> U16(body)]
  BY <1>1, <1>2 DEF DecodeAck
<1> HIDE DEF p
<1>4. p.type = type /\ p.pkid = U16(body)
  BY <1>3
<1>11. p \in AnyPacket
  <2>1. U16(body) \in Word
    BY <1>3, WordAtHead, SMTT(30)
  <2>2. p \in [type : Acks, pkid : Word]
    BY <1>3, <2>1
  <2> QED BY <2>2, Zenon DEF AnyPacket
<1>5. Flags(p) = flags
  BY <1>4 DEF Flags, FlagsAccepted, Acks
<1>6. Body(p) = WriteU16(U16(body))
  BY <1>4, BodyOf
<1>7. SubSeq(body, 1, 2) = WriteU16(U16(body))
  <2>1. Len(body) >= 2
    BY <1>3
  <2> QED BY <2>1, WordAtHead, Zenon
<1>8. SubSeq(body, 1, Len(body)) = body
  BY SubSeqFull, Zenon DEF Bytes
<1>9. Body(p) = body
  BY <1>3, <1>6, <1>7, <1>8
<1>10. Len(body) <= MaxRemainingLen => Encodable(p)
  BY <1>3, <1>4, <1>9 DEF Encodable, Acks
<1> QED BY <1>4, <1>5, <1>9, <1>10, <1>11

\* PINGREQ, PINGRESP and DISCONNECT: what is written is read again.
LEMMA BareRoundTrip ==
  ASSUME NEW p \in AnyPacket, p.type \in Bare
  PROVE  RoundTrip(p)
<1>1. p \in [type : Bare]
  BY PacketFields
<1>2. Body(p) = <<>> /\ <<>> \in Bytes
  BY EmptySeq DEF Body, Acks, Bare, Bytes
<1>3. Flags(p) \in 0 .. 15 /\ FlagsAccepted(p.type, Flags(p))
  BY DEF Flags, FlagsAccepted, Bare
<1>4. DecodeBody(p.type, Flags(p), <<>>) = [type |-> p.type]
  BY DEF DecodeBody, Acks, Bare
<1>5. [type |-> p.type] = p
  BY <1>1
<1> QED BY <1>2, <1>3, <1>4, <1>5, Zenon DEF RoundTrip

\* PINGREQ, PINGRESP and DISCONNECT: what is accepted is what is written.
LEMMA BareFaithful ==
  ASSUME NEW type \in Bare, NEW flags \in 0 .. 15, FlagsAccepted(type, flags), NEW body \in Bytes
  PROVE  Faithful(type, flags, body)
<1> DEFINE p == DecodeBody(type, flags, body)
<1>1. p = IF body = <<>> THEN [type |-> type] ELSE Malformed
  BY DEF DecodeBody, Acks, Bare
<1>2. SUFFICES ASSUME p # Malformed
               PROVE  /\ p.type = type /\ p \in AnyPacket /\ Flags(p) = flags /\ Body(p) = body
                      /\ Len(body) <= MaxRemainingLen => Encodable(p)
  BY Zenon DEF Faithful
<1>3. body = <<>> /\ p = [type |-> type]
  BY <1>1, <1>2
<1> HIDE DEF p
<1>4. p.type = type
  BY <1>3
<1>8. p \in AnyPacket
  <2>1. p \in [type : Bare]
    BY <1>3
  <2> QED BY <2>1, Zenon DEF AnyPacket
<1>5. Flags(p) = flags
  BY <1>4 DEF Flags, FlagsAccepted, Bare
<1>6. Body(p) = body
  BY <1>3, <1>4 DEF Body, Acks, Bare
<1>7. Len(body) <= MaxRemainingLen => Encodable(p)
  BY <1>4, <1>6 DEF Encodable, Acks, Bare
<1> QED BY <1>4, <1>5, <1>6, <1>7, <1>8

\* CONNACK: what is written is read again.
LEMMA ConnAckRoundTrip ==
  ASSUME NEW p \in AnyPacket, p.type = "connack", Encodable(p)
  PROVE  RoundTrip(p)
<1> DEFINE body == <<Flag(p.session_present), p.code>>
<1>1. p \in [type : {"connack"}, session_present : BOOLEAN, code : Byte]
  BY PacketFields
<1>2. ValidConnAck(p)
  BY DEF Encodable
<1>3. Body(p) = body
  BY BodyOf
<1>4. p.session_present \in BOOLEAN /\ p.code \in Byte
  BY <1>1
<1>5. Flag(p.session_present) \in Byte
  BY <1>4 DEF Flag, Byte
<1>6. body \in Bytes /\ Len(body) = 2 /\ body[1] = Flag(p.session_present) /\ body[2] = p.code
  BY <1>4, <1>5 DEF Bytes
<1> HIDE DEF body
<1>7. Flags(p) \in 0 .. 15 /\ FlagsAccepted(p.type, Flags(p))
  BY DEF Flags, FlagsAccepted
<1>8. DecodeBody(p.type, Flags(p), body) = DecodeConnAck(body)
  BY DecodeBodyOf
<1>9. body[1] \in {0, 1} /\ (body[1] = 1 <=> p.session_present)
  BY <1>4, <1>6 DEF Flag
<1>10. (body[1] = 1) = p.session_present
  BY <1>4, <1>9, Zenon
<1>11. [type |-> "connack", session_present |-> body[1] = 1, code |-> body[2]] = p
  BY <1>1, <1>6, <1>10
<1>12. DecodeConnAck(body) = p
  BY <1>2, <1>6, <1>9, <1>11, Zenon DEF DecodeConnAck
<1> QED BY <1>3, <1>6, <1>7, <1>8, <1>12, Zenon DEF RoundTrip

\* CONNACK: what is accepted is what is written.
LEMMA ConnAckFaithful ==
  ASSUME NEW flags \in 0 .. 15, FlagsAccepted("connack", flags), NEW body \in Bytes
  PROVE  Faithful("connack", flags, body)
<1> DEFINE p == DecodeBody("connack", flags, body)
           q == [type |-> "connack", session_present |-> body[1] = 1, code |-> body[2]]
<1>1. p = DecodeConnAck(body)
  BY DecodeBodyOf
<1>2. SUFFICES ASSUME p # Malformed
               PROVE  /\ p.type = "connack" /\ p \in AnyPacket /\ Flags(p) = flags /\ Body(p) = body
                      /\ Len(body) <= MaxRemainingLen => Encodable(p)
  BY Zenon DEF Faithful
<1>3. Len(body) = 2 /\ body[1] \in {0, 1} /\ ValidConnAck(q) /\ p = q
  BY <1>1, <1>2, Zenon DEF DecodeConnAck
<1>4. q.type = "connack" /\ q.session_present = (body[1] = 1) /\ q.code = body[2]
  BY Zenon
<1> HIDE DEF p, q
<1>5. p.type = "connack" /\ (p.session_present <=> body[1] = 1) /\ p.code = body[2]
  BY <1>3, <1>4
<1>6. Flags(p) = flags
  BY <1>5 DEF Flags, FlagsAccepted
<1>7. Body(p) = <<Flag(p.session_present), p.code>>
  BY <1>5, BodyOf
<1>8. Flag(p.session_present) = body[1]
  BY <1>3, <1>5 DEF Flag
<1>9. body = <<body[1], body[2]>>
  BY <1>3 DEF Bytes
<1>10. Body(p) = body
  BY <1>5, <1>7, <1>8, <1>9
<1>11. Len(body) <= MaxRemainingLen => Encodable(p)
  BY <1>3, <1>5, <1>10 DEF Encodable, Acks
<1>12. p \in AnyPacket
  <2>1. body[2] \in Byte
    <3>1. 2 \in 1 .. Len(body)
      BY <1>3
    <3> QED BY <3>1, ElementOfSeq, Zenon DEF Bytes
  <2>2. q \in [type : {"connack"}, session_present : BOOLEAN, code : Byte]
    BY <2>1 DEF q
  <2> QED BY <1>3, <2>2, Zenon DEF AnyPacket
<1> QED BY <1>5, <1>6, <1>10, <1>11, <1>12

-----------------------------------------------------------------------------
\* What fits a field is a value of fields, and is written in bytes.
LEMMA Fitting ==
  ASSUME NEW field \in Field, NEW v \in Fits(field)
  PROVE  v \in FieldValue /\ Written(field, v) \in Bytes
<1>1. <<>> \in Bytes
  BY EmptySeq, Zenon DEF Bytes
<1>2. Written(field, v) \in Bytes
  BY <1>1, FieldWritten, Zenon
<1>3. v \in FieldValue
  BY TextIsData, SMT DEF FieldValue, Field, Fits
<1> QED BY <1>2, <1>3, Zenon

\* The packet identifier that a body starts with.
LEMMA PkidWritten ==
  ASSUME NEW v \in Word, NEW t \in Bytes
  PROVE  /\ WriteU16(v) \o t \in Bytes
         /\ U16(WriteU16(v) \o t) = v
         /\ AfterPkid(WriteU16(v) \o t) = t
         /\ Len(WriteU16(v) \o t) = 2 + Len(t)
         /\ v # 0 /\ t # <<>> => StartsWithPkid(WriteU16(v) \o t)
<1> DEFINE w == WriteU16(v)
<1>1. w \in Bytes /\ Len(w) = 2 /\ U16(w) = v
  BY WordWritten, Zenon
<1> HIDE DEF w
<1>2. /\ w \o t \in Bytes /\ Len(t) \in Nat
      /\ Len(w \o t) = Len(w) + Len(t)
      /\ SubSeq(w \o t, Len(w) + 1, Len(w \o t)) = t
  BY <1>1, CutBytes, Zenon
<1>3. Len(w) >= 2
  BY <1>1
<1>4. U16(w \o t) = v
  BY <1>1, <1>3, WordFollowed, Zenon
<1>5. Len(w) + 1 = 3
  BY <1>1
<1>6. AfterPkid(w \o t) = t
  BY <1>2, <1>5, Zenon DEF AfterPkid
<1>7. Len(w \o t) = 2 + Len(t)
  BY <1>1, <1>2, Zenon
<1>8. ASSUME v # 0, t # <<>> PROVE StartsWithPkid(w \o t)
  <2>1. Len(t) # 0
    BY <1>8, EmptySeq, Zenon DEF Bytes
  <2>2. Len(w \o t) > 2
    BY <1>2, <1>7, <2>1
  <2> QED BY <1>4, <1>8, <2>2, Zenon DEF StartsWithPkid
<1> QED BY <1>2, <1>4, <1>6, <1>7, <1>8, Zenon DEF w

\* A body that starts with an identifier is that identifier and the rest.
LEMMA PkidRead ==
  ASSUME NEW body \in Bytes, StartsWithPkid(body)
  PROVE  /\ U16(body) \in Word /\ U16(body) # 0
         /\ AfterPkid(body) \in Bytes /\ AfterPkid(body) # <<>>
         /\ body = WriteU16(U16(body)) \o AfterPkid(body)
<1>1. Len(body) \in Nat /\ Len(body) > 2 /\ U16(body) # 0
  BY LenProperties, Zenon DEF StartsWithPkid, Bytes
<1>2. Len(body) >= 2 /\ 2 \in 0 .. Len(body) /\ 2 + 1 = 3 /\ Len(body) - 2 # 0
  <2>1. \A n \in Nat : n > 2 => n >= 2 /\ 2 \in 0 .. n /\ 2 + 1 = 3 /\ n - 2 # 0
    OBVIOUS
  <2> QED BY <1>1, <2>1, Zenon
<1>3. U16(body) \in Word /\ body = WriteU16(U16(body)) \o AfterPkid(body)
  BY <1>2, WordAtHead, Zenon DEF AfterPkid
<1>4. /\ SubSeq(body, 2 + 1, Len(body)) \in Bytes
      /\ Len(SubSeq(body, 2 + 1, Len(body))) = Len(body) - 2
  BY <1>2, PartsOfBytes, Zenon
<1>5. AfterPkid(body) \in Bytes /\ Len(AfterPkid(body)) = Len(body) - 2
  BY <1>2, <1>4, Zenon DEF AfterPkid
<1>6. AfterPkid(body) # <<>>
  BY <1>2, <1>5, EmptySeq, Zenon
<1> QED BY <1>1, <1>3, <1>5, <1>6, Zenon

\* SUBACK: what is written is read again.
LEMMA SubAckRoundTrip ==
  ASSUME NEW p \in AnyPacket, p.type = "suback", Encodable(p)
  PROVE  RoundTrip(p)
<1> DEFINE body == WriteU16(p.pkid) \o p.return_codes
<1>1. p \in [type : {"suback"}, pkid : Word, return_codes : Seq(Byte)]
  BY PacketFields
<1>2. p.pkid \in Word /\ p.return_codes \in Bytes
  BY <1>1 DEF Bytes
<1>3. /\ p.pkid # 0 /\ p.return_codes # <<>>
      /\ \A code \in ToSet(p.return_codes) : ValidSubAckCode(code)
  BY DEF Encodable, Acks
<1>4. /\ body \in Bytes /\ U16(body) = p.pkid /\ AfterPkid(body) = p.return_codes
      /\ StartsWithPkid(body)
  BY <1>2, <1>3, PkidWritten, Zenon
<1> HIDE DEF body
<1>5. Body(p) = body
  BY BodyOf, Zenon DEF body
<1>6. Flags(p) \in 0 .. 15 /\ FlagsAccepted(p.type, Flags(p))
  BY DEF Flags, FlagsAccepted
<1>7. DecodeBody(p.type, Flags(p), body) = DecodeSubAck(body)
  BY DecodeBodyOf
<1>8. DecodeSubAck(body) = [type |-> "suback", pkid |-> p.pkid, return_codes |-> p.return_codes]
  BY <1>3, <1>4, Zenon DEF DecodeSubAck
<1>9. [type |-> "suback", pkid |-> p.pkid, return_codes |-> p.return_codes] = p
  BY <1>1
<1> QED BY <1>4, <1>5, <1>6, <1>7, <1>8, <1>9, Zenon DEF RoundTrip

\* SUBACK: what is accepted is what is written.
LEMMA SubAckFaithful ==
  ASSUME NEW flags \in 0 .. 15, FlagsAccepted("suback", flags), NEW body \in Bytes
  PROVE  Faithful("suback", flags, body)
<1> DEFINE p == DecodeBody("suback", flags, body)
           codes == AfterPkid(body)
<1>1. p = DecodeSubAck(body)
  BY DecodeBodyOf
<1>2. SUFFICES ASSUME p # Malformed
               PROVE  /\ p.type = "suback" /\ p \in AnyPacket /\ Flags(p) = flags /\ Body(p) = body
                      /\ Len(body) <= MaxRemainingLen => Encodable(p)
  BY Zenon DEF Faithful
<1>3. /\ StartsWithPkid(body)
      /\ \A code \in ToSet(codes) : ValidSubAckCode(code)
      /\ p = [type |-> "suback", pkid |-> U16(body), return_codes |-> codes]
  BY <1>1, <1>2, Zenon DEF DecodeSubAck
<1>4. /\ U16(body) # 0 /\ codes # <<>> /\ body = WriteU16(U16(body)) \o codes
      /\ U16(body) \in Word /\ codes \in Bytes
  BY <1>3, PkidRead, Zenon
<1> HIDE DEF p, codes
<1>9. p \in AnyPacket
  <2>1. p \in [type : {"suback"}, pkid : Word, return_codes : Seq(Byte)]
    BY <1>3, <1>4 DEF Bytes
  <2> QED BY <2>1, Zenon DEF AnyPacket
<1>5. p.type = "suback" /\ p.pkid = U16(body) /\ p.return_codes = codes
  BY <1>3
<1>6. Flags(p) = flags
  BY <1>5 DEF Flags, FlagsAccepted
<1>7. Body(p) = body
  BY <1>4, <1>5, BodyOf, Zenon
<1>8. Len(body) <= MaxRemainingLen => Encodable(p)
  BY <1>3, <1>4, <1>5, <1>7 DEF Encodable, Acks
<1> QED BY <1>5, <1>6, <1>7, <1>8, <1>9

-----------------------------------------------------------------------------
(***************************************************************************)
(* Lists of one, two, four and five fields.                                *)
(***************************************************************************)
\* Sequences of one, two, four and five elements.
LEMMA Spelled ==
  ASSUME NEW S, NEW s \in Seq(S)
  PROVE  /\ Len(s) = 1 => s = <<s[1]>>
         /\ Len(s) = 2 => s = <<s[1], s[2]>>
         /\ Len(s) = 4 => s = <<s[1], s[2], s[3], s[4]>>
         /\ Len(s) = 5 => s = <<s[1], s[2], s[3], s[4], s[5]>>
OBVIOUS

\* What is written of one field is read.
LEMMA OneRead ==
  ASSUME NEW f \in Field, NEW v \in Fits(f), NEW t \in Bytes
  PROVE  Read(<<f>>, Written(f, v) \o t) = Reader(<<v>>, t)
<1> DEFINE fields == <<f>>
           values == <<v>>
           rests == <<Written(f, v) \o t, t>>
<1>1. /\ v \in FieldValue /\ Written(f, v) \in Bytes
  BY Fitting, Zenon
<1>2. Written(f, v) \o t \in Bytes
  BY <1>1, CutBytes, Zenon
<1>3. fields \in Seq(Field) /\ Len(fields) = 1 /\ fields[1] = f
  OBVIOUS
<1>4. values \in Seq(FieldValue) /\ Len(values) = 1 /\ values[1] = v
  BY <1>1
<1>5. /\ rests \in Seq(Bytes) /\ Len(rests) = 1 + 1
      /\ rests[1] = Written(f, v) \o t /\ rests[1 + 1] = t
  BY <1>2
<1> HIDE DEF fields, values, rests
<1>6. \A i \in 1 .. 1 : i = 1
  OBVIOUS
<1>7. \A i \in 1 .. 1 : /\ values[i] \in Fits(fields[i])
                        /\ rests[i] = Written(fields[i], values[i]) \o rests[i + 1]
  BY <1>3, <1>4, <1>5, <1>6, Zenon
<1>8. Chain(fields, Len(fields), values, rests)
  BY <1>3, <1>4, <1>5, <1>7, Zenon DEF Chain
<1>9. Read(fields, rests[1]) = Reader(values, rests[Len(fields) + 1])
  BY <1>3, <1>8, WrittenIsRead, Zenon
<1> QED BY <1>3, <1>5, <1>9, Zenon DEF fields, values

\* What one field is read from is what is written of it, and more.
LEMMA OneTaken ==
  ASSUME NEW f \in Field, NEW s \in Bytes, Read(<<f>>, s).ok
  PROVE  \E v \in Fits(f), t \in Bytes : /\ s = Written(f, v) \o t
                                         /\ Read(<<f>>, s) = Reader(<<v>>, t)
<1> DEFINE fields == <<f>>
<1>1. fields \in Seq(Field) /\ Len(fields) = 1 /\ fields[1] = f
  OBVIOUS
<1> HIDE DEF fields
<1>2. Read(fields, s).ok
  BY Zenon DEF fields
<1>3. PICK v, rests : /\ Chain(fields, Len(fields), v, rests)
                      /\ rests[1] = s
                      /\ Read(fields, s) = Reader(v, rests[Len(fields) + 1])
  BY <1>1, <1>2, ReadIsWritten, Zenon
<1>4. /\ v \in Seq(FieldValue) /\ Len(v) = 1
      /\ rests \in Seq(Bytes) /\ Len(rests) = 1 + 1
      /\ \A i \in 1 .. 1 : /\ v[i] \in Fits(fields[i])
                           /\ rests[i] = Written(fields[i], v[i]) \o rests[i + 1]
  BY <1>1, <1>3, Zenon DEF Chain
<1>5. 1 \in 1 .. 1 /\ 1 + 1 = 2
  OBVIOUS
<1>6. v[1] \in Fits(f) /\ s = Written(f, v[1]) \o rests[2]
  BY <1>1, <1>3, <1>4, <1>5, Zenon
<1>7. rests[2] \in Bytes /\ v = <<v[1]>>
  <2>1. v = <<v[1]>>
    BY <1>4, Spelled, Zenon
  <2>2. 2 \in 1 .. 1 + 1
    OBVIOUS
  <2> QED BY <1>4, <2>1, <2>2, ElementOfSeq, Zenon
<1>8. Read(fields, s) = Reader(<<v[1]>>, rests[2])
  BY <1>1, <1>3, <1>5, <1>7, Zenon
<1> QED BY <1>6, <1>7, <1>8, Zenon DEF fields

\* What is written of two fields is read.
LEMMA TwoRead ==
  ASSUME NEW f \in Field, NEW g \in Field, NEW v \in Fits(f), NEW w \in Fits(g), NEW t \in Bytes
  PROVE  Read(<<f, g>>, Written(f, v) \o (Written(g, w) \o t)) = Reader(<<v, w>>, t)
<1> DEFINE fields == <<f, g>>
           values == <<v, w>>
           r == Written(g, w) \o t
           rests == <<Written(f, v) \o r, r, t>>
<1>1. /\ v \in FieldValue /\ Written(f, v) \in Bytes
      /\ w \in FieldValue /\ Written(g, w) \in Bytes
  BY Fitting, Zenon
<1>2. r \in Bytes
  BY <1>1, CutBytes, Zenon
<1> HIDE DEF r
<1>3. Written(f, v) \o r \in Bytes
  BY <1>1, <1>2, CutBytes, Zenon
<1>4. fields \in Seq(Field) /\ Len(fields) = 2 /\ fields[1] = f /\ fields[2] = g
  OBVIOUS
<1>5. values \in Seq(FieldValue) /\ Len(values) = 2 /\ values[1] = v /\ values[2] = w
  BY <1>1
<1>6. /\ rests \in Seq(Bytes) /\ Len(rests) = 2 + 1
      /\ rests[1] = Written(f, v) \o r /\ rests[1 + 1] = r /\ rests[2] = r /\ rests[2 + 1] = t
  BY <1>2, <1>3
<1> HIDE DEF fields, values, rests
<1>7. \A i \in 1 .. 2 : i = 1 \/ i = 2
  OBVIOUS
<1>8. \A i \in 1 .. 2 : /\ values[i] \in Fits(fields[i])
                        /\ rests[i] = Written(fields[i], values[i]) \o rests[i + 1]
  BY <1>4, <1>5, <1>6, <1>7, Zenon DEF r
<1>9. Chain(fields, Len(fields), values, rests)
  BY <1>4, <1>5, <1>6, <1>8, Zenon DEF Chain
<1>10. Read(fields, rests[1]) = Reader(values, rests[Len(fields) + 1])
  BY <1>4, <1>9, WrittenIsRead, Zenon
<1> QED BY <1>4, <1>6, <1>10, Zenon DEF fields, values, r

\* What two fields are read from is what is written of them, and more.
LEMMA TwoTaken ==
  ASSUME NEW f \in Field, NEW g \in Field, NEW s \in Bytes, Read(<<f, g>>, s).ok
  PROVE  \E v \in Fits(f), w \in Fits(g), t \in Bytes :
           /\ s = Written(f, v) \o (Written(g, w) \o t)
           /\ Read(<<f, g>>, s) = Reader(<<v, w>>, t)
<1> DEFINE fields == <<f, g>>
<1>1. fields \in Seq(Field) /\ Len(fields) = 2 /\ fields[1] = f /\ fields[2] = g
  OBVIOUS
<1> HIDE DEF fields
<1>2. Read(fields, s).ok
  BY Zenon DEF fields
<1>3. PICK v, rests : /\ Chain(fields, Len(fields), v, rests)
                      /\ rests[1] = s
                      /\ Read(fields, s) = Reader(v, rests[Len(fields) + 1])
  BY <1>1, <1>2, ReadIsWritten, Zenon
<1>4. /\ v \in Seq(FieldValue) /\ Len(v) = 2
      /\ rests \in Seq(Bytes) /\ Len(rests) = 2 + 1
      /\ \A i \in 1 .. 2 : /\ v[i] \in Fits(fields[i])
                           /\ rests[i] = Written(fields[i], v[i]) \o rests[i + 1]
  BY <1>1, <1>3, Zenon DEF Chain
<1>5. 1 \in 1 .. 2 /\ 2 \in 1 .. 2 /\ 1 + 1 = 2 /\ 2 + 1 = 3
  OBVIOUS
<1>6. v[1] \in Fits(f) /\ s = Written(f, v[1]) \o rests[2]
  BY <1>1, <1>3, <1>4, <1>5, Zenon
<1>7. v[2] \in Fits(g) /\ rests[2] = Written(g, v[2]) \o rests[3]
  BY <1>1, <1>4, <1>5, Zenon
<1>8. rests[3] \in Bytes /\ v = <<v[1], v[2]>>
  <2>1. v = <<v[1], v[2]>>
    BY <1>4, Spelled, Zenon
  <2>2. 3 \in 1 .. 2 + 1
    OBVIOUS
  <2> QED BY <1>4, <2>1, <2>2, ElementOfSeq, Zenon
<1>9. Read(fields, s) = Reader(<<v[1], v[2]>>, rests[3])
  BY <1>1, <1>3, <1>5, <1>8, Zenon
<1>10. s = Written(f, v[1]) \o (Written(g, v[2]) \o rests[3])
  BY <1>6, <1>7, Zenon
<1> QED BY <1>6, <1>7, <1>8, <1>9, <1>10, Zenon DEF fields

-----------------------------------------------------------------------------
\* The four flags of a PUBLISH, as they are put together and taken apart.
LEMMA PublishFlags ==
  ASSUME NEW dup \in 0 .. 1, NEW qos \in Qos, NEW retain \in 0 .. 1
  PROVE  LET flags == 8 * dup + 2 * qos + retain
         IN  /\ flags \in 0 .. 15
             /\ (flags \div 2) % 4 = qos
             /\ Bit(flags, 8) <=> dup = 1
             /\ Bit(flags, 1) <=> retain = 1
BY DEF Bit, Qos

\* The flags of a PUBLISH are what is read of them.
LEMMA FlagsOfPublish ==
  ASSUME NEW flags \in 0 .. 15
  PROVE  flags = 8 * Flag(Bit(flags, 8)) + 2 * ((flags \div 2) % 4) + Flag(Bit(flags, 1))
BY DEF Bit, Flag

\* A flag is a bit, set or not.
LEMMA FlagIsBit ==
  /\ \A b : Flag(b) \in 0 .. 1
  /\ \A b \in BOOLEAN : Flag(b) = 1 <=> b
BY DEF Flag

\* How a string is written.
LEMMA StringWritten ==
  ASSUME NEW v \in Text
  PROVE  v \in Fits("string") /\ Written("string", v) = WriteBytes(v) /\ "string" \in Field
BY DEF Fits, Written, Field

\* How a u16 is written.
LEMMA WordFits ==
  ASSUME NEW v \in Word
  PROVE  v \in Fits("u16") /\ Written("u16", v) = WriteU16(v) /\ "u16" \in Field
BY DEF Fits, Written, Field

\* PUBLISH: what is written is read again.
LEMMA PublishRoundTrip ==
  ASSUME NEW p \in AnyPacket, p.type = "publish", Encodable(p)
  PROVE  RoundTrip(p)
<1> DEFINE body == PublishBody(p)
           flags == 8 * Flag(p.dup) + 2 * p.qos + Flag(p.retain)
           topic == WriteBytes(p.topic)
           pkid == WriteU16(p.pkid)
<1>1. p \in [type : {"publish"}, dup : BOOLEAN, qos : Qos, retain : BOOLEAN, topic : Text,
             pkid : Word, payload : Seq(Byte)]
  BY PacketFields
<1>2. /\ p.dup \in BOOLEAN /\ p.qos \in Qos /\ p.retain \in BOOLEAN /\ p.topic \in Text
      /\ p.pkid \in Word /\ p.payload \in Bytes
  BY <1>1 DEF Bytes
<1>3. p.qos = 0 <=> p.pkid = 0
  BY DEF Encodable
<1>4. /\ flags \in 0 .. 15 /\ (flags \div 2) % 4 = p.qos
      /\ Bit(flags, 8) <=> p.dup
      /\ Bit(flags, 1) <=> p.retain
  <2>1. Flag(p.dup) \in 0 .. 1 /\ Flag(p.retain) \in 0 .. 1
    BY FlagIsBit, Zenon
  <2>2. /\ flags \in 0 .. 15 /\ (flags \div 2) % 4 = p.qos
        /\ Bit(flags, 8) <=> Flag(p.dup) = 1
        /\ Bit(flags, 1) <=> Flag(p.retain) = 1
    BY <1>2, <2>1, PublishFlags
  <2> HIDE DEF flags
  <2> QED BY <1>2, <2>2, FlagIsBit, Zenon
<1>5. Bit(flags, 8) = p.dup /\ Bit(flags, 1) = p.retain
  <2>1. Bit(flags, 8) \in BOOLEAN /\ Bit(flags, 1) \in BOOLEAN
    BY Zenon DEF Bit
  <2> HIDE DEF flags
  <2> QED BY <1>2, <1>4, <2>1, Zenon
<1>6. Flags(p) = flags /\ FlagsAccepted(p.type, flags)
  BY DEF Flags, FlagsAccepted
<1> HIDE DEF flags
<1>7. topic \in Bytes /\ pkid \in Bytes
  BY <1>2, StringWritten, WordFits, Fitting, Zenon
<1> HIDE DEF topic, pkid
<1>8. p.qos \in Nat /\ (p.qos > 0 <=> p.qos # 0)
  BY <1>2 DEF Qos
<1>9. CASE p.qos > 0
  <2>1. body = (topic \o pkid) \o p.payload
    BY <1>9, Zenon DEF PublishBody, topic, pkid
  <2>2. body = topic \o (pkid \o p.payload)
    BY <1>2, <1>7, <2>1, Joined, Zenon
  <2> HIDE DEF body
  <2>3. body \in Bytes
    <3>1. pkid \o p.payload \in Bytes
      BY <1>2, <1>7, CutBytes, Zenon
    <3>2. topic \o (pkid \o p.payload) \in Bytes
      BY <1>7, <3>1, CutBytes, Zenon
    <3> QED BY <2>2, <3>2, Zenon
  <2>4. Read(<<"string", "u16">>, body) = Reader(<<p.topic, p.pkid>>, p.payload)
    <3>1. p.topic \in Fits("string") /\ p.pkid \in Fits("u16")
      BY <1>2, StringWritten, WordFits, Zenon
    <3>2. "string" \in Field /\ "u16" \in Field
      BY DEF Field
    <3>3. Read(<<"string", "u16">>,
               Written("string", p.topic) \o (Written("u16", p.pkid) \o p.payload)) =
            Reader(<<p.topic, p.pkid>>, p.payload)
      BY <1>2, <3>1, <3>2, TwoRead, Zenon
    <3>4. Written("string", p.topic) = topic /\ Written("u16", p.pkid) = pkid
      BY <1>2, StringWritten, WordFits, Zenon DEF topic, pkid
    <3> QED BY <2>2, <3>3, <3>4, Zenon
  <2> DEFINE head == Read(<<"string", "u16">>, body)
  <2>5. /\ head.ok /\ head.values[1] = p.topic /\ head.values[2] = p.pkid
        /\ head.rest = p.payload
    BY <2>4 DEF Reader
  <2> HIDE DEF head
  <2>6. DecodePublish(flags, body) =
          [type |-> "publish", dup |-> p.dup, qos |-> p.qos, retain |-> p.retain,
           topic |-> p.topic, pkid |-> p.pkid, payload |-> p.payload]
    BY <1>2, <1>3, <1>4, <1>5, <1>8, <1>9, <2>5, Zenon DEF DecodePublish, head
  <2>7. DecodePublish(flags, body) = p
    BY <1>1, <2>6
  <2>8. Body(p) = body /\ DecodeBody(p.type, flags, body) = DecodePublish(flags, body)
    <3>1. Body(p) = PublishBody(p)
      BY BodyOf
    <3>2. DecodeBody(p.type, flags, body) = DecodePublish(flags, body)
      BY DecodeBodyOf
    <3> QED BY <3>1, <3>2, Zenon DEF body
  <2> QED BY <1>4, <1>6, <2>3, <2>7, <2>8, Zenon DEF RoundTrip
<1>10. CASE ~(p.qos > 0)
  <2>1. body = (topic \o <<>>) \o p.payload /\ p.pkid = 0
    BY <1>3, <1>8, <1>10, Zenon DEF PublishBody, topic
  <2>2. body = topic \o p.payload
    BY <1>7, <2>1, ConcatEmptySeq, Zenon DEF Bytes
  <2> HIDE DEF body
  <2>3. body \in Bytes
    <3>1. topic \o p.payload \in Bytes
      BY <1>2, <1>7, CutBytes, Zenon
    <3> QED BY <2>2, <3>1, Zenon
  <2>4. Read(<<"string">>, body) = Reader(<<p.topic>>, p.payload)
    BY <1>2, <2>2, StringWritten, OneRead, Zenon DEF topic
  <2> DEFINE head == Read(<<"string">>, body)
  <2>5. head.ok /\ head.values[1] = p.topic /\ head.rest = p.payload
    BY <2>4 DEF Reader
  <2> HIDE DEF head
  <2>6. DecodePublish(flags, body) =
          [type |-> "publish", dup |-> p.dup, qos |-> p.qos, retain |-> p.retain,
           topic |-> p.topic, pkid |-> p.pkid, payload |-> p.payload]
    BY <1>2, <1>4, <1>5, <1>8, <1>10, <2>1, <2>5, Zenon DEF DecodePublish, head
  <2>7. DecodePublish(flags, body) = p
    BY <1>1, <2>6
  <2>8. Body(p) = body /\ DecodeBody(p.type, flags, body) = DecodePublish(flags, body)
    <3>1. Body(p) = PublishBody(p)
      BY BodyOf
    <3>2. DecodeBody(p.type, flags, body) = DecodePublish(flags, body)
      BY DecodeBodyOf
    <3> QED BY <3>1, <3>2, Zenon DEF body
  <2> QED BY <1>4, <1>6, <2>3, <2>7, <2>8, Zenon DEF RoundTrip
<1> QED BY <1>9, <1>10

\* PUBLISH: what is accepted is what is written.
LEMMA PublishFaithful ==
  ASSUME NEW flags \in 0 .. 15, NEW body \in Bytes
  PROVE  Faithful("publish", flags, body)
<1> DEFINE p == DecodeBody("publish", flags, body)
           level == (flags \div 2) % 4
<1>1. p = DecodePublish(flags, body)
  BY DecodeBodyOf
<1>2. SUFFICES ASSUME p # Malformed
               PROVE  /\ p.type = "publish" /\ p \in AnyPacket /\ Flags(p) = flags /\ Body(p) = body
                      /\ Len(body) <= MaxRemainingLen => Encodable(p)
  BY Zenon DEF Faithful
<1>7. /\ level \in Qos
      /\ \A topic \in Text, pkid \in Word, payload \in Bytes :
           [type |-> "publish", dup |-> Bit(flags, 8), qos |-> level, retain |-> Bit(flags, 1),
            topic |-> topic, pkid |-> pkid, payload |-> payload] \in AnyPacket
  <2>1. level \in Qos
    BY <1>1, <1>2, Zenon DEF DecodePublish
  <2> HIDE DEF level
  <2> SUFFICES ASSUME NEW topic \in Text, NEW pkid \in Word, NEW payload \in Bytes
               PROVE  [type |-> "publish", dup |-> Bit(flags, 8), qos |-> level,
                       retain |-> Bit(flags, 1), topic |-> topic, pkid |-> pkid,
                       payload |-> payload] \in AnyPacket
    BY <2>1, Zenon
  <2>2. Bit(flags, 8) \in BOOLEAN /\ Bit(flags, 1) \in BOOLEAN
    BY DEF Bit
  <2>3. [type |-> "publish", dup |-> Bit(flags, 8), qos |-> level,
         retain |-> Bit(flags, 1), topic |-> topic, pkid |-> pkid, payload |-> payload]
          \in [type : {"publish"}, dup : BOOLEAN, qos : Qos, retain : BOOLEAN, topic : Text,
               pkid : Word, payload : Seq(Byte)]
    BY <2>1, <2>2 DEF Bytes
  <2> QED BY <2>3, Zenon DEF AnyPacket
<1>3. level \in Nat /\ (level > 0 <=> level # 0) /\ 0 \in Nat
  OBVIOUS
<1> HIDE DEF level
<1>4. ASSUME NEW topic \in Text, NEW pkid \in Word, NEW payload \in Bytes,
             level = 0 <=> pkid = 0,
             body = (WriteBytes(topic) \o (IF level > 0 THEN WriteU16(pkid) ELSE <<>>)) \o payload,
             p = [type |-> "publish", dup |-> Bit(flags, 8), qos |-> level,
                  retain |-> Bit(flags, 1), topic |-> topic, pkid |-> pkid, payload |-> payload]
      PROVE  /\ p.type = "publish" /\ p \in AnyPacket /\ Flags(p) = flags /\ Body(p) = body
             /\ Len(body) <= MaxRemainingLen => Encodable(p)
  <2> HIDE DEF p
  <2>1. /\ p.type = "publish" /\ p.dup = Bit(flags, 8) /\ p.qos = level
        /\ p.retain = Bit(flags, 1) /\ p.topic = topic /\ p.pkid = pkid /\ p.payload = payload
    BY <1>4, Zenon
  <2>2. Flags(p) = 8 * Flag(p.dup) + 2 * p.qos + Flag(p.retain)
    BY <2>1 DEF Flags
  <2>3. Flags(p) = flags
    BY <2>1, <2>2, FlagsOfPublish, Zenon DEF level
  <2>4. Body(p) = PublishBody(p)
    BY <2>1, BodyOf, Zenon
  <2>5. Body(p) = body
    BY <1>4, <2>1, <2>4, Zenon DEF PublishBody
  <2>6. Len(body) <= MaxRemainingLen => Encodable(p)
    BY <1>4, <2>1, <2>5 DEF Encodable, Acks
  <2>7. p \in AnyPacket
    BY <1>4, <1>7, Zenon
  <2> QED BY <2>1, <2>3, <2>5, <2>6, <2>7, Zenon
<1>5. CASE level > 0
  <2> DEFINE head == Read(<<"string", "u16">>, body)
  <2>1. /\ head.ok /\ head.values[2] # 0
        /\ p = [type |-> "publish", dup |-> Bit(flags, 8), qos |-> level,
                retain |-> Bit(flags, 1), topic |-> head.values[1], pkid |-> head.values[2],
                payload |-> head.rest]
    BY <1>1, <1>2, <1>5, Zenon DEF DecodePublish, level
  <2>2. "string" \in Field /\ "u16" \in Field
    BY DEF Field
  <2>3. PICK v \in Fits("string"), w \in Fits("u16"), t \in Bytes :
           /\ body = Written("string", v) \o (Written("u16", w) \o t)
           /\ head = Reader(<<v, w>>, t)
    BY <2>1, <2>2, TwoTaken, Zenon
  <2> HIDE DEF head, p
  <2>4. head.values[1] = v /\ head.values[2] = w /\ head.rest = t
    BY <2>3 DEF Reader
  <2>5. v \in Text /\ w \in Word
    BY DEF Fits
  <2>6. body = (WriteBytes(v) \o WriteU16(w)) \o t
    <3>1. WriteBytes(v) \in Bytes /\ WriteU16(w) \in Bytes
      BY <2>2, <2>5, StringWritten, WordFits, Fitting, Zenon
    <3>2. body = WriteBytes(v) \o (WriteU16(w) \o t)
      BY <2>3, <2>5, StringWritten, WordFits, Zenon
    <3> QED BY <3>1, <3>2, Joined, ZenonT(60)
  <2> QED BY <1>3, <1>4, <1>5, <2>1, <2>4, <2>5, <2>6, WordIsNat, Zenon
<1>6. CASE ~(level > 0)
  <2> DEFINE head == Read(<<"string">>, body)
  <2>1. /\ head.ok
        /\ p = [type |-> "publish", dup |-> Bit(flags, 8), qos |-> level,
                retain |-> Bit(flags, 1), topic |-> head.values[1], pkid |-> 0,
                payload |-> head.rest]
    BY <1>1, <1>2, <1>6, Zenon DEF DecodePublish, level
  <2>2. "string" \in Field
    BY DEF Field
  <2>3. PICK v \in Fits("string"), t \in Bytes :
           /\ body = Written("string", v) \o t
           /\ head = Reader(<<v>>, t)
    BY <2>1, <2>2, OneTaken, Zenon
  <2> HIDE DEF head, p
  <2>4. head.values[1] = v /\ head.rest = t
    BY <2>3 DEF Reader
  <2>5. v \in Text
    BY DEF Fits
  <2>6. WriteBytes(v) \in Bytes
    BY <2>2, <2>5, StringWritten, Fitting, Zenon
  <2>7. body = (WriteBytes(v) \o <<>>) \o t
    BY <2>3, <2>5, <2>6, StringWritten, ConcatEmptySeq, Zenon DEF Bytes
  <2>8. 0 \in Word
    BY WordRange, SMT
  <2> QED BY <1>3, <1>4, <1>6, <2>1, <2>4, <2>5, <2>7, <2>8, Zenon
<1> QED BY <1>5, <1>6, Zenon

-----------------------------------------------------------------------------
(***************************************************************************)
(* The lists in SUBSCRIBE and UNSUBSCRIBE.                                 *)
(***************************************************************************)
\* Items of which pieces are written, if each piece is read again, are read again.
LEMMA ListWritten ==
  ASSUME NEW fields \in Seq(Field), NEW items \in Seq(Item), NEW pieces \in Seq(Bytes),
         Len(pieces) = Len(items),
         \A i \in 1 .. Len(items) : pieces[i] # <<>>,
         \A i \in 1 .. Len(items) :
           \A t \in Bytes : Read(fields, pieces[i] \o t) = Reader(items[i], t)
  PROVE  /\ FlattenSeq(pieces) \in Bytes
         /\ items # <<>> => FlattenSeq(pieces) # <<>>
         /\ ReadAll(fields, FlattenSeq(pieces)) = Loop(items, <<>>)
<1> DEFINE n == Len(items)
<1>1. n \in Nat /\ (items # <<>> => n # 0)
  BY LenProperties, EmptySeq
<1>2. PICK rests : Pieces(pieces, rests)
  BY PiecesHaveRests, Zenon
<1>3. FlattenSeq(pieces) = rests[1]
  BY <1>2, FlattenPieces, Zenon
<1>4. /\ rests \in Seq(Bytes) /\ Len(rests) = n + 1 /\ rests[n + 1] = <<>>
      /\ \A i \in 1 .. n : rests[i] = pieces[i] \o rests[i + 1]
  BY <1>2, Zenon DEF Pieces
<1> HIDE DEF n
<1>5. \A i \in 1 .. n + 1 : rests[i] \in Bytes
  BY <1>4, ElementOfSeq, Zenon
<1>6. \A i \in 1 .. n : i + 1 \in 1 .. n + 1
  BY <1>1
<1>7. \A i \in 1 .. n : /\ Read(fields, rests[i]) = Reader(items[i], rests[i + 1])
                        /\ Len(rests[i + 1]) < Len(rests[i])
  <2> SUFFICES ASSUME NEW i \in 1 .. n
               PROVE  /\ Read(fields, rests[i]) = Reader(items[i], rests[i + 1])
                      /\ Len(rests[i + 1]) < Len(rests[i])
    BY Zenon
  <2>1. rests[i + 1] \in Bytes
    BY <1>5, <1>6, Zenon
  <2>2. rests[i] = pieces[i] \o rests[i + 1]
    BY <1>4, Zenon
  <2>3. pieces[i] \in Bytes /\ pieces[i] # <<>>
    BY ElementOfSeq, Zenon DEF n
  <2>4. Len(pieces[i]) \in Nat /\ Len(pieces[i]) # 0
    BY <2>3, LenProperties, EmptySeq, Zenon DEF Bytes
  <2>5. /\ Len(pieces[i] \o rests[i + 1]) = Len(pieces[i]) + Len(rests[i + 1])
        /\ Len(rests[i + 1]) \in Nat
    BY <2>1, <2>3, CutBytes, Zenon
  <2>6. Len(rests[i + 1]) < Len(rests[i])
    <3>1. \A x, y \in Nat : x # 0 => y < x + y
      OBVIOUS
    <3> QED BY <2>2, <2>4, <2>5, <3>1, Zenon
  <2>7. Read(fields, pieces[i] \o rests[i + 1]) = Reader(items[i], rests[i + 1])
    BY <2>1, Zenon DEF n
  <2> QED BY <2>2, <2>6, <2>7, Zenon
<1>8. Entries(fields, n, items, rests)
  BY <1>4, <1>7, Zenon DEF Entries, n
<1>9. ReadAll(fields, rests[1]) = Loop(items, <<>>)
  BY <1>1, <1>4, <1>8, EntriesRead, Zenon
<1>10. 1 \in 1 .. n + 1 /\ (n # 0 => 1 \in 1 .. n)
  BY <1>1
<1>11. n # 0 => rests[1] # <<>>
  <2> SUFFICES ASSUME n # 0, rests[1] = <<>> PROVE FALSE
    BY Zenon
  <2>1. Len(rests[1 + 1]) < Len(rests[1]) /\ rests[1 + 1] \in Bytes
    BY <1>5, <1>6, <1>7, <1>10, Zenon
  <2>2. Len(rests[1 + 1]) \in Nat /\ Len(rests[1]) = 0
    BY <2>1, LenProperties, EmptySeq, Zenon DEF Bytes
  <2> QED BY <2>1, <2>2
<1> QED BY <1>1, <1>3, <1>5, <1>9, <1>10, <1>11, Zenon

\* All that was read of an input, and that the input is what such items are written.

\* items are all that was read of the input, and of pieces that each give an
\* item again, whatever follows, the input is put together.
ListOf(fields, input, items) ==
  /\ items \in Seq(Item)
  /\ ReadAll(fields, input) = Loop(items, <<>>)
  /\ input # <<>> => items # <<>>
  /\ \A i \in 1 .. Len(items) :
       \E s \in Bytes : Read(fields, s).ok /\ Read(fields, s).values = items[i]
  /\ \A pieces \in Seq(Bytes) :
       /\ Len(pieces) = Len(items)
       /\ \A i \in 1 .. Len(items) : \A s \in Bytes :
            Read(fields, s).ok /\ Read(fields, s).values = items[i] =>
              s = pieces[i] \o Read(fields, s).rest
       => FlattenSeq(pieces) = input

\* A loop that ends without an error has read such a list.
LEMMA ListRead ==
  ASSUME NEW fields \in Seq(Field), Consumes(fields), NEW input \in Bytes,
         ReadAll(fields, input).ok
  PROVE  \E items : ListOf(fields, input, items)
<1>1. PICK n \in Nat : \E items, rests :
           /\ Entries(fields, n, items, rests)
           /\ rests[1] = input
           /\ rests[n + 1] = <<>>
           /\ ReadAll(fields, input) = Loop(items, <<>>)
  BY LoopRead, Zenon
<1>2. PICK items, rests :
           /\ Entries(fields, n, items, rests)
           /\ rests[1] = input
           /\ rests[n + 1] = <<>>
           /\ ReadAll(fields, input) = Loop(items, <<>>)
  BY <1>1, Zenon
<1>3. /\ items \in Seq(Item) /\ Len(items) = n
      /\ rests \in Seq(Bytes) /\ Len(rests) = n + 1
      /\ \A i \in 1 .. n : Read(fields, rests[i]) = Reader(items[i], rests[i + 1])
  BY <1>2, Zenon DEF Entries
<1>4. \A i \in 1 .. n : i \in 1 .. n + 1
  OBVIOUS
<1>5. \A i \in 1 .. n : /\ rests[i] \in Bytes
                        /\ Read(fields, rests[i]).ok
                        /\ Read(fields, rests[i]).values = items[i]
                        /\ Read(fields, rests[i]).rest = rests[i + 1]
  <2> SUFFICES ASSUME NEW i \in 1 .. n
               PROVE  /\ rests[i] \in Bytes
                      /\ Read(fields, rests[i]).ok
                      /\ Read(fields, rests[i]).values = items[i]
                      /\ Read(fields, rests[i]).rest = rests[i + 1]
    BY Zenon
  <2>1. rests[i] \in Bytes
    BY <1>3, <1>4, ElementOfSeq, Zenon
  <2>2. Read(fields, rests[i]) = Reader(items[i], rests[i + 1])
    BY <1>3, Zenon
  <2> QED BY <2>1, <2>2 DEF Reader
<1>6. input # <<>> => items # <<>>
  <2> SUFFICES ASSUME items = <<>> PROVE input = <<>>
    BY Zenon
  <2>1. n = 0 /\ 0 + 1 = 1
    BY <1>3, EmptySeq
  <2> QED BY <1>2, <2>1, Zenon
<1>7. ASSUME NEW pieces \in Seq(Bytes), Len(pieces) = n,
             \A i \in 1 .. n : \A s \in Bytes :
               Read(fields, s).ok /\ Read(fields, s).values = items[i] =>
                 s = pieces[i] \o Read(fields, s).rest
      PROVE  FlattenSeq(pieces) = input
  <2>1. \A i \in 1 .. n : rests[i] = pieces[i] \o rests[i + 1]
    BY <1>5, <1>7, ZenonT(60)
  <2>2. Pieces(pieces, rests)
    BY <1>2, <1>3, <1>7, <2>1, Zenon DEF Pieces
  <2> QED BY <1>2, <2>2, FlattenPieces, Zenon
<1>8. \A i \in 1 .. n :
        \E s \in Bytes : Read(fields, s).ok /\ Read(fields, s).values = items[i]
  BY <1>5, Zenon
<1>9. ListOf(fields, input, items)
  BY <1>2, <1>3, <1>6, <1>7, <1>8, Zenon DEF ListOf
<1> QED BY <1>9, Zenon

-----------------------------------------------------------------------------
\* How a byte is written.
LEMMA ByteFits ==
  /\ "u8" \in Field
  /\ \A v \in Byte : v \in Fits("u8") /\ Written("u8", v) = <<v>> /\ <<v>> \in Bytes
  /\ \A v \in Fits("u8") : v \in Byte
BY DEF Fits, Written, Field, Bytes

\* What fits a string, and how it is written.
LEMMA TextFits ==
  /\ "string" \in Field
  /\ \A v \in Text : v \in Fits("string") /\ Written("string", v) = WriteBytes(v)
  /\ \A v \in Fits("string") : v \in Text
BY DEF Fits, Written, Field

\* A string is written with its length, so never as nothing.
LEMMA TextWritten ==
  ASSUME NEW v \in Text
  PROVE  WriteBytes(v) \in Bytes /\ Len(WriteBytes(v)) \in Nat /\ Len(WriteBytes(v)) > 0
<1>1. v \in Data /\ Len(v) \in Nat
  BY TextIsData, WordIsNat, Zenon
<1>2. WriteBytes(v) \in Bytes /\ Len(WriteBytes(v)) = 2 + Len(v)
  BY <1>1, BytesWritten, Zenon
<1>3. \A x \in Nat : 2 + x \in Nat /\ 2 + x > 0
  OBVIOUS
<1> QED BY <1>1, <1>2, <1>3, Zenon

\* A piece of the list of UNSUBSCRIBE.
LEMMA FilterRead ==
  ASSUME NEW v \in Text, NEW t \in Bytes
  PROVE  /\ Read(<<"string">>, WriteBytes(v) \o t) = Reader(<<v>>, t)
         /\ WriteBytes(v) \in Bytes /\ WriteBytes(v) # <<>>
<1>1. Read(<<"string">>, Written("string", v) \o t) = Reader(<<v>>, t)
  BY TextFits, OneRead, Zenon
<1>2. WriteBytes(v) # <<>>
  <2>1. Len(WriteBytes(v)) # 0
    BY TextWritten
  <2> QED BY <2>1, EmptySeq, Zenon
<1> QED BY <1>1, <1>2, TextFits, TextWritten, Zenon

\* What a filter of UNSUBSCRIBE is read from.
LEMMA FilterTaken ==
  ASSUME NEW s \in Bytes, Read(<<"string">>, s).ok
  PROVE  \E v \in Text, t \in Bytes :
           /\ s = WriteBytes(v) \o t
           /\ Read(<<"string">>, s).values = <<v>>
           /\ Read(<<"string">>, s).rest = t
<1>1. PICK v \in Fits("string"), t \in Bytes :
         s = Written("string", v) \o t /\ Read(<<"string">>, s) = Reader(<<v>>, t)
  BY TextFits, OneTaken, Zenon
<1>2. v \in Text /\ s = WriteBytes(v) \o t
  BY <1>1, TextFits, Zenon
<1>3. Read(<<"string">>, s).values = <<v>> /\ Read(<<"string">>, s).rest = t
  BY <1>1 DEF Reader
<1> QED BY <1>2, <1>3, Zenon

\* A piece of the list of SUBSCRIBE.
Entry(v, q) == WriteBytes(v) \o <<q>>

\* What is written of an entry of SUBSCRIBE is read.
LEMMA EntryRead ==
  ASSUME NEW v \in Text, NEW q \in Byte, NEW t \in Bytes
  PROVE  /\ Read(<<"string", "u8">>, Entry(v, q) \o t) = Reader(<<v, q>>, t)
         /\ Entry(v, q) \in Bytes /\ Entry(v, q) # <<>>
         /\ Entry(v, q) \o t = WriteBytes(v) \o (<<q>> \o t)
<1>1. WriteBytes(v) \in Bytes /\ <<q>> \in Bytes
  BY TextWritten, ByteFits, Zenon
<1>2. Entry(v, q) \o t = WriteBytes(v) \o (<<q>> \o t)
  BY <1>1, Joined, Zenon DEF Entry
<1>3. Read(<<"string", "u8">>, Written("string", v) \o (Written("u8", q) \o t)) = Reader(<<v, q>>, t)
  <2>1. v \in Fits("string") /\ q \in Fits("u8") /\ "string" \in Field /\ "u8" \in Field
    BY TextFits, ByteFits, Zenon
  <2> QED BY <2>1, TwoRead, Zenon
<1>4. Written("string", v) = WriteBytes(v) /\ Written("u8", q) = <<q>>
  BY TextFits, ByteFits, Zenon
<1>5. /\ Entry(v, q) \in Bytes /\ Len(Entry(v, q)) = Len(WriteBytes(v)) + Len(<<q>>)
  BY <1>1, CutBytes, Zenon DEF Entry
<1>6. Entry(v, q) # <<>>
  <2>1. Len(Entry(v, q)) # 0
    <3>1. Len(<<q>>) = 1
      OBVIOUS
    <3>2. Len(WriteBytes(v)) \in Nat
      BY TextWritten, Zenon
    <3>3. \A x \in Nat : x + 1 # 0
      OBVIOUS
    <3> QED BY <1>5, <3>1, <3>2, <3>3, Zenon
  <2> QED BY <2>1, EmptySeq, Zenon
<1> QED BY <1>2, <1>3, <1>4, <1>5, <1>6, Zenon

\* What an entry of SUBSCRIBE is read from.
LEMMA EntryTaken ==
  ASSUME NEW s \in Bytes, Read(<<"string", "u8">>, s).ok
  PROVE  \E v \in Text, q \in Byte, t \in Bytes :
           /\ s = Entry(v, q) \o t
           /\ Read(<<"string", "u8">>, s).values = <<v, q>>
           /\ Read(<<"string", "u8">>, s).rest = t
<1>1. PICK v \in Fits("string"), q \in Fits("u8"), t \in Bytes :
         /\ s = Written("string", v) \o (Written("u8", q) \o t)
         /\ Read(<<"string", "u8">>, s) = Reader(<<v, q>>, t)
  BY TextFits, ByteFits, TwoTaken, Zenon
<1>2. v \in Text /\ q \in Byte
  BY TextFits, ByteFits, Zenon
<1>3. Written("string", v) = WriteBytes(v) /\ Written("u8", q) = <<q>>
  BY <1>2, TextFits, ByteFits, Zenon
<1>4. s = Entry(v, q) \o t
  BY <1>1, <1>2, <1>3, EntryRead, Zenon
<1>5. Read(<<"string", "u8">>, s).values = <<v, q>> /\ Read(<<"string", "u8">>, s).rest = t
  BY <1>1 DEF Reader
<1> QED BY <1>2, <1>4, <1>5, Zenon

\* Both take some of the input.
LEMMA Shorter ==
  ASSUME NEW s \in Bytes, s # <<>>, NEW t \in Bytes
  PROVE  Len(t) < Len(s \o t)
<1>1. Len(s) \in Nat /\ Len(t) \in Nat /\ Len(s \o t) = Len(s) + Len(t)
  BY CutBytes, Zenon
<1>2. Len(s) # 0
  BY <1>1, EmptySeq, Zenon DEF Bytes
<1>3. \A x, y \in Nat : x # 0 => y < x + y
  OBVIOUS
<1> QED BY <1>1, <1>2, <1>3, Zenon

\* A turn of decode_subscribe or decode_unsubscribe takes a byte at least.
LEMMA ListsConsume == Consumes(<<"string">>) /\ Consumes(<<"string", "u8">>)
<1>1. ASSUME NEW s \in Bytes, Read(<<"string">>, s).ok
      PROVE  Len(Read(<<"string">>, s).rest) < Len(s)
  <2>1. PICK v \in Text, t \in Bytes :
           s = WriteBytes(v) \o t /\ Read(<<"string">>, s).rest = t
    BY <1>1, FilterTaken, Zenon
  <2>2. WriteBytes(v) \in Bytes /\ WriteBytes(v) # <<>>
    BY FilterRead, Zenon
  <2>3. Len(t) < Len(WriteBytes(v) \o t)
    BY <2>2, Shorter, Zenon
  <2> QED BY <2>1, <2>3, Zenon
<1>2. ASSUME NEW s \in Bytes, Read(<<"string", "u8">>, s).ok
      PROVE  Len(Read(<<"string", "u8">>, s).rest) < Len(s)
  <2>1. PICK v \in Text, q \in Byte, t \in Bytes :
           s = Entry(v, q) \o t /\ Read(<<"string", "u8">>, s).rest = t
    BY <1>2, EntryTaken, ZenonT(60)
  <2>2. Entry(v, q) \in Bytes /\ Entry(v, q) # <<>>
    BY EntryRead, Zenon
  <2>3. Len(t) < Len(Entry(v, q) \o t)
    BY <2>2, Shorter, Zenon
  <2> QED BY <2>1, <2>3, Zenon
<1> QED BY <1>1, <1>2, Zenon DEF Consumes

-----------------------------------------------------------------------------
\* UNSUBSCRIBE: what is written is read again.
LEMMA UnsubscribeRoundTrip ==
  ASSUME NEW p \in AnyPacket, p.type = "unsubscribe", Encodable(p)
  PROVE  RoundTrip(p)
<1> DEFINE fields == <<"string">>
           n == Len(p.filters)
           pieces == [i \in DOMAIN p.filters |-> WriteBytes(p.filters[i])]
           items == [i \in 1 .. n |-> <<p.filters[i]>>]
           list == FlattenSeq(pieces)
           body == WriteU16(p.pkid) \o list
<1>1. p \in [type : {"unsubscribe"}, pkid : Word, filters : Seq(Text)]
  BY PacketFields
<1>2. p.pkid \in Word /\ p.filters \in Seq(Text)
  BY <1>1
<1>3. p.pkid # 0 /\ p.filters # <<>>
  BY DEF Encodable, Acks
<1>4. n \in Nat /\ DOMAIN p.filters = 1 .. n /\ n # 0
  BY <1>2, <1>3, LenProperties, EmptySeq
<1>5. \A i \in 1 .. n : p.filters[i] \in Text
  BY <1>2, ElementOfSeq, Zenon
<1> HIDE DEF n
<1>6. pieces \in Seq(Bytes) /\ Len(pieces) = n /\ \A i \in 1 .. n : pieces[i] = WriteBytes(p.filters[i])
  <2>1. \A i \in 1 .. n : WriteBytes(p.filters[i]) \in Bytes
    <3>1. \A v \in Text : WriteBytes(v) \in Bytes
      BY TextWritten, Zenon
    <3> QED BY <1>5, <3>1, Zenon
  <2>2. pieces \in [1 .. n -> Bytes] /\ \A i \in 1 .. n : pieces[i] = WriteBytes(p.filters[i])
    BY <1>4, <2>1, Zenon
  <2> HIDE DEF pieces
  <2> QED BY <1>4, <2>2, Numbered, Zenon
<1>7. items \in Seq(Item) /\ Len(items) = n /\ \A i \in 1 .. n : items[i] = <<p.filters[i]>>
  <2>1. ASSUME NEW v \in Text PROVE <<v>> \in Item
    <3>1. v \in FieldValue
      BY TextFits, Fitting, Zenon
    <3> QED BY <3>1 DEF Item
  <2>2. items \in [1 .. n -> Item] /\ \A i \in 1 .. n : items[i] = <<p.filters[i]>>
    BY <1>5, <2>1, Zenon
  <2> HIDE DEF items
  <2> QED BY <1>4, <2>2, Numbered, Zenon
<1> HIDE DEF items, pieces
<1>8. /\ \A i \in 1 .. n : pieces[i] # <<>>
      /\ \A i \in 1 .. n : \A t \in Bytes : Read(fields, pieces[i] \o t) = Reader(items[i], t)
  <2>1. \A v \in Text : WriteBytes(v) # <<>>
    BY TextWritten, FilterRead, EmptySeq, Zenon
  <2>2. \A v \in Text : \A t \in Bytes : Read(fields, WriteBytes(v) \o t) = Reader(<<v>>, t)
    BY FilterRead, Zenon
  <2> HIDE DEF fields
  <2> QED BY <1>5, <1>6, <1>7, <2>1, <2>2, Zenon
<1>9. fields \in Seq(Field)
  BY TextFits
<1> HIDE DEF fields
<1>10. list \in Bytes /\ list # <<>> /\ ReadAll(fields, list) = Loop(items, <<>>)
  <2>1. items # <<>>
    BY <1>4, <1>7, EmptySeq, Zenon
  <2> QED BY <1>6, <1>7, <1>8, <1>9, <2>1, ListWritten, Zenon
<1> HIDE DEF list
<1>11. /\ body \in Bytes /\ U16(body) = p.pkid /\ AfterPkid(body) = list /\ StartsWithPkid(body)
  BY <1>2, <1>3, <1>10, PkidWritten, Zenon
<1> HIDE DEF body
<1>12. Body(p) = body
  <2>1. Body(p) = UnsubscribeBody(p)
    BY BodyOf
  <2> QED BY <2>1, Zenon DEF UnsubscribeBody, body, list, pieces
<1>13. Flags(p) \in 0 .. 15 /\ FlagsAccepted(p.type, Flags(p))
  BY DEF Flags, FlagsAccepted
<1>14. DecodeBody(p.type, Flags(p), body) = DecodeUnsubscribe(body)
  BY DecodeBodyOf
<1> DEFINE read == ReadAll(fields, AfterPkid(body))
<1>15. read.ok /\ read.items = items
  BY <1>10, <1>11 DEF Loop
<1> HIDE DEF read
<1>16. DecodeUnsubscribe(body) =
         [type |-> "unsubscribe", pkid |-> p.pkid, filters |-> [i \in DOMAIN items |-> items[i][1]]]
  BY <1>11, <1>15, Zenon DEF DecodeUnsubscribe, read, fields
<1>17. DOMAIN items = 1 .. n
  BY <1>7, LenProperties, Zenon
<1>18. \A i \in 1 .. n : items[i][1] = p.filters[i]
  BY <1>7
<1>19. [i \in DOMAIN items |-> items[i][1]] = p.filters
  <2>1. p.filters = [i \in 1 .. n |-> p.filters[i]]
    BY <1>2, <1>4
  <2> QED BY <1>17, <1>18, <2>1, Zenon
<1>20. [type |-> "unsubscribe", pkid |-> p.pkid, filters |-> p.filters] = p
  BY <1>1
<1> QED BY <1>11, <1>12, <1>13, <1>14, <1>16, <1>19, <1>20, Zenon DEF RoundTrip

\* UNSUBSCRIBE: what is accepted is what is written.
LEMMA UnsubscribeFaithful ==
  ASSUME NEW flags \in 0 .. 15, FlagsAccepted("unsubscribe", flags), NEW body \in Bytes
  PROVE  Faithful("unsubscribe", flags, body)
<1> DEFINE p == DecodeBody("unsubscribe", flags, body)
           fields == <<"string">>
           list == AfterPkid(body)
           read == ReadAll(fields, list)
<1>1. p = DecodeUnsubscribe(body)
  BY DecodeBodyOf
<1>2. SUFFICES ASSUME p # Malformed
               PROVE  /\ p.type = "unsubscribe" /\ p \in AnyPacket /\ Flags(p) = flags /\ Body(p) = body
                      /\ Len(body) <= MaxRemainingLen => Encodable(p)
  BY Zenon DEF Faithful
<1>3. /\ StartsWithPkid(body) /\ read.ok
      /\ p = [type |-> "unsubscribe", pkid |-> U16(body),
              filters |-> [i \in DOMAIN read.items |-> read.items[i][1]]]
  BY <1>1, <1>2, Zenon DEF DecodeUnsubscribe
<1>4. /\ U16(body) \in Word /\ U16(body) # 0 /\ list \in Bytes /\ list # <<>>
      /\ body = WriteU16(U16(body)) \o list
  BY <1>3, PkidRead, Zenon
<1>5. fields \in Seq(Field)
  BY TextFits
<1> HIDE DEF p, list
<1>6. PICK items : ListOf(fields, list, items)
  BY <1>3, <1>4, <1>5, ListsConsume, ListRead, Zenon
<1>7. read.items = items
  <2>1. read = Loop(items, <<>>)
    BY <1>6, Zenon DEF ListOf
  <2> HIDE DEF read
  <2> QED BY <2>1 DEF Loop
<1> DEFINE n == Len(items)
           filters == [i \in DOMAIN items |-> items[i][1]]
           pieces == [i \in DOMAIN filters |-> WriteBytes(filters[i])]
<1>8. n \in Nat /\ DOMAIN items = 1 .. n /\ n # 0
  <2>1. items \in Seq(Item) /\ items # <<>>
    BY <1>4, <1>6, Zenon DEF ListOf
  <2> QED BY <2>1, LenProperties, EmptySeq, Zenon
<1>9. p.type = "unsubscribe" /\ p.pkid = U16(body) /\ p.filters = filters
  <2> HIDE DEF read, filters
  <2>1. p = [type |-> "unsubscribe", pkid |-> U16(body), filters |-> filters]
    BY <1>3, <1>7, Zenon DEF filters
  <2> QED BY <2>1
<1> HIDE DEF read, n
<1>10. \A i \in 1 .. n : \E v \in Text : items[i] = <<v>>
  <2> SUFFICES ASSUME NEW i \in 1 .. n PROVE \E v \in Text : items[i] = <<v>>
    BY Zenon
  <2>1. PICK s \in Bytes : Read(fields, s).ok /\ Read(fields, s).values = items[i]
    BY <1>6, Zenon DEF ListOf, n
  <2> QED BY <2>1, FilterTaken, Zenon
<1>11. DOMAIN filters = 1 .. n /\ \A i \in 1 .. n : filters[i] \in Text /\ items[i] = <<filters[i]>>
  <2>1. DOMAIN filters = 1 .. n /\ \A i \in 1 .. n : filters[i] = items[i][1]
    BY <1>8, Zenon
  <2> HIDE DEF filters
  <2>2. \A v : <<v>>[1] = v
    OBVIOUS
  <2>3. \A i \in 1 .. n : filters[i] \in Text /\ items[i] = <<filters[i]>>
    <3> SUFFICES ASSUME NEW i \in 1 .. n PROVE filters[i] \in Text /\ items[i] = <<filters[i]>>
      BY Zenon
    <3>1. PICK v \in Text : items[i] = <<v>>
      BY <1>10, Zenon
    <3>2. filters[i] = v
      BY <2>1, <2>2, <3>1, Zenon
    <3> QED BY <3>1, <3>2, Zenon
  <2> QED BY <2>1, <2>3, Zenon
<1>12. filters \in Seq(Text) /\ filters # <<>>
  <2>1. filters = [i \in 1 .. n |-> filters[i]]
    BY <1>8, <1>11, Zenon
  <2> HIDE DEF filters
  <2>2. filters \in [1 .. n -> Text]
    BY <1>11, <2>1
  <2>3. filters \in Seq(Text) /\ Len(filters) = n
    BY <1>8, <2>2, Numbered, Zenon
  <2> QED BY <1>8, <2>3, EmptySeq, Zenon
<1> HIDE DEF filters
<1>13. pieces \in Seq(Bytes) /\ Len(pieces) = n /\ \A i \in 1 .. n : pieces[i] = WriteBytes(filters[i])
  <2>1. \A i \in 1 .. n : WriteBytes(filters[i]) \in Bytes
    BY <1>11, FilterRead, Zenon
  <2>2. pieces \in [1 .. n -> Bytes] /\ \A i \in 1 .. n : pieces[i] = WriteBytes(filters[i])
    BY <1>11, <2>1, Zenon
  <2> HIDE DEF pieces
  <2> QED BY <1>8, <2>2, Numbered, Zenon
<1> HIDE DEF pieces
<1>14. \A i \in 1 .. n : \A s \in Bytes :
         Read(fields, s).ok /\ Read(fields, s).values = items[i] =>
           s = pieces[i] \o Read(fields, s).rest
  <2> SUFFICES ASSUME NEW i \in 1 .. n, NEW s \in Bytes,
                      Read(fields, s).ok, Read(fields, s).values = items[i]
               PROVE  s = pieces[i] \o Read(fields, s).rest
    BY Zenon
  <2>1. PICK v \in Text, t \in Bytes :
           /\ s = WriteBytes(v) \o t
           /\ Read(fields, s).values = <<v>>
           /\ Read(fields, s).rest = t
    BY FilterTaken, Zenon
  <2>2. <<v>> = <<filters[i]>>
    BY <1>11, <2>1, Zenon
  <2>3. v = filters[i]
    BY <2>2
  <2> QED BY <1>13, <2>1, <2>3, Zenon
<1>15. FlattenSeq(pieces) = list
  BY <1>6, <1>13, <1>14, Zenon DEF ListOf, n
<1>16. Flags(p) = flags
  BY <1>9 DEF Flags, FlagsAccepted
<1>17. Body(p) = body
  <2>1. Body(p) = UnsubscribeBody(p)
    BY <1>9, BodyOf
  <2>2. UnsubscribeBody(p) = WriteU16(U16(body)) \o FlattenSeq(pieces)
    BY <1>9, Zenon DEF UnsubscribeBody, pieces
  <2> QED BY <1>4, <1>15, <2>1, <2>2, Zenon
<1>18. Len(body) <= MaxRemainingLen => Encodable(p)
  BY <1>4, <1>9, <1>12, <1>17 DEF Encodable, Acks
<1>19. p \in AnyPacket
  <2>1. p = [type |-> "unsubscribe", pkid |-> U16(body), filters |-> filters]
    BY <1>3, <1>7, Zenon DEF filters
  <2>2. p \in [type : {"unsubscribe"}, pkid : Word, filters : Seq(Text)]
    BY <1>4, <1>12, <2>1
  <2> QED BY <2>2, Zenon DEF AnyPacket
<1> QED BY <1>9, <1>16, <1>17, <1>18, <1>19, Zenon

-----------------------------------------------------------------------------
Filter == [path : Text, qos : Qos]

\* A QoS is a byte.
LEMMA QosIsByte == Qos \subseteq Byte
BY DEF Qos, Byte

\* An entry of SUBSCRIBE is written in bytes.
LEMMA EntryWritten ==
  ASSUME NEW v \in Text, NEW q \in Byte
  PROVE  Entry(v, q) \in Bytes /\ Entry(v, q) # <<>>
<1>1. <<>> \in Bytes
  BY EmptySeq, Zenon DEF Bytes
<1> QED BY <1>1, EntryRead, Zenon

\* SUBSCRIBE: what is written is read again.
LEMMA SubscribeRoundTrip ==
  ASSUME NEW p \in AnyPacket, p.type = "subscribe", Encodable(p)
  PROVE  RoundTrip(p)
<1> DEFINE fields == <<"string", "u8">>
           n == Len(p.filters)
           piece(i) == WriteBytes(p.filters[i].path) \o <<p.filters[i].qos>>
           pieces == [i \in DOMAIN p.filters |-> piece(i)]
           items == [i \in 1 .. n |-> <<p.filters[i].path, p.filters[i].qos>>]
           list == FlattenSeq(pieces)
           body == WriteU16(p.pkid) \o list
<1>1. p \in [type : {"subscribe"}, pkid : Word, filters : Seq(Filter)]
  BY PacketFields, Zenon DEF Filter
<1>2. p.pkid \in Word /\ p.filters \in Seq(Filter)
  BY <1>1
<1>3. p.pkid # 0 /\ p.filters # <<>>
  BY DEF Encodable, Acks
<1>4. n \in Nat /\ DOMAIN p.filters = 1 .. n /\ n # 0
  BY <1>2, <1>3, LenProperties, EmptySeq
<1>5. \A i \in 1 .. n : /\ p.filters[i] \in Filter
                        /\ p.filters[i].path \in Text
                        /\ p.filters[i].qos \in Qos
                        /\ p.filters[i].qos \in Byte
  <2>1. \A i \in 1 .. n : p.filters[i] \in Filter
    BY <1>2, ElementOfSeq, Zenon
  <2>2. \A f \in Filter : f.path \in Text /\ f.qos \in Qos
    BY DEF Filter
  <2> QED BY <2>1, <2>2, QosIsByte, Zenon
<1> HIDE DEF n
<1>6. /\ pieces \in Seq(Bytes) /\ Len(pieces) = n
      /\ \A i \in 1 .. n : pieces[i] = Entry(p.filters[i].path, p.filters[i].qos)
  <2>1. \A i \in 1 .. n : piece(i) = Entry(p.filters[i].path, p.filters[i].qos)
    BY Zenon DEF Entry
  <2> HIDE DEF piece
  <2>2. \A i \in 1 .. n : piece(i) \in Bytes
    <3>1. \A v \in Text, q \in Byte : Entry(v, q) \in Bytes
      BY EntryWritten, Zenon
    <3> QED BY <1>5, <2>1, <3>1, Zenon
  <2>3. pieces \in [1 .. n -> Bytes] /\ \A i \in 1 .. n : pieces[i] = piece(i)
    BY <1>4, <2>2, Zenon
  <2> HIDE DEF pieces
  <2> QED BY <1>4, <2>1, <2>3, Numbered, Zenon
<1>7. /\ items \in Seq(Item) /\ Len(items) = n
      /\ \A i \in 1 .. n : items[i] = <<p.filters[i].path, p.filters[i].qos>>
  <2>1. ASSUME NEW v \in Text, NEW q \in Byte PROVE <<v, q>> \in Item
    <3>1. v \in FieldValue /\ q \in FieldValue
      BY TextFits, ByteFits, Fitting, Zenon
    <3> QED BY <3>1 DEF Item
  <2>2. /\ items \in [1 .. n -> Item]
        /\ \A i \in 1 .. n : items[i] = <<p.filters[i].path, p.filters[i].qos>>
    BY <1>5, <2>1, Zenon
  <2> HIDE DEF items
  <2> QED BY <1>4, <2>2, Numbered, Zenon
<1> HIDE DEF items, pieces
<1>8. /\ \A i \in 1 .. n : pieces[i] # <<>>
      /\ \A i \in 1 .. n : \A t \in Bytes : Read(fields, pieces[i] \o t) = Reader(items[i], t)
  <2>1. \A v \in Text, q \in Byte : Entry(v, q) # <<>>
    BY EntryWritten, Zenon
  <2>2. \A v \in Text, q \in Byte : \A t \in Bytes :
          Read(fields, Entry(v, q) \o t) = Reader(<<v, q>>, t)
    BY EntryRead, Zenon
  <2> HIDE DEF fields
  <2> QED BY <1>5, <1>6, <1>7, <2>1, <2>2, ZenonT(60)
<1>9. fields \in Seq(Field)
  BY TextFits, ByteFits
<1> HIDE DEF fields
<1>10. list \in Bytes /\ list # <<>> /\ ReadAll(fields, list) = Loop(items, <<>>)
  <2>1. items # <<>>
    BY <1>4, <1>7, EmptySeq, Zenon
  <2> QED BY <1>6, <1>7, <1>8, <1>9, <2>1, ListWritten, Zenon
<1> HIDE DEF list
<1>11. /\ body \in Bytes /\ U16(body) = p.pkid /\ AfterPkid(body) = list /\ StartsWithPkid(body)
  BY <1>2, <1>3, <1>10, PkidWritten, Zenon
<1> HIDE DEF body
<1>12. Body(p) = body
  <2>1. Body(p) = SubscribeBody(p)
    BY BodyOf
  <2> QED BY <2>1, Zenon DEF SubscribeBody, body, list, pieces, piece
<1>13. Flags(p) \in 0 .. 15 /\ FlagsAccepted(p.type, Flags(p))
  BY DEF Flags, FlagsAccepted
<1>14. DecodeBody(p.type, Flags(p), body) = DecodeSubscribe(body)
  BY DecodeBodyOf
<1> DEFINE read == ReadAll(fields, AfterPkid(body))
<1>15. read.ok /\ read.items = items
  BY <1>10, <1>11 DEF Loop
<1> HIDE DEF read
<1>16. DOMAIN items = 1 .. n
  BY <1>7, LenProperties, Zenon
<1>17. \A i \in 1 .. n : items[i][1] = p.filters[i].path /\ items[i][2] = p.filters[i].qos
  BY <1>7
<1>18. \A i \in DOMAIN items : items[i][2] \in Qos
  BY <1>5, <1>16, <1>17, Zenon
<1>19. DecodeSubscribe(body) =
         [type |-> "subscribe", pkid |-> p.pkid,
          filters |-> [i \in DOMAIN items |-> [path |-> items[i][1], qos |-> items[i][2]]]]
  BY <1>11, <1>15, <1>18, Zenon DEF DecodeSubscribe, read, fields
<1>20. [i \in DOMAIN items |-> [path |-> items[i][1], qos |-> items[i][2]]] = p.filters
  <2>1. p.filters = [i \in 1 .. n |-> p.filters[i]]
    BY <1>2, <1>4
  <2>2. \A f \in Filter : [path |-> f.path, qos |-> f.qos] = f
    BY DEF Filter
  <2>3. \A i \in 1 .. n : [path |-> items[i][1], qos |-> items[i][2]] = p.filters[i]
    BY <1>5, <1>17, <2>2, Zenon
  <2> QED BY <1>16, <2>1, <2>3, Zenon
<1>21. [type |-> "subscribe", pkid |-> p.pkid, filters |-> p.filters] = p
  BY <1>1
<1> QED BY <1>11, <1>12, <1>13, <1>14, <1>19, <1>20, <1>21, Zenon DEF RoundTrip

\* SUBSCRIBE: what is accepted is what is written.
LEMMA SubscribeFaithful ==
  ASSUME NEW flags \in 0 .. 15, FlagsAccepted("subscribe", flags), NEW body \in Bytes
  PROVE  Faithful("subscribe", flags, body)
<1> DEFINE p == DecodeBody("subscribe", flags, body)
           fields == <<"string", "u8">>
           list == AfterPkid(body)
           read == ReadAll(fields, list)
<1>1. p = DecodeSubscribe(body)
  BY DecodeBodyOf
<1>2. SUFFICES ASSUME p # Malformed
               PROVE  /\ p.type = "subscribe" /\ p \in AnyPacket /\ Flags(p) = flags /\ Body(p) = body
                      /\ Len(body) <= MaxRemainingLen => Encodable(p)
  BY Zenon DEF Faithful
<1>3. /\ StartsWithPkid(body) /\ read.ok
      /\ \A i \in DOMAIN read.items : read.items[i][2] \in Qos
      /\ p = [type |-> "subscribe", pkid |-> U16(body),
              filters |-> [i \in DOMAIN read.items |->
                             [path |-> read.items[i][1], qos |-> read.items[i][2]]]]
  BY <1>1, <1>2, Zenon DEF DecodeSubscribe
<1>4. /\ U16(body) \in Word /\ U16(body) # 0 /\ list \in Bytes /\ list # <<>>
      /\ body = WriteU16(U16(body)) \o list
  BY <1>3, PkidRead, Zenon
<1>5. fields \in Seq(Field)
  BY TextFits, ByteFits
<1> HIDE DEF p, list
<1>6. PICK items : ListOf(fields, list, items)
  BY <1>3, <1>4, <1>5, ListsConsume, ListRead, Zenon
<1>7. read.items = items
  <2>1. read = Loop(items, <<>>)
    BY <1>6, Zenon DEF ListOf
  <2> HIDE DEF read
  <2> QED BY <2>1 DEF Loop
<1> DEFINE n == Len(items)
           filter(i) == [path |-> items[i][1], qos |-> items[i][2]]
           filters == [i \in DOMAIN items |-> filter(i)]
           piece(i) == WriteBytes(filters[i].path) \o <<filters[i].qos>>
           pieces == [i \in DOMAIN filters |-> piece(i)]
<1>8. n \in Nat /\ DOMAIN items = 1 .. n /\ n # 0
  <2>1. items \in Seq(Item) /\ items # <<>>
    BY <1>4, <1>6, Zenon DEF ListOf
  <2> QED BY <2>1, LenProperties, EmptySeq, Zenon
<1>9. p.type = "subscribe" /\ p.pkid = U16(body) /\ p.filters = filters
  <2> HIDE DEF read, filters
  <2>1. p = [type |-> "subscribe", pkid |-> U16(body), filters |-> filters]
    BY <1>3, <1>7, Zenon DEF filters
  <2> QED BY <2>1
<1> HIDE DEF read, n
<1>10. \A i \in 1 .. n : \E v \in Text, q \in Byte : items[i] = <<v, q>>
  <2> SUFFICES ASSUME NEW i \in 1 .. n PROVE \E v \in Text, q \in Byte : items[i] = <<v, q>>
    BY Zenon
  <2>1. PICK s \in Bytes : Read(fields, s).ok /\ Read(fields, s).values = items[i]
    BY <1>6, Zenon DEF ListOf, n
  <2> QED BY <2>1, EntryTaken, Zenon
<1>11. /\ DOMAIN filters = 1 .. n
       /\ \A i \in 1 .. n : /\ filters[i] = filter(i)
                            /\ filters[i].path \in Text /\ filters[i].qos \in Byte
                            /\ filters[i].qos \in Qos
                            /\ items[i] = <<filters[i].path, filters[i].qos>>
  <2>1. DOMAIN filters = 1 .. n /\ \A i \in 1 .. n : filters[i] = filter(i)
    BY <1>8, Zenon
  <2>2. \A i \in 1 .. n : filter(i).path = items[i][1] /\ filter(i).qos = items[i][2]
    BY Zenon
  <2> HIDE DEF filters, filter
  <2>3. \A v, q : <<v, q>>[1] = v /\ <<v, q>>[2] = q
    OBVIOUS
  <2>4. ASSUME NEW i \in 1 .. n
        PROVE  /\ filters[i].path \in Text /\ filters[i].qos \in Byte
               /\ filters[i].qos \in Qos
               /\ items[i] = <<filters[i].path, filters[i].qos>>
    <3>1. PICK v \in Text, q \in Byte : items[i] = <<v, q>>
      BY <1>10, Zenon
    <3>2. items[i][1] = v /\ items[i][2] = q
      BY <3>1
    <3>3. filters[i].path = v /\ filters[i].qos = q
      BY <2>1, <2>2, <3>2, Zenon
    <3>4. q \in Qos
      BY <1>3, <1>7, <1>8, <3>2, Zenon
    <3> QED BY <3>1, <3>3, <3>4, Zenon
  <2> QED BY <2>1, <2>4, Zenon
<1>12. filters # <<>> /\ filters \in Seq([path : Text, qos : Qos])
  <2>1. filters = [i \in 1 .. n |-> filters[i]]
    BY <1>8, <1>11, Zenon
  <2>2. \A i \in 1 .. n : filters[i] \in [path : Text, qos : Qos]
    <3> SUFFICES ASSUME NEW i \in 1 .. n PROVE filters[i] \in [path : Text, qos : Qos]
      BY Zenon
    <3>1. filters[i] = filter(i) /\ filters[i].path \in Text /\ filters[i].qos \in Qos
      BY <1>11, Zenon
    <3> DEFINE a == items[i][1]
               b == items[i][2]
    <3>2. filters[i] = [path |-> a, qos |-> b]
      BY <3>1, Zenon
    <3> HIDE DEF filters, a, b
    <3> QED BY <3>1, <3>2
  <2> HIDE DEF filters
  <2>3. filters \in [1 .. n -> [path : Text, qos : Qos]]
    BY <2>1, <2>2, Zenon
  <2>4. filters \in Seq([path : Text, qos : Qos]) /\ Len(filters) = n
    BY <1>8, <2>3, Numbered, Zenon
  <2> QED BY <1>8, <2>4, EmptySeq, Zenon
<1> HIDE DEF filters, filter
<1>13. /\ pieces \in Seq(Bytes) /\ Len(pieces) = n
       /\ \A i \in 1 .. n : pieces[i] = Entry(filters[i].path, filters[i].qos)
  <2>1. \A i \in 1 .. n : piece(i) = Entry(filters[i].path, filters[i].qos)
    BY Zenon DEF Entry
  <2> HIDE DEF piece
  <2>2. \A i \in 1 .. n : piece(i) \in Bytes
    <3>1. \A v \in Text, q \in Byte : Entry(v, q) \in Bytes
      BY EntryWritten, Zenon
    <3> QED BY <1>11, <2>1, <3>1, Zenon
  <2>3. pieces \in [1 .. n -> Bytes] /\ \A i \in 1 .. n : pieces[i] = piece(i)
    BY <1>11, <2>2, Zenon
  <2> HIDE DEF pieces
  <2> QED BY <1>8, <2>1, <2>3, Numbered, Zenon
<1> HIDE DEF pieces
<1>14. \A i \in 1 .. n : \A s \in Bytes :
         Read(fields, s).ok /\ Read(fields, s).values = items[i] =>
           s = pieces[i] \o Read(fields, s).rest
  <2> SUFFICES ASSUME NEW i \in 1 .. n, NEW s \in Bytes,
                      Read(fields, s).ok, Read(fields, s).values = items[i]
               PROVE  s = pieces[i] \o Read(fields, s).rest
    BY Zenon
  <2>1. PICK v \in Text, q \in Byte, t \in Bytes :
           /\ s = Entry(v, q) \o t
           /\ Read(fields, s).values = <<v, q>>
           /\ Read(fields, s).rest = t
    BY EntryTaken, Zenon
  <2>2. <<v, q>> = <<filters[i].path, filters[i].qos>>
    BY <1>11, <2>1, Zenon
  <2>3. v = filters[i].path /\ q = filters[i].qos
    BY <2>2
  <2> QED BY <1>13, <2>1, <2>3, Zenon
<1>15. FlattenSeq(pieces) = list
  BY <1>6, <1>13, <1>14, Zenon DEF ListOf, n
<1>16. Flags(p) = flags
  BY <1>9 DEF Flags, FlagsAccepted
<1>17. Body(p) = body
  <2>1. Body(p) = SubscribeBody(p)
    BY <1>9, BodyOf
  <2>2. SubscribeBody(p) = WriteU16(U16(body)) \o FlattenSeq(pieces)
    BY <1>9, Zenon DEF SubscribeBody, pieces, piece
  <2> QED BY <1>4, <1>15, <2>1, <2>2, Zenon
<1>18. Len(body) <= MaxRemainingLen => Encodable(p)
  BY <1>4, <1>9, <1>12, <1>17 DEF Encodable, Acks
<1>19. p \in AnyPacket
  <2>1. p = [type |-> "subscribe", pkid |-> U16(body), filters |-> filters]
    BY <1>3, <1>7, Zenon DEF filters, filter
  <2>2. p \in [type : {"subscribe"}, pkid : Word, filters : Seq([path : Text, qos : Qos])]
    BY <1>4, <1>12, <2>1
  <2> QED BY <2>2, Zenon DEF AnyPacket
<1> QED BY <1>9, <1>16, <1>17, <1>18, <1>19, Zenon

-----------------------------------------------------------------------------
\* The two parts of a CONNECT.
FourWritten(f1, f2, f3, f4, s, v, t) ==
  /\ v[1] \in Fits(f1) /\ v[2] \in Fits(f2) /\ v[3] \in Fits(f3) /\ v[4] \in Fits(f4) /\ t \in Bytes
  /\ s = Written(f1, v[1]) \o (Written(f2, v[2]) \o (Written(f3, v[3]) \o (Written(f4, v[4]) \o t)))

\* What is written of four fields is read.
LEMMA FourRead ==
  ASSUME NEW f1 \in Field, NEW f2 \in Field, NEW f3 \in Field, NEW f4 \in Field,
         NEW s, NEW v, NEW t, FourWritten(f1, f2, f3, f4, s, v, t)
  PROVE  Read(<<f1, f2, f3, f4>>, s) = Reader(<<v[1], v[2], v[3], v[4]>>, t)
<1> DEFINE fields == <<f1, f2, f3, f4>>
           v1 == v[1]
           v2 == v[2]
           v3 == v[3]
           v4 == v[4]
           values == <<v1, v2, v3, v4>>
           r5 == t
           r4 == Written(f4, v4) \o r5
           r3 == Written(f3, v3) \o r4
           r2 == Written(f2, v2) \o r3
           r1 == Written(f1, v1) \o r2
           rests == <<r1, r2, r3, r4, r5>>
<1>0. /\ v1 \in Fits(f1) /\ v2 \in Fits(f2) /\ v3 \in Fits(f3) /\ v4 \in Fits(f4) /\ r5 \in Bytes
      /\ s = r1
  BY Zenon DEF FourWritten
<1> HIDE DEF v1, v2, v3, v4
<1>1. /\ v1 \in FieldValue /\ Written(f1, v1) \in Bytes
      /\ v2 \in FieldValue /\ Written(f2, v2) \in Bytes
      /\ v3 \in FieldValue /\ Written(f3, v3) \in Bytes
      /\ v4 \in FieldValue /\ Written(f4, v4) \in Bytes
  BY <1>0, Fitting, Zenon
<1>2. r1 \in Bytes /\ r2 \in Bytes /\ r3 \in Bytes /\ r4 \in Bytes /\ r5 \in Bytes
  <2>1. r5 \in Bytes
    BY <1>0, Zenon
  <2> HIDE DEF r5
  <2>2. r4 \in Bytes
    BY <1>1, <2>1, CutBytes, Zenon
  <2> HIDE DEF r4
  <2>3. r3 \in Bytes
    BY <1>1, <2>2, CutBytes, Zenon
  <2> HIDE DEF r3
  <2>4. r2 \in Bytes
    BY <1>1, <2>3, CutBytes, Zenon
  <2> HIDE DEF r2
  <2>5. r1 \in Bytes
    BY <1>1, <2>4, CutBytes, Zenon
  <2> QED BY <2>1, <2>2, <2>3, <2>4, <2>5, Zenon
<1>3. r1 = Written(f1, v1) \o r2 /\ r2 = Written(f2, v2) \o r3
      /\ r3 = Written(f3, v3) \o r4 /\ r4 = Written(f4, v4) \o r5
  BY Zenon
<1> HIDE DEF r1, r2, r3, r4, r5
<1>4. /\ fields \in Seq(Field) /\ Len(fields) = 4
      /\ fields[1] = f1 /\ fields[2] = f2 /\ fields[3] = f3 /\ fields[4] = f4
  OBVIOUS
<1>5. /\ values \in Seq(FieldValue) /\ Len(values) = 4
      /\ values[1] = v1 /\ values[2] = v2 /\ values[3] = v3 /\ values[4] = v4
  BY <1>1
<1>6. /\ rests \in Seq(Bytes) /\ Len(rests) = 4 + 1
      /\ rests[1] = r1 /\ rests[2] = r2 /\ rests[3] = r3 /\ rests[4] = r4 /\ rests[5] = r5
  BY <1>2
<1> HIDE DEF fields, values, rests
<1>7. /\ \A i \in 1 .. 4 : i = 1 \/ i = 2 \/ i = 3 \/ i = 4
      /\ 1 + 1 = 2 /\ 2 + 1 = 3 /\ 3 + 1 = 4 /\ 4 + 1 = 5
  OBVIOUS
<1>8. \A i \in 1 .. 4 : /\ values[i] \in Fits(fields[i])
                        /\ rests[i] = Written(fields[i], values[i]) \o rests[i + 1]
  BY <1>0, <1>3, <1>4, <1>5, <1>6, <1>7, Zenon
<1>9. Chain(fields, Len(fields), values, rests)
  BY <1>4, <1>5, <1>6, <1>8, Zenon DEF Chain
<1>10. Read(fields, rests[1]) = Reader(values, rests[Len(fields) + 1])
  BY <1>4, <1>9, WrittenIsRead, Zenon
<1>11. Read(fields, r1) = Reader(values, r5)
  BY <1>4, <1>6, <1>7, <1>10, Zenon
<1> QED BY <1>0, <1>11, Zenon DEF fields, values, r5, v1, v2, v3, v4

\* s is written of four fields, and they are read from it.
FourFields(f1, f2, f3, f4, s, v, t) ==
  /\ FourWritten(f1, f2, f3, f4, s, v, t)
  /\ Read(<<f1, f2, f3, f4>>, s) = Reader(<<v[1], v[2], v[3], v[4]>>, t)

\* What four fields are read from is what is written of them, and more.
LEMMA FourTaken ==
  ASSUME NEW f1 \in Field, NEW f2 \in Field, NEW f3 \in Field, NEW f4 \in Field, NEW s \in Bytes,
         Read(<<f1, f2, f3, f4>>, s).ok
  PROVE  \E v, t : FourFields(f1, f2, f3, f4, s, v, t)
<1> DEFINE fields == <<f1, f2, f3, f4>>
<1>1. /\ fields \in Seq(Field) /\ Len(fields) = 4
      /\ fields[1] = f1 /\ fields[2] = f2 /\ fields[3] = f3 /\ fields[4] = f4
  OBVIOUS
<1> HIDE DEF fields
<1>2. Read(fields, s).ok
  BY Zenon DEF fields
<1>3. PICK v, rests : /\ Chain(fields, Len(fields), v, rests)
                      /\ rests[1] = s
                      /\ Read(fields, s) = Reader(v, rests[Len(fields) + 1])
  BY <1>1, <1>2, ReadIsWritten, Zenon
<1>4. /\ v \in Seq(FieldValue) /\ Len(v) = 4
      /\ rests \in Seq(Bytes) /\ Len(rests) = 4 + 1
      /\ \A i \in 1 .. 4 : /\ v[i] \in Fits(fields[i])
                           /\ rests[i] = Written(fields[i], v[i]) \o rests[i + 1]
  BY <1>1, <1>3, Zenon DEF Chain
<1>5. /\ 1 \in 1 .. 4 /\ 2 \in 1 .. 4 /\ 3 \in 1 .. 4 /\ 4 \in 1 .. 4
      /\ 1 + 1 = 2 /\ 2 + 1 = 3 /\ 3 + 1 = 4 /\ 4 + 1 = 5 /\ 5 \in 1 .. 4 + 1
  OBVIOUS
<1>6. v[1] \in Fits(f1) /\ s = Written(f1, v[1]) \o rests[2]
  BY <1>1, <1>3, <1>4, <1>5, Zenon
<1>7. v[2] \in Fits(f2) /\ rests[2] = Written(f2, v[2]) \o rests[3]
  BY <1>1, <1>3, <1>4, <1>5, Zenon
<1>8. v[3] \in Fits(f3) /\ rests[3] = Written(f3, v[3]) \o rests[4]
  BY <1>1, <1>3, <1>4, <1>5, Zenon
<1>9. v[4] \in Fits(f4) /\ rests[4] = Written(f4, v[4]) \o rests[5]
  BY <1>1, <1>3, <1>4, <1>5, Zenon
<1>10. rests[5] \in Bytes /\ v = <<v[1], v[2], v[3], v[4]>>
  BY <1>4, <1>5, Spelled, ElementOfSeq, Zenon
<1>11. Read(fields, s) = Reader(<<v[1], v[2], v[3], v[4]>>, rests[5])
  BY <1>1, <1>3, <1>5, <1>10, Zenon
<1>12. s = Written(f1, v[1]) \o (Written(f2, v[2]) \o (Written(f3, v[3])
      \o (Written(f4, v[4]) \o rests[5])))
  BY <1>6, <1>7, <1>8, <1>9, Zenon
<1>13. FourWritten(f1, f2, f3, f4, s, v, rests[5])
  BY <1>6, <1>7, <1>8, <1>9, <1>10, <1>11, <1>12, Zenon DEF fields, FourWritten
<1>14. FourFields(f1, f2, f3, f4, s, v, rests[5])
  BY <1>11, <1>13, Zenon DEF fields, FourFields
<1> QED BY <1>14, Zenon

\* The same of five fields.
FiveWritten(f1, f2, f3, f4, f5, s, v, t) ==
  /\ v[1] \in Fits(f1) /\ v[2] \in Fits(f2) /\ v[3] \in Fits(f3) /\ v[4] \in Fits(f4)
  /\ v[5] \in Fits(f5) /\ t \in Bytes
  /\ s = Written(f1, v[1]) \o (Written(f2, v[2]) \o (Written(f3, v[3]) \o (Written(f4, v[4])
        \o (Written(f5, v[5]) \o t))))

\* What is written of five fields is read.
LEMMA FiveRead ==
  ASSUME NEW f1 \in Field, NEW f2 \in Field, NEW f3 \in Field, NEW f4 \in Field, NEW f5 \in Field,
         NEW s, NEW v, NEW t, FiveWritten(f1, f2, f3, f4, f5, s, v, t)
  PROVE  Read(<<f1, f2, f3, f4, f5>>, s) = Reader(<<v[1], v[2], v[3], v[4], v[5]>>, t)
<1> DEFINE fields == <<f1, f2, f3, f4, f5>>
           v1 == v[1]
           v2 == v[2]
           v3 == v[3]
           v4 == v[4]
           v5 == v[5]
           values == <<v1, v2, v3, v4, v5>>
           r6 == t
           r5 == Written(f5, v5) \o r6
           r4 == Written(f4, v4) \o r5
           r3 == Written(f3, v3) \o r4
           r2 == Written(f2, v2) \o r3
           r1 == Written(f1, v1) \o r2
           rests == <<r1, r2, r3, r4, r5, r6>>
<1>0. /\ v1 \in Fits(f1) /\ v2 \in Fits(f2) /\ v3 \in Fits(f3) /\ v4 \in Fits(f4)
      /\ v5 \in Fits(f5) /\ r6 \in Bytes
      /\ s = r1
  BY Zenon DEF FiveWritten
<1> HIDE DEF v1, v2, v3, v4, v5
<1>1. /\ v1 \in FieldValue /\ Written(f1, v1) \in Bytes
      /\ v2 \in FieldValue /\ Written(f2, v2) \in Bytes
      /\ v3 \in FieldValue /\ Written(f3, v3) \in Bytes
      /\ v4 \in FieldValue /\ Written(f4, v4) \in Bytes
      /\ v5 \in FieldValue /\ Written(f5, v5) \in Bytes
  BY <1>0, Fitting, Zenon
<1>2. r1 \in Bytes /\ r2 \in Bytes /\ r3 \in Bytes /\ r4 \in Bytes /\ r5 \in Bytes /\ r6 \in Bytes
  <2>1. r6 \in Bytes
    BY <1>0, Zenon
  <2> HIDE DEF r6
  <2>2. r5 \in Bytes
    BY <1>1, <2>1, CutBytes, Zenon
  <2> HIDE DEF r5
  <2>3. r4 \in Bytes
    BY <1>1, <2>2, CutBytes, Zenon
  <2> HIDE DEF r4
  <2>4. r3 \in Bytes
    BY <1>1, <2>3, CutBytes, Zenon
  <2> HIDE DEF r3
  <2>5. r2 \in Bytes
    BY <1>1, <2>4, CutBytes, Zenon
  <2> HIDE DEF r2
  <2>6. r1 \in Bytes
    BY <1>1, <2>5, CutBytes, Zenon
  <2> QED BY <2>1, <2>2, <2>3, <2>4, <2>5, <2>6, Zenon
<1>3. r1 = Written(f1, v1) \o r2 /\ r2 = Written(f2, v2) \o r3
      /\ r3 = Written(f3, v3) \o r4 /\ r4 = Written(f4, v4) \o r5
      /\ r5 = Written(f5, v5) \o r6
  BY Zenon
<1> HIDE DEF r1, r2, r3, r4, r5, r6
<1>4. /\ fields \in Seq(Field) /\ Len(fields) = 5
      /\ fields[1] = f1 /\ fields[2] = f2 /\ fields[3] = f3 /\ fields[4] = f4 /\ fields[5] = f5
  OBVIOUS
<1>5. /\ values \in Seq(FieldValue) /\ Len(values) = 5
      /\ values[1] = v1 /\ values[2] = v2 /\ values[3] = v3 /\ values[4] = v4 /\ values[5] = v5
  BY <1>1
<1>6. /\ rests \in Seq(Bytes) /\ Len(rests) = 5 + 1
      /\ rests[1] = r1 /\ rests[2] = r2 /\ rests[3] = r3
      /\ rests[4] = r4 /\ rests[5] = r5 /\ rests[6] = r6
  BY <1>2
<1> HIDE DEF fields, values, rests
<1>7. /\ \A i \in 1 .. 5 : i = 1 \/ i = 2 \/ i = 3 \/ i = 4 \/ i = 5
      /\ 1 + 1 = 2 /\ 2 + 1 = 3 /\ 3 + 1 = 4 /\ 4 + 1 = 5 /\ 5 + 1 = 6
  OBVIOUS
<1>8. \A i \in 1 .. 5 : /\ values[i] \in Fits(fields[i])
                        /\ rests[i] = Written(fields[i], values[i]) \o rests[i + 1]
  BY <1>0, <1>3, <1>4, <1>5, <1>6, <1>7, Zenon
<1>9. Chain(fields, Len(fields), values, rests)
  BY <1>4, <1>5, <1>6, <1>8, Zenon DEF Chain
<1>10. Read(fields, rests[1]) = Reader(values, rests[Len(fields) + 1])
  BY <1>4, <1>9, WrittenIsRead, Zenon
<1>11. Read(fields, r1) = Reader(values, r6)
  BY <1>4, <1>6, <1>7, <1>10, Zenon
<1> QED BY <1>0, <1>11, Zenon DEF fields, values, r6, v1, v2, v3, v4, v5

\* s is written of five fields, and they are read from it.
FiveFields(f1, f2, f3, f4, f5, s, v, t) ==
  /\ FiveWritten(f1, f2, f3, f4, f5, s, v, t)
  /\ Read(<<f1, f2, f3, f4, f5>>, s) = Reader(<<v[1], v[2], v[3], v[4], v[5]>>, t)

\* What five fields are read from is what is written of them, and more.
LEMMA FiveTaken ==
  ASSUME NEW f1 \in Field, NEW f2 \in Field, NEW f3 \in Field, NEW f4 \in Field,
         NEW f5 \in Field, NEW s \in Bytes,
         Read(<<f1, f2, f3, f4, f5>>, s).ok
  PROVE  \E v, t : FiveFields(f1, f2, f3, f4, f5, s, v, t)
<1> DEFINE fields == <<f1, f2, f3, f4, f5>>
<1>1. /\ fields \in Seq(Field) /\ Len(fields) = 5
      /\ fields[1] = f1 /\ fields[2] = f2 /\ fields[3] = f3 /\ fields[4] = f4 /\ fields[5] = f5
  OBVIOUS
<1> HIDE DEF fields
<1>2. Read(fields, s).ok
  BY Zenon DEF fields
<1>3. PICK v, rests : /\ Chain(fields, Len(fields), v, rests)
                      /\ rests[1] = s
                      /\ Read(fields, s) = Reader(v, rests[Len(fields) + 1])
  BY <1>1, <1>2, ReadIsWritten, Zenon
<1>4. /\ v \in Seq(FieldValue) /\ Len(v) = 5
      /\ rests \in Seq(Bytes) /\ Len(rests) = 5 + 1
      /\ \A i \in 1 .. 5 : /\ v[i] \in Fits(fields[i])
                           /\ rests[i] = Written(fields[i], v[i]) \o rests[i + 1]
  BY <1>1, <1>3, Zenon DEF Chain
<1>5. /\ 1 \in 1 .. 5 /\ 2 \in 1 .. 5 /\ 3 \in 1 .. 5 /\ 4 \in 1 .. 5 /\ 5 \in 1 .. 5
      /\ 1 + 1 = 2 /\ 2 + 1 = 3 /\ 3 + 1 = 4 /\ 4 + 1 = 5 /\ 5 + 1 = 6 /\ 6 \in 1 .. 5 + 1
  OBVIOUS
<1>6. v[1] \in Fits(f1) /\ s = Written(f1, v[1]) \o rests[2]
  BY <1>1, <1>3, <1>4, <1>5, Zenon
<1>7. v[2] \in Fits(f2) /\ rests[2] = Written(f2, v[2]) \o rests[3]
  BY <1>1, <1>3, <1>4, <1>5, Zenon
<1>8. v[3] \in Fits(f3) /\ rests[3] = Written(f3, v[3]) \o rests[4]
  BY <1>1, <1>3, <1>4, <1>5, Zenon
<1>9. v[4] \in Fits(f4) /\ rests[4] = Written(f4, v[4]) \o rests[5]
  BY <1>1, <1>3, <1>4, <1>5, Zenon
<1>10. v[5] \in Fits(f5) /\ rests[5] = Written(f5, v[5]) \o rests[6]
  BY <1>1, <1>3, <1>4, <1>5, Zenon
<1>11. rests[6] \in Bytes /\ v = <<v[1], v[2], v[3], v[4], v[5]>>
  BY <1>4, <1>5, Spelled, ElementOfSeq, Zenon
<1>12. Read(fields, s) = Reader(<<v[1], v[2], v[3], v[4], v[5]>>, rests[6])
  BY <1>1, <1>3, <1>5, <1>11, Zenon
<1>13. s = Written(f1, v[1]) \o (Written(f2, v[2]) \o (Written(f3, v[3]) \o (Written(f4, v[4])
      \o (Written(f5, v[5]) \o rests[6]))))
  BY <1>6, <1>7, <1>8, <1>9, <1>10, Zenon
<1>14. FiveWritten(f1, f2, f3, f4, f5, s, v, rests[6])
  BY <1>6, <1>7, <1>8, <1>9, <1>10, <1>11, <1>12, <1>13, Zenon DEF fields, FiveWritten
<1>15. FiveFields(f1, f2, f3, f4, f5, s, v, rests[6])
  BY <1>12, <1>14, Zenon DEF fields, FiveFields
<1> QED BY <1>15, Zenon

-----------------------------------------------------------------------------
\* MQTT, the name of the protocol.
Name == <<77, 81, 84, 84>>

\* The flags of a CONNECT, as they are put together and taken apart.
Says(flags, clean, will, qos, retain, password, username) ==
  /\ flags \in Byte
  /\ ~Bit(flags, 1)
  /\ Bit(flags, 2) <=> clean = 1
  /\ Bit(flags, 4) <=> will = 1
  /\ (flags \div 8) % 4 = qos
  /\ Bit(flags, 32) <=> retain = 1
  /\ Bit(flags, 64) <=> password = 1
  /\ Bit(flags, 128) <=> username = 1

\* Flags that are put together say what they were put together from.
LEMMA PutTogether ==
  ASSUME NEW clean \in 0 .. 1, NEW will \in 0 .. 1, NEW qos \in Qos, NEW retain \in 0 .. 1,
         NEW password \in 0 .. 1, NEW username \in 0 .. 1, NEW flags,
         flags = 2 * clean + (4 * will + 8 * qos + 32 * retain) + 64 * password + 128 * username
  PROVE  Says(flags, clean, will, qos, retain, password, username)
<1>1. flags \in Byte
  BY DEF Byte, Qos
<1>2. ~Bit(flags, 1)
  BY DEF Bit, Qos
<1>3. Bit(flags, 2) <=> clean = 1
  BY DEF Bit, Qos
<1>4. Bit(flags, 4) <=> will = 1
  BY DEF Bit, Qos
<1>5. (flags \div 8) % 4 = qos
  BY DEF Qos
<1>6. Bit(flags, 32) <=> retain = 1
  BY DEF Bit, Qos
<1>7. Bit(flags, 64) <=> password = 1
  BY DEF Bit, Qos
<1>8. Bit(flags, 128) <=> username = 1
  BY DEF Bit, Qos
<1> QED BY <1>1, <1>2, <1>3, <1>4, <1>5, <1>6, <1>7, <1>8, Zenon DEF Says

\* The flags of a CONNECT are what is read of them.
LEMMA TakenApart ==
  ASSUME NEW flags \in Byte, ~Bit(flags, 1)
  PROVE  flags = 2 * Flag(Bit(flags, 2))
                   + (4 * Flag(Bit(flags, 4)) + 8 * ((flags \div 8) % 4) + 32 * Flag(Bit(flags, 32)))
                   + 64 * Flag(Bit(flags, 64)) + 128 * Flag(Bit(flags, 128))
<1>1. /\ Flag(Bit(flags, 2)) = (flags \div 2) % 2
      /\ Flag(Bit(flags, 4)) = (flags \div 4) % 2
      /\ Flag(Bit(flags, 32)) = (flags \div 32) % 2
      /\ Flag(Bit(flags, 64)) = (flags \div 64) % 2
      /\ Flag(Bit(flags, 128)) = (flags \div 128) % 2
  BY DEF Bit, Flag, Byte
<1>2. flags = 2 * (flags \div 2)
  BY DEF Bit, Byte
<1>3. flags \div 2 = 2 * (flags \div 4) + ((flags \div 2) % 2)
  BY DEF Byte
<1>4. flags \div 4 = 2 * (flags \div 8) + ((flags \div 4) % 2)
  BY DEF Byte
<1>5. flags \div 8 = 4 * (flags \div 32) + ((flags \div 8) % 4)
  BY DEF Byte
<1>6. flags \div 32 = 2 * (flags \div 64) + ((flags \div 32) % 2)
  BY DEF Byte
<1>7. flags \div 64 = 2 * (flags \div 128) + ((flags \div 64) % 2)
  BY DEF Byte
<1>8. flags \div 128 = (flags \div 128) % 2
  BY DEF Byte
<1> QED BY <1>1, <1>2, <1>3, <1>4, <1>5, <1>6, <1>7, <1>8 DEF Byte

\* A field that may be announced, and what of it is written.
LEMMA Announcing ==
  ASSUME NEW flag \in BOOLEAN, NEW field \in {"string", "bytes"}, NEW v,
         flag => v \in Fits(field), ~flag => v = None
  PROVE  /\ Announced(flag, field) \in Field
         /\ v \in Fits(Announced(flag, field))
         /\ Written(Announced(flag, field), v) = IF flag THEN WriteBytes(v) ELSE <<>>
<1>1. CASE flag
  BY <1>1 DEF Announced, Written, Fits, Field
<1>2. CASE ~flag
  BY <1>2 DEF Announced, Written, Fits, Field
<1> QED BY <1>1, <1>2

\* What a field that may be announced holds.
LEMMA AnnouncedTaken ==
  ASSUME NEW flag \in BOOLEAN, NEW field \in {"string", "bytes"},
         NEW v \in Fits(Announced(flag, field))
  PROVE  /\ Announced(flag, field) \in Field
         /\ flag => v \in Fits(field)
         /\ ~flag => v = None
<1>1. CASE flag
  BY <1>1 DEF Announced, Fits, Field
<1>2. CASE ~flag
  BY <1>2 DEF Announced, Fits, Field
<1> QED BY <1>1, <1>2

\* What fits a Vec of bytes, and how it is written.
LEMMA DataFits ==
  /\ "bytes" \in Field
  /\ \A v \in Data : v \in Fits("bytes") /\ Written("bytes", v) = WriteBytes(v)
  /\ \A v \in Fits("bytes") : v \in Data
BY DEF Fits, Written, Field

\* None is none of the values that an Option may hold.
LEMMA NoneApart == None \notin Text /\ None \notin Data /\ None \notin Will
BY NoneAssumption, TextIsData

\* The fields of ConnectBody, from the left and from the right.
Regrouped(a, b, c, d, e, f, g) ==
  /\ (((((a \o b) \o c) \o d) \o e) \o f) \o g = a \o (b \o (c \o (d \o (e \o (f \o g)))))
  /\ a \o (b \o (c \o (d \o (e \o (f \o g))))) \in Bytes
  /\ d \o (e \o (f \o g)) \in Bytes

\* Seven parts of a body can be regrouped.
LEMMA Seven ==
  ASSUME NEW a \in Bytes, NEW b \in Bytes, NEW c \in Bytes, NEW d \in Bytes, NEW e \in Bytes,
         NEW f \in Bytes, NEW g \in Bytes
  PROVE  Regrouped(a, b, c, d, e, f, g)
<1> DEFINE ab == a \o b
           abc == ab \o c
           abcd == abc \o d
           abcde == abcd \o e
           fg == f \o g
           efg == e \o fg
           defg == d \o efg
           cdefg == c \o defg
           bcdefg == b \o cdefg
<1>1. \A x, y \in Bytes : x \o y \in Bytes
  BY CutBytes, Zenon
<1>3. fg \in Bytes
  BY <1>1, Zenon
<1>4. efg \in Bytes
  <2> HIDE DEF fg
  <2> QED BY <1>1, <1>3, Zenon
<1>5. defg \in Bytes
  <2> HIDE DEF efg
  <2> QED BY <1>1, <1>4, Zenon
<1>6. cdefg \in Bytes
  <2> HIDE DEF defg
  <2> QED BY <1>1, <1>5, Zenon
<1>7. bcdefg \in Bytes
  <2> HIDE DEF cdefg
  <2> QED BY <1>1, <1>6, Zenon
<1>8. a \o bcdefg \in Bytes
  <2> HIDE DEF bcdefg
  <2> QED BY <1>1, <1>7, Zenon
<1>9. ab \in Bytes
  BY <1>1, Zenon
<1>10. abc \in Bytes
  <2> HIDE DEF ab
  <2> QED BY <1>1, <1>9, Zenon
<1>11. abcd \in Bytes
  <2> HIDE DEF abc
  <2> QED BY <1>1, <1>10, Zenon
<1>12. abcde \in Bytes
  <2> HIDE DEF abcd
  <2> QED BY <1>1, <1>11, Zenon
<1>13. /\ ab = a \o b /\ abc = ab \o c /\ abcd = abc \o d /\ abcde = abcd \o e
       /\ fg = f \o g /\ efg = e \o fg /\ defg = d \o efg /\ cdefg = c \o defg
       /\ bcdefg = b \o cdefg
  BY Zenon
<1> HIDE DEF ab, abc, abcd, abcde, fg, efg, defg, cdefg, bcdefg
<1>14. (abcde \o f) \o g = abcde \o (f \o g)
  BY <1>12, Joined, ZenonT(60)
<1>15. (abcd \o e) \o fg = abcd \o (e \o fg)
  BY <1>3, <1>11, Joined, ZenonT(60)
<1>16. (abc \o d) \o efg = abc \o (d \o efg)
  BY <1>4, <1>10, Joined, ZenonT(60)
<1>17. (ab \o c) \o defg = ab \o (c \o defg)
  BY <1>5, <1>9, Joined, ZenonT(60)
<1>18. (a \o b) \o cdefg = a \o (b \o cdefg)
  <2>1. \A x \in Bytes : (a \o b) \o x = a \o (b \o x)
    BY Joined, Zenon
  <2> QED BY <1>6, <2>1, Zenon
<1>19. (abcde \o f) \o g = a \o bcdefg
  BY <1>13, <1>14, <1>15, <1>16, <1>17, <1>18
<1> QED BY <1>5, <1>8, <1>19, Zenon DEF Regrouped, ab, abc, abcd, abcde, fg, efg, defg, cdefg, bcdefg

\* Two bytes, one after the other.
LEMMA TwoBytes ==
  ASSUME NEW x \in Byte, NEW y \in Byte
  PROVE  <<x>> \o <<y>> = <<x, y>>
<1> DEFINE s == <<x>>
           t == <<y>>
<1>1. s \in Seq(Byte) /\ t \in Seq(Byte) /\ Len(s) = 1 /\ Len(t) = 1 /\ s[1] = x /\ t[1] = y
  OBVIOUS
<1> HIDE DEF s, t
<1>2. /\ s \o t \in Seq(Byte)
      /\ Len(s \o t) = Len(s) + Len(t)
      /\ \A i \in 1 .. Len(s) + Len(t) :
           (s \o t)[i] = IF i <= Len(s) THEN s[i] ELSE t[i - Len(s)]
  BY <1>1, ConcatProperties, Zenon
<1>3. Len(s \o t) = 2 /\ (s \o t)[1] = x /\ (s \o t)[2] = y
  BY <1>1, <1>2
<1>4. s \o t = <<(s \o t)[1], (s \o t)[2]>>
  BY <1>2, <1>3, Spelled, Zenon
<1> QED BY <1>3, <1>4, Zenon DEF s, t

-----------------------------------------------------------------------------
\* The name of the protocol is a string, its level a byte.
LEMMA NameIsText == Name \in Text /\ 4 \in Byte
<1>1. Name \in Seq(Ascii) /\ Len(Name) = 4
  BY DEF Name, Ascii
<1>2. 4 \in Word /\ 4 \in Byte
  BY WordRange, SMT DEF Byte
<1> QED BY <1>1, <1>2, Zenon DEF Text

\* The variable header of CONNECT: what is written, and what it is read from.
Header(body, v, t) ==
  /\ v[1] \in Text /\ v[2] \in Byte /\ v[3] \in Byte /\ v[4] \in Word /\ t \in Bytes
  /\ body = WriteBytes(v[1]) \o (<<v[2], v[3]>> \o (WriteU16(v[4]) \o t))

\* The variable header is four fields.
LEMMA HeadWritten ==
  ASSUME NEW body, NEW v, NEW t
  PROVE  Header(body, v, t) <=> FourWritten("string", "u8", "u8", "u16", body, v, t)
<1> DEFINE name == v[1]
           level == v[2]
           flags == v[3]
           keep == v[4]
           rest == WriteU16(keep) \o t
<1>1. /\ name \in Text <=> name \in Fits("string")
      /\ level \in Byte <=> level \in Fits("u8")
      /\ flags \in Byte <=> flags \in Fits("u8")
      /\ keep \in Word <=> keep \in Fits("u16")
  BY DEF Fits
<1> HIDE DEF name, level, flags, keep
<1>2. ASSUME name \in Text, level \in Byte, flags \in Byte, keep \in Word, t \in Bytes
      PROVE  Written("string", name) \o (Written("u8", level) \o (Written("u8", flags) \o
               (Written("u16", keep) \o t))) =
               WriteBytes(name) \o (<<level, flags>> \o (WriteU16(keep) \o t))
  <2>1. WriteU16(keep) \in Bytes
    BY <1>2, WordWritten, Zenon
  <2>2. rest \in Bytes
    BY <1>2, <2>1, CutBytes, Zenon
  <2>3. /\ Written("string", name) = WriteBytes(name) /\ Written("u8", level) = <<level>>
        /\ Written("u8", flags) = <<flags>> /\ Written("u16", keep) = WriteU16(keep)
        /\ <<level>> \in Bytes /\ <<flags>> \in Bytes
    BY <1>2, TextFits, ByteFits, WordFits, Zenon
  <2> HIDE DEF rest
  <2>4. <<level>> \o (<<flags>> \o rest) = (<<level>> \o <<flags>>) \o rest
    BY <2>2, <2>3, Joined
  <2>5. <<level>> \o <<flags>> = <<level, flags>>
    BY <1>2, TwoBytes, Zenon
  <2> QED BY <2>3, <2>4, <2>5, Zenon DEF rest
<1>3. Header(body, v, t) <=>
        /\ name \in Text /\ level \in Byte /\ flags \in Byte /\ keep \in Word /\ t \in Bytes
        /\ body = WriteBytes(name) \o (<<level, flags>> \o (WriteU16(keep) \o t))
  BY Zenon DEF Header, name, level, flags, keep
<1>4. FourWritten("string", "u8", "u8", "u16", body, v, t) <=>
        /\ name \in Fits("string") /\ level \in Fits("u8") /\ flags \in Fits("u8")
        /\ keep \in Fits("u16") /\ t \in Bytes
        /\ body = Written("string", name) \o (Written("u8", level) \o (Written("u8", flags) \o
                    (Written("u16", keep) \o t)))
  BY Zenon DEF FourWritten, name, level, flags, keep
<1> QED BY <1>1, <1>2, <1>3, <1>4, Zenon

\* The payload of CONNECT, by what the flags announce.
ConnectTail(flags) ==
  <<"string", Announced(Bit(flags, 4), "string"), Announced(Bit(flags, 4), "bytes"),
    Announced(Bit(flags, 128), "string"), Announced(Bit(flags, 64), "bytes")>>

\* The values of the fields of the payload, None where none is announced.
Payload(flags, v) ==
  /\ v[1] \in Text
  /\ Bit(flags, 4) => v[2] \in Text /\ v[3] \in Data
  /\ ~Bit(flags, 4) => v[2] = None /\ v[3] = None
  /\ Bit(flags, 128) => v[4] \in Text
  /\ ~Bit(flags, 128) => v[4] = None
  /\ Bit(flags, 64) => v[5] \in Data
  /\ ~Bit(flags, 64) => v[5] = None

\* What is written of a will.
WillBytes(flags, topic, message) ==
  IF Bit(flags, 4) THEN WriteBytes(topic) \o WriteBytes(message) ELSE <<>>

\* What is written of the payload.
PayloadBytes(flags, v) ==
  WriteBytes(v[1]) \o (WillBytes(flags, v[2], v[3]) \o (WriteOption(v[4]) \o WriteOption(v[5])))

\* The payload is five fields.
LEMMA PayloadWritten ==
  ASSUME NEW flags \in Byte, NEW s, NEW v
  PROVE  /\ Payload(flags, v) =>
              /\ WillBytes(flags, v[2], v[3]) \in Bytes
              /\ WriteOption(v[4]) \in Bytes /\ WriteOption(v[5]) \in Bytes
         /\ Payload(flags, v) /\ s = PayloadBytes(flags, v)
              <=> FiveWritten("string", Announced(Bit(flags, 4), "string"),
                              Announced(Bit(flags, 4), "bytes"), Announced(Bit(flags, 128), "string"),
                              Announced(Bit(flags, 64), "bytes"), s, v, <<>>)
<1> DEFINE F2 == Announced(Bit(flags, 4), "string")
           F3 == Announced(Bit(flags, 4), "bytes")
           F4 == Announced(Bit(flags, 128), "string")
           F5 == Announced(Bit(flags, 64), "bytes")
           id == v[1]
           topic == v[2]
           message == v[3]
           username == v[4]
           password == v[5]
           w2 == Written(F2, topic)
           w3 == Written(F3, message)
           w4 == Written(F4, username)
           w5 == Written(F5, password)
           w == WillBytes(flags, topic, message)
           u == WriteOption(username)
           x == WriteOption(password)
<1>1. Bit(flags, 4) \in BOOLEAN /\ Bit(flags, 128) \in BOOLEAN /\ Bit(flags, 64) \in BOOLEAN
  BY Zenon DEF Bit
<1>2. "string" \in {"string", "bytes"} /\ "bytes" \in {"string", "bytes"}
  OBVIOUS
<1>3. id \in Text <=> id \in Fits("string")
  BY DEF Fits
<1>4. (Bit(flags, 4) => topic \in Text) /\ (~Bit(flags, 4) => topic = None) <=> topic \in Fits(F2)
  BY <1>1, <1>2, TextFits, Announcing, AnnouncedTaken
<1>5. (Bit(flags, 4) => message \in Data) /\ (~Bit(flags, 4) => message = None)
        <=> message \in Fits(F3)
  BY <1>1, <1>2, DataFits, Announcing, AnnouncedTaken
<1>6. (Bit(flags, 128) => username \in Text) /\ (~Bit(flags, 128) => username = None)
        <=> username \in Fits(F4)
  BY <1>1, <1>2, TextFits, Announcing, AnnouncedTaken
<1>7. (Bit(flags, 64) => password \in Data) /\ (~Bit(flags, 64) => password = None)
        <=> password \in Fits(F5)
  BY <1>1, <1>2, DataFits, Announcing, AnnouncedTaken
<1>8. Payload(flags, v) <=> /\ id \in Fits("string") /\ topic \in Fits(F2) /\ message \in Fits(F3)
                            /\ username \in Fits(F4) /\ password \in Fits(F5)
  <2> HIDE DEF F2, F3, F4, F5
  <2> QED BY <1>3, <1>4, <1>5, <1>6, <1>7, Zenon DEF Payload
<1>9. ASSUME Payload(flags, v)
      PROVE  /\ w2 \in Bytes /\ w3 \in Bytes /\ w4 \in Bytes /\ w5 \in Bytes
             /\ Written("string", id) = WriteBytes(id)
             /\ w2 \o w3 = w /\ w4 = u /\ w5 = x
  <2>1. F2 \in Field /\ w2 = IF Bit(flags, 4) THEN WriteBytes(topic) ELSE <<>>
    BY <1>1, <1>2, <1>9, TextFits, Announcing DEF Payload
  <2>2. F3 \in Field /\ w3 = IF Bit(flags, 4) THEN WriteBytes(message) ELSE <<>>
    BY <1>1, <1>2, <1>9, DataFits, Announcing DEF Payload
  <2>3. F4 \in Field /\ w4 = IF Bit(flags, 128) THEN WriteBytes(username) ELSE <<>>
    BY <1>1, <1>2, <1>9, TextFits, Announcing DEF Payload
  <2>4. F5 \in Field /\ w5 = IF Bit(flags, 64) THEN WriteBytes(password) ELSE <<>>
    BY <1>1, <1>2, <1>9, DataFits, Announcing DEF Payload
  <2>5. w4 = u
    <3> HIDE DEF w4
    <3> QED BY <1>9, <2>3, NoneApart, Zenon DEF WriteOption, Payload
  <2>6. w5 = x
    <3> HIDE DEF w5
    <3> QED BY <1>9, <2>4, NoneApart, Zenon DEF WriteOption, Payload
  <2>7. <<>> \o <<>> = <<>>
    OBVIOUS
  <2>8. w2 \o w3 = w
    <3> HIDE DEF w2, w3
    <3> QED BY <2>1, <2>2, <2>7, Zenon DEF WillBytes
  <2>9. Written("string", id) = WriteBytes(id)
    BY <1>9, TextFits, Zenon DEF Payload
  <2>10. w2 \in Bytes /\ w3 \in Bytes /\ w4 \in Bytes /\ w5 \in Bytes
    <3>1. \A f \in Field : \A y \in Fits(f) : Written(f, y) \in Bytes
      BY Fitting, Zenon
    <3> HIDE DEF F2, F3, F4, F5, topic, message, username, password
    <3> QED BY <1>8, <1>9, <2>1, <2>2, <2>3, <2>4, <3>1, Zenon
  <2> QED BY <2>5, <2>6, <2>8, <2>9, <2>10, Zenon
<1>10. FiveWritten("string", F2, F3, F4, F5, s, v, <<>>) <=>
         /\ id \in Fits("string") /\ topic \in Fits(F2) /\ message \in Fits(F3)
         /\ username \in Fits(F4) /\ password \in Fits(F5) /\ <<>> \in Bytes
         /\ s = Written("string", id) \o (w2 \o (w3 \o (w4 \o (w5 \o <<>>))))
  BY Zenon DEF FiveWritten
<1>11. PayloadBytes(flags, v) = WriteBytes(id) \o (w \o (u \o x))
  BY Zenon DEF PayloadBytes
<1> HIDE DEF F2, F3, F4, F5, id, topic, message, username, password, w2, w3, w4, w5, w, u, x
<1>12. <<>> \in Bytes
  BY EmptySeq, Zenon DEF Bytes
<1>13. ASSUME Payload(flags, v)
       PROVE  /\ w \in Bytes /\ u \in Bytes /\ x \in Bytes
              /\ Written("string", id) \o (w2 \o (w3 \o (w4 \o (w5 \o <<>>)))) = PayloadBytes(flags, v)
  <2> DEFINE z == u \o x
  <2>1. u \in Bytes /\ x \in Bytes /\ w2 \in Bytes /\ w3 \in Bytes /\ w2 \o w3 = w
    BY <1>9, <1>13, Zenon
  <2>2. z \in Bytes /\ w2 \o w3 \in Bytes
    BY <2>1, CutBytes, Zenon
  <2> HIDE DEF z
  <2>3. (w2 \o w3) \o z = w2 \o (w3 \o z)
    <3>1. \A a \in Bytes : (w2 \o w3) \o a = w2 \o (w3 \o a)
      BY <2>1, Joined, Zenon
    <3> QED BY <2>2, <3>1, Zenon
  <2>4. x \o <<>> = x
    BY <2>1, ConcatEmptySeq, Zenon DEF Bytes
  <2>5. w4 = u /\ w5 = x /\ Written("string", id) = WriteBytes(id)
    BY <1>9, <1>13, Zenon
  <2> QED BY <1>11, <2>1, <2>2, <2>3, <2>4, <2>5, Zenon DEF z
<1>14. Payload(flags, v) /\ s = PayloadBytes(flags, v)
         <=> FiveWritten("string", F2, F3, F4, F5, s, v, <<>>)
  BY <1>8, <1>10, <1>12, <1>13, Zenon
<1> QED BY <1>13, <1>14, Zenon DEF F2, F3, F4, F5, w, u, x, topic, message, username, password

\* The fields of the payload are fields.
LEMMA AnnouncedField ==
  \A flags : /\ Announced(Bit(flags, 4), "string") \in Field
             /\ Announced(Bit(flags, 4), "bytes") \in Field
             /\ Announced(Bit(flags, 128), "string") \in Field
             /\ Announced(Bit(flags, 64), "bytes") \in Field
             /\ "string" \in Field
BY DEF Announced, Field

\* What is written of a payload is read.
LEMMA PayloadRead ==
  ASSUME NEW flags \in Byte, NEW v, Payload(flags, v)
  PROVE  Read(ConnectTail(flags), PayloadBytes(flags, v)) =
           Reader(<<v[1], v[2], v[3], v[4], v[5]>>, <<>>)
<1> DEFINE F2 == Announced(Bit(flags, 4), "string")
           F3 == Announced(Bit(flags, 4), "bytes")
           F4 == Announced(Bit(flags, 128), "string")
           F5 == Announced(Bit(flags, 64), "bytes")
           s == PayloadBytes(flags, v)
<1> HIDE DEF s
<1>1. FiveWritten("string", F2, F3, F4, F5, s, v, <<>>)
  BY PayloadWritten, Zenon DEF s
<1>2. /\ F2 \in Field /\ F3 \in Field /\ F4 \in Field /\ F5 \in Field /\ "string" \in Field
  BY AnnouncedField, Zenon
<1>3. ConnectTail(flags) = <<"string", F2, F3, F4, F5>>
  BY Zenon DEF ConnectTail
<1> HIDE DEF F2, F3, F4, F5
<1>4. Read(<<"string", F2, F3, F4, F5>>, s) = Reader(<<v[1], v[2], v[3], v[4], v[5]>>, <<>>)
  BY <1>1, <1>2, FiveRead
<1> QED BY <1>3, <1>4, Zenon DEF s

\* What a payload is read from is what is written of it.
LEMMA PayloadTaken ==
  ASSUME NEW flags \in Byte, NEW s \in Bytes,
         Read(ConnectTail(flags), s).ok, Read(ConnectTail(flags), s).rest = <<>>
  PROVE  \E v : /\ Payload(flags, v)
                /\ s = PayloadBytes(flags, v)
                /\ Read(ConnectTail(flags), s) = Reader(<<v[1], v[2], v[3], v[4], v[5]>>, <<>>)
<1> DEFINE F2 == Announced(Bit(flags, 4), "string")
           F3 == Announced(Bit(flags, 4), "bytes")
           F4 == Announced(Bit(flags, 128), "string")
           F5 == Announced(Bit(flags, 64), "bytes")
<1>1. F2 \in Field /\ F3 \in Field /\ F4 \in Field /\ F5 \in Field /\ "string" \in Field
  BY AnnouncedField, Zenon
<1>2. ConnectTail(flags) = <<"string", F2, F3, F4, F5>>
  BY Zenon DEF ConnectTail
<1> HIDE DEF F2, F3, F4, F5
<1>3. PICK v, t : /\ FiveWritten("string", F2, F3, F4, F5, s, v, t)
                  /\ Read(ConnectTail(flags), s) = Reader(<<v[1], v[2], v[3], v[4], v[5]>>, t)
  <2>1. Read(<<"string", F2, F3, F4, F5>>, s).ok
    BY <1>2, Zenon
  <2>2. PICK v, t : FiveFields("string", F2, F3, F4, F5, s, v, t)
    BY <1>1, <2>1, FiveTaken
  <2> QED BY <1>2, <2>2, Zenon DEF FiveFields
<1>4. t = <<>>
  BY <1>3 DEF Reader
<1>5. Payload(flags, v) /\ s = PayloadBytes(flags, v)
  BY <1>3, <1>4, PayloadWritten, Zenon DEF F2, F3, F4, F5
<1> QED BY <1>3, <1>4, <1>5, Zenon

-----------------------------------------------------------------------------
\* The CONNECT packets.
Connects == [type : {"connect"}, clean_session : BOOLEAN, keep_alive : Word, client_id : Text,
             will : Will \cup {None}, username : Text \cup {None}, password : Data \cup {None}]

\* The fields of a CONNECT.
LEMMA ConnectFields ==
  ASSUME NEW p \in AnyPacket, p.type = "connect"
  PROVE  /\ p \in Connects
         /\ p.clean_session \in BOOLEAN /\ p.keep_alive \in Word /\ p.client_id \in Text
         /\ p.will \in Will \cup {None} /\ p.username \in Text \cup {None}
         /\ p.password \in Data \cup {None}
         /\ p.will # None => /\ p.will.topic \in Text /\ p.will.message \in Data
                             /\ p.will.qos \in Qos /\ p.will.retain \in BOOLEAN
<1>1. p \in Connects
  BY PacketFields, Zenon DEF Connects
<1>2. /\ p.clean_session \in BOOLEAN /\ p.keep_alive \in Word /\ p.client_id \in Text
      /\ p.will \in Will \cup {None} /\ p.username \in Text \cup {None}
      /\ p.password \in Data \cup {None}
  BY <1>1 DEF Connects
<1>3. \A w \in Will : /\ w.topic \in Text /\ w.message \in Data
                      /\ w.qos \in Qos /\ w.retain \in BOOLEAN
  BY DEF Will
<1> QED BY <1>1, <1>2, <1>3, Zenon

\* What the flags say of a will, also if there is none.
WillQos(p) == IF p.will = None THEN 0 ELSE p.will.qos
WillRetain(p) == IF p.will = None THEN FALSE ELSE p.will.retain

\* What the flags of a CONNECT say.
LEMMA ConnectFlagsSay ==
  ASSUME NEW p \in AnyPacket, p.type = "connect"
  PROVE  LET flags == ConnectFlags(p)
         IN  /\ flags \in Byte
             /\ ~Bit(flags, 1)
             /\ Bit(flags, 2) <=> p.clean_session
             /\ Bit(flags, 4) <=> p.will # None
             /\ (flags \div 8) % 4 = WillQos(p)
             /\ Bit(flags, 32) <=> WillRetain(p)
             /\ Bit(flags, 64) <=> p.password # None
             /\ Bit(flags, 128) <=> p.username # None
<1> DEFINE clean == Flag(p.clean_session)
           will == Flag(p.will # None)
           qos == WillQos(p)
           retain == Flag(WillRetain(p))
           password == Flag(p.password # None)
           username == Flag(p.username # None)
           flags == ConnectFlags(p)
<1>1. /\ clean \in 0 .. 1 /\ will \in 0 .. 1 /\ retain \in 0 .. 1
      /\ password \in 0 .. 1 /\ username \in 0 .. 1
  BY FlagIsBit, Zenon
<1>2. qos \in Qos
  <2>1. 0 \in Qos
    BY DEF Qos
  <2> QED BY <2>1, ConnectFields, Zenon DEF WillQos
<1>3. WillRetain(p) \in BOOLEAN
  BY ConnectFields, Zenon DEF WillRetain
<1>4. flags = 2 * clean + (4 * will + 8 * qos + 32 * retain) + 64 * password + 128 * username
  <2>1. CASE p.will = None
    <3>1. qos = 0 /\ retain = 0 /\ will = 0
      BY <2>1 DEF WillQos, WillRetain, Flag
    <3>2. flags = 2 * clean + 0 + 64 * password + 128 * username
      BY <2>1, Zenon DEF ConnectFlags
    <3> HIDE DEF clean, will, qos, retain, password, username, flags
    <3> QED BY <1>1, <3>1, <3>2
  <2>2. CASE p.will # None
    <3>1. qos = p.will.qos /\ retain = Flag(p.will.retain) /\ will = 1
      BY <2>2 DEF WillQos, WillRetain, Flag
    <3>2. flags =
            2 * clean + (4 + 8 * p.will.qos + 32 * Flag(p.will.retain)) + 64 * password + 128 * username
      BY <2>2, Zenon DEF ConnectFlags
    <3> HIDE DEF clean, will, qos, retain, password, username, flags
    <3>3. 4 * will = 4
      BY <3>1
    <3> QED BY <3>1, <3>2, <3>3, Zenon
  <2> QED BY <2>1, <2>2, Zenon
<1>5. /\ clean = 1 <=> p.clean_session
      /\ will = 1 <=> p.will # None
      /\ retain = 1 <=> WillRetain(p)
      /\ password = 1 <=> p.password # None
      /\ username = 1 <=> p.username # None
  <2>1. p.clean_session \in BOOLEAN
    BY ConnectFields, Zenon
  <2> QED BY <1>3, <2>1, FlagIsBit, Zenon
<1> HIDE DEF clean, will, qos, retain, password, username, flags
<1>6. Says(flags, clean, will, qos, retain, password, username)
  BY <1>1, <1>2, <1>4, PutTogether
<1> QED BY <1>5, <1>6, Zenon DEF Says, flags, qos

\* CONNECT: what is written is read again.
LEMMA ConnectRoundTrip ==
  ASSUME NEW p \in AnyPacket, p.type = "connect", Encodable(p)
  PROVE  RoundTrip(p)
<1> DEFINE flags == ConnectFlags(p)
           topic == IF p.will = None THEN None ELSE p.will.topic
           message == IF p.will = None THEN None ELSE p.will.message
           v == <<p.client_id, topic, message, p.username, p.password>>
           h == <<Name, 4, flags, p.keep_alive>>
           body == ConnectBody(p)
           will == WillBytes(flags, topic, message)
           fields == <<"string", "u8", "u8", "u16">>
<1>1. /\ flags \in Byte /\ ~Bit(flags, 1)
      /\ Bit(flags, 2) <=> p.clean_session
      /\ Bit(flags, 4) <=> p.will # None
      /\ (flags \div 8) % 4 = WillQos(p)
      /\ Bit(flags, 32) <=> WillRetain(p)
      /\ Bit(flags, 64) <=> p.password # None
      /\ Bit(flags, 128) <=> p.username # None
  BY ConnectFlagsSay, Zenon
<1> HIDE DEF flags
<1>2. v[1] = p.client_id /\ v[2] = topic /\ v[3] = message /\ v[4] = p.username /\ v[5] = p.password
  BY Zenon
<1> HIDE DEF v
<1>3. Payload(flags, v)
  <2>1. p.will # None => topic \in Text /\ message \in Data
    BY ConnectFields, Zenon
  <2>2. p.will = None => topic = None /\ message = None
    BY Zenon
  <2> HIDE DEF topic, message
  <2> QED BY <1>1, <1>2, <2>1, <2>2, ConnectFields, ZenonT(60) DEF Payload
<1>4. will = IF p.will = None THEN <<>> ELSE WriteBytes(p.will.topic) \o WriteBytes(p.will.message)
  BY <1>1, Zenon DEF WillBytes
<1>5. will \in Bytes /\ WriteOption(p.username) \in Bytes /\ WriteOption(p.password) \in Bytes
  <2> HIDE DEF topic, message
  <2> QED BY <1>1, <1>2, <1>3, PayloadWritten, Zenon
<1>6. /\ WriteBytes(Name) \in Bytes /\ <<4, flags>> \in Bytes /\ WriteU16(p.keep_alive) \in Bytes
      /\ WriteBytes(p.client_id) \in Bytes
  <2>1. <<4, flags>> \in Bytes
    BY <1>1, NameIsText DEF Bytes
  <2> QED BY <2>1, ConnectFields, NameIsText, TextWritten, WordWritten, Zenon
<1>7. body = (((((WriteBytes(Name) \o <<4, flags>>) \o WriteU16(p.keep_alive))
                \o WriteBytes(p.client_id)) \o will)
                \o WriteOption(p.username)) \o WriteOption(p.password)
  <2> HIDE DEF will
  <2> QED BY <1>4, Zenon DEF ConnectBody, flags, Name
<1> DEFINE payload == PayloadBytes(flags, v)
<1>8. payload = WriteBytes(p.client_id) \o (will
      \o (WriteOption(p.username) \o WriteOption(p.password)))
  BY <1>2, Zenon DEF PayloadBytes
<1> HIDE DEF payload, will, body
<1>9. /\ body = WriteBytes(Name) \o (<<4, flags>> \o (WriteU16(p.keep_alive) \o payload))
      /\ body \in Bytes /\ payload \in Bytes
  <2> DEFINE a == WriteBytes(Name)
             b == <<4, flags>>
             c == WriteU16(p.keep_alive)
             d == WriteBytes(p.client_id)
             f == WriteOption(p.username)
             g == WriteOption(p.password)
  <2> HIDE DEF a, b, c, d, f, g
  <2>1. /\ a \in Bytes /\ b \in Bytes /\ c \in Bytes /\ d \in Bytes
        /\ will \in Bytes /\ f \in Bytes /\ g \in Bytes
    BY <1>5, <1>6, Zenon DEF a, b, c, d, f, g
  <2>2. body = (((((a \o b) \o c) \o d) \o will) \o f) \o g /\ payload = d \o (will \o (f \o g))
    BY <1>7, <1>8, Zenon DEF a, b, c, d, f, g
  <2>3. Regrouped(a, b, c, d, will, f, g)
    BY <2>1, Seven
  <2> QED BY <2>2, <2>3, Zenon DEF Regrouped, a, b, c
<1>10. h[1] = Name /\ h[2] = 4 /\ h[3] = flags /\ h[4] = p.keep_alive
  BY Zenon
<1> HIDE DEF h
<1>11. Header(body, h, payload)
  BY <1>1, <1>9, <1>10, ConnectFields, NameIsText, Zenon DEF Header
<1>12. "string" \in Field /\ "u8" \in Field /\ "u16" \in Field
  BY DEF Field
<1>13. Read(fields, body) = Reader(<<Name, 4, flags, p.keep_alive>>, payload)
  <2>1. FourWritten("string", "u8", "u8", "u16", body, h, payload)
    BY <1>11, HeadWritten, Zenon
  <2>2. Read(fields, body) = Reader(<<h[1], h[2], h[3], h[4]>>, payload)
    BY <1>12, <2>1, FourRead
  <2> QED BY <1>10, <2>2, Zenon
<1>14. Read(ConnectTail(flags), payload) =
         Reader(<<p.client_id, topic, message, p.username, p.password>>, <<>>)
  <2> HIDE DEF topic, message
  <2>1. Read(ConnectTail(flags), PayloadBytes(flags, v)) =
          Reader(<<v[1], v[2], v[3], v[4], v[5]>>, <<>>)
    BY <1>1, <1>3, PayloadRead, Zenon
  <2> QED BY <1>2, <2>1, Zenon DEF payload
<1> DEFINE head == Read(<<"string", "u8", "u8", "u16">>, body)
           said == head.values[3]
           tail == Read(ConnectTail(said), head.rest)
<1>15. /\ head.ok /\ head.values[1] = Name /\ head.values[2] = 4 /\ said = flags
       /\ head.values[4] = p.keep_alive /\ head.rest = payload
  BY <1>13 DEF Reader
<1> HIDE DEF head, said
<1>16. /\ tail.ok /\ tail.values[1] = p.client_id /\ tail.values[2] = topic
       /\ tail.values[3] = message /\ tail.values[4] = p.username
       /\ tail.values[5] = p.password /\ tail.rest = <<>>
  <2>1. tail = Reader(<<p.client_id, topic, message, p.username, p.password>>, <<>>)
    BY <1>14, <1>15, Zenon
  <2> HIDE DEF topic, message, tail
  <2> QED BY <2>1 DEF Reader
<1> HIDE DEF topic, message, tail
<1> DEFINE q == [type |-> "connect", clean_session |-> Bit(flags, 2),
                 keep_alive |-> p.keep_alive, client_id |-> p.client_id,
                 will |-> IF Bit(flags, 4)
                            THEN [topic |-> topic, message |-> message,
                                  qos |-> (flags \div 8) % 4, retain |-> Bit(flags, 32)]
                            ELSE None,
                 username |-> p.username, password |-> p.password]
<1>17. DecodeConnect(body) = q
  <2>1. Bit(flags, 4) \/ ((flags \div 8) % 4 = 0 /\ ~Bit(flags, 32))
    BY <1>1, Zenon DEF WillQos, WillRetain
  <2>2. (flags \div 8) % 4 \in Qos
    <3>1. 0 \in Qos
      BY DEF Qos
    <3> QED BY <1>1, <3>1, ConnectFields, Zenon DEF WillQos
  <2>3. Bit(flags, 64) => Bit(flags, 128)
    BY <1>1, Zenon DEF Encodable
  <2> DEFINE answer == [type |-> "connect", clean_session |-> Bit(said, 2),
                        keep_alive |-> head.values[4], client_id |-> tail.values[1],
                        will |-> IF Bit(said, 4)
                                   THEN [topic |-> tail.values[2], message |-> tail.values[3],
                                         qos |-> (said \div 8) % 4, retain |-> Bit(said, 32)]
                                   ELSE None,
                        username |-> tail.values[4], password |-> tail.values[5]]
  <2>4. DecodeConnect(body) =
          IF /\ head.ok
             /\ head.values[1] = <<77, 81, 84, 84>> /\ head.values[2] = 4
             /\ ~Bit(said, 1)
             /\ Bit(said, 4) \/ ((said \div 8) % 4 = 0 /\ ~Bit(said, 32))
             /\ (said \div 8) % 4 \in Qos
             /\ Bit(said, 64) => Bit(said, 128)
             /\ tail.ok /\ tail.rest = <<>>
            THEN answer ELSE Malformed
    BY Zenon DEF DecodeConnect, head, said, tail, ConnectTail
  <2>5. answer = q
    BY <1>15, <1>16, Zenon
  <2> HIDE DEF answer, q
  <2> QED BY <1>1, <1>15, <1>16, <2>1, <2>2, <2>3, <2>4, <2>5, Zenon DEF Name
<1>18. q = p
  <2>1. Bit(flags, 2) = p.clean_session
    <3>1. p.clean_session \in BOOLEAN /\ Bit(flags, 2) \in BOOLEAN
      BY ConnectFields, Zenon DEF Bit
    <3> QED BY <1>1, <3>1, Zenon
  <2> USE DEF topic, message
  <2> DEFINE w == IF Bit(flags, 4)
                    THEN [topic |-> topic, message |-> message,
                          qos |-> (flags \div 8) % 4, retain |-> Bit(flags, 32)]
                    ELSE None
  <2>2. w = p.will
    <3>1. CASE p.will = None
      BY <1>1, <3>1, Zenon
    <3>2. CASE p.will # None
      <4>1. p.will \in Will
        BY <3>2, ConnectFields, Zenon
      <4>2. p.will = [topic |-> p.will.topic, message |-> p.will.message,
                      qos |-> p.will.qos, retain |-> p.will.retain]
        BY <4>1 DEF Will
      <4>3. topic = p.will.topic /\ message = p.will.message /\ (flags \div 8) % 4 = p.will.qos
        BY <1>1, <3>2, Zenon DEF WillQos
      <4>4. Bit(flags, 32) = p.will.retain
        <5>1. p.will.retain \in BOOLEAN /\ Bit(flags, 32) \in BOOLEAN
          BY <3>2, ConnectFields, Zenon DEF Bit
        <5>2. Bit(flags, 32) <=> p.will.retain
          BY <1>1, <3>2, Zenon DEF WillRetain
        <5> QED BY <5>1, <5>2, Zenon
      <4> QED BY <1>1, <3>2, <4>2, <4>3, <4>4, Zenon
    <3> QED BY <3>1, <3>2, Zenon
  <2>3. p = [type |-> "connect", clean_session |-> p.clean_session, keep_alive |-> p.keep_alive,
             client_id |-> p.client_id, will |-> p.will, username |-> p.username,
             password |-> p.password]
    BY ConnectFields DEF Connects
  <2> QED BY <2>1, <2>2, <2>3, Zenon
<1>19. Body(p) = body
  BY BodyOf DEF body
<1>20. Flags(p) \in 0 .. 15 /\ FlagsAccepted(p.type, Flags(p))
  BY DEF Flags, FlagsAccepted
<1>21. DecodeBody(p.type, Flags(p), body) = DecodeConnect(body)
  BY DecodeBodyOf
<1> QED BY <1>9, <1>17, <1>18, <1>19, <1>20, <1>21, Zenon DEF RoundTrip

-----------------------------------------------------------------------------
\* CONNECT: what is accepted is what is written.
LEMMA ConnectFaithful ==
  ASSUME NEW flags \in 0 .. 15, FlagsAccepted("connect", flags), NEW body \in Bytes
  PROVE  Faithful("connect", flags, body)
<1> DEFINE p == DecodeBody("connect", flags, body)
           head == Read(<<"string", "u8", "u8", "u16">>, body)
           said == head.values[3]
           tail == Read(ConnectTail(said), head.rest)
           has_will == Bit(said, 4)
           will == IF has_will
                     THEN [topic |-> tail.values[2], message |-> tail.values[3],
                           qos |-> (said \div 8) % 4, retain |-> Bit(said, 32)]
                     ELSE None
           answer == [type |-> "connect", clean_session |-> Bit(said, 2),
                      keep_alive |-> head.values[4], client_id |-> tail.values[1],
                      will |-> will, username |-> tail.values[4], password |-> tail.values[5]]
<1>1. p = DecodeConnect(body)
  BY DecodeBodyOf
<1>2. SUFFICES ASSUME p # Malformed
               PROVE  /\ p.type = "connect" /\ p \in AnyPacket /\ Flags(p) = flags /\ Body(p) = body
                      /\ Len(body) <= MaxRemainingLen => Encodable(p)
  BY Zenon DEF Faithful
<1>3. DecodeConnect(body) =
        IF /\ head.ok
           /\ head.values[1] = Name /\ head.values[2] = 4
           /\ ~Bit(said, 1)
           /\ has_will \/ ((said \div 8) % 4 = 0 /\ ~Bit(said, 32))
           /\ (said \div 8) % 4 \in Qos
           /\ Bit(said, 64) => Bit(said, 128)
           /\ tail.ok /\ tail.rest = <<>>
          THEN answer ELSE Malformed
  BY Zenon DEF DecodeConnect, ConnectTail, Name
<1> HIDE DEF p, answer, tail, said, head
<1>4. /\ head.ok
      /\ head.values[1] = Name /\ head.values[2] = 4
      /\ ~Bit(said, 1)
      /\ has_will \/ ((said \div 8) % 4 = 0 /\ ~Bit(said, 32))
      /\ (said \div 8) % 4 \in Qos
      /\ Bit(said, 64) => Bit(said, 128)
      /\ tail.ok /\ tail.rest = <<>>
      /\ p = answer
  BY <1>1, <1>2, <1>3, Zenon
<1>5. "string" \in Field /\ "u8" \in Field /\ "u16" \in Field
  BY DEF Field
<1>6. PICK h, t : FourFields("string", "u8", "u8", "u16", body, h, t)
  <2>1. Read(<<"string", "u8", "u8", "u16">>, body).ok
    BY <1>4, Zenon DEF head
  <2> QED BY <1>5, <2>1, FourTaken
<1>7. Header(body, h, t) /\ head = Reader(<<h[1], h[2], h[3], h[4]>>, t)
  BY <1>6, HeadWritten, Zenon DEF FourFields, head
<1>8. /\ head.values[1] = h[1] /\ head.values[2] = h[2] /\ said = h[3] /\ head.values[4] = h[4]
      /\ head.rest = t
  BY <1>7 DEF Reader, said
<1>9. /\ said \in Byte /\ h[4] \in Word /\ t \in Bytes
      /\ body = WriteBytes(Name) \o (<<4, said>> \o (WriteU16(h[4]) \o t))
  <2>1. h[1] = Name /\ h[2] = 4 /\ h[3] = said
    BY <1>4, <1>8, Zenon
  <2>2. /\ h[3] \in Byte /\ h[4] \in Word /\ t \in Bytes
        /\ body = WriteBytes(h[1]) \o (<<h[2], h[3]>> \o (WriteU16(h[4]) \o t))
    BY <1>7, Zenon DEF Header
  <2> QED BY <2>1, <2>2, Zenon
<1>10. PICK v : /\ Payload(said, v)
                /\ t = PayloadBytes(said, v)
                /\ tail = Reader(<<v[1], v[2], v[3], v[4], v[5]>>, <<>>)
  <2>1. Read(ConnectTail(said), t).ok /\ Read(ConnectTail(said), t).rest = <<>>
    BY <1>4, <1>8, Zenon DEF tail
  <2> QED BY <1>8, <1>9, <2>1, PayloadTaken, Zenon DEF tail
<1>11. /\ tail.values[1] = v[1] /\ tail.values[2] = v[2] /\ tail.values[3] = v[3]
       /\ tail.values[4] = v[4] /\ tail.values[5] = v[5]
  BY <1>10 DEF Reader
<1>12. /\ p.type = "connect" /\ p.clean_session = Bit(said, 2) /\ p.keep_alive = h[4]
       /\ p.client_id = v[1] /\ p.will = will /\ p.username = v[4] /\ p.password = v[5]
  <2> HIDE DEF will
  <2>1. /\ answer.type = "connect" /\ answer.clean_session = Bit(said, 2)
        /\ answer.keep_alive = head.values[4] /\ answer.client_id = tail.values[1]
        /\ answer.will = will /\ answer.username = tail.values[4]
        /\ answer.password = tail.values[5]
    BY Zenon DEF answer
  <2> QED BY <1>4, <1>8, <1>11, <2>1, ZenonT(60)
<1>13. has_will => /\ p.will # None
                   /\ p.will.topic = v[2] /\ p.will.message = v[3]
                   /\ p.will.qos = (said \div 8) % 4 /\ p.will.retain = Bit(said, 32)
  <2> SUFFICES ASSUME has_will
               PROVE  /\ p.will # None
                      /\ p.will.topic = v[2] /\ p.will.message = v[3]
                      /\ p.will.qos = (said \div 8) % 4 /\ p.will.retain = Bit(said, 32)
    BY Zenon
  <2>1. p.will = [topic |-> v[2], message |-> v[3],
                  qos |-> (said \div 8) % 4, retain |-> Bit(said, 32)]
    BY <1>11, <1>12, Zenon
  <2>2. v[2] \in Text /\ v[3] \in Data /\ (said \div 8) % 4 \in Qos /\ Bit(said, 32) \in BOOLEAN
    BY <1>4, <1>10, Zenon DEF Payload, Bit
  <2>3. p.will \in Will
    BY <2>1, <2>2 DEF Will
  <2>4. p.will # None
    BY <2>3, NoneApart, Zenon
  <2>5. /\ p.will.topic = v[2] /\ p.will.message = v[3]
        /\ p.will.qos = (said \div 8) % 4 /\ p.will.retain = Bit(said, 32)
    BY <2>1
  <2> QED BY <2>4, <2>5, Zenon
<1>14. ~has_will => p.will = None /\ (said \div 8) % 4 = 0 /\ ~Bit(said, 32)
  BY <1>4, <1>12, Zenon
<1>15. /\ p.username # None <=> Bit(said, 128)
       /\ p.password # None <=> Bit(said, 64)
  BY <1>10, <1>12, NoneApart, ZenonT(60) DEF Payload
<1>25. p \in AnyPacket
  <2>1. p.will \in Will \cup {None}
    <3>1. CASE has_will
      <4>1. p.will = [topic |-> v[2], message |-> v[3],
                      qos |-> (said \div 8) % 4, retain |-> Bit(said, 32)]
        BY <1>11, <1>12, <3>1, Zenon
      <4>2. v[2] \in Text /\ v[3] \in Data /\ (said \div 8) % 4 \in Qos /\ Bit(said, 32) \in BOOLEAN
        BY <1>4, <1>10, <3>1, Zenon DEF Payload, Bit
      <4>3. p.will \in Will
        BY <4>1, <4>2 DEF Will
      <4> QED BY <4>3, Zenon
    <3>2. CASE ~has_will
      BY <1>14, <3>2, Zenon
    <3> QED BY <3>1, <3>2, Zenon
  <2>2. /\ v[1] \in Text /\ v[4] \in Text \cup {None} /\ v[5] \in Data \cup {None}
        /\ Bit(said, 2) \in BOOLEAN /\ h[4] \in Word
    BY <1>9, <1>10, Zenon DEF Payload, Bit
  <2> HIDE DEF will
  <2>3. answer.will = will
    BY Zenon DEF answer
  <2>4. /\ answer \in [type : {"connect"}, clean_session : BOOLEAN, keep_alive : Word,
                       client_id : Text, will : Will \cup {None}, username : Text \cup {None},
                       password : Data \cup {None}]
    <3>1. answer = [type |-> "connect", clean_session |-> Bit(said, 2), keep_alive |-> h[4],
                    client_id |-> v[1], will |-> will, username |-> v[4], password |-> v[5]]
      BY <1>8, <1>11, Zenon DEF answer
    <3>2. will \in Will \cup {None}
      BY <1>12, <2>1, Zenon
    <3> HIDE DEF has_will
    <3> DEFINE a == v[1]
               b == v[4]
               c == v[5]
               d == h[4]
               e == Bit(said, 2)
    <3>3. /\ a \in Text /\ b \in Text \cup {None} /\ c \in Data \cup {None}
          /\ d \in Word /\ e \in BOOLEAN
      BY <2>2, Zenon
    <3>4. answer = [type |-> "connect", clean_session |-> e, keep_alive |-> d,
                    client_id |-> a, will |-> will, username |-> b, password |-> c]
      BY <3>1, Zenon
    <3> HIDE DEF a, b, c, d, e
    <3> QED BY <3>2, <3>3, <3>4
  <2> QED BY <1>4, <2>4, Zenon DEF AnyPacket
<1> HIDE DEF will
<1>16. ConnectFlags(p) = said
  <2>1. said = 2 * Flag(Bit(said, 2))
                 + (4 * Flag(Bit(said, 4)) + 8 * ((said \div 8) % 4) + 32 * Flag(Bit(said, 32)))
                 + 64 * Flag(Bit(said, 64)) + 128 * Flag(Bit(said, 128))
    BY <1>4, <1>9, TakenApart, Zenon
  <2>2. /\ Flag(p.username # None) = Flag(Bit(said, 128))
        /\ Flag(p.password # None) = Flag(Bit(said, 64))
    BY <1>15, Zenon DEF Flag
  <2>3. (IF p.will = None THEN 0 ELSE 4 + 8 * p.will.qos + 32 * Flag(p.will.retain)) =
          4 * Flag(Bit(said, 4)) + 8 * ((said \div 8) % 4) + 32 * Flag(Bit(said, 32))
    <3>1. CASE has_will
      <4>1. Flag(Bit(said, 4)) = 1 /\ 4 * 1 = 4
        BY <3>1 DEF Flag
      <4> QED BY <1>13, <3>1, <4>1, Zenon
    <3>2. CASE ~has_will
      <4>1. Flag(Bit(said, 4)) = 0 /\ Flag(Bit(said, 32)) = 0
        BY <1>14, <3>2 DEF Flag
      <4>2. 4 * 0 + 8 * 0 + 32 * 0 = 0
        OBVIOUS
      <4> QED BY <1>14, <3>2, <4>1, <4>2, Zenon
    <3> QED BY <3>1, <3>2, Zenon
  <2> QED BY <1>12, <2>1, <2>2, <2>3, Zenon DEF ConnectFlags
<1> DEFINE a == WriteBytes(Name)
           b == <<4, said>>
           c == WriteU16(h[4])
           d == WriteBytes(v[1])
           e == WillBytes(said, v[2], v[3])
           f == WriteOption(v[4])
           g == WriteOption(v[5])
<1>17. e = IF p.will = None THEN <<>> ELSE WriteBytes(p.will.topic) \o WriteBytes(p.will.message)
  BY <1>13, <1>14, Zenon DEF WillBytes
<1>18. ConnectBody(p) = (((((a \o b) \o c) \o d) \o e) \o f) \o g
  <2> HIDE DEF e
  <2> QED BY <1>12, <1>16, <1>17, Zenon DEF ConnectBody, Name
<1>19. /\ a \in Bytes /\ b \in Bytes /\ c \in Bytes /\ d \in Bytes
       /\ e \in Bytes /\ f \in Bytes /\ g \in Bytes
  <2>1. b \in Bytes
    BY <1>9, NameIsText DEF Bytes
  <2>2. e \in Bytes /\ f \in Bytes /\ g \in Bytes
    BY <1>9, <1>10, PayloadWritten, Zenon
  <2>3. v[1] \in Text
    BY <1>10, Zenon DEF Payload
  <2>4. a \in Bytes /\ c \in Bytes /\ d \in Bytes
    BY <1>9, <2>3, NameIsText, TextWritten, WordWritten, Zenon
  <2> QED BY <2>1, <2>2, <2>4, Zenon
<1>20. body = a \o (b \o (c \o (d \o (e \o (f \o g)))))
  <2>1. t = d \o (e \o (f \o g))
    BY <1>10, Zenon DEF PayloadBytes
  <2> HIDE DEF a, b, c, d, e, f, g
  <2>2. body = a \o (b \o (c \o t))
    BY <1>9, Zenon DEF a, b, c
  <2> QED BY <2>1, <2>2, Zenon
<1> HIDE DEF a, b, c, d, e, f, g
<1>21. ConnectBody(p) = body
  <2>1. Regrouped(a, b, c, d, e, f, g)
    BY <1>19, Seven
  <2> QED BY <1>18, <1>20, <2>1, Zenon DEF Regrouped
<1>22. Body(p) = body
  <2>1. Body(p) = ConnectBody(p)
    BY <1>12, BodyOf
  <2> QED BY <1>21, <2>1, Zenon
<1>23. Flags(p) = flags
  BY <1>12 DEF Flags, FlagsAccepted
<1>24. Len(body) <= MaxRemainingLen => Encodable(p)
  <2>1. p.password # None => p.username # None
    BY <1>4, <1>15, Zenon
  <2> QED BY <1>12, <1>22, <2>1 DEF Encodable, Acks
<1> QED BY <1>12, <1>22, <1>23, <1>24, <1>25, Zenon

-----------------------------------------------------------------------------
(***************************************************************************)
(* encode_packet and decode_packet.                                        *)
(***************************************************************************)
\* Of every packet that encode_packet accepts.
LEMMA EveryRoundTrip ==
  ASSUME NEW p \in AnyPacket, Encodable(p)
  PROVE  RoundTrip(p)
<1>1. CASE p.type = "connect"
  BY <1>1, ConnectRoundTrip, Zenon
<1>2. CASE p.type = "connack"
  BY <1>2, ConnAckRoundTrip, Zenon
<1>3. CASE p.type = "publish"
  BY <1>3, PublishRoundTrip, Zenon
<1>4. CASE p.type \in Acks
  BY <1>4, AckRoundTrip, Zenon
<1>5. CASE p.type = "subscribe"
  BY <1>5, SubscribeRoundTrip, Zenon
<1>6. CASE p.type = "suback"
  BY <1>6, SubAckRoundTrip, Zenon
<1>7. CASE p.type = "unsubscribe"
  BY <1>7, UnsubscribeRoundTrip, Zenon
<1>8. CASE p.type \in Bare
  BY <1>8, BareRoundTrip, Zenon
<1>9. \/ p.type \in {"connect", "connack", "publish", "subscribe", "suback", "unsubscribe"}
      \/ p.type \in Acks
      \/ p.type \in Bare
  BY PacketFields
<1> QED BY <1>1, <1>2, <1>3, <1>4, <1>5, <1>6, <1>7, <1>8, <1>9

\* The types, by name.
AnyType == {"connect", "connack", "publish", "subscribe", "suback", "unsubscribe"} \cup Acks \cup Bare

\* Of every body that decode_packet accepts.
LEMMA EveryFaithful ==
  ASSUME NEW type \in AnyType, NEW flags \in 0 .. 15, FlagsAccepted(type, flags), NEW body \in Bytes
  PROVE  Faithful(type, flags, body)
<1>1. CASE type = "connect"
  <2>1. FlagsAccepted("connect", flags)
    BY <1>1, Zenon
  <2> QED BY <1>1, <2>1, ConnectFaithful, Zenon
<1>2. CASE type = "connack"
  <2>1. FlagsAccepted("connack", flags)
    BY <1>2, Zenon
  <2> QED BY <1>2, <2>1, ConnAckFaithful, Zenon
<1>3. CASE type = "publish"
  BY <1>3, PublishFaithful, Zenon
<1>4. CASE type \in Acks
  BY <1>4, AckFaithful, Zenon
<1>5. CASE type = "subscribe"
  <2>1. FlagsAccepted("subscribe", flags)
    BY <1>5, Zenon
  <2> QED BY <1>5, <2>1, SubscribeFaithful, Zenon
<1>6. CASE type = "suback"
  <2>1. FlagsAccepted("suback", flags)
    BY <1>6, Zenon
  <2> QED BY <1>6, <2>1, SubAckFaithful, Zenon
<1>7. CASE type = "unsubscribe"
  <2>1. FlagsAccepted("unsubscribe", flags)
    BY <1>7, Zenon
  <2> QED BY <1>7, <2>1, UnsubscribeFaithful, Zenon
<1>8. CASE type \in Bare
  BY <1>8, BareFaithful, Zenon
<1> QED BY <1>1, <1>2, <1>3, <1>4, <1>5, <1>6, <1>7, <1>8 DEF AnyType

\* The code of a type is one of fourteen, and no two share one.
LEMMA TypeCodes ==
  /\ DOMAIN Types = 1 .. 14
  /\ \A type \in AnyType : TypeCode(type) \in 1 .. 14 /\ Types[TypeCode(type)] = type
  /\ \A code \in 1 .. 14 : Types[code] \in AnyType /\ TypeCode(Types[code]) = code
<1>1. DOMAIN Types = 1 .. 14
  BY DEF Types
<1>2. \A code \in 1 .. 14 : Types[code] \in AnyType
  BY DEF Types, AnyType, Acks, Bare
<1>3. \A a, b \in 1 .. 14 : Types[a] = Types[b] => a = b
  BY DEF Types
<1>4. \A type \in AnyType : \E code \in 1 .. 14 : Types[code] = type
  <2> TAKE type \in AnyType
  <2>1. /\ Types[1] = "connect" /\ Types[2] = "connack" /\ Types[3] = "publish"
        /\ Types[4] = "puback" /\ Types[5] = "pubrec" /\ Types[6] = "pubrel"
        /\ Types[7] = "pubcomp" /\ Types[8] = "subscribe" /\ Types[9] = "suback"
        /\ Types[10] = "unsubscribe" /\ Types[11] = "unsuback" /\ Types[12] = "pingreq"
        /\ Types[13] = "pingresp" /\ Types[14] = "disconnect"
    BY DEF Types
  <2>2. type \in {"connect", "connack", "publish", "puback", "pubrec", "pubrel", "pubcomp",
           "subscribe", "suback", "unsubscribe", "unsuback", "pingreq", "pingresp", "disconnect"}
    BY DEF AnyType, Acks, Bare
  <2> HIDE DEF AnyType
  <2> QED BY <2>1, <2>2
<1>5. \A type \in AnyType : TypeCode(type) \in 1 .. 14 /\ Types[TypeCode(type)] = type
  BY <1>1, <1>4, Zenon DEF TypeCode
<1> QED BY <1>1, <1>2, <1>3, <1>5, Zenon

\* The first byte of a frame keeps type and flags apart.
LEMMA FirstByte ==
  /\ \A code \in 1 .. 14, flags \in 0 .. 15 :
       /\ 16 * code + flags \in Byte
       /\ (16 * code + flags) \div 16 = code
       /\ (16 * code + flags) % 16 = flags
  /\ \A first \in Byte : /\ first % 16 \in 0 .. 15
                         /\ first = 16 * (first \div 16) + (first % 16)
BY DEF Byte

\* What an encoded packet is made of.
LEMMA EncodedParts ==
  ASSUME NEW p \in AnyPacket, Encodable(p)
  PROVE  /\ p.type \in AnyType
         /\ TypeCode(p.type) \in 1 .. 14
         /\ Flags(p) \in 0 .. 15
         /\ 16 * TypeCode(p.type) + Flags(p) \in Byte
         /\ Body(p) \in Bytes
         /\ Len(Body(p)) <= MaxRemainingLen
<1>1. p.type \in AnyType
  BY PacketFields DEF AnyType
<1>2. TypeCode(p.type) \in 1 .. 14
  BY <1>1, TypeCodes, Zenon
<1>3. Flags(p) \in 0 .. 15 /\ Body(p) \in Bytes
  BY EveryRoundTrip, Zenon DEF RoundTrip
<1>4. 16 * TypeCode(p.type) + Flags(p) \in Byte
  BY <1>2, <1>3, FirstByte, Zenon
<1>5. Len(Body(p)) <= MaxRemainingLen
  BY Zenon DEF Encodable
<1> QED BY <1>1, <1>2, <1>3, <1>4, <1>5, Zenon

\* Where a frame has its first byte, its length and its body.
LEMMA FrameParts ==
  ASSUME NEW first \in Byte, NEW body \in Bytes, Len(body) <= MaxRemainingLen
  PROVE  /\ Framed(first, body) \in Bytes
         /\ Framed(first, body) # <<>>
         /\ Framed(first, body)[1] = first
         /\ DecodeRemainingLength(Tail(Framed(first, body))) = Decoded(Len(body), Digits(Len(body)))
         /\ SubSeq(Framed(first, body), 2 + Digits(Len(body)), 1 + Digits(Len(body)) + Len(body)) = body
<1> DEFINE whole == Framed(first, body)
           len == Len(body)
           digits == EncodeRemainingLength(len)
           head == <<first>> \o digits
<1>1. /\ len \in 0 .. MaxRemainingLen
      /\ whole \in Bytes
      /\ Len(whole) = 1 + Digits(len) + len
      /\ \A i \in 1 .. Digits(len) : whole[i + 1] = digits[i]
  BY FramedParts
<1>2. digits \in Bytes /\ Len(digits) = Digits(len) /\ Digits(len) \in 1 .. 4
  BY <1>1, EncodedLength, Zenon
<1>3. <<first>> \in Bytes /\ Len(<<first>>) = 1 /\ <<first>>[1] = first
  BY DEF Bytes
<1>4. len \in Nat
  BY LenProperties DEF Bytes
<1>5. whole = head \o body
  BY Zenon DEF Framed
<1> HIDE DEF digits
<1>6. /\ head \in Bytes
      /\ Len(head) = 1 + Digits(len)
      /\ head[1] = first
  <2>1. /\ <<first>> \o digits \in Bytes
        /\ Len(<<first>> \o digits) = Len(<<first>>) + Len(digits)
        /\ \A i \in 1 .. Len(<<first>>) : (<<first>> \o digits)[i] = <<first>>[i]
    BY <1>2, <1>3, CutBytes, Zenon
  <2>2. 1 \in 1 .. Len(<<first>>)
    BY <1>3
  <2> QED BY <1>2, <1>3, <2>1, <2>2, Zenon
<1> HIDE DEF head
<1>7. /\ SubSeq(head \o body, Len(head) + 1, Len(head \o body)) = body
      /\ \A i \in 1 .. Len(head) : (head \o body)[i] = head[i]
  BY <1>6, CutBytes, Zenon
<1> HIDE DEF len, whole
<1>8. whole[1] = first
  <2>1. 1 \in 1 .. Len(head)
    BY <1>2, <1>6
  <2> QED BY <1>5, <1>6, <1>7, <2>1, Zenon
<1>9. SubSeq(whole, 2 + Digits(len), 1 + Digits(len) + len) = body
  <2>1. Len(head) + 1 = 2 + Digits(len)
    BY <1>2, <1>6
  <2> QED BY <1>1, <1>5, <1>7, <2>1, Zenon
<1>10. whole # <<>>
  <2>1. Len(whole) # 0
    BY <1>1, <1>2, <1>4
  <2> QED BY <2>1, EmptySeq, Zenon
<1>11. DecodeRemainingLength(Tail(whole)) = Decoded(len, Digits(len))
  <2> DEFINE k == Digits(len)
  <2>1. k \in 0 .. k /\ k < Len(whole)
    BY <1>1, <1>2, <1>4
  <2>2. \A i \in 1 .. k + 1 : whole[i] = Framed(first, body)[i]
    BY DEF whole
  <2>3. Tail(whole) \in Bytes /\ StartsAs(Tail(whole), Len(body), Digits(Len(body)))
    BY <1>1, <1>10, <2>1, <2>2, TailStarts, Zenon DEF len
  <2> QED BY <1>1, <2>3, DecodedWhole, Zenon DEF len
<1> QED BY <1>1, <1>8, <1>9, <1>10, <1>11, Zenon DEF whole, len

\* Every packet that encode_packet accepts is what decode_packet makes of its
\* bytes, all fields alike.
THEOREM DecodedAsEncoded ==
  ASSUME NEW p \in AnyPacket, Encodable(p)
  PROVE  /\ EncodePacket(p) \in Bytes
         /\ EncodePacket(p) # <<>>
         /\ DecodePacket(EncodePacket(p)) = p
         /\ p # Malformed
<1> DEFINE code == TypeCode(p.type)
           flags == Flags(p)
           first == 16 * code + flags
           body == Body(p)
           frame == Framed(first, body)
           digits == Digits(Len(body))
           length == DecodeRemainingLength(Tail(frame))
<1>1. /\ p.type \in AnyType /\ code \in 1 .. 14 /\ flags \in 0 .. 15 /\ first \in Byte
      /\ body \in Bytes /\ Len(body) <= MaxRemainingLen
  BY EncodedParts
<1>2. RoundTrip(p)
  BY EveryRoundTrip, Zenon
<1>3. EncodePacket(p) = frame
  BY Zenon DEF EncodePacket
<1>4. first \div 16 = code /\ first % 16 = flags
  BY <1>1, FirstByte, Zenon
<1>5. code \in DOMAIN Types /\ Types[code] = p.type
  BY <1>1, TypeCodes, Zenon
<1>6. FlagsAccepted(p.type, flags) /\ DecodeBody(p.type, flags, body) = p
  BY <1>2, Zenon DEF RoundTrip
<1> HIDE DEF first, code, flags, body
<1>7. /\ frame \in Bytes /\ frame # <<>> /\ frame[1] = first
      /\ length = Decoded(Len(body), digits)
      /\ SubSeq(frame, 2 + digits, 1 + digits + Len(body)) = body
  BY <1>1, FrameParts, Zenon
<1>8. Decoded(Len(body), digits).len = digits /\ Decoded(Len(body), digits).value = Len(body)
  BY DEF Decoded
<1> HIDE DEF frame, digits, length
<1>9. SubSeq(frame, 2 + length.len, 1 + length.len + length.value) = body
  BY <1>7, <1>8, Zenon
<1>10. DecodePacket(frame) = p
  BY <1>4, <1>5, <1>6, <1>7, <1>9, Zenon DEF DecodePacket, length
<1>11. p # Malformed
  <2>1. "malformed" \notin AnyType
    BY DEF AnyType, Acks, Bare
  <2>2. Malformed.type = "malformed"
    BY DEF Malformed
  <2> QED BY <1>1, <2>1, <2>2, Zenon
<1> QED BY <1>3, <1>7, <1>10, <1>11, Zenon

-----------------------------------------------------------------------------
(***************************************************************************)
(* What next_frame answers of any bytes.                                   *)
(***************************************************************************)
\* A digit and its weight.
LEMMA DigitRange ==
  ASSUME NEW bytes \in Bytes, NEW n \in 1 .. 4, EndsAt(bytes, n), NEW i \in 1 .. 4
  PROVE  Digit(bytes, i, n) \in Nat /\ Digit(bytes, i, n) <= 127 * Weight[i]
<1>1. n \in 1 .. Len(bytes)
  BY LenProperties, Zenon DEF EndsAt, Bytes
<1>2. Len(bytes) \in Nat
  BY LenProperties, Zenon DEF Bytes
<1>3. Weight[i] \in {1, 128, 16384, 2097152}
  BY Weights, SMT
<1>4. CASE i <= n
  <2>1. i \in 1 .. Len(bytes)
    BY <1>1, <1>2, <1>4
  <2>2. bytes[i] \in Byte
    BY <2>1, ElementOfSeq, Zenon DEF Bytes
  <2>3. bytes[i] % 128 \in 0 .. 127
    BY <2>2 DEF Byte
  <2>4. Digit(bytes, i, n) = (bytes[i] % 128) * Weight[i]
    BY <1>4 DEF Digit
  <2> DEFINE d == bytes[i] % 128
  <2> HIDE DEF d
  <2>5. d \in 0 .. 127 /\ Digit(bytes, i, n) = d * Weight[i]
    BY <2>3, <2>4, Zenon DEF d
  <2> QED BY <1>3, <2>5, SMT
<1>5. CASE ~(i <= n)
  <2>1. Digit(bytes, i, n) = 0
    BY <1>5 DEF Digit
  <2> QED BY <1>3, <2>1, SMT
<1> QED BY <1>4, <1>5

\* The number that bytes begin with: four digits make no more than the bound.
LEMMA ValueRange ==
  ASSUME NEW bytes \in Bytes, NEW n \in 1 .. 4, EndsAt(bytes, n)
  PROVE  Value(bytes, n) \in Nat /\ Value(bytes, n) <= MaxRemainingLen
<1> DEFINE a == Digit(bytes, 1, n)
           b == Digit(bytes, 2, n)
           c == Digit(bytes, 3, n)
           d == Digit(bytes, 4, n)
<1>1. /\ a \in Nat /\ a <= 127 * Weight[1]
      /\ b \in Nat /\ b <= 127 * Weight[2]
      /\ c \in Nat /\ c <= 127 * Weight[3]
      /\ d \in Nat /\ d <= 127 * Weight[4]
  BY DigitRange
<1>2. Weight[1] = 1 /\ Weight[2] = 128 /\ Weight[3] = 16384 /\ Weight[4] = 2097152
  BY DEF Weight
<1>3. Value(bytes, n) = a + b + c + d
  BY DEF Value
<1> HIDE DEF a, b, c, d
<1>4. a + b + c + d \in Nat /\ a + b + c + d <= 268435455
  BY <1>1, <1>2, SMT
<1> QED BY <1>3, <1>4, SMT DEF MaxRemainingLen

\* decode_remaining_length goes by the first byte that ends a number.
LEMMA LengthEnds ==
  ASSUME NEW bytes \in Bytes, NEW n \in 1 .. 4, EndsAt(bytes, n)
  PROVE  DecodeRemainingLength(bytes) = Decoded(Value(bytes, n), n)
<1>1. \A m \in 1 .. 4 : EndsAt(bytes, m) => m = n
  <2> SUFFICES ASSUME NEW m \in 1 .. 4, EndsAt(bytes, m), m # n PROVE FALSE
    OBVIOUS
  <2>1. m \in 1 .. n - 1 \/ n \in 1 .. m - 1
    OBVIOUS
  <2>2. bytes[m] < 128 /\ bytes[n] < 128
    BY DEF EndsAt
  <2>3. bytes[m] >= 128 \/ bytes[n] >= 128
    BY <2>1, Zenon DEF EndsAt
  <2>4. m \in 1 .. Len(bytes) /\ n \in 1 .. Len(bytes)
    BY LenProperties, Zenon DEF EndsAt, Bytes
  <2>5. bytes[m] \in Byte /\ bytes[n] \in Byte
    BY <2>4, ElementOfSeq, Zenon DEF Bytes
  <2> QED BY <2>2, <2>3, <2>5 DEF Byte
<1>2. (CHOOSE m \in 1 .. 4 : EndsAt(bytes, m)) = n
  BY <1>1, Zenon
<1> QED BY <1>2, Zenon DEF DecodeRemainingLength

\* A frame: its length says how many bytes there are after it, and its body is
\* what is left of it then.
Whole(bytes) ==
  LET length == DecodeRemainingLength(Tail(bytes))
      body == SubSeq(bytes, 2 + length.len, 1 + length.len + length.value)
  IN  /\ bytes \in Bytes
      /\ bytes # <<>>
      /\ bytes[1] \in Byte
      /\ length.len \in 1 .. 4
      /\ length.value \in Nat
      /\ length.value <= MaxRemainingLen
      /\ Len(bytes) = 1 + length.len + length.value
      /\ body \in Bytes
      /\ Len(body) = length.value
      /\ IsSuffix(body, bytes)

\* The end of a sequence is a suffix of it.
LEMMA Suffix ==
  ASSUME NEW s \in Bytes, NEW n \in 0 .. Len(s)
  PROVE  IsSuffix(SubSeq(s, n + 1, Len(s)), s)
<1> DEFINE t == SubSeq(s, n + 1, Len(s))
<1>1. t \in Bytes /\ Len(t) = Len(s) - n
  BY PartsOfBytes
<1>2. Len(s) \in Nat
  BY LenProperties DEF Bytes
<1>3. \A i \in 1 .. Len(s) : s[i] \in Byte
  BY ElementOfSeq, Zenon DEF Bytes
<1>4. \A i \in 1 .. Len(t) : t[i] = s[n + i]
  <2>1. n + 1 \in Int /\ Len(s) \in Int /\ \A i \in n + 1 .. Len(s) : i \in 1 .. Len(s)
    BY <1>2
  <2>2. \A i \in n + 1 .. Len(s) : s[i] \in Byte
    BY <1>3, <2>1, Zenon
  <2>3. \A i \in 1 .. Len(s) - (n + 1) + 1 : t[i] = s[(n + 1) + i - 1]
    BY <2>1, <2>2, SubSeqProperties, SMT
  <2> HIDE DEF t
  <2> TAKE i \in 1 .. Len(t)
  <2>4. i \in 1 .. Len(s) - (n + 1) + 1 /\ (n + 1) + i - 1 = n + i
    BY <1>1, <1>2
  <2> QED BY <2>3, <2>4, Zenon
<1> HIDE DEF t
<1> DEFINE a == Reverse(t)
           b == Reverse(s)
<1>5. \A i \in 1 .. Len(t) : t[(Len(t) - i) + 1] = s[(Len(s) - i) + 1]
  <2> TAKE i \in 1 .. Len(t)
  <2>1. (Len(t) - i) + 1 \in 1 .. Len(t) /\ n + ((Len(t) - i) + 1) = (Len(s) - i) + 1
    BY <1>1, <1>2
  <2> DEFINE j == (Len(t) - i) + 1
  <2>2. j \in 1 .. Len(t) /\ n + j = (Len(s) - i) + 1
    BY <2>1
  <2> HIDE DEF j
  <2>3. t[j] = s[n + j]
    BY <1>4, <2>2, Zenon
  <2>4. t[j] = s[(Len(s) - i) + 1]
    BY <2>2, <2>3, Zenon
  <2> QED BY <2>4, Zenon DEF j
<1>6. a \in [1 .. Len(t) -> Byte] /\ b \in [1 .. Len(s) -> Byte]
  <2>1. \A i \in 1 .. Len(s) : (Len(s) - i) + 1 \in 1 .. Len(s)
    BY <1>2
  <2>2. \A i \in 1 .. Len(s) : s[(Len(s) - i) + 1] \in Byte
    BY <1>3, <2>1, Zenon
  <2>3. \A i \in 1 .. Len(t) : i \in 1 .. Len(s)
    BY <1>1, <1>2
  <2>4. \A i \in 1 .. Len(t) : t[(Len(t) - i) + 1] \in Byte
    BY <1>5, <2>2, <2>3, Zenon
  <2> QED BY <2>2, <2>4 DEF Reverse
<1>7. a \in Bytes /\ Len(a) = Len(t) /\ b \in Bytes /\ Len(b) = Len(s)
  <2>1. Len(t) \in Nat
    BY <1>1, <1>2
  <2> HIDE DEF a, b
  <2> QED BY <1>2, <1>6, <2>1, Numbered, Zenon DEF Bytes
<1>8. \A i \in 1 .. Len(t) : a[i] = b[i]
  <2> TAKE i \in 1 .. Len(t)
  <2>1. i \in 1 .. Len(s)
    BY <1>1, <1>2
  <2>2. a[i] = t[(Len(t) - i) + 1] /\ b[i] = s[(Len(s) - i) + 1]
    BY <2>1, Zenon DEF Reverse
  <2> QED BY <1>5, <2>2, Zenon
<1> HIDE DEF a, b
<1>9. SubSeq(a, 1, Len(a)) = a
  BY <1>7, SubSeqFull, Zenon DEF Bytes
<1>10. SubSeq(b, 1, Len(a)) = a
  <2> DEFINE h == SubSeq(b, 1, Len(a))
  <2>1. Len(a) \in 0 .. Len(b)
    BY <1>1, <1>2, <1>7
  <2>2. 1 \in Int /\ Len(a) \in Int /\ \A i \in 1 .. Len(a) : i \in 1 .. Len(b)
    BY <2>1, <1>2, <1>7
  <2>3. \A i \in 1 .. Len(a) : b[i] \in Byte
    BY <1>7, <2>2, ElementOfSeq, Zenon DEF Bytes
  <2>4. h \in Bytes /\ Len(h) = Len(a)
    BY <1>7, <2>1, PartsOfBytes, Zenon
  <2>5. \A i \in 1 .. Len(a) - 1 + 1 : h[i] = b[1 + i - 1]
    BY <2>2, <2>3, SubSeqProperties, SMT
  <2> HIDE DEF h
  <2>6. \A i \in 1 .. Len(a) : i \in 1 .. Len(a) - 1 + 1 /\ 1 + i - 1 = i
    BY <2>1, <1>2, <1>7
  <2>7. \A i \in 1 .. Len(a) : h[i] = a[i]
    BY <1>7, <1>8, <2>5, <2>6, Zenon
  <2> QED BY <1>7, <2>4, <2>7, SeqEqual DEF Bytes, h
<1>11. Len(a) <= Len(b)
  BY <1>1, <1>2, <1>7
<1> QED BY <1>9, <1>10, <1>11, Zenon DEF IsSuffix, IsPrefix, a, b, t

-----------------------------------------------------------------------------
\* decode_remaining_length reads no more of the bytes than it says.
LEMMA LengthOfPrefix ==
  ASSUME NEW s \in Bytes, NEW t \in Bytes, NEW n \in 1 .. 4, EndsAt(s, n), n <= Len(t),
         \A i \in 1 .. n : t[i] = s[i]
  PROVE  DecodeRemainingLength(t) = Decoded(Value(s, n), n)
<1>1. Len(t) \in Nat /\ DOMAIN t = 1 .. Len(t)
  BY LenProperties, Zenon DEF Bytes
<1>2. EndsAt(t, n)
  <2>1. n \in DOMAIN t /\ n \in 1 .. n
    BY <1>1
  <2>2. t[n] < 128
    BY <2>1, Zenon DEF EndsAt
  <2>3. \A i \in 1 .. n - 1 : i \in 1 .. n
    OBVIOUS
  <2>4. \A i \in 1 .. n - 1 : t[i] >= 128
    BY <2>3, Zenon DEF EndsAt
  <2> QED BY <2>1, <2>2, <2>4, Zenon DEF EndsAt
<1>3. Value(t, n) = Value(s, n)
  <2>1. ASSUME NEW i \in 1 .. 4 PROVE Digit(t, i, n) = Digit(s, i, n)
    <3>1. i <= n => t[i] = s[i]
      OBVIOUS
    <3> QED BY <3>1, Zenon DEF Digit
  <2>2. 1 \in 1 .. 4 /\ 2 \in 1 .. 4 /\ 3 \in 1 .. 4 /\ 4 \in 1 .. 4
    OBVIOUS
  <2>3. Digit(t, 1, n) = Digit(s, 1, n) /\ Digit(t, 2, n) = Digit(s, 2, n)
        /\ Digit(t, 3, n) = Digit(s, 3, n) /\ Digit(t, 4, n) = Digit(s, 4, n)
    BY <2>1, <2>2, Zenon
  <2> QED BY <2>3, Zenon DEF Value
<1> QED BY <1>2, <1>3, LengthEnds, Zenon

\* Of any bytes, next_frame takes a frame that is all there, from their front.
LEMMA ReadyFrame ==
  ASSUME NEW bytes \in Bytes, NextFrame(bytes).is = "Ready"
  PROVE  /\ Whole(NextFrame(bytes).frame)
         /\ Len(NextFrame(bytes).frame) \in 0 .. Len(bytes)
<1> DEFINE header == ParseFixedHeader(bytes)
           f == NextFrame(bytes).frame
           rest == Tail(bytes)
<1>1. Len(bytes) \in Nat
  BY LenProperties DEF Bytes
<1>2. /\ header # NeedMore
      /\ header # MalformedLength
      /\ IsComplete(header, bytes)
      /\ f = SubSeq(bytes, 1, FrameLen(header))
  BY DEF NextFrame
<1>3. bytes # <<>> /\ header = DecodeRemainingLength(rest)
  BY <1>2, Zenon DEF ParseFixedHeader
<1>4. /\ rest \in Bytes
      /\ Len(rest) = Len(bytes) - 1
      /\ \A i \in 1 .. Len(rest) : rest[i] = bytes[i + 1]
  BY <1>3, HeadTailProperties, Zenon DEF Bytes
<1> HIDE DEF f, rest
<1>5. \E m \in 1 .. 4 : EndsAt(rest, m)
  BY <1>2, <1>3, Zenon DEF DecodeRemainingLength
<1>6. PICK n \in 1 .. 4 : EndsAt(rest, n)
  BY <1>5, Zenon
<1> DEFINE v == Value(rest, n)
<1>7. header = Decoded(v, n)
  BY <1>3, <1>4, <1>6, LengthEnds, Zenon
<1>8. v \in Nat /\ v <= MaxRemainingLen
  BY <1>4, <1>6, ValueRange, Zenon
<1> HIDE DEF v, header
<1>9. FrameLen(header) = 1 + n + v
  BY <1>7 DEF FrameLen, Decoded
<1> DEFINE whole == 1 + n + v
<1>10. Len(bytes) >= whole
  BY <1>2, <1>9, Zenon DEF IsComplete
<1>11. whole \in 0 .. Len(bytes)
  BY <1>1, <1>8, <1>10
<1>12. whole \in Nat /\ whole > n /\ whole - n = 1 + v
  BY <1>8
<1>13. n \in Nat /\ 1 + n \in 0 .. whole /\ 1 + n + 1 = 2 + n /\ whole - (1 + n) = v
  BY <1>8
<1> HIDE DEF whole
<1>14. f \in Bytes /\ Len(f) = whole
  BY <1>2, <1>9, <1>11, PartsOfBytes, Zenon DEF whole
<1>15. \A i \in 1 .. whole : f[i] = bytes[i]
  <2>1. \A i \in 1 .. whole : i \in 1 .. Len(bytes)
    BY <1>1, <1>11
  <2>2. \A i \in 1 .. whole : bytes[i] \in Byte
    BY <2>1, ElementOfSeq, Zenon DEF Bytes
  <2>3. 1 \in Int /\ whole \in Int
    BY <1>12
  <2>4. \A i \in 1 .. whole - 1 + 1 : SubSeq(bytes, 1, whole)[i] = bytes[1 + i - 1]
    BY <2>2, <2>3, SubSeqProperties, SMT
  <2>5. \A i \in 1 .. whole : i \in 1 .. whole - 1 + 1 /\ 1 + i - 1 = i
    BY <1>12
  <2>6. SubSeq(bytes, 1, whole) = f
    BY <1>2, <1>9, Zenon DEF whole
  <2> QED BY <2>4, <2>5, <2>6, Zenon
<1>16. f # <<>>
  <2>1. Len(f) # 0
    BY <1>12, <1>14
  <2> QED BY <2>1, EmptySeq, Zenon
<1>17. f[1] \in Byte
  <2>1. 1 \in 1 .. Len(f)
    BY <1>12, <1>14
  <2> QED BY <1>14, <2>1, ElementOfSeq, Zenon DEF Bytes
<1>18. DecodeRemainingLength(Tail(f)) = Decoded(v, n)
  <2>1. /\ Tail(f) \in Bytes
        /\ Len(Tail(f)) = Len(f) - 1
        /\ \A i \in 1 .. Len(Tail(f)) : Tail(f)[i] = f[i + 1]
    BY <1>14, <1>16, HeadTailProperties, Zenon DEF Bytes
  <2>2. n <= Len(Tail(f))
    BY <1>8, <1>14, <2>1 DEF whole
  <2>3. \A i \in 1 .. n : Tail(f)[i] = rest[i]
    <3> TAKE i \in 1 .. n
    <3>1. i \in 1 .. Len(Tail(f)) /\ i \in 1 .. Len(rest) /\ i + 1 \in 1 .. whole
      BY <1>1, <1>4, <1>8, <1>11, <1>14, <2>1 DEF whole
    <3>2. Tail(f)[i] = f[i + 1] /\ rest[i] = bytes[i + 1] /\ f[i + 1] = bytes[i + 1]
      BY <1>4, <1>15, <2>1, <3>1, Zenon
    <3> QED BY <3>2, Zenon
  <2> QED BY <1>4, <1>6, <2>1, <2>2, <2>3, LengthOfPrefix, Zenon DEF v
<1> DEFINE body == SubSeq(f, 2 + n, whole)
<1>19. body \in Bytes /\ Len(body) = v /\ IsSuffix(body, f)
  <2>1. 1 + n \in 0 .. Len(f)
    BY <1>13, <1>14, Zenon
  <2>2. /\ SubSeq(f, (1 + n) + 1, Len(f)) \in Bytes
        /\ Len(SubSeq(f, (1 + n) + 1, Len(f))) = Len(f) - (1 + n)
    BY <1>14, <2>1, PartsOfBytes, Zenon
  <2>3. IsSuffix(SubSeq(f, (1 + n) + 1, Len(f)), f)
    BY <1>14, <2>1, Suffix, Zenon
  <2> QED BY <1>13, <1>14, <2>2, <2>3, Zenon
<1> DEFINE length == DecodeRemainingLength(Tail(f))
<1>20. length.len = n /\ length.value = v
  BY <1>18 DEF Decoded
<1> HIDE DEF length
<1>21. Whole(f)
  <2>1. Len(f) = 1 + length.len + length.value
    BY <1>14, <1>20, Zenon DEF whole
  <2>2. SubSeq(f, 2 + length.len, 1 + length.len + length.value) = body
    BY <1>20, Zenon DEF whole
  <2> HIDE DEF body
  <2> QED BY <1>6, <1>8, <1>14, <1>16, <1>17, <1>19, <1>20, <2>1, <2>2, Zenon DEF Whole, length
<1>22. Len(f) \in 0 .. Len(bytes)
  BY <1>11, <1>14, Zenon
<1> QED BY <1>21, <1>22, Zenon DEF f

-----------------------------------------------------------------------------
\* decode_packet accepts of a frame only what encode_packet writes: the packet
\* it makes can be encoded, to that first byte and that body.
THEOREM EncodedAsDecoded ==
  ASSUME NEW bytes, Whole(bytes), DecodePacket(bytes) # Malformed
  PROVE  LET p == DecodePacket(bytes)
         IN  /\ p \in AnyPacket
             /\ Encodable(p)
             /\ EncodePacket(p)[1] = bytes[1]
             /\ IsSuffix(Body(p), bytes)
             /\ Len(bytes) = 1 + DecodeRemainingLength(Tail(bytes)).len + Len(Body(p))
<1> DEFINE p == DecodePacket(bytes)
           first == bytes[1]
           code == first \div 16
           flags == first % 16
           length == DecodeRemainingLength(Tail(bytes))
           body == SubSeq(bytes, 2 + length.len, 1 + length.len + length.value)
           type == Types[code]
<1>1. /\ first \in Byte
      /\ length.value <= MaxRemainingLen
      /\ Len(bytes) = 1 + length.len + length.value
      /\ body \in Bytes
      /\ Len(body) = length.value
      /\ IsSuffix(body, bytes)
  BY Zenon DEF Whole
<1>2. p = IF code \in DOMAIN Types /\ FlagsAccepted(type, flags)
            THEN DecodeBody(type, flags, body) ELSE Malformed
  BY Zenon DEF DecodePacket
<1>3. flags \in 0 .. 15 /\ first = 16 * code + flags
  BY <1>1, FirstByte, Zenon
<1> HIDE DEF p, code, flags, body, length
<1>4. code \in DOMAIN Types /\ FlagsAccepted(type, flags) /\ p = DecodeBody(type, flags, body)
  BY <1>2, Zenon DEF p
<1>5. code \in 1 .. 14 /\ type \in AnyType /\ TypeCode(type) = code
  BY <1>4, TypeCodes, Zenon
<1> HIDE DEF type
<1>6. Faithful(type, flags, body)
  BY <1>1, <1>3, <1>4, <1>5, EveryFaithful, Zenon
<1>7. Len(body) <= MaxRemainingLen
  BY <1>1, Zenon
<1>8. p.type = type /\ Flags(p) = flags /\ Body(p) = body /\ Encodable(p) /\ p \in AnyPacket
  BY <1>4, <1>6, <1>7, Zenon DEF Faithful, p
<1>9. EncodePacket(p) = Framed(first, body)
  BY <1>3, <1>5, <1>8, Zenon DEF EncodePacket
<1>10. EncodePacket(p)[1] = first
  <2> HIDE DEF first
  <2>1. Framed(first, body)[1] = first
    BY <1>1, <1>7, FrameParts, Zenon
  <2> QED BY <1>9, <2>1, Zenon
<1> QED BY <1>1, <1>5, <1>8, <1>10, Zenon DEF p, length
=============================================================================

--------------------------- MODULE RemainingLength ---------------------------
(***************************************************************************)
(* encode_remaining_length and decode_remaining_length: a number in base   *)
(* 128, least significant digit first, at most four of them; every byte    *)
(* but the last has 128 added to its digit.                                *)
(***************************************************************************)
EXTENDS Integers, Sequences

MaxRemainingLen == 268435455

Weight == <<1, 128, 16384, 2097152>>

\* How often the loop of encode_remaining_length runs.
Digits(len) == IF len < 128 THEN 1 ELSE IF len < 16384 THEN 2 ELSE IF len < 2097152 THEN 3 ELSE 4

\* Mutant: a digit is not reduced to seven bits.
EncodeUncut(len) ==
  [i \in 1 .. Digits(len) |-> (len \div Weight[i]) + (IF i < Digits(len) THEN 128 ELSE 0)]

\* For len <= MaxRemainingLen; else it is an error.
EncodeRemainingLength(len) ==
  [i \in 1 .. Digits(len) |->
     ((len \div Weight[i]) % 128) + (IF i < Digits(len) THEN 128 ELSE 0)]

\* Bytes before the one that ends the number are continued.
EndsAt(bytes, n) == n \in DOMAIN bytes /\ bytes[n] < 128 /\ \A i \in 1 .. n - 1 : bytes[i] >= 128

Digit(bytes, i, n) == IF i <= n THEN (bytes[i] % 128) * Weight[i] ELSE 0

Value(bytes, n) ==
  Digit(bytes, 1, n) + Digit(bytes, 2, n) + Digit(bytes, 3, n) + Digit(bytes, 4, n)

NeedMore == [is |-> "InsufficientBytes"]
MalformedLength == [is |-> "MalformedRemainingLength"]
Decoded(value, len) == [is |-> "Ok", value |-> value, len |-> len]

\* The bound on the value is out of reach for four digits.
DecodeRemainingLength(bytes) ==
  IF \E n \in 1 .. 4 : EndsAt(bytes, n)
    THEN LET n == CHOOSE n \in 1 .. 4 : EndsAt(bytes, n) IN Decoded(Value(bytes, n), n)
    ELSE IF Len(bytes) < 4 THEN NeedMore ELSE MalformedLength
=============================================================================

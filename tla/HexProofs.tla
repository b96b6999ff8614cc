----------------------------- MODULE HexProofs -----------------------------
(***************************************************************************)
(* The parser of Hex.tla is right for values of any length and for every   *)
(* text.  The loop invariant is that the part of the text that was read is *)
(* the numeral of the part of the buffer that was written.                 *)
(***************************************************************************)
EXTENDS Hex, SequenceTheorems, TLAPS

Refused == {"InvalidHex", "InvalidLength"}

IInv ==
  /\ text \in Seq(0 .. 255)
  /\ i \in 0 .. Length
  /\ buf \in [1 .. Length -> 0 .. 255]
  /\ result \in {"none", "Ok"} \cup Refused
  /\ i > 0 \/ result = "Ok" => Len(text) = 2 * Length
  /\ result = "Ok" => i = Length
  /\ \A k \in 1 .. 2 * i : Lower(text[k]) = Numeral(buf, k)
  /\ result \in Refused =>
       \/ Len(text) # 2 * Length
       \/ \E k \in 1 .. 2 * Length : \A n \in 0 .. 15 : Lower(text[k]) # Digit(n)

\* A character that is a digit is the digit of its value, in lower case.
LEMMA ValidDigit ==
  ASSUME NEW c \in 0 .. 255, Valid(c)
  PROVE  hex_val(c) \in 0 .. 15 /\ Lower(c) = Digit(hex_val(c))
<1>1. CASE c \in 65 .. 70
  <2>1. hex_val(c) = c - 65 + 10
    BY <1>1 DEF hex_val
  <2> QED
    BY <1>1, <2>1 DEF Lower, Digit
<1>2. CASE c \in 97 .. 102
  <2>1. hex_val(c) = c - 97 + 10
    BY <1>2 DEF hex_val
  <2> QED
    BY <1>2, <2>1 DEF Lower, Digit
<1>3. CASE c \in 48 .. 57
  <2>1. hex_val(c) = c - 48
    BY <1>3 DEF hex_val
  <2> QED
    BY <1>3, <2>1 DEF Lower, Digit
<1> QED
  BY <1>1, <1>2, <1>3 DEF Valid

\* A character that is not a digit is not one in lower case either.
LEMMA InvalidDigit ==
  ASSUME NEW c \in 0 .. 255, ~Valid(c), NEW n \in 0 .. 15
  PROVE  Lower(c) # Digit(n)
BY DEF Valid, Lower, Digit

\* Two digits make a byte, and the byte has these two digits.
LEMMA TwoDigits ==
  ASSUME NEW h \in 0 .. 15, NEW l \in 0 .. 15
  PROVE  LET b == ((h * 16) % 256) + l
         IN  b \in 0 .. 255 /\ b \div 16 = h /\ b % 16 = l
<1>1. (h * 16) % 256 = h * 16
  OBVIOUS
<1> QED
  BY <1>1

\* A numeral is that of its bytes, two digits each.
LEMMA NumeralOf ==
  ASSUME NEW k \in Nat, NEW value
  PROVE  /\ Numeral(value, 2 * k + 1) = Digit(value[k + 1] \div 16)
         /\ Numeral(value, 2 * k + 2) = Digit(value[k + 1] % 16)
<1>1. (2 * k + 1) % 2 = 1 /\ (2 * k + 1 + 1) \div 2 = k + 1
  OBVIOUS
<1>2. (2 * k + 2) % 2 = 0 /\ (2 * k + 2) \div 2 = k + 1
  OBVIOUS
<1> QED
  BY <1>1, <1>2 DEF Numeral

\* One round of the loop reads two digits and writes the byte that has them.
LEMMA ChunkIInv == IInv /\ Chunk => IInv'
<1> SUFFICES ASSUME IInv, Chunk PROVE IInv'
  OBVIOUS
<1> DEFINE high == text[2 * i + 1]
           low == text[2 * i + 2]
           b == ((hex_val(high) * 16) % 256) + hex_val(low)
<1>1. /\ Length \in Nat /\ Len(text) = 2 * Length /\ i \in 0 .. Length - 1
      /\ result = "none" /\ text' = text
  BY HexAssumption DEF Chunk, IInv
<1>2. high \in 0 .. 255 /\ low \in 0 .. 255
  <2>1. 2 * i + 1 \in 1 .. Len(text) /\ 2 * i + 2 \in 1 .. Len(text)
    BY <1>1
  <2>2. text \in Seq(0 .. 255)
    BY DEF IInv
  <2> QED
    BY <2>1, <2>2, ElementOfSeq
<1>3. CASE Valid(high) /\ Valid(low) /\ buf' = [buf EXCEPT ![i + 1] = b]
           /\ i' = i + 1 /\ result' = result
  <2>1. /\ hex_val(high) \in 0 .. 15 /\ Lower(high) = Digit(hex_val(high))
        /\ hex_val(low) \in 0 .. 15 /\ Lower(low) = Digit(hex_val(low))
    BY <1>2, <1>3, ValidDigit
  <2>2. b \in 0 .. 255 /\ b \div 16 = hex_val(high) /\ b % 16 = hex_val(low)
    BY <2>1, TwoDigits
  <2> HIDE DEF b
  <2>3. /\ buf' \in [1 .. Length -> 0 .. 255] /\ buf'[i + 1] = b
        /\ \A j \in 1 .. i : buf'[j] = buf[j]
    <3>1. buf \in [1 .. Length -> 0 .. 255] /\ i + 1 \in 1 .. Length
      BY <1>1 DEF IInv
    <3>2. buf' = [buf EXCEPT ![i + 1] = b]
      BY <1>3 DEF b
    <3>3. \A j \in 1 .. i : j # i + 1 /\ j \in 1 .. Length
      BY <1>1
    <3> QED
      BY <2>2, <3>1, <3>2, <3>3
  <2>4. /\ Numeral(buf', 2 * i + 1) = Lower(high)
        /\ Numeral(buf', 2 * i + 2) = Lower(low)
    <3>1. i \in Nat
      BY <1>1
    <3> QED
      BY <2>1, <2>2, <2>3, <3>1, NumeralOf
  <2>5. ASSUME NEW k \in 1 .. 2 * i PROVE Numeral(buf', k) = Numeral(buf, k)
    <3>1. /\ k % 2 = 1 => (k + 1) \div 2 \in 1 .. i
          /\ k % 2 # 1 => k \div 2 \in 1 .. i
      BY <1>1
    <3> QED
      BY <2>3, <3>1 DEF Numeral
  <2>6. \A k \in 1 .. 2 * i' : Lower(text'[k]) = Numeral(buf', k)
    <3> SUFFICES ASSUME NEW k \in 1 .. 2 * i' PROVE Lower(text[k]) = Numeral(buf', k)
      BY <1>1
    <3>1. k \in 1 .. 2 * i \/ k = 2 * i + 1 \/ k = 2 * i + 2
      BY <1>1, <1>3
    <3>2. k \in 1 .. 2 * i => Lower(text[k]) = Numeral(buf, k)
      BY DEF IInv
    <3> QED
      BY <2>4, <2>5, <3>1, <3>2
  <2>7. i' \in 0 .. Length /\ result' = "none"
    BY <1>1, <1>3
  <2>8. text' \in Seq(0 .. 255) /\ Len(text') = 2 * Length
    BY <1>1 DEF IInv
  <2>9. Length' = Length
    OBVIOUS
  <2> QED
    BY <2>3, <2>6, <2>7, <2>8, <2>9 DEF IInv, Refused
<1>4. CASE ~(Valid(high) /\ Valid(low)) /\ i' = i /\ buf' = buf /\ result' = "InvalidHex"
  <2>1. \E k \in 1 .. 2 * Length : \A n \in 0 .. 15 : Lower(text[k]) # Digit(n)
    <3>1. 2 * i + 1 \in 1 .. 2 * Length /\ 2 * i + 2 \in 1 .. 2 * Length
      BY <1>1
    <3> QED
      BY <1>2, <1>4, <3>1, InvalidDigit
  <2> QED
    BY <1>1, <1>4, <2>1 DEF IInv, Refused
<1> QED
  BY <1>3, <1>4 DEF Chunk

\* The invariant holds throughout.
THEOREM LoopInvariant == Spec => []IInv
<1>1. Init => IInv
  BY HexAssumption DEF Init, IInv, Refused
<1>2. IInv /\ [Next]_vars => IInv'
  <2>1. IInv /\ Refuse => IInv'
    <3>1. ASSUME IInv, Refuse PROVE Len(text) # 2 * Length
      <4>1. Len(text) \in Nat /\ (2 * Length) % 2 = 0
        BY <3>1, HexAssumption DEF IInv
      <4> QED
        BY <3>1, <4>1, HexAssumption DEF Refuse
    <3> QED
      BY <3>1 DEF IInv, Refuse, Refused
  <2>2. IInv /\ Accept => IInv'
    BY HexAssumption DEF IInv, Accept, Refused
  <2>3. IInv /\ UNCHANGED vars => IInv'
    BY DEF IInv, vars
  <2> QED
    BY <2>1, <2>2, <2>3, ChunkIInv DEF Next
<1> QED
  BY <1>1, <1>2, PTL DEF Spec

\* from_str (hex.rs:29-51) accepts the numerals of values and nothing else, and returns
\* the value, for any length.
THEOREM ParserIsRight == Spec => []ParsesHex
<1>1. IInv => ParsesHex
  BY HexAssumption DEF IInv, ParsesHex, Refused
<1> QED
  BY <1>1, LoopInvariant, PTL
=============================================================================

-------------------------------- MODULE Hex --------------------------------
(***************************************************************************)
(* The parser of src/src/hex.rs, by which a seed is read from text, and    *)
(* what it should do: a text is the numeral of a value, in either case.    *)
(* Text is a sequence of bytes (UTF-8 in the code, which counts bytes).    *)
(***************************************************************************)
EXTENDS Integers, Sequences

CONSTANTS Length,   \* the number of bytes of a value, 64 for a seed
          Text      \* the texts that are tried

ASSUME HexAssumption == Length \in Nat /\ Text \subseteq Seq(0 .. 255)

VARIABLES text, i, buf, result

vars == <<text, i, buf, result>>

\* Mutant: capital letters count from zero.
hex_val_capital(c) ==
  CASE c \in 65 .. 70 -> c - 65
    [] c \in 97 .. 102 -> c - 97 + 10
    [] c \in 48 .. 57 -> c - 48

\* The value of a digit: 'A' to 'F', 'a' to 'f', '0' to '9'.
hex_val(c) ==
  CASE c \in 65 .. 70 -> c - 65 + 10
    [] c \in 97 .. 102 -> c - 97 + 10
    [] c \in 48 .. 57 -> c - 48

Valid(c) == c \in (65 .. 70) \cup (97 .. 102) \cup (48 .. 57)

Init ==
  /\ text \in Text
  /\ i = 0
  /\ buf = [k \in 1 .. Length |-> 0]
  /\ result = "none"

\* The checks before the loop, in the order of the code.
Refuse ==
  /\ result = "none" /\ i = 0
  /\ \/ Len(text) % 2 = 1 /\ result' = "InvalidHex"
     \/ Len(text) % 2 = 0 /\ Len(text) # Length * 2 /\ result' = "InvalidLength"
  /\ UNCHANGED <<text, i, buf>>

\* Mutant: a second digit that is not one is taken for a zero.
Chunk_half ==
  /\ result = "none" /\ Len(text) = Length * 2 /\ i < Length
  /\ LET high == text[2 * i + 1]
         low == text[2 * i + 2]
     IN  \/ /\ Valid(high)
            /\ buf' = [buf EXCEPT ![i + 1] = ((hex_val(high) * 16) % 256) + (IF Valid(low) THEN hex_val(low) ELSE 0)]
            /\ i' = i + 1
            /\ UNCHANGED result
         \/ /\ ~Valid(high)
            /\ result' = "InvalidHex"
            /\ UNCHANGED <<i, buf>>
  /\ UNCHANGED text

\* One round of the loop: two digits make a byte, or the text is refused.
Chunk ==
  /\ result = "none" /\ Len(text) = Length * 2 /\ i < Length
  /\ LET high == text[2 * i + 1]
         low == text[2 * i + 2]
     IN  \/ /\ Valid(high) /\ Valid(low)
            /\ buf' = [buf EXCEPT ![i + 1] = ((hex_val(high) * 16) % 256) + hex_val(low)]
            /\ i' = i + 1
            /\ UNCHANGED result
         \/ /\ ~(Valid(high) /\ Valid(low))
            /\ result' = "InvalidHex"
            /\ UNCHANGED <<i, buf>>
  /\ UNCHANGED text

\* Every buffer is a seed.
Accept ==
  /\ result = "none" /\ Len(text) = Length * 2 /\ i = Length
  /\ result' = "Ok"
  /\ UNCHANGED <<text, i, buf>>

Next == Refuse \/ Chunk \/ Accept

Spec == Init /\ [][Next]_vars

-----------------------------------------------------------------------------
(* What the parser should do *)

Lower(c) == IF c \in 65 .. 90 THEN c + 32 ELSE c

\* "0123456789abcdef"
Digit(n) == IF n < 10 THEN 48 + n ELSE 97 + (n - 10)

\* The kth digit of the numeral of a value.
Numeral(value, k) ==
  Digit(IF k % 2 = 1 THEN value[(k + 1) \div 2] \div 16 ELSE value[k \div 2] % 16)

\* What is accepted is the numeral of the value that is returned, and what is refused
\* is the numeral of no value, for want of length or because of some character.
ParsesHex ==
  /\ result = "Ok" =>
       /\ Len(text) = 2 * Length
       /\ \A k \in 1 .. Length : buf[k] \in 0 .. 255
       /\ \A k \in 1 .. 2 * Length : Lower(text[k]) = Numeral(buf, k)
  /\ result \in {"InvalidHex", "InvalidLength"} =>
       \/ Len(text) # 2 * Length
       \/ \E k \in 1 .. 2 * Length : \A n \in 0 .. 15 : Lower(text[k]) # Digit(n)
=============================================================================

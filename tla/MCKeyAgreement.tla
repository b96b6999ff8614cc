--------------------------- MODULE MCKeyAgreement ---------------------------
(* A group of order 11 in which the odd exponents have the even y, and a   *)
(* few functions for the cipher.                                           *)
EXTENDS KeyAgreement

MCEvenY == {1, 3, 5, 7, 9}

\* Where in a stream the number for a kind and a place is.
Position(kind, place) == (IF kind = "Funding" THEN 0 ELSE 2) + place

MCStreams ==
  { [s \in Point \X PointKind \X (1 .. 2) |->
       1 + ((a * s[1] + b * Position(s[2], s[3])) % (Q - 1))] : a \in 1 .. 4, b \in 1 .. 4 }
=============================================================================

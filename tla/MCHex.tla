-------------------------------- MODULE MCHex --------------------------------
(* All short texts over the digits at the ends of their ranges and some of *)
(* the characters next to them.                                            *)
EXTENDS Hex

MCText == UNION {[1 .. n -> {47, 48, 57, 65, 70, 71, 97, 102}] : n \in 0 .. 5}
=============================================================================

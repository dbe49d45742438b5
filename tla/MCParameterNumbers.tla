------------------------- MODULE MCParameterNumbers -------------------------
(* Three-bit and five-bit integers in place of 32 and 64 bits.             *)
EXTENDS ParameterNumbers

(* NA, the integers around it and the greatest, and two beyond.            *)
MCNumber == {-4, -3, -1, 2, 3, 4, 7}

(* Floats with two significant bits: integers up to 4, then even ones to   *)
(* 8, and a tie goes to the multiple of 4.                                 *)
MCAsFloat(x) ==
  IF x \in -4..4 \/ x % 2 = 0 THEN x ELSE CHOOSE y \in {x - 1, x + 1} : y % 4 = 0
MCDefault == [n \in Names \cup MetaNames |-> 1]
============================================================================

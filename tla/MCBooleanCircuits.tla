-------------------------- MODULE MCBooleanCircuits --------------------------
EXTENDS BooleanCircuits, TLC

Symmetry == Permutations(Secret)

(* The negations of one and two bits and the double modulo four; and       *)
(* tables with missing, negative, large and just too large entries, with a *)
(* length that is no power of two, and longer than q.                      *)
MCTable ==
  {<<1, 0>>, <<3, 2, 1, 0>>, <<0, 2, 0, 2>>} \cup
  {<<NA, 1>>, <<0, -1>>, <<8, 1>>, <<2, 1>>, <<0, 1, 4, 3>>, <<0, 1, 0>>, [i \in 1..16 |-> 15]}
============================================================================

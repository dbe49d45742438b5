--------------------------- MODULE MCCiphertextOps ---------------------------
(* Two slots over the integers modulo 3, decrypted to -1, 0 and 1.         *)
EXTENDS CiphertextOps, Integers, TLC

Slots == 0..1
Vectors == [Slots -> -1..1]
Centred(n) == ((n + 4) % 3) - 1

MCPlus(f, g) == [i \in Slots |-> Centred(f[i] + g[i])]
MCMinus(f, g) == [i \in Slots |-> Centred(f[i] - g[i])]
MCTimes(f, g) == [i \in Slots |-> Centred(f[i] * g[i])]
MCNegative(f) == [i \in Slots |-> Centred(-f[i])]
MCRot(k, f) == [i \in Slots |-> f[(i + k) % 2]]
MCWindowSum(b, f) == IF b = 1 THEN f ELSE [i \in Slots |-> Centred(f[0] + f[1])]

Operands == {[i \in Slots |-> i - 1], [i \in Slots |-> -1]}
Symmetry == Permutations(Obj) \cup Permutations(Var)
============================================================================

--------------------------- MODULE BooleanCircuits ---------------------------
(***************************************************************************)
(* Boolean circuits of openfhe.R (R/binfhe.R, src/binfhe_bindings.cpp): a  *)
(* context that holds the bootstrapping keys of one secret, gates over two *)
(* ciphertexts or a list, and functions given as lookup tables, which the  *)
(* binding checks and expands from one entry per message to one entry per  *)
(* residue of the inner ciphertext modulus.                                *)
(*                                                                         *)
(* The scheme is the library's: a ciphertext is a value at a plaintext     *)
(* modulus, and noise when a bootstrapping did not fit it.  Conversions to *)
(* fixed-width integers are modelled as done; table entries are whole      *)
(* numbers or NA.  Every context is one of the kind its operations need    *)
(* (arb_func, log_q), and so is the output form of every ciphertext.       *)
(***************************************************************************)
EXTENDS Integers, Sequences, FiniteSets

CONSTANTS
  Secret,    \* secrets of bin_key_gen()
  NoSecret,  \* a context without bootstrapping keys
  Modulus,   \* plaintext moduli given to bin_encrypt()
  Message,   \* messages given to bin_encrypt()
  Table,     \* tables given to eval_func(): sequences of whole numbers and NA
  NA,        \* R's missing value
  Q,         \* the inner LWE modulus
  Word,      \* how many values a NativeInteger has (2^64)
  Spread,    \* how far a ciphertext's phase may be above its value's
  Noise,     \* the value of a ciphertext that decrypts to noise
  MaxCts     \* bound: how many ciphertexts are held

ASSUME SecretAssumption == NoSecret \notin Secret
ASSUME NumberAssumption ==
  /\ Q \in Nat \ {0} /\ Word \in Nat /\ Word >= Q /\ Spread \in Nat /\ MaxCts \in Nat
  /\ Modulus \subseteq Nat \ {0} /\ Message \subseteq Nat
ASSUME QAssumption ==  \* q is a power of two
  \A n \in 1..Q : (\E k \in 0..n : 2^k = n) => n * (Q \div n) = Q
ASSUME TableAssumption == \A t \in Table : t \in Seq(Int \cup {NA})
ASSUME SentinelAssumption == Noise \notin Int /\ NA \notin Int

VARIABLES
  keys,   \* the secret whose bootstrapping keys the context holds
  cts,    \* the ciphertexts R holds
  table   \* history: the last table eval_func() worked with

vars == <<keys, cts, table>>

(* sk: the secret its owner decrypts with; val at p: what comes out then.  *)
(* means and tidy are history: what the same circuit gives on plain        *)
(* messages, and whether every step of it followed the documentation, with *)
(* the keys of sk in the context.                                          *)
Ciphertexts ==
  [sk : Secret, p : Nat \ {0}, val : Nat \cup {Noise}, means : Nat, tidy : BOOLEAN]

Init ==
  /\ keys = NoSecret
  /\ cts = {}
  /\ table = <<>>

Hold(c) ==
  /\ Cardinality(cts \cup {c}) <= MaxCts
  /\ cts' = cts \cup {c}
  /\ UNCHANGED keys

(* The result of an operation on ciphertexts of s: noise if the keys in    *)
(* the context are another secret's.                                       *)
Result(s, p, val, means, tidy) ==
  [sk |-> s, p |-> p, val |-> IF keys = s THEN val ELSE Noise,
   means |-> IF tidy /\ keys = s THEN means ELSE 0, tidy |-> tidy /\ keys = s]
----------------------------------------------------------------------------
(* bin_bt_key_gen(ctx, sk): replaces the keys the context holds.           *)
BinBTKeyGen(s) ==
  /\ keys' = s
  /\ UNCHANGED <<cts, table>>

(* bin_encrypt(ctx, sk, message, p = p)                                    *)
BinEncrypt(s, m, p) ==
  /\ Hold([sk |-> s, p |-> p, val |-> m % p,
           means |-> IF m < p THEN m ELSE 0, tidy |-> m < p])
  /\ UNCHANGED table

(* bin_decrypt(ctx, sk, ct, p = p) with the ciphertext's own p             *)
BinDecrypt(s, c) == IF s = c.sk THEN c.val ELSE Noise

Drop(c) == cts' = cts \ {c} /\ UNCHANGED <<keys, table>>
----------------------------------------------------------------------------
Count(v) == Cardinality({i \in DOMAIN v : v[i] = 1})
Truth(b) == IF b THEN 1 ELSE 0

(* The gates: the number of inputs, the modulus at which the inputs must   *)
(* be encrypted, and the truth function by the number of inputs set.       *)
Inputs(gate) == IF gate \in {"MAJORITY", "AND3", "OR3"} THEN 3 ELSE 2
GateModulus(gate) == IF gate \in {"AND3", "OR3"} THEN 6 ELSE 4
Gates == {"OR", "AND", "NOR", "NAND", "XOR", "XNOR", "MAJORITY", "AND3", "OR3"}

Gate(gate, v) ==
  LET n == Count(v) IN
  Truth(CASE gate \in {"OR", "OR3"} -> n > 0
          [] gate \in {"AND", "AND3"} -> n = Inputs(gate)
          [] gate = "NOR" -> n = 0
          [] gate = "NAND" -> n < 2
          [] gate = "XOR" -> n = 1
          [] gate = "XNOR" -> n # 1
          [] gate = "MAJORITY" -> n > 1)

Fits(gate, c) == c.p = GateModulus(gate) /\ c.val \in {0, 1}
OfOne(q) == \A i, j \in DOMAIN q : q[i].sk = q[j].sk
Vals(q) == [i \in DOMAIN q |-> q[i].val]
Plains(q) == [i \in DOMAIN q |-> q[i].means]

(* eval_bin_gate(ctx, gate, ct1, ct2), eval_bin_gate(ctx, gate, list): the *)
(* result is bound to the secret of the first input.                       *)
EvalBinGate(gate, q) ==
  LET val   == IF OfOne(q) /\ \A i \in DOMAIN q : Fits(gate, q[i])
               THEN Gate(gate, Vals(q)) ELSE Noise
      tidy  == /\ OfOne(q)
               /\ \A i \in DOMAIN q : q[i].tidy /\ q[i].p = GateModulus(gate)
                                      /\ q[i].means \in {0, 1}
  IN /\ keys # NoSecret /\ Len(q) = Inputs(gate)
     /\ Hold(Result(q[1].sk, GateModulus(gate), val, Gate(gate, Plains(q)), tidy))
     /\ UNCHANGED table

(* eval_not(ctx, ct): no bootstrapping, so no keys.                        *)
EvalNot(c) ==
  LET tidy == c.tidy /\ c.p = 4 /\ c.means \in {0, 1} IN
  /\ Hold([sk |-> c.sk, p |-> 4,
           val |-> IF c.p = 4 /\ c.val \in {0, 1} THEN 1 - c.val ELSE Noise,
           means |-> IF tidy THEN 1 - c.means ELSE 0, tidy |-> tidy])
  /\ UNCHANGED table

(* eval_sign(ctx, ct): 1 for a value in the upper half, as the tests have  *)
(* it.  The documentation has 0 there (R/binfhe.R:245): what such a step   *)
(* should give is not said, and no circuit with it is tidy.                *)
EvalSign(c) ==
  /\ keys # NoSecret
  /\ Hold(Result(c.sk, 2, IF c.val = Noise THEN Noise ELSE Truth(2 * c.val >= c.p), 0, FALSE))
  /\ UNCHANGED table
----------------------------------------------------------------------------
(* Lookup tables.                                                          *)
PowerOfTwo(n) == \E k \in 0..n : 2^k = n
Scale(n) == Q \div n

(* static_cast<uint64_t>(entry): a missing or negative entry is undefined; *)
(* a build wraps it or clamps it.                                          *)
Unsigned(v, wraps) ==
  IF v = NA THEN IF wraps THEN Word \div 2 ELSE 0
  ELSE IF v < 0 THEN IF wraps THEN v % Word ELSE 0
  ELSE v

(* Mutation: off by one.                                                   *)
Slot_late(i, n) == IF i = 0 THEN 0 ELSE ((i - 1) * n) \div Q

(* The message a residue stands for: idx of the binding.                   *)
Slot(i, n) == (i * n) \div Q

Expand(t, wraps) ==
  [i \in 0..(Q - 1) |-> (Scale(Len(t)) * Unsigned(t[Slot(i, Len(t)) + 1], wraps)) % Word]

(* Mutation: only the last residue's entry is compared with q.             *)
Accepted_last(t, wraps) == PowerOfTwo(Len(t)) /\ Expand(t, wraps)[Q - 1] < Q

(* Mutation: an entry equal to the modulus passes.                         *)
Accepted_atQ(t, wraps) == PowerOfTwo(Len(t)) /\ \A i \in 0..(Q - 1) : Expand(t, wraps)[i] <= Q

Accepted(t, wraps) == PowerOfTwo(Len(t)) /\ \A i \in 0..(Q - 1) : Expand(t, wraps)[i] < Q

(* What EvalFunc() of the library reads: the residue is the value's, moved *)
(* up by what there is of noise.                                           *)
Residue(c, e) == (c.val * Scale(c.p) + e) % Q

Looked(t, wraps, c, e) ==
  IF c.val = Noise THEN Noise
  ELSE IF Scale(Len(t)) = 0 THEN 0
  ELSE Expand(t, wraps)[Residue(c, e)] \div Scale(Len(t))

(* What the documentation asks of a table for messages at p: one entry for *)
(* each message, in Z_p, and room for the noise.                           *)
TableFor(t, p) ==
  /\ Len(t) = p /\ Scale(p) * p = Q /\ Spread < Scale(p)
  /\ \A i \in DOMAIN t : t[i] \in 0..(p - 1)

(* eval_func(ctx, ct, lut)                                                 *)
EvalFunc(c, t, wraps, e) ==
  LET tidy == c.tidy /\ TableFor(t, c.p) IN
  /\ keys # NoSecret /\ Accepted(t, wraps)
  /\ Hold(Result(c.sk, Len(t), Looked(t, wraps, c, e),
                 IF tidy THEN t[c.means + 1] ELSE 0, tidy))
  /\ table' = t

Next ==
  \/ \E s \in Secret : BinBTKeyGen(s)
  \/ \E s \in Secret, m \in Message, p \in Modulus : BinEncrypt(s, m, p)
  \/ \E c \in cts : Drop(c) \/ EvalNot(c) \/ EvalSign(c)
  \/ \E gate \in Gates : \E q \in [1..Inputs(gate) -> cts] : EvalBinGate(gate, q)
  \/ \E c \in cts, t \in Table, wraps \in BOOLEAN, e \in 0..Spread : EvalFunc(c, t, wraps, e)

Spec == Init /\ [][Next]_vars
----------------------------------------------------------------------------
TypeOK ==
  /\ keys \in Secret \cup {NoSecret}
  /\ cts \subseteq Ciphertexts
  /\ \A c \in cts : c.val \in 0..(c.p - 1) \cup {Noise}
  /\ table \in Table \cup {<<>>}

(* A circuit that follows the documentation at every step, each with the   *)
(* keys of its secret in the context, decrypts to what it computes on      *)
(* plain messages: however deep, whatever mix of gates and tables, for any *)
(* noise within the spread, on any build, and also when the context was    *)
(* given another secret's keys between two steps or after the last.        *)
CircuitsDecrypt == \A c \in cts : c.tidy => BinDecrypt(c.sk, c) = c.means

(* eval_func() works with no table that has an entry outside Z_p, provided *)
(* the table is no longer than q and its entries are whole numbers small   *)
(* enough for the product with the scale not to wrap.                      *)
WholeTable(t) ==
  /\ t # <<>> /\ Scale(Len(t)) > 0
  /\ \A i \in DOMAIN t : t[i] \in Nat /\ Scale(Len(t)) * t[i] < Word

TablesInRange ==
  WholeTable(table) => \A i \in DOMAIN table : table[i] < Len(table)
============================================================================

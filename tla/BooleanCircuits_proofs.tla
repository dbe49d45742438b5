----------------------- MODULE BooleanCircuits_proofs -----------------------
(***************************************************************************)
(* For every ciphertext modulus, table and number of ciphertexts: lookup   *)
(* tables evaluate the function they list, and circuits of gates and       *)
(* tables decrypt to what they compute on plain messages.                  *)
(***************************************************************************)
EXTENDS BooleanCircuits, TLAPS

(* Division by a symbolic modulus.                                         *)
LEMMA DivExact ==
  \A m \in Nat \ {0}, v \in Nat : \A r \in 0..(m - 1) : (v * m + r) \div m = v
  BY SMTT(60)

LEMMA DivBelow ==
  \A m, n \in Nat \ {0}, x \in Nat : x < n * m => x \div m \in 0..(n - 1)
  BY SMTT(60)

LEMMA ModSmall == \A m \in Nat \ {0} : \A a \in 0..(m - 1) : a % m = a
  BY SMTT(20)

LEMMA ModRange == \A a \in Int, m \in Nat \ {0} : a % m \in 0..(m - 1)
  BY SMTT(20)

LEMMA Product == \A a, b \in Nat : a * b \in Nat
  BY SMTT(20)

LEMMA ProductMonotone == \A a, b, c \in Nat : a <= b => a * c <= b * c
  BY SMTT(30)

(* n slots of Scale(n) residues each make up the modulus.                  *)
Even(n) == n \in Nat \ {0} /\ Scale(n) \in Nat \ {0} /\ n * Scale(n) = Q

(* Residue number e of message v's slot lies below q and stands for v.     *)
LEMMA SlotOfMessage ==
  ASSUME NEW n, Even(n), NEW v \in 0..(n - 1), NEW e \in 0..(Scale(n) - 1)
  PROVE  /\ v * Scale(n) + e \in 0..(Q - 1)
         /\ Slot(v * Scale(n) + e, n) = v
<1> DEFINE s == Scale(n)
<1>1. n \in Nat \ {0} /\ s \in Nat \ {0} /\ n * s = Q
  BY DEF Even
<1> HIDE DEF s
<1>2. v \in Nat /\ e \in Nat /\ v + 1 <= n /\ e + 1 <= s
  BY <1>1 DEF s
<1>3. (v + 1) * s <= n * s /\ (e + 1) * n <= s * n
  BY <1>1, <1>2, ProductMonotone
<1>4. v * s \in Nat /\ e * n \in Nat
  BY <1>1, <1>2, Product
<1>5. (v + 1) * s = v * s + s /\ (e + 1) * n = e * n + n /\ s * n = n * s
  BY <1>1, <1>2, SMTT(30)
<1>6. v * s + e \in 0..(Q - 1)
  BY <1>1, <1>2, <1>3, <1>4, <1>5, NumberAssumption
<1>7. (v * s + e) * n = v * Q + e * n
  <2>1. (v * s + e) * n = (v * s) * n + e * n
    BY <1>1, <1>2, <1>4, SMTT(30)
  <2>2. (v * s) * n = v * (n * s)
    BY <1>1, <1>2, SMTT(30)
  <2> QED BY <2>1, <2>2, <1>1
<1>8. e * n \in 0..(Q - 1)
  BY <1>1, <1>3, <1>4, <1>5, NumberAssumption
<1>9. (v * Q + e * n) \div Q = v
  BY <1>2, <1>8, DivExact, NumberAssumption
<1> QED BY <1>6, <1>7, <1>9 DEF Slot, s

(* The expanded table holds, at every residue of message v's slot, the     *)
(* scaled entry of v, when the product does not wrap.                      *)
LEMMA ExpandAtSlot ==
  ASSUME NEW t, Even(Len(t)), NEW v \in 0..(Len(t) - 1), NEW e \in 0..(Scale(Len(t)) - 1),
         t[v + 1] \in Nat, Scale(Len(t)) * t[v + 1] < Word, NEW wraps \in BOOLEAN
  PROVE  /\ v * Scale(Len(t)) + e \in 0..(Q - 1)
         /\ Expand(t, wraps)[v * Scale(Len(t)) + e] = Scale(Len(t)) * t[v + 1]
<1> DEFINE i == v * Scale(Len(t)) + e
<1>1. i \in 0..(Q - 1) /\ Slot(i, Len(t)) = v
  BY SlotOfMessage
<1>2. Unsigned(t[v + 1], wraps) = t[v + 1]
  BY SentinelAssumption DEF Unsigned
<1>3. Expand(t, wraps)[i] = (Scale(Len(t)) * t[v + 1]) % Word
  BY <1>1, <1>2 DEF Expand
<1>4. Scale(Len(t)) * t[v + 1] \in 0..(Word - 1)
  BY Product, NumberAssumption DEF Even
<1>5. (Scale(Len(t)) * t[v + 1]) % Word = Scale(Len(t)) * t[v + 1]
  BY <1>4, ModSmall, NumberAssumption
<1> QED BY <1>1, <1>3, <1>5

(* An accepted table no longer than q divides it evenly.                   *)
LEMMA AcceptedEven ==
  ASSUME NEW t, t \in Seq(Int \cup {NA}), NEW wraps, Accepted(t, wraps), Scale(Len(t)) # 0
  PROVE  Even(Len(t))
<1>1. Len(t) \in Nat /\ PowerOfTwo(Len(t))
  BY DEF Accepted
<1>2. Len(t) # 0
  <2>1. ASSUME Len(t) = 0 PROVE FALSE
    <3>1. PICK k \in 0..0 : 2^k = 0
      BY <1>1, <2>1 DEF PowerOfTwo
    <3>2. k = 0
      BY <3>1
    <3>3. 2^0 = 0
      BY <3>1, <3>2
    <3> QED BY <3>3, SMT
  <2> QED BY <2>1
<1>3. Scale(Len(t)) \in Nat \ {0}
  BY <1>1, <1>2, NumberAssumption, SMTT(30) DEF Scale
<1>4. Len(t) \in 1..Q
  BY <1>1, <1>2, <1>3, NumberAssumption, SMTT(30) DEF Scale
<1>5. Len(t) * Scale(Len(t)) = Q
  BY <1>1, <1>4, QAssumption DEF PowerOfTwo, Scale
<1> QED BY <1>1, <1>2, <1>3, <1>5 DEF Even
----------------------------------------------------------------------------
(* A ciphertext is typed, holds a value at its modulus, and decrypts to    *)
(* what it means if its circuit is tidy.                                   *)
Sound(c) ==
  /\ c \in Ciphertexts
  /\ c.val \in 0..(c.p - 1) \cup {Noise}
  /\ c.tidy => c.means \in 0..(c.p - 1) /\ c.val = c.means

IInv ==
  /\ keys \in Secret \cup {NoSecret}
  /\ table \in Table \cup {<<>>}
  /\ \A c \in cts : Sound(c)
  /\ TablesInRange

LEMMA InitIInv == Init => IInv
  BY DEF Init, IInv, TablesInRange, WholeTable

(* Keeping one more sound ciphertext.                                      *)
LEMMA HoldKeeps ==
  ASSUME IInv, NEW c, Hold(c), Sound(c), table' \in Table \cup {<<>>}, TablesInRange'
  PROVE  IInv'
<1>1. cts' = cts \cup {c} /\ UNCHANGED keys
  BY DEF Hold
<1>2. \A d \in cts' : Sound(d)'
  BY <1>1 DEF IInv, Sound
<1> QED BY <1>1, <1>2 DEF IInv

LEMMA HoldKeepsTable ==
  ASSUME IInv, NEW c, Hold(c), Sound(c), UNCHANGED table
  PROVE  IInv'
<1>1. TablesInRange' /\ table' \in Table \cup {<<>>}
  BY DEF IInv, TablesInRange, WholeTable
<1> QED BY <1>1, HoldKeeps

(* A result of s is sound if it is what the circuit means when the keys    *)
(* are those of s.                                                         *)
LEMMA ResultSound ==
  ASSUME NEW s \in Secret, NEW p \in Nat \ {0},
         NEW val \in 0..(p - 1) \cup {Noise}, NEW means, NEW tidy \in BOOLEAN,
         tidy => means \in 0..(p - 1) /\ val = means
  PROVE  Sound(Result(s, p, val, means, tidy))
<1> DEFINE r  == Result(s, p, val, means, tidy)
           ok == tidy /\ keys = s
<1>1. r = [sk |-> s, p |-> p, val |-> IF keys = s THEN val ELSE Noise,
           means |-> IF ok THEN means ELSE 0, tidy |-> ok]
  BY DEF Result
<1>2. ok \in BOOLEAN /\ (ok => tidy /\ keys = s)
  OBVIOUS
<1> HIDE DEF r, ok
<1>3. r.sk = s /\ r.p = p /\ r.tidy = ok
      /\ r.val = (IF keys = s THEN val ELSE Noise) /\ r.means = (IF ok THEN means ELSE 0)
  BY <1>1
<1>4. r.val \in 0..(p - 1) \cup {Noise} /\ r.means \in Nat
  BY <1>2, <1>3
<1>5. r \in Ciphertexts
  BY <1>1, <1>2, <1>3, <1>4 DEF Ciphertexts
<1>6. ok => r.means \in 0..(p - 1) /\ r.val = r.means
  BY <1>2, <1>3
<1>7. Sound(r)
  BY <1>3, <1>4, <1>5, <1>6 DEF Sound
<1> QED BY <1>7 DEF r

LEMMA TruthBit == \A b : Truth(b) \in {0, 1}
  BY DEF Truth

LEMMA KeyGenKeeps == ASSUME IInv, NEW s \in Secret, BinBTKeyGen(s) PROVE IInv'
  BY DEF IInv, BinBTKeyGen, Sound, TablesInRange, WholeTable

LEMMA EncryptKeeps ==
  ASSUME IInv, NEW s \in Secret, NEW m \in Message, NEW p \in Modulus, BinEncrypt(s, m, p)
  PROVE  IInv'
<1> DEFINE c == [sk |-> s, p |-> p, val |-> m % p,
                 means |-> IF m < p THEN m ELSE 0, tidy |-> m < p]
<1>1. m \in Nat /\ p \in Nat \ {0}
  BY NumberAssumption
<1>2. m % p \in 0..(p - 1)
  BY <1>1, ModRange
<1>3. m < p => m % p = m
  BY <1>1, ModSmall
<1>4. c \in Ciphertexts
  BY <1>1, <1>2 DEF Ciphertexts
<1>5. Sound(c)
  BY <1>1, <1>2, <1>3, <1>4 DEF Sound
<1> QED BY <1>5, HoldKeepsTable DEF BinEncrypt

LEMMA NotKeeps == ASSUME IInv, NEW c \in cts, EvalNot(c) PROVE IInv'
<1> DEFINE tidy == c.tidy /\ c.p = 4 /\ c.means \in {0, 1}
           d == [sk |-> c.sk, p |-> 4,
                 val |-> IF c.p = 4 /\ c.val \in {0, 1} THEN 1 - c.val ELSE Noise,
                 means |-> IF tidy THEN 1 - c.means ELSE 0, tidy |-> tidy]
<1>1. Sound(c)
  BY DEF IInv
<1>2. d.val \in 0..3 \cup {Noise} /\ d.means \in 0..3 /\ d.tidy \in BOOLEAN
  BY <1>1 DEF Sound, Ciphertexts
<1>3. d \in Ciphertexts
  BY <1>1, <1>2 DEF Sound, Ciphertexts
<1>4. ASSUME d.tidy PROVE d.val = d.means
  BY <1>1, <1>4 DEF Sound
<1>5. Sound(d)
  BY <1>2, <1>3, <1>4 DEF Sound
<1> QED BY <1>5, HoldKeepsTable DEF EvalNot

LEMMA SignKeeps == ASSUME IInv, NEW c \in cts, EvalSign(c) PROVE IInv'
<1> DEFINE val == IF c.val = Noise THEN Noise ELSE Truth(2 * c.val >= c.p)
<1>1. c.sk \in Secret
  BY DEF IInv, Sound, Ciphertexts
<1>2. val \in 0..(2 - 1) \cup {Noise}
  BY TruthBit
<1> DEFINE tidy == FALSE
<1>3. tidy \in BOOLEAN /\ 2 \in Nat \ {0} /\ ~tidy
  OBVIOUS
<1> HIDE DEF val, tidy
<1>4. Sound(Result(c.sk, 2, val, 0, tidy))
  BY <1>1, <1>2, <1>3, ResultSound
<1> QED BY <1>4, HoldKeepsTable DEF EvalSign, val, tidy

LEMMA GateKeeps ==
  ASSUME IInv, NEW gate \in Gates, NEW q \in [1..Inputs(gate) -> cts], EvalBinGate(gate, q)
  PROVE  IInv'
<1> DEFINE m     == GateModulus(gate)
           val   == IF OfOne(q) /\ \A i \in DOMAIN q : Fits(gate, q[i])
                    THEN Gate(gate, Vals(q)) ELSE Noise
           tidy  == /\ OfOne(q)
                    /\ \A i \in DOMAIN q : q[i].tidy /\ q[i].p = m /\ q[i].means \in {0, 1}
           means == Gate(gate, Plains(q))
<1>1. 1 \in DOMAIN q
  BY DEF Inputs
<1>2. \A i \in DOMAIN q : Sound(q[i])
  BY DEF IInv
<1>3. q[1].sk \in Secret
  BY <1>1, <1>2 DEF Sound, Ciphertexts
<1>4. m \in {4, 6}
  BY DEF GateModulus
<1>5. val \in 0..1 \cup {Noise} /\ means \in 0..1
  BY TruthBit DEF Gate
<1>6. ASSUME tidy PROVE val = means
  <2>1. \A i \in DOMAIN q : q[i].sk = q[1].sk
    BY <1>1, <1>6 DEF OfOne
  <2>2. \A i \in DOMAIN q : q[i].val = q[i].means /\ Fits(gate, q[i])
    BY <1>2, <1>6, <2>1 DEF Sound, Fits
  <2>3. Vals(q) = Plains(q)
    BY <2>2 DEF Vals, Plains
  <2> QED BY <1>6, <2>2, <2>3
<1>7. tidy \in BOOLEAN
  OBVIOUS
<1>8. keys # NoSecret /\ Hold(Result(q[1].sk, m, val, means, tidy)) /\ UNCHANGED table
  BY DEF EvalBinGate
<1> HIDE DEF m, val, means, tidy
<1>9. Sound(Result(q[1].sk, m, val, means, tidy))
  BY <1>3, <1>4, <1>5, <1>6, <1>7, <1>8, ResultSound
<1> QED BY <1>8, <1>9, HoldKeepsTable

(* The conversion gives a number, and the expanded table holds numbers.    *)
LEMMA UnsignedInt == \A v \in Int \cup {NA}, wraps \in BOOLEAN : Unsigned(v, wraps) \in Int
<1> SUFFICES ASSUME NEW v \in Int \cup {NA}, NEW wraps \in BOOLEAN
             PROVE  Unsigned(v, wraps) \in Int
  OBVIOUS
<1>1. Word \in Nat \ {0}
  BY NumberAssumption
<1>2. CASE v = NA
  <2>1. Word \div 2 \in Int /\ 0 \in Int
    BY <1>1, SMTT(20)
  <2>2. Unsigned(v, wraps) = (IF wraps THEN Word \div 2 ELSE 0)
    BY <1>2, Zenon DEF Unsigned
  <2> QED BY <2>1, <2>2
<1>3. CASE v # NA /\ v < 0
  <2>1. v % Word \in Int
    BY <1>1, <1>3, ModRange
  <2> QED BY <1>3, <2>1 DEF Unsigned
<1>4. CASE v # NA /\ ~(v < 0)
  BY <1>4 DEF Unsigned
<1> QED BY <1>2, <1>3, <1>4

LEMMA ExpandNat ==
  ASSUME NEW t \in Seq(Int \cup {NA}), Len(t) # 0, Scale(Len(t)) \in Nat,
         NEW wraps \in BOOLEAN, NEW i \in 0..(Q - 1)
  PROVE  Expand(t, wraps)[i] \in Nat
<1> DEFINE n == Len(t)
<1>1. n \in Nat \ {0} /\ Q \in Nat \ {0} /\ Word \in Nat \ {0}
  BY NumberAssumption
<1>2. Slot(i, n) \in 0..(n - 1)
  <2> HIDE DEF n
  <2>1. i * n \in Nat
    BY <1>1, Product
  <2>2. (i + 1) * n <= Q * n
    BY <1>1, ProductMonotone
  <2>3. (i + 1) * n = i * n + n /\ Q * n = n * Q /\ Q * n \in Nat
    BY <1>1, SMTT(30)
  <2>4. i * n < n * Q
    BY <1>1, <2>1, <2>2, <2>3
  <2> QED BY <1>1, <2>1, <2>4, DivBelow DEF Slot
<1>3. t[Slot(i, n) + 1] \in Int \cup {NA}
  BY <1>2
<1> DEFINE u == Unsigned(t[Slot(i, n) + 1], wraps)
<1>4. u \in Int
  BY <1>3, UnsignedInt
<1>5. Expand(t, wraps)[i] = (Scale(n) * u) % Word
  BY DEF Expand
<1> DEFINE x == Scale(n) * u
<1>6. x \in Int
  BY <1>4, SMTT(20)
<1> HIDE DEF x
<1>7. x % Word \in Nat
  BY <1>1, <1>6, ModRange
<1> QED BY <1>5, <1>7 DEF x

(* What an accepted table gives is in the range of its length.             *)
LEMMA LookedRange ==
  ASSUME NEW t \in Table, NEW wraps \in BOOLEAN, Accepted(t, wraps),
         NEW c \in Ciphertexts, NEW e \in 0..Spread
  PROVE  Looked(t, wraps, c, e) \in 0..(Len(t) - 1) \cup {Noise} /\ Len(t) \in Nat \ {0}
<1>1. t \in Seq(Int \cup {NA}) /\ Len(t) \in Nat
  BY TableAssumption
<1>2. Len(t) # 0
  <2>1. ASSUME Len(t) = 0 PROVE FALSE
    <3>1. PICK k \in 0..0 : 2^k = 0
      BY <2>1 DEF Accepted, PowerOfTwo
    <3>2. 2^0 = 0
      BY <3>1
    <3> QED BY <3>2, SMT
  <2> QED BY <2>1
<1>3. CASE c.val = Noise
  BY <1>1, <1>2, <1>3 DEF Looked
<1>4. CASE c.val # Noise /\ Scale(Len(t)) = 0
  BY <1>1, <1>2, <1>4 DEF Looked
<1>5. CASE c.val # Noise /\ Scale(Len(t)) # 0
  <2>1. Even(Len(t))
    BY <1>1, <1>5, AcceptedEven
  <2> DEFINE i == Residue(c, e)
  <2>2. i \in 0..(Q - 1)
    <3>1. c.val \in Nat /\ c.p \in Nat \ {0}
      BY <1>5 DEF Ciphertexts
    <3>2. Scale(c.p) \in Nat
      BY <3>1, NumberAssumption, SMTT(20) DEF Scale
    <3>3. c.val * Scale(c.p) + e \in Int
      BY <3>1, <3>2, Product, NumberAssumption
    <3> QED BY <3>3, ModRange, NumberAssumption DEF Residue
  <2> HIDE DEF i
  <2>3. Expand(t, wraps)[i] < Q
    BY <2>2 DEF Accepted
  <2>4. Expand(t, wraps)[i] \in Nat
    BY <1>1, <1>2, <2>1, <2>2, ExpandNat DEF Even
  <2>5. Expand(t, wraps)[i] \div Scale(Len(t)) \in 0..(Len(t) - 1)
    BY <2>1, <2>3, <2>4, DivBelow DEF Even
  <2> QED BY <1>1, <1>2, <1>5, <2>5 DEF Looked, i
<1> QED BY <1>1, <1>2, <1>3, <1>4, <1>5

(* An accepted table of small whole numbers is a function on Z_n.          *)
LEMMA AcceptedInRange ==
  ASSUME NEW t \in Table, NEW wraps \in BOOLEAN, Accepted(t, wraps), WholeTable(t),
         NEW j \in DOMAIN t
  PROVE  t[j] < Len(t)
<1> DEFINE n == Len(t)  s == Scale(n)
<1>1. t \in Seq(Int \cup {NA})
  BY TableAssumption
<1>2. t[j] \in Nat /\ s * t[j] < Word /\ s # 0
  BY NumberAssumption DEF WholeTable
<1>3. Even(n)
  BY <1>1, <1>2, AcceptedEven
<1>4. j - 1 \in 0..(n - 1) /\ (j - 1) + 1 = j /\ 0 \in 0..(s - 1)
  BY <1>1, <1>3 DEF Even
<1>5. (j - 1) * s + 0 \in 0..(Q - 1) /\ Expand(t, wraps)[(j - 1) * s + 0] = s * t[j]
  BY <1>2, <1>3, <1>4, ExpandAtSlot
<1>6. s * t[j] < Q
  BY <1>5 DEF Accepted
<1>7. n \in Nat \ {0} /\ s \in Nat \ {0} /\ n * s = Q
  BY <1>3 DEF Even
<1> HIDE DEF n, s
<1>8. ASSUME n <= t[j] PROVE FALSE
  <2>1. n * s <= t[j] * s
    BY <1>2, <1>7, <1>8, ProductMonotone
  <2>2. t[j] * s = s * t[j] /\ s * t[j] \in Nat
    BY <1>2, <1>7, SMTT(20)
  <2> QED BY <1>6, <1>7, <2>1, <2>2
<1>9. t[j] < n
  BY <1>2, <1>7, <1>8
<1> QED BY <1>9 DEF n

(* A table for messages at p gives, at a residue of a message's slot, the  *)
(* entry of the message.                                                   *)
LEMMA TableEvaluates ==
  ASSUME NEW t \in Table, NEW wraps \in BOOLEAN, NEW c \in Ciphertexts, TableFor(t, c.p),
         c.val \in 0..(c.p - 1), NEW e \in 0..Spread
  PROVE  Looked(t, wraps, c, e) = t[c.val + 1]
<1> DEFINE n == Len(t)  s == Scale(n)  x == t[c.val + 1]
<1>1. n = c.p /\ s * n = Q /\ Spread < s /\ n \in Nat \ {0}
  BY DEF TableFor, Ciphertexts
<1>2. s \in Nat \ {0}
  BY <1>1, NumberAssumption DEF Scale
<1>3. Even(n)
  BY <1>1, <1>2 DEF Even
<1>4. x \in 0..(n - 1)
  <2>1. c.val + 1 \in DOMAIN t
    BY <1>1, TableAssumption
  <2> QED BY <1>1, <2>1 DEF TableFor
<1>5. e \in 0..(s - 1) /\ c.val \in 0..(n - 1)
  BY <1>1, <1>2, NumberAssumption
<1>6. s * x \in Nat /\ s * x < Word
  <2> HIDE DEF s, x, n
  <2>1. (x + 1) * s <= n * s
    BY <1>1, <1>2, <1>4, ProductMonotone
  <2>2. (x + 1) * s = s * x + s /\ n * s = Q /\ s * x \in Nat
    BY <1>1, <1>2, <1>4, SMTT(30)
  <2> QED BY <1>2, <2>1, <2>2, NumberAssumption
<1>7. c.val * s + e \in 0..(Q - 1) /\ Expand(t, wraps)[c.val * s + e] = s * x
  BY <1>3, <1>4, <1>5, <1>6, ExpandAtSlot
<1>8. Residue(c, e) = c.val * s + e
  BY <1>1, <1>7, ModSmall, NumberAssumption DEF Residue
<1>9. (s * x) \div s = x
  <2> HIDE DEF s, x, n
  <2>1. (x * s + 0) \div s = x
    BY <1>2, <1>4, DivExact
  <2>2. x * s + 0 = s * x
    BY <1>2, <1>4, SMTT(20)
  <2> QED BY <2>1, <2>2
<1>10. c.val # Noise
  BY SentinelAssumption
<1> QED BY <1>2, <1>7, <1>8, <1>9, <1>10 DEF Looked

LEMMA FuncKeeps ==
  ASSUME IInv, NEW c \in cts, NEW t \in Table, NEW wraps \in BOOLEAN, NEW e \in 0..Spread,
         EvalFunc(c, t, wraps, e)
  PROVE  IInv'
<1> DEFINE tidy  == c.tidy /\ TableFor(t, c.p)
           val   == Looked(t, wraps, c, e)
           means == IF tidy THEN t[c.means + 1] ELSE 0
<1>1. Sound(c) /\ c \in Ciphertexts /\ c.sk \in Secret /\ c.p \in Nat \ {0}
  BY DEF IInv, Sound, Ciphertexts
<1>2. keys # NoSecret /\ Accepted(t, wraps) /\ table' = t
      /\ Hold(Result(c.sk, Len(t), val, means, tidy))
  BY DEF EvalFunc
<1>3. val \in 0..(Len(t) - 1) \cup {Noise} /\ Len(t) \in Nat \ {0}
  BY <1>1, <1>2, LookedRange
<1>4. ASSUME tidy PROVE means \in 0..(Len(t) - 1)
  <2>1. c.means \in 0..(c.p - 1) /\ Len(t) = c.p
    BY <1>1, <1>4 DEF Sound, TableFor
  <2>2. c.means + 1 \in DOMAIN t
    BY <1>1, <2>1, TableAssumption
  <2> QED BY <1>4, <2>1, <2>2 DEF TableFor
<1>5. ASSUME tidy PROVE val = means
  <2>1. c.val = c.means /\ c.means \in 0..(c.p - 1)
    BY <1>1, <1>5 DEF Sound
  <2>2. val = t[c.val + 1]
    BY <1>1, <1>5, <2>1, TableEvaluates
  <2> QED BY <1>5, <2>1, <2>2
<1>6. tidy \in BOOLEAN
  BY <1>1 DEF Ciphertexts
<1>7. TablesInRange'
  BY <1>2, AcceptedInRange DEF TablesInRange, WholeTable
<1> HIDE DEF tidy, val, means
<1>8. Sound(Result(c.sk, Len(t), val, means, tidy))
  BY <1>1, <1>2, <1>3, <1>4, <1>5, <1>6, ResultSound
<1> QED BY <1>2, <1>7, <1>8, HoldKeeps

LEMMA NextIInv == IInv /\ [Next]_vars => IInv'
<1> SUFFICES ASSUME IInv, [Next]_vars PROVE IInv'
  OBVIOUS
<1>1. ASSUME NEW s \in Secret, BinBTKeyGen(s) PROVE IInv'
  BY <1>1, KeyGenKeeps
<1>2. ASSUME NEW s \in Secret, NEW m \in Message, NEW p \in Modulus, BinEncrypt(s, m, p)
      PROVE  IInv'
  BY <1>2, EncryptKeeps
<1>3. ASSUME NEW c \in cts, Drop(c) PROVE IInv'
  BY <1>3 DEF Drop, IInv, Sound, TablesInRange, WholeTable
<1>4. ASSUME NEW c \in cts, EvalNot(c) \/ EvalSign(c) PROVE IInv'
  BY <1>4, NotKeeps, SignKeeps
<1>5. ASSUME NEW gate \in Gates, NEW q \in [1..Inputs(gate) -> cts], EvalBinGate(gate, q)
      PROVE  IInv'
  BY <1>5, GateKeeps
<1>6. ASSUME NEW c \in cts, NEW t \in Table, NEW wraps \in BOOLEAN, NEW e \in 0..Spread,
             EvalFunc(c, t, wraps, e)
      PROVE  IInv'
  BY <1>6, FuncKeeps
<1>7. CASE UNCHANGED vars
  BY <1>7 DEF vars, IInv, Sound, TablesInRange, WholeTable
<1>8. CASE Next
  BY <1>8, <1>1, <1>2, <1>3, <1>4, <1>5, <1>6 DEF Next
<1> QED BY <1>7, <1>8

(* The inductive invariant holds in every reachable state.                 *)
THEOREM Invariance == Spec => []IInv
BY InitIInv, NextIInv, PTL DEF Spec

(* Keys, ciphertexts and tables are well typed and values are in the range *)
(* of their plaintext modulus (R/binfhe.R), for every modulus and table.   *)
THEOREM TypeCorrect == Spec => []TypeOK
<1>1. IInv => TypeOK BY DEF IInv, TypeOK, Sound
<1> QED BY <1>1, Invariance, PTL

(* Circuits of gates and lookup tables decrypt to what they compute on     *)
(* plain messages, for every q, every table and every circuit depth.       *)
THEOREM CircuitsCorrect == Spec => []CircuitsDecrypt
<1>1. IInv => CircuitsDecrypt BY DEF IInv, CircuitsDecrypt, Sound, BinDecrypt
<1> QED BY <1>1, Invariance, PTL

(* The range check of eval_func() is exact for whole numbers that do not   *)
(* wrap (src/binfhe_bindings.cpp): an entry equal to n is refused.         *)
THEOREM TablesChecked == Spec => []TablesInRange
<1>1. IInv => TablesInRange BY DEF IInv
<1> QED BY <1>1, Invariance, PTL
=============================================================================

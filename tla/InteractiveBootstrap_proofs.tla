-------------------- MODULE InteractiveBootstrap_proofs --------------------
(***************************************************************************)
(* Theorems about InteractiveBootstrap for any owners, messages and        *)
(* elements: typing, that the halves of a pair stay together, that a       *)
(* refresh takes a call of every owner in its round, and that a round      *)
(* whose calls were made can be finished.                                  *)
(*                                                                         *)
(* What is inductive beside the properties: a pair holds what its call put *)
(* into it (AsReturned), whatever sums it was given to.  What a sum holds  *)
(* is a union over its list, so no induction over lists is needed.         *)
(***************************************************************************)
EXTENDS InteractiveBootstrap, FiniteSetTheorems, SequenceTheorems, TLAPS

AsReturned == \A k \in Called : pairs[k] = PairOf(k)
Shared == Cardinality(owners) >= 2
IInv == TypeOK /\ Shared /\ AsReturned /\ HalvesTogether /\ RefreshTakesAll

LEMMA PairType ==
  ASSUME NEW k \in Calls
  PROVE  /\ PairOf(k) \in Pairs
         /\ PairOf(k)[1] = Half("mask", k) /\ PairOf(k)[2] = Half("share", k)
<1>1. ASSUME NEW r \in {"mask", "share"} PROVE Half(r, k) \in Halves
  BY DEF Half, Halves
<1>2. PairOf(k) = <<Half("mask", k), Half("share", k)>>
  BY DEF PairOf
<1> HIDE DEF Half
<1>3. PairOf(k) \in Pairs
  BY <1>1, <1>2 DEF Pairs
<1> QED BY <1>2, <1>3

(* Pairs in hand are well typed, and so is any sum of them.                *)
LEMMA InHandTyped == TypeOK => InHand \subseteq Pairs
  BY DEF TypeOK, InHand

LEMMA AddedTyped ==
  ASSUME NEW n \in Nat \ {0}, NEW q \in [1..n -> Pairs]
  PROVE  AddPairs(q) \in Pairs
<1>1. ASSUME NEW h \in 1..2 PROVE Added(q, h) \in Halves
  <2>1. 1 \in DOMAIN q /\ \A i \in DOMAIN q : q[i][h] \in Halves
    BY DEF Pairs
  <2>2. \A i \in DOMAIN q : q[i][h].role \in {"mask", "share", "none"} /\ q[i][h].calls \subseteq Calls
    BY <2>1 DEF Halves
  <2> QED BY <2>1, <2>2 DEF Added, Halves
<1> QED BY <1>1 DEF AddPairs, Pairs

(* If the halves of each pair of a list are of the same calls and in       *)
(* order, so are those of the sum.                                         *)
Whole(pair) ==
  /\ pair[1].calls = pair[2].calls /\ pair[1].twice = pair[2].twice
  /\ pair[1].role = "mask" /\ pair[2].role = "share"

LEMMA AddedWhole ==
  ASSUME NEW n \in Nat \ {0}, NEW S, NEW q \in [1..n -> S], \A pair \in S : Whole(pair)
  PROVE  /\ Whole(AddPairs(q))
         /\ \A T : (\A pair \in S : pair[1].calls \subseteq T) => AddPairs(q)[1].calls \subseteq T
<1>1. 1 \in DOMAIN q /\ \A i \in DOMAIN q : Whole(q[i]) /\ q[i] \in S
  OBVIOUS
<1>2. AddPairs(q)[1] = Added(q, 1) /\ AddPairs(q)[2] = Added(q, 2)
  BY DEF AddPairs
<1>3. Added(q, 1).role = "mask" /\ Added(q, 2).role = "share"
  BY <1>1 DEF Added, Whole
<1>4. Added(q, 1).calls = Added(q, 2).calls
  BY <1>1 DEF Added, Whole
<1>5. Added(q, 1).twice = Added(q, 2).twice
  BY <1>1 DEF Added, Whole
<1>6. \A T : (\A pair \in S : pair[1].calls \subseteq T) => Added(q, 1).calls \subseteq T
  BY <1>1 DEF Added
<1> QED BY <1>2, <1>3, <1>4, <1>5, <1>6 DEF Whole

LEMMA HalvesAreWhole ==
  HalvesTogether <=> \A pair \in InHand : Whole(pair) /\ pair[1].calls \subseteq Called
  BY DEF HalvesTogether, Whole
----------------------------------------------------------------------------
LEMMA InvInit == Init => IInv
<1> SUFFICES ASSUME Init PROVE IInv
  OBVIOUS
<1>1. Called = {} /\ InHand = {}
  BY DEF Init, Called, InHand
<1>2. TypeOK
  <2>1. pairs \in [Called -> Pairs]
    BY <1>1 DEF Init, Called
  <2>2. \A c \in cts : c \in Ciphertexts
    BY DEF Init, Ciphertexts
  <2> QED BY <1>1, <2>1, <2>2 DEF Init, TypeOK
<1>3. Shared /\ AsReturned /\ HalvesTogether
  BY <1>1 DEF Init, Shared, AsReturned, HalvesTogether
<1>4. RefreshTakesAll
  BY DEF Init, RefreshTakesAll
<1> QED BY <1>2, <1>3, <1>4 DEF IInv

(* More ciphertexts, of the same elements, take nothing away.              *)
LEMMA AdjustKeeps ==
  ASSUME IInv, NEW ct \in cts, IntMPBootAdjustScale(ct) PROVE IInv'
<1> DEFINE adjusted == [ct EXCEPT !.adjusted = TRUE]
<1>1. /\ cts' = cts \cup {adjusted} /\ UNCHANGED <<owners, elems, pairs, sums>>
      /\ ct \in Ciphertexts
  BY DEF IntMPBootAdjustScale, IInv, TypeOK
<1>2. adjusted \in Ciphertexts /\ adjusted.msg = ct.msg /\ adjusted.elem = ct.elem
  BY <1>1 DEF Ciphertexts
<1>3. TypeOK'
  BY <1>1, <1>2 DEF IInv, TypeOK, Called
<1>4. Shared' /\ AsReturned' /\ HalvesTogether'
  BY <1>1 DEF IInv, Shared, AsReturned, HalvesTogether, Called, InHand
<1>5. RefreshTakesAll'
  <2> SUFFICES ASSUME NEW c \in cts', c.elem # NoElem
               PROVE  \E d \in cts : /\ d.adjusted /\ d.msg = c.msg
                        /\ \A p \in owners : \E k \in Called : k.by = p /\ k.ct = d /\ k.elem = c.elem
    BY <1>1 DEF RefreshTakesAll, Called
  <2>1. PICK b \in cts : b.msg = c.msg /\ b.elem = c.elem
    BY <1>1, <1>2
  <2> QED BY <2>1 DEF IInv, RefreshTakesAll
<1> QED BY <1>3, <1>4, <1>5 DEF IInv

LEMMA DecryptKeeps ==
  ASSUME IInv, NEW k \in [by : owners, ct : cts, elem : elems, try : 1..MaxTries],
         IntMPBootDecrypt(k)
  PROVE  IInv'
<1>1. /\ k \notin Called /\ UNCHANGED <<owners, cts, elems, sums>>
      /\ pairs' = [c \in Called \cup {k} |-> IF c = k THEN PairOf(k) ELSE pairs[c]]
  BY DEF IntMPBootDecrypt, Returns
<1>2. k \in Calls
  BY DEF IInv, TypeOK, Calls
<1>3. Called' = Called \cup {k} /\ \A c \in Called' : pairs'[c] = PairOf(c)
  BY <1>1 DEF Called, IInv, AsReturned
<1>4. Shared' /\ AsReturned'
  BY <1>1, <1>3 DEF AsReturned, Shared, IInv
<1>5. TypeOK'
  <2>1. \A c \in Called' : c \in Calls /\ pairs'[c] \in Pairs
    BY <1>2, <1>3, PairType DEF IInv, TypeOK
  <2>2. pairs' \in [Called' -> Pairs]
    BY <1>1, <1>3, <2>1
  <2> QED BY <1>1, <2>1, <2>2 DEF IInv, TypeOK
<1>6. HalvesTogether'
  <2> SUFFICES ASSUME NEW pair \in InHand'
               PROVE  /\ pair[1].calls = pair[2].calls /\ pair[1].twice = pair[2].twice
                      /\ pair[1].role = "mask" /\ pair[2].role = "share"
                      /\ pair[1].calls \subseteq Called'
    BY DEF HalvesTogether
  <2>1. CASE pair \in sums
    BY <1>3, <2>1 DEF IInv, HalvesTogether, InHand
  <2>2. CASE pair \notin sums
    <3>1. PICK c \in Called' : pair = PairOf(c)
      BY <1>1, <1>3, <2>2 DEF InHand
    <3>2. c \in Calls /\ pair[1] = Half("mask", c) /\ pair[2] = Half("share", c)
      BY <1>5, <3>1, PairType DEF TypeOK
    <3>3. pair[1].calls = {c} /\ pair[2].calls = {c}
      BY <3>2 DEF Half
    <3>4. pair[1].role = "mask" /\ pair[2].role = "share" /\ pair[1].twice = pair[2].twice
      BY <3>2 DEF Half
    <3> QED BY <3>1, <3>3, <3>4
  <2> QED BY <2>1, <2>2
<1>7. RefreshTakesAll'
  BY <1>1, <1>3 DEF IInv, RefreshTakesAll
<1> QED BY <1>4, <1>5, <1>6, <1>7 DEF IInv

LEMMA AddKeeps ==
  ASSUME IInv, NEW q \in Lists, IntMPBootAdd(q) PROVE IInv'
<1>1. sums' = sums \cup {AddPairs(q)} /\ UNCHANGED <<owners, cts, elems, pairs>>
  BY DEF IntMPBootAdd
<1>2. PICK n \in Nat \ {0} : q \in [1..n -> InHand]
  BY DEF Lists
<1>3. TypeOK'
  BY <1>1, <1>2, InHandTyped, AddedTyped DEF IInv, TypeOK, Called
<1>4. Shared' /\ AsReturned' /\ RefreshTakesAll'
  BY <1>1 DEF IInv, Shared, AsReturned, RefreshTakesAll, Called
<1>5. HalvesTogether'
  <2>1. \A pair \in InHand : Whole(pair) /\ pair[1].calls \subseteq Called
    BY HalvesAreWhole DEF IInv
  <2>2. Whole(AddPairs(q)) /\ AddPairs(q)[1].calls \subseteq Called
    BY <1>2, <2>1, AddedWhole
  <2>3. InHand' = InHand \cup {AddPairs(q)} /\ Called' = Called
    BY <1>1 DEF InHand, Called
  <2> QED BY <2>1, <2>2, <2>3 DEF HalvesTogether, Whole
<1> QED BY <1>3, <1>4, <1>5 DEF IInv

(* What cancels is a call of every owner in this round.                    *)
LEMMA RestoredByAll ==
  ASSUME HalvesTogether, NEW pair \in InHand, NEW e, NEW ct, Restores(pair, e, ct)
  PROVE  \A p \in owners : \E k \in Called : k.by = p /\ k.ct = ct /\ k.elem = e
<1> SUFFICES ASSUME NEW p \in owners
             PROVE  \E k \in Called : k.by = p /\ k.ct = ct /\ k.elem = e
  OBVIOUS
<1>1. Cardinality({k \in pair[1].calls : k.by = p}) = 1
  BY DEF Restores
<1>2. {k \in pair[1].calls : k.by = p} # {}
  <2> SUFFICES ASSUME {k \in pair[1].calls : k.by = p} = {} PROVE FALSE
    OBVIOUS
  <2>1. Cardinality({k \in pair[1].calls : k.by = p}) = 0
    BY FS_EmptySet
  <2> QED BY <1>1, <2>1
<1>3. PICK k \in pair[1].calls : k.by = p
  BY <1>2
<1> QED BY <1>3 DEF Restores, HalvesTogether

LEMMA EncryptKeeps ==
  ASSUME IInv, NEW pair \in InHand, NEW e \in elems, NEW ct \in cts,
         IntMPBootEncrypt(pair, e, ct)
  PROVE  IInv'
<1> DEFINE fresh == [msg |-> ct.msg, elem |-> e, adjusted |-> FALSE]
<1>1. /\ cts' = IF Restores(pair, e, ct) THEN cts \cup {fresh} ELSE cts
      /\ UNCHANGED <<owners, elems, pairs, sums>>
  BY DEF IntMPBootEncrypt
<1>2. ct \in Ciphertexts /\ e \in Elem /\ fresh \in Ciphertexts
  BY DEF IInv, TypeOK, Ciphertexts
<1>3. TypeOK'
  BY <1>1, <1>2 DEF IInv, TypeOK, Called
<1>4. Shared' /\ AsReturned' /\ HalvesTogether'
  BY <1>1 DEF IInv, Shared, AsReturned, HalvesTogether, Called, InHand
<1>5. CASE ~Restores(pair, e, ct)
  BY <1>1, <1>3, <1>4, <1>5 DEF IInv, RefreshTakesAll, Called
<1>6. CASE Restores(pair, e, ct)
  <2>1. \A p \in owners : \E k \in Called : k.by = p /\ k.ct = ct /\ k.elem = e
    BY <1>6, RestoredByAll DEF IInv
  <2>2. ct.adjusted
    BY <1>6 DEF Restores
  <2>3. RefreshTakesAll'
    <3> SUFFICES ASSUME NEW c \in cts', c.elem # NoElem
                 PROVE  \E d \in cts' : /\ d.adjusted /\ d.msg = c.msg
                          /\ \A p \in owners : \E k \in Called : k.by = p /\ k.ct = d /\ k.elem = c.elem
      BY <1>1 DEF RefreshTakesAll, Called
    <3>1. CASE c \in cts
      BY <1>1, <3>1 DEF IInv, RefreshTakesAll
    <3>2. CASE c = fresh
      <4>1. c.msg = ct.msg /\ c.elem = e /\ ct \in cts'
        BY <1>1, <3>2
      <4> QED BY <2>1, <2>2, <4>1
    <3> QED BY <1>1, <1>6, <3>1, <3>2
  <2> QED BY <1>3, <1>4, <2>3 DEF IInv
<1> QED BY <1>5, <1>6

LEMMA InvStep == IInv /\ [Next]_vars => IInv'
<1> SUFFICES ASSUME IInv, [Next]_vars PROVE IInv'
  OBVIOUS
<1>1. ASSUME NEW ct \in cts, IntMPBootAdjustScale(ct) PROVE IInv'
  BY <1>1, AdjustKeeps
<1>2. ASSUME NEW e \in Elem, IntMPBootRandomElementGen(e) PROVE IInv'
  BY <1>2 DEF IntMPBootRandomElementGen, IInv, TypeOK, Shared, AsReturned, HalvesTogether,
              RefreshTakesAll, Called, InHand
<1>3. ASSUME NEW k \in [by : owners, ct : cts, elem : elems, try : 1..MaxTries],
             IntMPBootDecrypt(k)
      PROVE  IInv'
  BY <1>3, DecryptKeeps
<1>4. ASSUME NEW q \in Lists, IntMPBootAdd(q) PROVE IInv'
  BY <1>4, AddKeeps
<1>5. ASSUME NEW pair \in InHand, NEW e \in elems, NEW ct \in cts, IntMPBootEncrypt(pair, e, ct)
      PROVE  IInv'
  BY <1>5, EncryptKeeps
<1>6. CASE UNCHANGED vars
  BY <1>6 DEF vars, IInv, TypeOK, Shared, AsReturned, HalvesTogether, RefreshTakesAll, Called, InHand
<1> QED BY <1>1, <1>2, <1>3, <1>4, <1>5, <1>6 DEF Next

(* What the parties exchange is well typed.                                *)
THEOREM TypeCorrect == Spec => []TypeOK
<1>1. IInv => TypeOK
  BY DEF IInv
<1> QED BY <1>1, InvInit, InvStep, PTL DEF Spec

(* However the pairs are added up, their halves are of the same calls.     *)
THEOREM PairsStayWhole == Spec => []HalvesTogether
<1>1. IInv => HalvesTogether
  BY DEF IInv
<1> QED BY <1>1, InvInit, InvStep, PTL DEF Spec

(* A refresh takes a call of every owner of the key in its round.          *)
THEOREM RefreshingTakesAll == Spec => []RefreshTakesAll
<1>1. IInv => RefreshTakesAll
  BY DEF IInv
<1> QED BY <1>1, InvInit, InvStep, PTL DEF Spec

(* What cancels in a sum of whole pairs none of which shares a call.       *)
LEMMA SumOfCalls ==
  ASSUME NEW m \in Nat \ {0}, NEW q, DOMAIN q = 1..m,
         \A i \in 1..m : Whole(q[i]) /\ ~q[i][1].twice,
         \A i, j \in 1..m : i # j => q[i][1].calls \cap q[j][1].calls = {}
  PROVE  /\ Whole(AddPairs(q)) /\ ~AddPairs(q)[1].twice
         /\ AddPairs(q)[1].calls = UNION {q[i][1].calls : i \in 1..m}
<1>2. AddPairs(q)[1] = Added(q, 1) /\ AddPairs(q)[2] = Added(q, 2)
  BY DEF AddPairs
<1>3. Added(q, 1).role = "mask" /\ Added(q, 2).role = "share"
  BY DEF Added, Whole
<1>4. Added(q, 1).calls = Added(q, 2).calls
  BY DEF Added, Whole
<1>5. Added(q, 1).twice = Added(q, 2).twice
  BY DEF Added, Whole
<1>6. ~Added(q, 1).twice
  BY DEF Added
<1>7. Added(q, 1).calls = UNION {q[i][1].calls : i \in 1..m}
  BY DEF Added
<1> QED BY <1>2, <1>3, <1>4, <1>5, <1>6, <1>7 DEF Whole

LEMMA PairWhole ==
  ASSUME NEW k \in Calls
  PROVE  Whole(PairOf(k)) /\ ~PairOf(k)[1].twice /\ PairOf(k)[1].calls = {k}
<1>1. PairOf(k)[1] = Half("mask", k) /\ PairOf(k)[2] = Half("share", k)
  BY PairType
<1>2. \A r : Half(r, k).role = r /\ Half(r, k).calls = {k} /\ Half(r, k).twice = FALSE
  BY DEF Half
<1> HIDE DEF Half
<1>3. PairOf(k)[1].role = "mask" /\ PairOf(k)[1].calls = {k} /\ PairOf(k)[1].twice = FALSE
  BY <1>1, <1>2
<1>4. PairOf(k)[2].role = "share" /\ PairOf(k)[2].calls = {k} /\ PairOf(k)[2].twice = FALSE
  BY <1>1, <1>2
<1> QED BY <1>3, <1>4 DEF Whole

(* A call of every owner, added up with the rest of its round, fits.       *)
LEMMA PickedRestore ==
  ASSUME NEW ct, NEW e, NEW f \in Picks(ct, e), ct.adjusted, NEW pair, Whole(pair),
         ~pair[1].twice, pair[1].calls = {f[p] : p \in owners}
  PROVE  Restores(pair, e, ct)
<1>1. \A k \in pair[1].calls : k.ct = ct /\ k.elem = e
  BY DEF Picks
<1>2. ASSUME NEW p \in owners
      PROVE  Cardinality({k \in pair[1].calls : k.by = p}) = 1
  <2>1. {k \in pair[1].calls : k.by = p} = {f[p]}
    BY DEF Picks
  <2> QED BY <2>1, FS_Singleton
<1> QED BY <1>1, <1>2 DEF Restores, Whole

(* An order of the owners reaches each of them.                            *)
LEMMA OrderReachesAll ==
  ASSUME IsFiniteSet(owners), NEW o \in Orders
  PROVE  {o[i] : i \in DOMAIN o} = owners /\ DOMAIN o = 1..Cardinality(owners)
<1> DEFINE n == Cardinality(owners)
<1>1. n \in Nat
  BY FS_CardinalityType
<1>2. IsFiniteSet(1..n) /\ Cardinality(1..n) = n
  BY <1>1, FS_Interval
<1>3. o \in [1..n -> owners] /\ \A i, j \in 1..n : o[i] = o[j] => i = j
  BY DEF Orders
<1>4. o \in Injection(1..n, owners)
  BY <1>3 DEF Injection, IsInjective
<1>5. o \in Surjection(1..n, owners)
  BY <1>2, <1>4, FS_Injection
<1> QED BY <1>3, <1>5 DEF Surjection

(* The pairs of a round, all at once or a part of them first.              *)
LEMMA RoundFits ==
  ASSUME IInv, NEW ct \in cts, NEW e \in elems, ct.adjusted,
         NEW f \in Picks(ct, e), NEW o \in Orders
  PROVE  LET q == [i \in DOMAIN o |-> pairs[f[o[i]]]] IN
         /\ Restores(AddPairs(q), e, ct)
         /\ \A n \in 1..(Len(q) - 1) : Restores(AddPairs(Split(q, n)), e, ct)
<1> DEFINE N == Cardinality(owners)
           call(i) == f[o[i]]
           q == [i \in DOMAIN o |-> pairs[call(i)]]
           F == {f[p] : p \in owners}
<1>1. IsFiniteSet(owners) /\ N \in Nat /\ N >= 2
  BY PartyAssumption, FS_Subset, FS_CardinalityType DEF IInv, TypeOK, Shared
<1>2. DOMAIN o = 1..N /\ {o[i] : i \in 1..N} = owners
  BY <1>1, OrderReachesAll
<1>3. \A i \in 1..N : o[i] \in owners /\ call(i) \in Called
  BY <1>2 DEF Picks
<1>4. \A i, j \in 1..N : i # j => call(i) # call(j)
  BY <1>2, <1>3 DEF Picks, Orders
<1>5. ASSUME NEW i \in 1..N
      PROVE  /\ Whole(q[i]) /\ ~q[i][1].twice /\ q[i][1].calls = {call(i)}
  <2>1. q[i] = PairOf(call(i)) /\ call(i) \in Calls
    BY <1>2, <1>3 DEF IInv, AsReturned, TypeOK
  <2>2. /\ Whole(PairOf(call(i))) /\ ~PairOf(call(i))[1].twice
        /\ PairOf(call(i))[1].calls = {call(i)}
    BY <2>1, PairWhole
  <2> QED BY <2>1, <2>2
<1>6. {call(i) : i \in 1..N} = F
  BY <1>2
<1>7. DOMAIN q = 1..N /\ q \in Seq({q[i] : i \in 1..N}) /\ Len(q) = N
  BY <1>1, <1>2
<1> HIDE DEF q, call
<1>8. UNION {q[i][1].calls : i \in 1..N} = F
  BY <1>5, <1>6
<1>9. \A i, j \in 1..N : i # j => q[i][1].calls \cap q[j][1].calls = {}
  BY <1>4, <1>5
<1>10. Restores(AddPairs(q), e, ct)
  <2>1. /\ Whole(AddPairs(q)) /\ ~AddPairs(q)[1].twice
        /\ AddPairs(q)[1].calls = UNION {q[i][1].calls : i \in 1..N}
    <3>1. N \in Nat \ {0}
      BY <1>1
    <3>2. \A i \in 1..N : Whole(q[i]) /\ ~q[i][1].twice
      BY <1>5
    <3>3. DOMAIN q = 1..N
      BY <1>7
    <3> HIDE DEF N
    <3> QED BY <1>9, <3>1, <3>2, <3>3, SumOfCalls
  <2> QED BY <1>8, <2>1, PickedRestore
<1>11. ASSUME NEW n \in 1..(N - 1) PROVE Restores(AddPairs(Split(q, n)), e, ct)
  <2> DEFINE a == SubSeq(q, 1, n)
             b == SubSeq(q, n + 1, N)
             s == <<AddPairs(a), AddPairs(b)>>
  <2>1. n \in Nat \ {0} /\ N - n \in Nat \ {0}
    BY <1>1
  <2>2. DOMAIN a = 1..n /\ \A i \in 1..n : a[i] = q[i]
    BY <1>1, <1>7, <2>1, SubSeqProperties
  <2>3. DOMAIN b = 1..(N - n) /\ \A i \in 1..(N - n) : b[i] = q[i + n]
    <3>1. n + 1 \in Int /\ N \in Int /\ \A i \in (n + 1)..N : q[i] \in {q[j] : j \in 1..N}
      BY <1>1, <2>1
    <3>2. /\ b \in Seq({q[j] : j \in 1..N}) /\ Len(b) = N - (n + 1) + 1
          /\ \A i \in 1..(N - (n + 1) + 1) : b[i] = q[(n + 1) + i - 1]
      <4>1. n + 1 <= N
        BY <1>1, <2>1
      <4> HIDE DEF N
      <4> QED BY <3>1, <4>1, SubSeqProperties
    <3> HIDE DEF b
    <3>3. DOMAIN b = 1..(N - n)
      BY <1>1, <2>1, <3>2
    <3>4. ASSUME NEW i \in 1..(N - n) PROVE b[i] = q[i + n]
      <4>1. i \in 1..(N - (n + 1) + 1) /\ (n + 1) + i - 1 = i + n
        BY <1>1, <2>1
      <4> QED BY <3>2, <4>1
    <3> QED BY <3>3, <3>4
  <2> HIDE DEF a, b
  <2>4. /\ Whole(AddPairs(a)) /\ ~AddPairs(a)[1].twice
        /\ AddPairs(a)[1].calls = UNION {a[i][1].calls : i \in 1..n}
    <3>1. \A i \in 1..n : i \in 1..N
      BY <1>1, <2>1
    <3>2. \A i \in 1..n : Whole(a[i]) /\ ~a[i][1].twice
      BY <1>5, <2>2, <3>1
    <3>3. \A i, j \in 1..n : i # j => a[i][1].calls \cap a[j][1].calls = {}
      BY <1>9, <2>2, <3>1
    <3> QED BY <2>1, <2>2, <3>2, <3>3, SumOfCalls
  <2>5. /\ Whole(AddPairs(b)) /\ ~AddPairs(b)[1].twice
        /\ AddPairs(b)[1].calls = UNION {b[i][1].calls : i \in 1..(N - n)}
    <3>1. \A i \in 1..(N - n) : i + n \in 1..N
      BY <1>1, <2>1
    <3>2. \A i \in 1..(N - n) : Whole(b[i]) /\ ~b[i][1].twice
      BY <1>5, <2>3, <3>1
    <3>3. \A i, j \in 1..(N - n) : i # j => b[i][1].calls \cap b[j][1].calls = {}
      BY <1>9, <2>1, <2>3, <3>1
    <3> QED BY <2>1, <2>3, <3>2, <3>3, SumOfCalls
  <2>6. AddPairs(a)[1].calls \cap AddPairs(b)[1].calls = {}
    <3>1. \A i \in 1..n, j \in 1..(N - n) : i \in 1..N /\ j + n \in 1..N /\ i # j + n
      BY <1>1, <2>1
    <3>2. \A i \in 1..n, j \in 1..(N - n) : a[i][1].calls \cap b[j][1].calls = {}
      BY <1>9, <2>2, <2>3, <3>1
    <3> QED BY <2>4, <2>5, <3>2
  <2>7. AddPairs(a)[1].calls \cup AddPairs(b)[1].calls = F
    <3>1. \A i \in 1..N : i \in 1..n \/ (i - n \in 1..(N - n) /\ (i - n) + n = i)
      BY <1>1, <2>1
    <3>2. \A i \in 1..N : q[i][1].calls \subseteq AddPairs(a)[1].calls \cup AddPairs(b)[1].calls
      BY <2>2, <2>3, <2>4, <2>5, <3>1
    <3>3. \A i \in 1..n : a[i][1].calls \subseteq F
      <4>1. \A i \in 1..n : i \in 1..N
        BY <1>1, <2>1
      <4> HIDE DEF F
      <4> QED BY <1>8, <2>2, <4>1
    <3>4. \A i \in 1..(N - n) : i + n \in 1..N
      BY <1>1, <2>1
    <3>5. \A i \in 1..(N - n) : b[i][1].calls \subseteq F
      <4> HIDE DEF F
      <4> QED BY <1>8, <2>3, <3>4
    <3> HIDE DEF F
    <3> QED BY <1>8, <2>4, <2>5, <3>2, <3>3, <3>5
  <2>8. /\ DOMAIN s = 1..2 /\ \A i \in 1..2 : Whole(s[i]) /\ ~s[i][1].twice
        /\ \A i, j \in 1..2 : i # j => s[i][1].calls \cap s[j][1].calls = {}
        /\ UNION {s[i][1].calls : i \in 1..2} = F
    <3>1. s[1] = AddPairs(a) /\ s[2] = AddPairs(b) /\ DOMAIN s = 1..2
      OBVIOUS
    <3> HIDE DEF s, F
    <3>2. \A i \in 1..2 : i = 1 \/ i = 2
      OBVIOUS
    <3>3. \A i \in 1..2 : Whole(s[i]) /\ ~s[i][1].twice
      BY <2>4, <2>5, <3>1, <3>2
    <3>4. \A i, j \in 1..2 : i # j => s[i][1].calls \cap s[j][1].calls = {}
      BY <2>6, <3>1, <3>2
    <3>5. UNION {s[i][1].calls : i \in 1..2} = F
      BY <2>7, <3>1, <3>2
    <3> QED BY <3>1, <3>3, <3>4, <3>5
  <2> HIDE DEF s
  <2>9. /\ Whole(AddPairs(s)) /\ ~AddPairs(s)[1].twice
        /\ AddPairs(s)[1].calls = UNION {s[i][1].calls : i \in 1..2}
    <3>1. 2 \in Nat \ {0}
      OBVIOUS
    <3> QED BY <2>8, <3>1, SumOfCalls
  <2>10. Restores(AddPairs(s), e, ct)
    BY <2>8, <2>9, PickedRestore
  <2> QED BY <1>7, <2>10 DEF Split, s, a, b
<1> QED BY <1>7, <1>10, <1>11 DEF q, call

(* A round whose calls were all made can be finished, whatever happened to *)
(* the pairs before and whichever of an owner's calls is taken.            *)
THEOREM RoundsFinish == Spec => []RoundCompletes
<1>1. IInv => RoundCompletes
  BY RoundFits DEF RoundCompletes
<1> QED BY <1>1, InvInit, InvStep, PTL DEF Spec
----------------------------------------------------------------------------
(* Adjusting the scale leaves the item, and a call on an adjusted          *)
(* ciphertext is one more consent.                                         *)
LEMMA ConsentsOfCall ==
  ASSUME NEW k, k \notin Called,
         pairs' = [c \in Called \cup {k} |-> IF c = k THEN PairOf(k) ELSE pairs[c]]
  PROVE  Agreed' = IF k.ct.adjusted THEN Agreed \cup {<<k.by, Item(k.ct), k.elem>>} ELSE Agreed
<1>1. Called' = Called \cup {k}
  BY DEF Called
<1> QED BY <1>1 DEF Agreed, Item

LEMMA JointStep ==
  ASSUME IInv, [Next]_vars
  PROVE  [Joint!RNext]_Joint!rvars
<1> USE DEF Joint!rvars
<1>1. ASSUME NEW ct \in cts, IntMPBootAdjustScale(ct) PROVE UNCHANGED Joint!rvars
  <2>1. ct \in Ciphertexts /\ Item([ct EXCEPT !.adjusted = TRUE]) = Item(ct)
    BY DEF IInv, TypeOK, Ciphertexts, Item
  <2>2. Known' = Known
    BY <1>1, <2>1 DEF IntMPBootAdjustScale, Known
  <2> QED BY <1>1, <2>2 DEF IntMPBootAdjustScale, Agreed, Called
<1>2. ASSUME NEW e \in Elem, IntMPBootRandomElementGen(e) PROVE UNCHANGED Joint!rvars
  BY <1>2 DEF IntMPBootRandomElementGen, Known, Agreed, Called
<1>3. ASSUME NEW k \in [by : owners, ct : cts, elem : elems, try : 1..MaxTries],
             IntMPBootDecrypt(k)
      PROVE  [Joint!RNext]_Joint!rvars
  <2>1. /\ k.by \in owners /\ Item(k.ct) \in Known /\ k.elem \in Elem
        /\ UNCHANGED <<owners, Known>>
        /\ Agreed' = IF k.ct.adjusted THEN Agreed \cup {<<k.by, Item(k.ct), k.elem>>} ELSE Agreed
    BY <1>3, ConsentsOfCall DEF IntMPBootDecrypt, Returns, IInv, TypeOK, Known
  <2>2. CASE k.ct.adjusted
    <3>1. Joint!Agree(k.by, Item(k.ct), k.elem)
      BY <2>1, <2>2 DEF Joint!Agree
    <3> QED BY <2>1, <3>1 DEF Joint!RNext
  <2> QED BY <2>1, <2>2
<1>4. ASSUME NEW q \in Lists, IntMPBootAdd(q) PROVE UNCHANGED Joint!rvars
  BY <1>4 DEF IntMPBootAdd, Known, Agreed, Called
<1>5. ASSUME NEW pair \in InHand, NEW e \in elems, NEW ct \in cts, IntMPBootEncrypt(pair, e, ct)
      PROVE  [Joint!RNext]_Joint!rvars
  <2>1. UNCHANGED <<owners, Agreed>> /\ Item(ct) \in Known /\ e \in Elem
    BY <1>5 DEF IntMPBootEncrypt, IInv, TypeOK, Agreed, Called, Known
  <2>2. CASE Restores(pair, e, ct)
    <3>1. Known' = Known \cup {[msg |-> Item(ct).msg, elem |-> e]}
      <4>1. cts' = cts \cup {[msg |-> ct.msg, elem |-> e, adjusted |-> FALSE]}
        BY <1>5, <2>2 DEF IntMPBootEncrypt
      <4>2. Item([msg |-> ct.msg, elem |-> e, adjusted |-> FALSE]) = [msg |-> Item(ct).msg, elem |-> e]
        BY DEF Item
      <4> HIDE DEF Item
      <4> QED BY <4>1, <4>2 DEF Known
    <3>2. \A p \in owners : <<p, Item(ct), e>> \in Agreed
      BY <2>2, RestoredByAll DEF IInv, Restores, Agreed
    <3>3. Joint!Refresh(Item(ct), e)
      BY <2>1, <3>1, <3>2 DEF Joint!Refresh
    <3> QED BY <2>1, <3>3 DEF Joint!RNext
  <2> QED BY <1>5, <2>1, <2>2 DEF IntMPBootEncrypt, Known
<1>6. CASE UNCHANGED vars
  BY <1>6 DEF vars, Known, Agreed, Called
<1> QED BY <1>1, <1>2, <1>3, <1>4, <1>5, <1>6 DEF Next

(* The rounds are those of JointRefresh: with a chain of any length, a     *)
(* ciphertext is refreshed only after all its owners consented to it.      *)
THEOREM Implementation == Spec => ImplementsRefresh
<1>1. Init => Joint!RInit
  <2> SUFFICES ASSUME Init PROVE Joint!RInit
    OBVIOUS
  <2>1. Agreed = {}
    BY DEF Init, Agreed, Called
  <2>2. Known = [msg : Msg, elem : {NoElem}]
    <3>1. \A ct \in cts : Item(ct) \in [msg : Msg, elem : {NoElem}]
      BY DEF Init, Item
    <3>2. ASSUME NEW x \in [msg : Msg, elem : {NoElem}] PROVE x \in Known
      <4>1. [msg |-> x.msg, elem |-> x.elem, adjusted |-> FALSE] \in cts
        BY DEF Init
      <4>2. x = [msg |-> x.msg, elem |-> x.elem]
        OBVIOUS
      <4>3. x = Item([msg |-> x.msg, elem |-> x.elem, adjusted |-> FALSE])
        BY <4>2 DEF Item
      <4> QED BY <4>1, <4>3 DEF Known
    <3> QED BY <3>1, <3>2 DEF Known
  <2>3. \E p, q \in owners : p # q
    <3>1. Cardinality({}) = 0 /\ \A p : Cardinality({p}) = 1
      BY FS_EmptySet, FS_Singleton
    <3>2. owners # {}
      BY <3>1 DEF Init
    <3>3. PICK p \in owners : TRUE
      BY <3>2
    <3>4. owners # {p}
      <4> SUFFICES ASSUME owners = {p} PROVE FALSE
        OBVIOUS
      <4>1. Cardinality(owners) = 1
        BY <3>1
      <4> QED BY <4>1 DEF Init
    <3> QED BY <3>3, <3>4
  <2> QED BY <2>1, <2>2, <2>3 DEF Init, Joint!RInit
<1> QED BY <1>1, InvInit, InvStep, JointStep, PTL DEF Spec, ImplementsRefresh, Joint!RSpec
============================================================================

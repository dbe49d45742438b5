------------------------ MODULE CiphertextOps_proofs ------------------------
(***************************************************************************)
(* Proofs about CiphertextOps, for any number of variables and objects and *)
(* any plaintext space that meets the assumptions of the module.           *)
(*                                                                         *)
(* MeaningKept says nothing of products that await relinearization, and so *)
(* is not inductive; Tracked says of them what they will be then.  Nor is  *)
(* Tracked, without PrecomputationFits: the result of a hoisted rotation   *)
(* is what was meant only because the digits fit.  Each call has one of    *)
(* three shapes: it makes a new object (NewTouching), it changes one       *)
(* (Update), or it shares one.  A lemma for each shape asks of the call    *)
(* what the proofs of the single calls then show: that its result is       *)
(* typed, and is what is meant if anything is.                             *)
(***************************************************************************)
EXTENDS CiphertextOps, TLAPS

Tracked == \A v \in Var : meant[v] # Unsaid => Bound(v) /\ Val(v) = meant[v]

IInv == TypeOK /\ Tracked /\ PrecomputationFits

(* A result f with meaning m: typed, and equal if there is a meaning.      *)
Fair(f, m) ==
  /\ f \in Value \cup {Noise} /\ m \in Value \cup {Unsaid}
  /\ m # Unsaid => f = m

LEMMA ContentFacts ==
  ASSUME IInv, NEW x \in Var, Bound(x)
  PROVE  Fair(Val(x), meant[x]) /\ Parts(x) \in 2..MaxParts
BY DEF IInv, TypeOK, Tracked, Fair, Bound, Val, Parts, Contents

LEMMA UnaryFair ==
  ASSUME NEW f, NEW m, NEW g, NEW n, Fair(f, m),
         f \in Value => g \in Value,
         m \in Value => n \in Value,
         f \in Value /\ f = m => g = n
  PROVE  Fair(Computed({f}, g), Said({m}, n))
BY SentinelAssumption DEF Fair, Computed, Said

LEMMA BinaryFair ==
  ASSUME NEW f, NEW m, Fair(f, m), NEW g, NEW n, Fair(g, n), NEW h, NEW k,
         f \in Value /\ g \in Value => h \in Value,
         m \in Value /\ n \in Value => k \in Value,
         f \in Value /\ g \in Value /\ f = m /\ g = n => h = k
  PROVE  Fair(Computed({f, g}, h), Said({m, n}, k))
BY SentinelAssumption DEF Fair, Computed, Said

LEMMA NewKeeps ==
  ASSUME IInv, NEW S, NEW z \in Var, NEW f, NEW m, Fair(f, m),
         NEW n \in 2..MaxParts, NewTouching(S, z, f, n, m)
  PROVE  IInv'
<1> PICK o \in Obj \ InUse, T \in SUBSET S :
      /\ Bind(z, o, [val |-> f, parts |-> n], m)
      /\ digits' = IF digits \notin T /\ \E v \in Var \ {z} : ref[v] = digits
                   THEN digits ELSE NoObj
      /\ Forget(S, z)
  BY DEF NewTouching
<1>1. TypeOK'
  <2>1. [val |-> f, parts |-> n] \in Contents /\ Blank \in Contents
    BY PartsAssumption DEF Fair, Contents, Blank
  <2> QED BY <2>1 DEF IInv, TypeOK, Bind, Forget, Fair
<1>2. ASSUME NEW v \in Var, v # z PROVE ref'[v] = ref[v] /\ meant'[v] = meant[v]
  BY <1>2 DEF IInv, TypeOK, Bind
<1>3. ref'[z] = o /\ meant'[z] = m /\ obj'[o] = [val |-> f, parts |-> n]
  BY DEF IInv, TypeOK, Bind
<1>4. ASSUME NEW v \in Var, v # z, Bound(v) PROVE obj'[ref[v]] = obj[ref[v]]
  BY <1>4 DEF IInv, TypeOK, Bind, Bound, InUse
<1>5. Tracked'
  <2> SUFFICES ASSUME NEW v \in Var, meant'[v] # Unsaid
               PROVE  ref'[v] \in Obj /\ obj'[ref'[v]].val = meant'[v]
    BY DEF Tracked, Bound, Val
  <2>1. CASE v = z BY <2>1, <1>3 DEF Fair
  <2>2. CASE v # z BY <2>2, <1>2, <1>4 DEF IInv, Tracked, Bound, Val
  <2> QED BY <2>1, <2>2
<1>6. PrecomputationFits'
  <2> SUFFICES ASSUME from' # NoVar PROVE ref'[from'] \in Obj /\ digits' = ref'[from']
    BY DEF PrecomputationFits, Bound
  <2>1. from' = from /\ from # z /\ ref[from] \notin S /\ from \in Var
    BY DEF Forget, IInv, TypeOK
  <2>2. Bound(from) /\ digits = ref[from] BY <2>1 DEF IInv, PrecomputationFits
  <2>3. digits' = digits BY <2>1, <2>2
  <2> QED BY <2>1, <2>2, <2>3, <1>2 DEF Bound
<1> QED BY <1>1, <1>5, <1>6 DEF IInv

LEMMA UpdateKeeps ==
  ASSUME IInv, NEW x \in Var, Bound(x), NEW f, NEW m, Fair(f, m),
         NEW n \in 2..MaxParts, Update(x, f, n, m)
  PROVE  IInv'
<1>1. TypeOK'
  <2>1. [val |-> f, parts |-> n] \in Contents BY DEF Fair, Contents
  <2> QED BY <2>1 DEF IInv, TypeOK, Update, Forget, Fair
<1>2. obj'[ref[x]] = [val |-> f, parts |-> n] BY DEF IInv, TypeOK, Update, Bound
<1>3. Tracked'
  <2> SUFFICES ASSUME NEW v \in Var, meant'[v] # Unsaid
               PROVE  ref[v] \in Obj /\ obj'[ref[v]].val = meant'[v]
    BY DEF Tracked, Bound, Val, Update
  <2>1. CASE v = x BY <2>1, <1>2 DEF Fair, Update, Bound, IInv, TypeOK
  <2>2. CASE v # x
    <3>1. ref[v] # ref[x] /\ meant'[v] = meant[v] BY <2>2 DEF Update
    <3>2. Bound(v) /\ Val(v) = meant[v] BY <3>1 DEF IInv, Tracked
    <3>3. obj'[ref[v]] = obj[ref[v]] BY <3>1, <3>2 DEF Update, IInv, TypeOK, Bound
    <3> QED BY <3>1, <3>2, <3>3 DEF Bound, Val
  <2> QED BY <2>1, <2>2
<1>4. PrecomputationFits'
  BY DEF IInv, TypeOK, PrecomputationFits, Update, Forget, Bound
<1> QED BY <1>1, <1>3, <1>4 DEF IInv

LEMMA ShareKeeps == ASSUME IInv, NEW z \in Var, NEW x \in Var, Share(z, x) PROVE IInv'
<1> USE DEF Share
<1>0. ref[x] \in Obj /\ obj[ref[x]] \in Contents /\ Blank \in Contents
  BY PartsAssumption DEF IInv, TypeOK, Bound, Blank, Contents
<1>1. TypeOK' BY <1>0 DEF IInv, TypeOK, Bind
<1>2. ASSUME NEW v \in Var
      PROVE  /\ ref'[v] = IF v = z THEN ref[x] ELSE ref[v]
             /\ meant'[v] = IF v = z THEN meant[x] ELSE meant[v]
             /\ ref'[v] \in Obj => obj'[ref'[v]] = obj[ref'[v]]
  BY <1>0 DEF IInv, TypeOK, Bind
<1>3. Tracked' BY <1>2 DEF IInv, Tracked, Bound, Val
<1>4. PrecomputationFits'
  <2> SUFFICES ASSUME from' # NoVar PROVE ref'[from'] \in Obj /\ digits' = ref'[from']
    BY DEF PrecomputationFits, Bound
  <2>1. from' = from /\ from \in Var /\ Bound(from) /\ digits = ref[from]
        /\ (from = z => ref[x] = ref[z])
    BY DEF IInv, TypeOK, PrecomputationFits
  <2>2. ref'[from] = ref[from] BY <2>1, <1>2
  <2>3. \E v \in (Var \ {z}) \cup {x} : ref[v] = digits BY <2>1
  <2> QED BY <2>1, <2>2, <2>3 DEF Bound
<1> QED BY <1>1, <1>3, <1>4 DEF IInv

LEMMA InitIInv == Init => IInv
BY PartsAssumption
DEF Init, IInv, TypeOK, Tracked, PrecomputationFits, Contents, Blank

(* A unary call and a call with a plaintext, on x.                         *)
LEMMA UnaryCall ==
  ASSUME IInv, NEW z \in Var, NEW x \in Var, Bound(x), NEW g, NEW n,
         NEW k \in 2..MaxParts,
         Val(x) \in Value => g \in Value,
         meant[x] \in Value => n \in Value,
         Val(x) \in Value /\ Val(x) = meant[x] => g = n
  PROVE  /\ New(z, Computed({Val(x)}, g), k, Said({meant[x]}, n)) => IInv'
         /\ Update(x, Computed({Val(x)}, g), k, Said({meant[x]}, n)) => IInv'
<1>1. Fair(Val(x), meant[x]) BY ContentFacts
<1>2. Fair(Computed({Val(x)}, g), Said({meant[x]}, n)) BY <1>1, UnaryFair
<1> QED BY <1>2, NewKeeps, UpdateKeeps DEF New

(* A call of two ciphertexts, x and y.                                     *)
LEMMA BinaryCall ==
  ASSUME IInv, NEW z \in Var, NEW x \in Var, NEW y \in Var, Bound(x), Bound(y),
         NEW g, NEW n, NEW k \in 2..MaxParts, NEW S,
         Val(x) \in Value /\ Val(y) \in Value => g \in Value,
         meant[x] \in Value /\ meant[y] \in Value => n \in Value,
         Val(x) \in Value /\ Val(y) \in Value /\ Val(x) = meant[x] /\ Val(y) = meant[y] => g = n
  PROVE  /\ NewTouching(S, z, Computed({Val(x), Val(y)}, g), k, Said({meant[x], meant[y]}, n)) => IInv'
         /\ Update(x, Computed({Val(x), Val(y)}, g), k, Said({meant[x], meant[y]}, n)) => IInv'
<1>1. Fair(Val(x), meant[x]) /\ Fair(Val(y), meant[y]) BY ContentFacts
<1>2. Fair(Computed({Val(x), Val(y)}, g), Said({meant[x], meant[y]}, n)) BY <1>1, BinaryFair
<1> QED BY <1>2, NewKeeps, UpdateKeeps

LEMMA NoiseKeeps ==
  ASSUME IInv, NEW z \in Var, NEW S, NewTouching(S, z, Noise, 2, Unsaid)
  PROVE  IInv'
<1>1. Fair(Noise, Unsaid) BY DEF Fair
<1> QED BY <1>1, NewKeeps, PartsAssumption

LEMMA MostFacts == ASSUME NEW k \in 2..MaxParts, NEW l \in 2..MaxParts PROVE Most(k, l) \in 2..MaxParts
BY DEF Most

(* Calls with a plaintext operand.                                         *)
LEMMA PlainKeeps ==
  ASSUME IInv, NEW z \in Var, NEW x \in Var, NEW p \in Plain,
         \/ Encrypt(z, p) \/ EvalAddPlain(z, x, p) \/ EvalSubPlain(z, x, p)
         \/ EvalMultPlain(z, x, p) \/ EvalPlainFirst(z, p, x)
         \/ EvalAddPlainInPlace(x, p) \/ EvalSubPlainInPlace(x, p) \/ EvalMultPlainInPlace(x, p)
  PROVE  IInv'
<1>0. p \in Value BY PlainAssumption
<1>1. CASE Encrypt(z, p)
  <2>1. Fair(p, p) BY <1>0 DEF Fair
  <2> QED BY <1>1, <2>1, NewKeeps, PartsAssumption DEF Encrypt, New
<1>2. CASE EvalAddPlain(z, x, p)
  BY <1>0, <1>2, ContentFacts, UnaryCall, ClosureAssumption DEF EvalAddPlain
<1>3. CASE EvalSubPlain(z, x, p)
  BY <1>0, <1>3, ContentFacts, UnaryCall, ClosureAssumption DEF EvalSubPlain
<1>4. CASE EvalMultPlain(z, x, p)
  BY <1>0, <1>4, ContentFacts, UnaryCall, ClosureAssumption DEF EvalMultPlain
<1>5. CASE EvalPlainFirst(z, p, x)
  <2>0. Bound(x) /\ Parts(x) \in 2..MaxParts BY <1>5, ContentFacts DEF EvalPlainFirst
  <2>1. CASE New(z, Computed({Val(x)}, Plus(Val(x), p)), Parts(x),
                 Said({meant[x]}, Plus(p, meant[x])))
    BY <1>0, <2>0, <2>1, UnaryCall, ClosureAssumption, RingAssumption
  <2>2. CASE New(z, Computed({Val(x)}, Negative(Minus(Val(x), p))), Parts(x),
                 Said({meant[x]}, Minus(p, meant[x])))
    BY <1>0, <2>0, <2>2, UnaryCall, ClosureAssumption, RingAssumption
  <2>3. CASE New(z, Computed({Val(x)}, Times(Val(x), p)), Parts(x),
                 Said({meant[x]}, Times(p, meant[x])))
    BY <1>0, <2>0, <2>3, UnaryCall, ClosureAssumption, RingAssumption
  <2> QED BY <1>5, <2>1, <2>2, <2>3 DEF EvalPlainFirst
<1>6. CASE EvalAddPlainInPlace(x, p)
  BY <1>0, <1>6, ContentFacts, UnaryCall, ClosureAssumption DEF EvalAddPlainInPlace
<1>7. CASE EvalSubPlainInPlace(x, p)
  BY <1>0, <1>7, ContentFacts, UnaryCall, ClosureAssumption DEF EvalSubPlainInPlace
<1>8. CASE EvalMultPlainInPlace(x, p)
  BY <1>0, <1>8, ContentFacts, UnaryCall, ClosureAssumption DEF EvalMultPlainInPlace
<1> QED BY <1>1, <1>2, <1>3, <1>4, <1>5, <1>6, <1>7, <1>8

(* Calls with one ciphertext operand.                                      *)
LEMMA UnaryKeeps ==
  ASSUME IInv, NEW z \in Var, NEW x \in Var,
         \/ EvalNegate(z, x) \/ Relinearize(z, x) \/ Reduce(z, x) \/ EvalNegateInPlace(x)
         \/ \E k \in Index : EvalRotate(z, x, k) \/ EvalFastRotation(z, x, k)
         \/ \E k \in Index, first \in BOOLEAN : EvalFastRotationExt(z, x, k, first)
         \/ \E b \in Batch : EvalSum(z, x, b)
  PROVE  IInv'
<1>0. Bound(x) /\ Fair(Val(x), meant[x]) /\ Parts(x) \in 2..MaxParts /\ 2 \in 2..MaxParts
  BY ContentFacts, PartsAssumption
  DEF EvalNegate, Relinearize, Reduce, EvalRotate, EvalSum, EvalNegateInPlace, EvalFastRotation,
      EvalFastRotationExt
<1>1. CASE EvalNegate(z, x)
  BY <1>0, <1>1, UnaryCall, ClosureAssumption DEF EvalNegate
<1>2. CASE Relinearize(z, x) BY <1>0, <1>2, NewKeeps DEF Relinearize, New
<1>3. CASE Reduce(z, x) BY <1>0, <1>3, NewKeeps DEF Reduce, New
<1>4. ASSUME NEW k \in Index, EvalRotate(z, x, k) PROVE IInv'
  <2>1. CASE Parts(x) = 2
    BY <1>0, <1>4, <2>1, UnaryCall, ClosureAssumption DEF EvalRotate
  <2> QED BY <1>4, <2>1, NoiseKeeps DEF EvalRotate, New
<1>5. ASSUME NEW b \in Batch, EvalSum(z, x, b) PROVE IInv'
  <2>1. CASE Parts(x) = 2
    BY <1>0, <1>5, <2>1, UnaryCall, ClosureAssumption DEF EvalSum
  <2> QED BY <1>5, <2>1, NoiseKeeps DEF EvalSum, New
<1>6. CASE EvalNegateInPlace(x)
  BY <1>0, <1>6, UnaryCall, ClosureAssumption DEF EvalNegateInPlace
<1>7. ASSUME NEW k \in Index PROVE Fair(Hoisted(x, k), HoistedSaid(x, k))
  <2>1. Fair(Computed({Val(x)}, Rot(k, Val(x))), Said({meant[x]}, Rot(k, meant[x])))
    BY <1>0, UnaryFair, ClosureAssumption
  <2>2. from = x => digits = ref[x]
    BY SentinelAssumption DEF IInv, PrecomputationFits
  <2> QED BY <2>1, <2>2 DEF Hoisted, HoistedSaid, Fair
<1>8. ASSUME NEW k \in Index, EvalFastRotation(z, x, k) PROVE IInv'
  BY <1>0, <1>7, <1>8, NewKeeps DEF EvalFastRotation, New
<1>9. ASSUME NEW k \in Index, NEW first \in BOOLEAN, EvalFastRotationExt(z, x, k, first)
      PROVE IInv'
  <2>1. CASE first
    BY <1>0, <1>7, <1>9, <2>1, NewKeeps DEF EvalFastRotationExt, KeySwitchDown, New
  <2>2. CASE ~first
    <3>1. PICK f \in {Noise, Hoisted(x, k)} : NewTouching({}, z, f, 2, Unsaid)
      BY <1>9, <2>2 DEF EvalFastRotationExt, KeySwitchDown, New
    <3>2. Fair(f, Unsaid)
      BY <1>7, <3>1 DEF Fair
    <3> QED BY <1>0, <3>1, <3>2, NewKeeps
  <2> QED BY <2>1, <2>2
<1> QED BY <1>1, <1>2, <1>3, <1>4, <1>5, <1>6, <1>8, <1>9

(* Calls with two ciphertext operands.                                     *)
LEMMA BinaryKeeps ==
  ASSUME IInv, NEW z \in Var, NEW x \in Var, NEW y \in Var,
         \/ EvalAdd(z, x, y) \/ EvalSub(z, x, y) \/ EvalMult(z, x, y)
         \/ EvalMultNoRelin(z, x, y) \/ EvalMultAndRelinearize(z, x, y)
         \/ EvalAddMutable(z, x, y) \/ EvalSubMutable(z, x, y) \/ EvalMultMutable(z, x, y)
         \/ EvalAddInPlace(x, y) \/ EvalSubInPlace(x, y)
  PROVE  IInv'
<1>0. Bound(x) /\ Bound(y)
  BY DEF EvalAdd, EvalSub, EvalMult, EvalMultNoRelin, EvalMultAndRelinearize,
         EvalAddMutable, EvalSubMutable, EvalMultMutable, EvalAddInPlace, EvalSubInPlace
<1>1. Parts(x) \in 2..MaxParts /\ Parts(y) \in 2..MaxParts /\ 2 \in 2..MaxParts
      /\ Most(Parts(x), Parts(y)) \in 2..MaxParts
  BY <1>0, ContentFacts, MostFacts, PartsAssumption
<1> USE DEF New
<1>2. CASE EvalAdd(z, x, y) \/ EvalAddMutable(z, x, y) \/ EvalAddInPlace(x, y)
  BY <1>0, <1>1, <1>2, BinaryCall, ClosureAssumption DEF EvalAdd, EvalAddMutable, EvalAddInPlace
<1>3. CASE EvalSub(z, x, y) \/ EvalSubMutable(z, x, y) \/ EvalSubInPlace(x, y)
  BY <1>0, <1>1, <1>3, BinaryCall, ClosureAssumption DEF EvalSub, EvalSubMutable, EvalSubInPlace
<1>4. CASE EvalMult(z, x, y) \/ EvalMultMutable(z, x, y)
  <2>1. CASE TwoParts(x, y)
    BY <1>0, <1>1, <1>4, <2>1, BinaryCall, ClosureAssumption DEF EvalMult, EvalMultMutable
  <2> QED BY <1>4, <2>1, NoiseKeeps DEF EvalMult, EvalMultMutable
<1>5. CASE EvalMultNoRelin(z, x, y)
  <2>1. Parts(x) + Parts(y) - 1 \in 2..MaxParts
    BY <1>1, <1>5, PartsAssumption DEF EvalMultNoRelin
  <2> QED BY <1>0, <1>5, <2>1, BinaryCall, ClosureAssumption DEF EvalMultNoRelin
<1>6. CASE EvalMultAndRelinearize(z, x, y)
  BY <1>0, <1>1, <1>6, BinaryCall, ClosureAssumption DEF EvalMultAndRelinearize
<1> QED BY <1>2, <1>3, <1>4, <1>5, <1>6

LEMMA NextIInv == IInv /\ [Next]_vars => IInv'
<1> SUFFICES ASSUME IInv, [Next]_vars PROVE IInv'
  OBVIOUS
<1>1. ASSUME NEW z \in Var, NEW x \in Var, NEW p \in Plain,
             \/ Encrypt(z, p) \/ EvalAddPlain(z, x, p) \/ EvalSubPlain(z, x, p)
             \/ EvalMultPlain(z, x, p) \/ EvalPlainFirst(z, p, x)
             \/ EvalAddPlainInPlace(x, p) \/ EvalSubPlainInPlace(x, p)
             \/ EvalMultPlainInPlace(x, p)
      PROVE  IInv'
  BY <1>1, PlainKeeps
<1>2. ASSUME NEW z \in Var, NEW x \in Var, Share(z, x) PROVE IInv'
  BY <1>2, ShareKeeps
<1>3. ASSUME NEW z \in Var, NEW x \in Var,
             \/ EvalNegate(z, x) \/ Relinearize(z, x) \/ Reduce(z, x) \/ EvalNegateInPlace(x)
             \/ \E k \in Index : EvalRotate(z, x, k) \/ EvalFastRotation(z, x, k)
             \/ \E b \in Batch : EvalSum(z, x, b)
      PROVE  IInv'
  BY <1>3, UnaryKeeps
<1>4. ASSUME NEW z \in Var, NEW x \in Var, NEW y \in Var,
             \/ EvalAdd(z, x, y) \/ EvalSub(z, x, y) \/ EvalMult(z, x, y)
             \/ EvalMultNoRelin(z, x, y) \/ EvalMultAndRelinearize(z, x, y)
             \/ EvalAddMutable(z, x, y) \/ EvalSubMutable(z, x, y) \/ EvalMultMutable(z, x, y)
             \/ EvalAddInPlace(x, y) \/ EvalSubInPlace(x, y)
      PROVE  IInv'
  BY <1>4, BinaryKeeps
<1>5. ASSUME NEW x \in Var, ReduceInPlace(x) PROVE IInv'
  BY <1>5 DEF ReduceInPlace, IInv, TypeOK, Tracked, PrecomputationFits, Bound, Val, Forget
<1>6. ASSUME NEW x \in Var, EvalFastRotationPrecompute(x) PROVE IInv'
  BY <1>6 DEF EvalFastRotationPrecompute, IInv, TypeOK, Tracked, PrecomputationFits, Bound, Val
<1>7. CASE UNCHANGED vars
  BY <1>7 DEF vars, IInv, TypeOK, Tracked, PrecomputationFits, Bound, Val
<1>8. ASSUME NEW z \in Var, NEW x \in Var, NEW k \in Index, NEW first \in BOOLEAN,
             EvalFastRotationExt(z, x, k, first)
      PROVE IInv'
  BY <1>8, UnaryKeeps
<1>9. ASSUME NEW z \in Var, NEW x \in Var, EvalSquare(z, x) PROVE IInv'
  BY <1>9, <1>4 DEF EvalSquare
<1>10. CASE Next
  BY <1>10, <1>1, <1>2, <1>3, <1>4, <1>5, <1>6, <1>8, <1>9 DEF Next
<1> QED BY <1>7, <1>10

(* The inductive invariant holds in every reachable state.                 *)
THEOREM Invariance == Spec => []IInv
BY InitIInv, NextIInv, PTL DEF Spec

(* Every variable, object and precomputation is well typed, in every       *)
(* reachable state (R/methods-eval.R, R/methods-eval-extra.R).             *)
THEOREM TypeCorrect == Spec => []TypeOK
<1>1. IInv => TypeOK BY DEF IInv
<1> QED BY <1>1, Invariance, PTL

(* A variable decrypts to what its calls mean, over any plaintext space    *)
(* and for any number of variables that share ciphertexts.                 *)
THEOREM ValuesAsWritten == Spec => []MeaningKept
<1>1. IInv => MeaningKept BY DEF IInv, Tracked, MeaningKept
<1> QED BY <1>1, Invariance, PTL

(* Digits stay fit for the variable they were made from until its          *)
(* ciphertext is named in an in-place or mutable call.                     *)
THEOREM DigitsStayFit == Spec => []PrecomputationFits
<1>1. IInv => PrecomputationFits BY DEF IInv
<1> QED BY <1>1, Invariance, PTL
----------------------------------------------------------------------------
(* What OperandsUntouched says of one step.                                *)
Untouched ==
  ref' # ref => \A v \in Var : Bound(v) /\ ref'[v] = ref[v] => obj'[ref[v]] = obj[ref[v]]

LEMMA NewLeaves ==
  ASSUME IInv, NEW S, NEW z \in Var, NEW f, NEW n, NEW m, NewTouching(S, z, f, n, m)
  PROVE  Untouched
<1>1. PICK o \in Obj \ InUse : Bind(z, o, [val |-> f, parts |-> n], m)
  BY DEF NewTouching
<1>2. SUFFICES ASSUME NEW v \in Var, Bound(v), ref'[v] = ref[v]
               PROVE  obj'[ref[v]] = obj[ref[v]]
  BY DEF Untouched
<1>3. ref[v] \in InUse /\ ref[v] # o
  BY <1>2 DEF Bound, InUse
<1>4. v # z
  BY <1>1, <1>2, <1>3 DEF Bind, IInv, TypeOK
<1>5. ref[v] \in {IF w = z THEN o ELSE ref[w] : w \in Var}
  BY <1>4
<1> QED BY <1>1, <1>2, <1>3, <1>5 DEF Bind, Bound

LEMMA ShareLeaves ==
  ASSUME IInv, NEW z \in Var, NEW x \in Var, Share(z, x)
  PROVE  Untouched
<1>1. Bind(z, ref[x], obj[ref[x]], meant[x])
  BY DEF Share
<1>2. SUFFICES ASSUME NEW v \in Var, Bound(v), ref'[v] = ref[v]
               PROVE  obj'[ref[v]] = obj[ref[v]]
  BY DEF Untouched
<1>3. CASE v = z
  BY <1>1, <1>2, <1>3 DEF Bind, Bound, IInv, TypeOK
<1>4. CASE v # z
  <2>1. ref[v] \in {IF w = z THEN ref[x] ELSE ref[w] : w \in Var}
    BY <1>4
  <2> QED BY <1>1, <1>2, <2>1 DEF Bind, Bound
<1> QED BY <1>3, <1>4

(* No call that binds its result changes what a ciphertext that some       *)
(* variable keeps decrypts to.                                             *)
THEOREM OperandsStay == Spec => OperandsUntouched
<1>1. IInv /\ [Next]_vars => Untouched
  <2> SUFFICES ASSUME IInv, [Next]_vars PROVE Untouched
    OBVIOUS
  <2> USE NewLeaves
  <2>1. ASSUME NEW z \in Var, NEW x \in Var, NEW p \in Plain,
               \/ Encrypt(z, p) \/ EvalAddPlain(z, x, p) \/ EvalSubPlain(z, x, p)
               \/ EvalMultPlain(z, x, p) \/ EvalPlainFirst(z, p, x)
        PROVE  Untouched
    BY <2>1 DEF Encrypt, EvalAddPlain, EvalSubPlain, EvalMultPlain, EvalPlainFirst, New
  <2>2. ASSUME NEW z \in Var, NEW x \in Var,
               EvalNegate(z, x) \/ Relinearize(z, x) \/ Reduce(z, x)
        PROVE  Untouched
    BY <2>2 DEF EvalNegate, Relinearize, Reduce, New
  <2>3. ASSUME NEW z \in Var, NEW x \in Var, NEW k \in Index,
               \/ EvalRotate(z, x, k) \/ EvalFastRotation(z, x, k)
               \/ \E first \in BOOLEAN : EvalFastRotationExt(z, x, k, first)
        PROVE  Untouched
    BY <2>3 DEF EvalRotate, EvalFastRotation, EvalFastRotationExt, KeySwitchDown, New
  <2>4. ASSUME NEW z \in Var, NEW x \in Var, NEW b \in Batch, EvalSum(z, x, b)
        PROVE  Untouched
    BY <2>4 DEF EvalSum, New
  <2>5. ASSUME NEW z \in Var, NEW x \in Var, NEW y \in Var,
               \/ EvalAdd(z, x, y) \/ EvalSub(z, x, y) \/ EvalMult(z, x, y)
               \/ EvalMultNoRelin(z, x, y) \/ EvalMultAndRelinearize(z, x, y)
        PROVE  Untouched
    BY <2>5 DEF EvalAdd, EvalSub, EvalMult, EvalMultNoRelin, EvalMultAndRelinearize, New
  <2>6. ASSUME NEW z \in Var, NEW x \in Var, NEW y \in Var,
               EvalAddMutable(z, x, y) \/ EvalSubMutable(z, x, y) \/ EvalMultMutable(z, x, y)
        PROVE  Untouched
    BY <2>6 DEF EvalAddMutable, EvalSubMutable, EvalMultMutable
  <2>7. ASSUME NEW z \in Var, NEW x \in Var, Share(z, x) PROVE Untouched
    BY <2>7, ShareLeaves
  <2>8. CASE UNCHANGED ref
    BY <2>8 DEF Untouched
  <2>9. ASSUME NEW x \in Var, NEW p \in Plain,
               \/ EvalAddPlainInPlace(x, p) \/ EvalSubPlainInPlace(x, p)
               \/ EvalMultPlainInPlace(x, p)
        PROVE  UNCHANGED ref
    BY <2>9 DEF EvalAddPlainInPlace, EvalSubPlainInPlace, EvalMultPlainInPlace, Update
  <2>10. ASSUME NEW x \in Var,
               EvalNegateInPlace(x) \/ ReduceInPlace(x) \/ EvalFastRotationPrecompute(x)
        PROVE  UNCHANGED ref
    BY <2>10 DEF EvalNegateInPlace, ReduceInPlace, EvalFastRotationPrecompute, Update
  <2>11. ASSUME NEW x \in Var, NEW y \in Var, EvalAddInPlace(x, y) \/ EvalSubInPlace(x, y)
         PROVE  UNCHANGED ref
    BY <2>11 DEF EvalAddInPlace, EvalSubInPlace, Update
  <2>12. ASSUME NEW z \in Var, NEW x \in Var, EvalSquare(z, x) PROVE Untouched
    BY <2>12, <2>5 DEF EvalSquare
  <2>13. CASE Next
    BY <2>1, <2>2, <2>3, <2>4, <2>5, <2>6, <2>7, <2>8, <2>9, <2>10, <2>11, <2>12, <2>13
    DEF Next
  <2> QED BY <2>8, <2>13 DEF vars
<1> QED BY <1>1, Invariance, PTL DEF Spec, OperandsUntouched, Untouched
=============================================================================

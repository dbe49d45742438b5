---------------------- MODULE ParameterNumbers_proofs ----------------------
(***************************************************************************)
(* For any two widths: numbers survive the way into the library and back,  *)
(* and what a context with a representable modulus computes can be read.   *)
(***************************************************************************)
EXTENDS ParameterNumbers, TLAPS

(* The facts about remainders that the conversions rest on.                *)
LEMMA ModRange == \A a \in Int, m \in Nat \ {0} : a % m \in 0..(m - 1)
  BY SMTT(20)

LEMMA ModSmall == \A m \in Nat \ {0} : \A a \in 0..(m - 1) : a % m = a
  BY SMTT(20)

LEMMA ModNegative == \A m \in Nat \ {0} : \A a \in (-m)..(-1) : a % m = a + m
  BY SMTT(20)

(* as.integer() gives an R integer, NA or not.                             *)
LEMMA IntegerRange == \A x \in Int : AsInteger(x) \in NA..(Half - 1)
  BY WidthAssumption DEF AsInteger, NA

(* A narrow number comes back from an unsigned field.                      *)
LEMMA NarrowReturns == \A i \in NA..(Half - 1) : Signed(Unsigned(i)) = i
<1> SUFFICES ASSUME NEW i \in NA..(Half - 1) PROVE Signed(Unsigned(i)) = i
  OBVIOUS
<1>1. CASE i >= 0
  <2>1. Unsigned(i) = i
    BY <1>1, ModSmall, WidthAssumption DEF Unsigned, NA
  <2> QED BY <2>1, <1>1, WidthAssumption DEF Signed, NA
<1>2. CASE i < 0
  <2>1. Unsigned(i) = i + 2 * Half
    BY <1>2, ModNegative, WidthAssumption DEF Unsigned, NA
  <2> QED BY <2>1, <1>2, WidthAssumption DEF Signed, NA
<1> QED BY <1>1, <1>2, WidthAssumption DEF NA

(* ... and from the wide field, through the truncation.                    *)
LEMMA WideReturns == \A i \in NA..(Half - 1) : LowHalf(SignedWide(UnsignedWide(i))) = i
<1> SUFFICES ASSUME NEW i \in NA..(Half - 1) PROVE LowHalf(SignedWide(UnsignedWide(i))) = i
  OBVIOUS
<1>1. SignedWide(UnsignedWide(i)) = i
  <2>1. CASE i >= 0
    <3>1. UnsignedWide(i) = i
      BY <2>1, ModSmall, WidthAssumption DEF UnsignedWide, NA
    <3> QED BY <3>1, <2>1, WidthAssumption DEF SignedWide, NA
  <2>2. CASE i < 0
    <3>1. UnsignedWide(i) = i + 2 * Wide
      BY <2>2, ModNegative, WidthAssumption DEF UnsignedWide, NA
    <3> QED BY <3>1, <2>2, WidthAssumption DEF SignedWide, NA
  <2> QED BY <2>1, <2>2, WidthAssumption DEF NA
<1> QED BY <1>1, NarrowReturns DEF LowHalf

LEMMA StoredInt ==
  \A t \in Schemes, n \in Names, x \in Number : Stored(t, n, x) \in Int
<1> SUFFICES ASSUME NEW t \in Schemes, NEW n \in Names, NEW x \in Number
             PROVE  Stored(t, n, x) \in Int
  OBVIOUS
<1>0. x \in Int /\ AsFloat(x) \in Int
  BY NumberAssumption
<1>1. AsInteger(x) \in Int
  BY <1>0, IntegerRange, WidthAssumption DEF NA
<1>2. 2 * Half \in Nat \ {0} /\ 2 * Wide \in Nat \ {0}
  BY WidthAssumption
<1>3. Unsigned(AsInteger(x)) \in 0..(2 * Half - 1)
  BY <1>1, <1>2, ModRange DEF Unsigned
<1>4. UnsignedWide(AsInteger(x)) \in 0..(2 * Wide - 1)
  BY <1>1, <1>2, ModRange DEF UnsignedWide
<1> QED BY <1>0, <1>3, <1>4 DEF Stored, BFVStored, BGVStored, CKKSStored, Schemes

(* What reading a field returns after its setter, scheme by scheme; CKKS   *)
(* has no setter of the modulus.                                           *)
LEMMA RoundTrip ==
  \A t \in Schemes, n \in Names, x \in Int :
    n \in ArgNames(t) => Read(t, n, Stored(t, n, x)) = Converted(n, x)
<1> SUFFICES ASSUME NEW t \in Schemes, NEW n \in Names, NEW x \in Int, n \in ArgNames(t)
             PROVE  Read(t, n, Stored(t, n, x)) = Converted(n, x)
  OBVIOUS
<1>1. AsInteger(x) \in NA..(Half - 1)
  BY IntegerRange
<1>2. Signed(Unsigned(AsInteger(x))) = AsInteger(x)
  BY <1>1, NarrowReturns
<1>3. LowHalf(SignedWide(UnsignedWide(AsInteger(x)))) = AsInteger(x)
  BY <1>1, WideReturns
<1>4. CASE t = "BFV"
  <2>1. n \notin CountNames \cup {"noise_estimate", "desired_precision"}
    BY <1>4 DEF ArgNames, BFVNames, CommonNames, CountNames
  <2> QED BY <1>2, <1>3, <1>4, <2>1 DEF Read, Stored, BFVRead, BFVStored, Converted, RealNames, CountNames
<1>5. CASE t = "BGV"
  <2>1. n \notin {"noise_estimate", "desired_precision"}
    BY <1>5 DEF ArgNames, BGVNames, CommonNames
  <2> QED BY <1>2, <1>3, <1>5, <2>1 DEF Read, Stored, BGVRead, BGVStored, Converted, RealNames, CountNames
<1>6. CASE t = "CKKS"
  <2>1. n # "plaintext_modulus"
    BY <1>6 DEF ArgNames, CKKSNames, CommonNames
  <2> QED BY <1>2, <1>6, <2>1 DEF Read, Stored, CKKSRead, CKKSStored, Converted, RealNames, CountNames
<1> QED BY <1>4, <1>5, <1>6 DEF Schemes
----------------------------------------------------------------------------
(* The fields of a parameter object are those its constructor leaves, and  *)
(* a context has the same.  The value of a packed plaintext went through   *)
(* the coercion and the encoder, and metadata through its setters.         *)
Metadata(o) == \A n \in MetaNames : \E x \in Int : o.field[n] = StoredMeta(n, x)

Made ==
  /\ params # None => /\ params.arg \in Number /\ params.name \in Names
                      /\ params.field = Fields(params.scheme, params.name, params.arg)
  /\ cc # None => /\ cc.arg \in Number /\ cc.name \in Names
                  /\ cc.field = Fields(cc.scheme, cc.name, cc.arg)
  /\ \E i \in NA..(Half - 1) : keyLevel = UnsignedWide(i)
  /\ pt # None => /\ pt.arg \in Number /\ pt.value = AsInteger(pt.arg)
                  /\ Magnitude(pt.value) < Modulus
  /\ plain # None => Metadata(plain)
  /\ cipher # None => Metadata(cipher)

IInv == TypeOK /\ Made

LEMMA ModulusStored ==
  \A t \in Schemes, x \in Int :
    "plaintext_modulus" \in ArgNames(t) =>
      Stored(t, "plaintext_modulus", x) = UnsignedWide(AsInteger(x))
<1> SUFFICES ASSUME NEW t \in Schemes, NEW x \in Int, "plaintext_modulus" \in ArgNames(t)
             PROVE  Stored(t, "plaintext_modulus", x) = UnsignedWide(AsInteger(x))
  OBVIOUS
<1>1. t # "CKKS"
  BY DEF ArgNames, CKKSNames, CommonNames
<1> QED BY <1>1 DEF Schemes, Stored, BFVStored, BGVStored

LEMMA ModulusRange ==
  \A x \in Int : UnsignedWide(AsInteger(x)) > 1 =>
                   UnsignedWide(AsInteger(x)) \in 2..(2 * Wide - 1)
<1> SUFFICES ASSUME NEW x \in Int, UnsignedWide(AsInteger(x)) > 1
             PROVE UnsignedWide(AsInteger(x)) \in 2..(2 * Wide - 1)
  OBVIOUS
<1>1. AsInteger(x) \in Int
  BY IntegerRange, WidthAssumption DEF NA
<1>2. 2 * Wide \in Nat \ {0}
  BY WidthAssumption
<1>3. UnsignedWide(AsInteger(x)) \in 0..(2 * Wide - 1)
  BY <1>1, <1>2, ModRange DEF UnsignedWide
<1> QED BY <1>3, WidthAssumption

LEMMA FieldsTyped ==
  \A t \in Schemes, n \in Names, x \in Number : Fields(t, n, x) \in [Names -> Int]
  BY StoredInt, DefaultAssumption DEF Fields

LEMMA NewKeeps ==
  ASSUME NEW s \in Schemes, NEW n \in Names, NEW x \in Number, New(s, n, x), IInv
  PROVE  IInv'
<1>1. Fields(s, n, x) \in [Names -> Int]
  BY FieldsTyped
<1> QED BY <1>1 DEF New, Nothing, Packs, IInv, TypeOK, Made

LEMMA WideRange == \A i \in NA..(Half - 1) : UnsignedWide(i) \in 0..(2 * Wide - 1)
  BY ModRange, WidthAssumption DEF UnsignedWide, NA

LEMMA NoLevel ==
  0 \in 0..(2 * Wide - 1) /\ \E i \in NA..(Half - 1) : 0 = UnsignedWide(i)
<1>1. 0 \in NA..(Half - 1) /\ 0 \in 0..(2 * Wide - 1) /\ 2 * Wide \in Nat \ {0}
  BY WidthAssumption DEF NA
<1>2. UnsignedWide(0) = 0
  BY <1>1, ModSmall DEF UnsignedWide
<1> QED BY <1>1, <1>2

LEMMA ContextKeeps ==
  ASSUME IInv, NEW s \in Schemes, NEW n \in Names, NEW x \in Number, FheContext(s, n, x)
  PROVE  IInv'
<1>1. x \in Int /\ Fields(s, n, x) \in [Names -> Int]
  BY NumberAssumption, FieldsTyped
<1>2. keyLevel' = keyLevel
  BY DEF FheContext
<1>3. ASSUME n = "plaintext_modulus"
      PROVE  Fields(s, n, x)["plaintext_modulus"] \in 2..(2 * Wide - 1)
  <2>1. Stored(s, n, x) = UnsignedWide(AsInteger(x)) /\ Stored(s, n, x) > 1
    BY <1>1, <1>3, ModulusStored DEF FheContext
  <2>2. UnsignedWide(AsInteger(x)) \in 2..(2 * Wide - 1)
    BY <1>1, <2>1, ModulusRange
  <2> QED BY <1>3, <2>1, <2>2 DEF Fields
<1>4. cc' = [scheme |-> s, name |-> n, arg |-> x, field |-> Fields(s, n, x)]
  BY DEF FheContext
<1>5. params' = None /\ pt' = None /\ ct' = None /\ plain' = None /\ cipher' = None
  BY DEF FheContext, Nothing
<1>6. cc'.scheme = s /\ cc'.name = n /\ cc'.arg = x /\ cc'.field = Fields(s, n, x)
  BY <1>4
<1>7. n \in ArgNames(s)
  BY DEF FheContext
<1>8. TypeOK'
  <2>1. Packs' => Modulus' \in 2..(2 * Wide - 1)
    BY <1>3, <1>6 DEF Packs, Modulus
  <2> QED BY <1>1, <1>2, <1>5, <1>6, <1>7, <2>1 DEF TypeOK, IInv
<1>9. Made'
  BY <1>2, <1>5, <1>6 DEF Made, IInv
<1> QED BY <1>8, <1>9 DEF IInv

(* A setter leaves the other fields, and its own holds a stored number.    *)
LEMMA PutKeeps ==
  ASSUME NEW o, o.field \in [MetaNames -> Int], Metadata(o), NEW n \in MetaNames, NEW x \in Int
  PROVE  /\ Put(o, n, x).field \in [MetaNames -> Int] /\ Put(o, n, x).set \in BOOLEAN
         /\ Metadata(Put(o, n, x))
<1>1. StoredMeta(n, x) \in Int
  <2>1. AsInteger(x) \in Int
    BY IntegerRange, WidthAssumption DEF NA
  <2>2. Unsigned(AsInteger(x)) \in Int /\ UnsignedWide(AsInteger(x)) \in Int
    <3>1. 2 * Half \in Nat \ {0} /\ 2 * Wide \in Nat \ {0}
      BY WidthAssumption
    <3>2. AsInteger(x) % (2 * Half) \in 0..(2 * Half - 1)
      BY <2>1, <3>1, ModRange
    <3>3. AsInteger(x) % (2 * Wide) \in 0..(2 * Wide - 1)
      BY <2>1, <3>1, ModRange
    <3> QED BY <3>2, <3>3 DEF Unsigned, UnsignedWide
  <2> QED BY <2>2 DEF StoredMeta
<1>2. Put(o, n, x).field = [o.field EXCEPT ![n] = StoredMeta(n, x)] /\ Put(o, n, x).set = TRUE
  BY DEF Put
<1>3. \A m \in MetaNames : Put(o, n, x).field[m] = IF m = n THEN StoredMeta(n, x) ELSE o.field[m]
  BY <1>2
<1>4. Put(o, n, x).field \in [MetaNames -> Int]
  BY <1>1, <1>2
<1>5. Metadata(Put(o, n, x))
  BY <1>3 DEF Metadata
<1> QED BY <1>2, <1>4, <1>5

(* Metadata nobody set.                                                    *)
LEMMA FreshStored == \A n \in MetaNames : Default[n] \in Int /\ Default[n] = StoredMeta(n, Default[n])
<1> SUFFICES ASSUME NEW n \in MetaNames PROVE Default[n] \in Int /\ Default[n] = StoredMeta(n, Default[n])
  OBVIOUS
<1>1. Default[n] \in 0..(Half - 1)
  BY FreshAssumption
<1>2. AsInteger(Default[n]) = Default[n]
  BY <1>1, WidthAssumption DEF AsInteger, NA
<1>3. Unsigned(Default[n]) = Default[n] /\ UnsignedWide(Default[n]) = Default[n]
  <2>1. 2 * Half \in Nat \ {0} /\ 2 * Wide \in Nat \ {0}
    BY WidthAssumption
  <2>2. Default[n] \in 0..(2 * Half - 1) /\ Default[n] \in 0..(2 * Wide - 1)
    BY <1>1, WidthAssumption
  <2>3. Default[n] % (2 * Half) = Default[n] /\ Default[n] % (2 * Wide) = Default[n]
    BY <2>1, <2>2, ModSmall
  <2> QED BY <2>3 DEF Unsigned, UnsignedWide
<1> QED BY <1>1, <1>2, <1>3, WidthAssumption DEF StoredMeta

LEMMA SlotsKeep ==
  ASSUME IInv, UNCHANGED <<params, cc, keyLevel, plain, cipher>>,
         pt' # None => /\ Packs /\ pt'.arg \in Number /\ pt'.value = AsInteger(pt'.arg)
                       /\ Magnitude(pt'.value) < Modulus,
         ct' # None => Packs /\ ct' \in 0..(Modulus - 1)
  PROVE  IInv'
<1>1. Packs' = Packs /\ Modulus' = Modulus
  BY DEF Packs, Modulus
<1>2. pt' # None => pt'.value \in NA..(Half - 1)
  BY NumberAssumption, IntegerRange
<1> QED BY <1>1, <1>2 DEF IInv, TypeOK, Made

THEOREM Invariance == Spec => []IInv
<1>1. Init => IInv
  BY NoLevel DEF Init, Nothing, Packs, IInv, TypeOK, Made
<1>2. IInv /\ [Next]_vars => IInv'
  <2> SUFFICES ASSUME IInv, [Next]_vars PROVE IInv'
    OBVIOUS
  <2>1. ASSUME NEW n \in Names, NEW x \in Number,
               BFVParams(n, x) \/ BGVParams(n, x) \/ CKKSParams(n, x)
        PROVE IInv'
    BY <2>1, NewKeeps DEF BFVParams, BGVParams, CKKSParams, Schemes
  <2>2. ASSUME NEW s \in Schemes, NEW n \in Names, NEW x \in Number, FheContext(s, n, x)
        PROVE IInv'
    BY <2>2, ContextKeeps
  <2>3. ASSUME NEW x \in Number, SetKeyGenLevel(x) PROVE IInv'
    <3>1. AsInteger(x) \in NA..(Half - 1)
      BY NumberAssumption, IntegerRange
    <3>2. keyLevel' = UnsignedWide(AsInteger(x)) /\ keyLevel' \in 0..(2 * Wide - 1)
      BY <2>3, <3>1, WideRange DEF SetKeyGenLevel
    <3> QED BY <2>3, <3>1, <3>2 DEF SetKeyGenLevel, IInv, TypeOK, Made, Packs, Modulus
  <2>4. ASSUME NEW x \in Number, MakePackedPlaintext(x) PROVE IInv'
    <3>1. pt'.arg = x /\ pt'.value = AsInteger(x)
      BY <2>4 DEF MakePackedPlaintext
    <3> QED BY <2>4, <3>1, SlotsKeep DEF MakePackedPlaintext, IInv, TypeOK
  <2>5. CASE Encrypt
    <3>1. Packs /\ pt.value \in Int /\ Modulus \in Nat \ {0}
      BY <2>5, WidthAssumption DEF Encrypt, IInv, TypeOK, NA
    <3>2. ct' \in 0..(Modulus - 1)
      BY <2>5, <3>1, ModRange DEF Encrypt
    <3> QED BY <2>5, <3>1, <3>2, SlotsKeep DEF Encrypt, IInv, TypeOK, Made
  <2>6. CASE EvalPlain
    <3>1. Packs /\ ct \in Int /\ pt.value \in Int /\ Modulus \in Nat \ {0}
      BY <2>6, WidthAssumption DEF EvalPlain, IInv, TypeOK, NA
    <3>2. ct + pt.value \in Int /\ ct - pt.value \in Int /\ ct * pt.value \in Int
      BY <3>1
    <3>3. PICK v \in Int : ct' = v % Modulus
      BY <2>6, <3>2 DEF EvalPlain
    <3>4. ct' \in 0..(Modulus - 1)
      BY <3>1, <3>3, ModRange
    <3> QED BY <2>6, <3>1, <3>4, SlotsKeep DEF EvalPlain, IInv, TypeOK, Made
  <2>7. CASE MakePlaintext
    <3>1. plain'.field = [n \in MetaNames |-> Default[n]] /\ plain'.set = FALSE
      BY <2>7 DEF MakePlaintext
    <3>2. plain'.field \in [MetaNames -> Int]
      BY <3>1, FreshStored
    <3>3. Metadata(plain')
      BY <3>1, FreshStored DEF Metadata
    <3>4. params' = None /\ cc' = None /\ pt' = None /\ ct' = None /\ cipher' = None
      BY <2>7 DEF MakePlaintext, Nothing
    <3>5. keyLevel' = keyLevel /\ ~Packs'
      BY <2>7, <3>4 DEF MakePlaintext, Packs
    <3>6. TypeOK'
      BY <3>1, <3>2, <3>4, <3>5 DEF IInv, TypeOK
    <3>7. Made'
      BY <3>3, <3>4, <3>5 DEF IInv, Made
    <3> QED BY <3>6, <3>7 DEF IInv
  <2>8. CASE EncryptPlaintext
    <3>1. plain # None /\ cipher'.field = plain.field /\ cipher'.set = FALSE
      BY <2>8 DEF EncryptPlaintext
    <3>2. cipher'.field \in [MetaNames -> Int] /\ Metadata(cipher')
      BY <3>1 DEF IInv, TypeOK, Made, Metadata
    <3> QED BY <2>8, <3>1, <3>2 DEF EncryptPlaintext, IInv, TypeOK, Made, Packs, Modulus
  <2>9. ASSUME NEW n \in MetaNames, NEW x \in Number, SetPlaintext(n, x) PROVE IInv'
    <3>1. plain # None /\ plain' = Put(plain, n, x) /\ x \in Int
      BY <2>9, NumberAssumption DEF SetPlaintext
    <3>2. plain.field \in [MetaNames -> Int] /\ Metadata(plain)
      BY <3>1 DEF IInv, TypeOK, Made
    <3>3. plain'.field \in [MetaNames -> Int] /\ plain'.set \in BOOLEAN /\ Metadata(plain')
      BY <3>1, <3>2, PutKeeps
    <3> QED BY <2>9, <3>3 DEF SetPlaintext, IInv, TypeOK, Made, Packs, Modulus
  <2>10. ASSUME NEW n \in MetaNames, NEW x \in Number, SetCiphertext(n, x) PROVE IInv'
    <3>1. cipher # None /\ cipher' = Put(cipher, n, x) /\ x \in Int
      BY <2>10, NumberAssumption DEF SetCiphertext
    <3>2. cipher.field \in [MetaNames -> Int] /\ Metadata(cipher)
      BY <3>1 DEF IInv, TypeOK, Made
    <3>3. cipher'.field \in [MetaNames -> Int] /\ cipher'.set \in BOOLEAN /\ Metadata(cipher')
      BY <3>1, <3>2, PutKeeps
    <3> QED BY <2>10, <3>3 DEF SetCiphertext, IInv, TypeOK, Made, Packs, Modulus
  <2>11. CASE Release
    BY <2>11, NoLevel DEF Release, IInv, TypeOK, Made, Packs
  <2>12. CASE UNCHANGED vars
    BY <2>12 DEF vars, IInv, TypeOK, Made, Packs, Modulus
  <2> QED BY <2>1, <2>2, <2>3, <2>4, <2>5, <2>6, <2>7, <2>8, <2>9, <2>10, <2>11, <2>12 DEF Next
<1> QED BY <1>1, <1>2, PTL DEF Spec

(* Type correctness of the objects the caller holds.                       *)
THEOREM TypeCorrect == Spec => []TypeOK
<1>1. IInv => TypeOK
  BY DEF IInv
<1> QED BY <1>1, Invariance, PTL

(* Every getter returns what the constructor's coercion, and for the       *)
(* standard deviation the float, made of the argument (R/params.R,         *)
(* R/params-getters.R), at any width and however floats are rounded.       *)
THEOREM GettersReadArguments == Spec => []ReadsAsGiven
<1>1. IInv => ReadsAsGiven
  <2> SUFFICES ASSUME IInv, params # None, NEW n \in Names
               PROVE Read(params.scheme, n, params.field[n]) =
                       IF n = params.name THEN Converted(n, params.arg)
                       ELSE Read(params.scheme, n, Default[n])
    BY DEF ReadsAsGiven
  <2>1. /\ params.arg \in Int /\ params.field = Fields(params.scheme, params.name, params.arg)
        /\ params.scheme \in Schemes /\ params.name \in ArgNames(params.scheme)
    BY NumberAssumption DEF IInv, Made, TypeOK
  <2>2. CASE n # params.name
    BY <2>1, <2>2 DEF Fields
  <2>3. CASE n = params.name
    BY <2>1, <2>3, RoundTrip DEF Fields
  <2> QED BY <2>2, <2>3
<1> QED BY <1>1, Invariance, PTL

(* In a context with a representable modulus the encoder's bound is within *)
(* R's integers, so NA and numbers that were coerced to it never pass.     *)
THEOREM NoNAEncoded == Spec => []EncodesAsGiven
<1>1. IInv => EncodesAsGiven
  <2> SUFFICES ASSUME IInv, pt # None, RInteger(cc.arg), cc.arg > 0
               PROVE pt.value = pt.arg /\ GetPackedValue = pt.arg
    BY DEF EncodesAsGiven
  <2>1. cc.arg \in Int /\ pt.arg \in Int
    BY NumberAssumption DEF IInv, TypeOK, Made, Packs
  <2>2. cc.arg \in 1..(Half - 1) /\ AsInteger(cc.arg) = cc.arg
    BY <2>1, WidthAssumption DEF RInteger, AsInteger, NA
  <2>3. Modulus = cc.arg
    <3>1. Packs /\ cc.name \in Names /\ cc.scheme \in Schemes /\ cc.name \in ArgNames(cc.scheme)
      BY DEF IInv, TypeOK, Made, Packs
    <3>2. Modulus = UnsignedWide(AsInteger(cc.arg))
      BY <2>1, <3>1, ModulusStored DEF IInv, TypeOK, Made, Packs, Modulus, Fields
    <3>3. cc.arg \in 0..(2 * Wide - 1) /\ 2 * Wide \in Nat \ {0}
      BY <2>2, WidthAssumption
    <3>4. cc.arg % (2 * Wide) = cc.arg
      BY <3>3, ModSmall
    <3> QED BY <2>2, <3>2, <3>4 DEF UnsignedWide
  <2>4. AsInteger(pt.arg) # NA
    BY <2>2, <2>3, WidthAssumption DEF IInv, Made, Magnitude, NA
  <2>5. pt.value = pt.arg
    BY <2>4 DEF IInv, Made, AsInteger
  <2>6. pt.value \in NA..(Half - 1)
    BY DEF IInv, TypeOK
  <2>7. LowHalf(pt.value) = pt.value
    BY <2>6, NarrowReturns DEF LowHalf
  <2> QED BY <2>5, <2>7 DEF GetPackedValue
<1> QED BY <1>1, Invariance, PTL

(* A decrypted slot lies within half the modulus, which is within R's      *)
(* integers: the cast in get_packed_value() loses nothing.                 *)
THEOREM SlotsReadBack == Spec => []DecryptsToSlot
<1>1. IInv => DecryptsToSlot
  <2> SUFFICES ASSUME IInv, ct # None, RInteger(cc.arg), cc.arg > 0
               PROVE /\ Decrypted # NA
                     /\ Decrypted % Modulus = ct
                     /\ 2 * Magnitude(Decrypted) <= Modulus
                     /\ Decrypted \in LowBound..HighBound
    BY DEF DecryptsToSlot
  <2>1. cc.arg \in Int
    BY NumberAssumption DEF IInv, TypeOK, Made, Packs
  <2>2. cc.arg \in 1..(Half - 1) /\ AsInteger(cc.arg) = cc.arg
    BY <2>1, WidthAssumption DEF RInteger, AsInteger, NA
  <2>3. Modulus = cc.arg /\ Modulus \in Nat \ {0}
    <3>1. Packs /\ cc.name \in Names /\ cc.scheme \in Schemes /\ cc.name \in ArgNames(cc.scheme)
      BY DEF IInv, TypeOK, Made, Packs
    <3>2. Modulus = UnsignedWide(AsInteger(cc.arg))
      BY <2>1, <3>1, ModulusStored DEF IInv, TypeOK, Made, Packs, Modulus, Fields
    <3>3. cc.arg \in 0..(2 * Wide - 1) /\ 2 * Wide \in Nat \ {0}
      BY <2>2, WidthAssumption
    <3>4. cc.arg % (2 * Wide) = cc.arg
      BY <3>3, ModSmall
    <3> QED BY <2>2, <3>2, <3>4 DEF UnsignedWide
  <2>4. ct \in 0..(Modulus - 1)
    BY DEF IInv, TypeOK
  <2> DEFINE c == Centred(ct, Modulus)
  <2>5. c \in Int /\ 2 * Magnitude(c) <= Modulus
    BY <2>3, <2>4 DEF Centred, Magnitude
  <2>6. c \in (NA + 1)..(Half - 1)
    BY <2>2, <2>3, <2>5, WidthAssumption DEF Magnitude, NA
  <2>7. Decrypted = c
    BY <2>6, NarrowReturns, WidthAssumption DEF Decrypted, LowHalf, NA
  <2>8. c % Modulus = ct
    <3>1. CASE c = ct
      BY <3>1, <2>3, <2>4, ModSmall
    <3>2. CASE c = ct - Modulus /\ c < 0
      BY <3>2, <2>3, <2>4, ModNegative
    <3> QED BY <3>1, <3>2, <2>3, <2>4 DEF Centred
  <2>9. LowBound = -(Modulus \div 2) - (Modulus % 2) /\ HighBound = Modulus \div 2
    <3>1. Modulus \div 2 \in 0..(Half - 1) /\ (-(Modulus \div 2) - (Modulus % 2)) \in NA..(Half - 1)
      BY <2>2, <2>3, WidthAssumption DEF NA
    <3> QED BY <3>1, NarrowReturns, WidthAssumption DEF LowBound, HighBound, LowHalf, NA
  <2>10. c \in (-(Modulus \div 2) - (Modulus % 2))..(Modulus \div 2)
    BY <2>3, <2>5 DEF Magnitude
  <2> QED BY <2>5, <2>6, <2>7, <2>8, <2>9, <2>10, WidthAssumption DEF NA
<1> QED BY <1>1, Invariance, PTL

(* The getters of a context agree with those of the parameter object, in   *)
(* spite of their own casts and fields (src/pke_cryptocontext_getters.cpp).*)
THEOREM ContextsAgree == Spec => []ContextAgrees
<1>1. IInv => ContextAgrees
  <2> SUFFICES ASSUME IInv, cc # None, NEW n \in ContextNames(cc.scheme)
               PROVE  ContextRead(cc, n) = Read(cc.scheme, n, Fields(cc.scheme, cc.name, cc.arg)[n])
    BY DEF ContextAgrees
  <2>1. cc.field = Fields(cc.scheme, cc.name, cc.arg) /\ cc.scheme \in Schemes
    BY DEF IInv, TypeOK, Made
  <2>2. n \notin CountNames /\ (n \in RealNames <=> n = "noise_estimate")
    BY <2>1 DEF ContextNames, Schemes, CountNames, RealNames
  <2> QED BY <2>1, <2>2
          DEF Schemes, ContextRead, Read, BFVRead, BGVRead, CKKSRead, RealNames
<1> QED BY <1>1, Invariance, PTL

(* What a getter of metadata returned sets the field it came from.         *)
LEMMA MetaReturns ==
  ASSUME NEW n \in MetaNames, NEW u \in Int, \E x \in Int : u = StoredMeta(n, x),
         n = "scaling_factor_int" => u < Half
  PROVE  StoredMeta(n, ReadMeta(n, u)) = u
<1>1. PICK x \in Int : u = StoredMeta(n, x)
  OBVIOUS
<1>2. AsInteger(x) \in NA..(Half - 1)
  BY IntegerRange
<1>3. \A i \in NA..(Half - 1) : AsInteger(i) = i
  BY WidthAssumption DEF AsInteger, NA
<1>4. CASE n = "scaling_factor"
  BY <1>1, <1>4 DEF StoredMeta, ReadMeta, ScaleNames
<1>5. CASE n = "slots"
  BY <1>1, <1>2, <1>3, <1>5, NarrowReturns DEF StoredMeta, ReadMeta, ScaleNames
<1>6. CASE n \in {"level", "noise_scale_deg"}
  BY <1>1, <1>2, <1>3, <1>6, WideReturns DEF StoredMeta, ReadMeta, ScaleNames
<1>7. CASE n = "scaling_factor_int"
  <2>1. u = UnsignedWide(AsInteger(x))
    BY <1>1, <1>7 DEF StoredMeta
  <2>2. u \in 0..(Half - 1)
    BY <1>2, <1>7, <2>1, WideRange, WidthAssumption
  <2>3. AsInteger(u) = u /\ UnsignedWide(u) = u
    BY <2>2, ModSmall, WidthAssumption DEF AsInteger, NA, UnsignedWide
  <2> QED BY <1>7, <2>3 DEF StoredMeta, ReadMeta, ScaleNames
<1> QED BY <1>4, <1>5, <1>6, <1>7 DEF MetaNames, ScaleNames

(* Levels, degrees, slots and scales carry over from object to object.     *)
THEOREM MetadataCarriesOver == Spec => []ValuesCarryOver
<1>1. IInv => ValuesCarryOver
  <2> SUFFICES ASSUME IInv PROVE ValuesCarryOver
    OBVIOUS
  <2>1. ASSUME NEW o \in {plain, cipher} \ {None}, NEW n \in MetaNames,
               n = "scaling_factor_int" => o.field[n] < Half
        PROVE  StoredMeta(n, ReadMeta(n, o.field[n])) = o.field[n]
    <3>1. o.field[n] \in Int /\ \E x \in Int : o.field[n] = StoredMeta(n, x)
      BY DEF IInv, TypeOK, Made, Metadata
    <3> QED BY <2>1, <3>1, MetaReturns
  <2>2. UnsignedWide(AsInteger(GetKeyGenLevel)) = keyLevel
    <3>1. PICK i \in NA..(Half - 1) : keyLevel = UnsignedWide(i)
      BY DEF IInv, Made
    <3>2. GetKeyGenLevel = i
      BY <3>1, WideReturns DEF GetKeyGenLevel
    <3>3. AsInteger(i) = i
      BY WidthAssumption DEF AsInteger, NA
    <3> QED BY <3>1, <3>2, <3>3
  <2> QED BY <2>1, <2>2 DEF ValuesCarryOver
<1> QED BY <1>1, Invariance, PTL

(* Two objects have one hash exactly when what is hashed is the same.      *)
THEOREM HashesTell == Spec => []HashTells
<1>1. IInv => HashTells
  <2> SUFFICES ASSUME IInv, plain # None, cipher # None
               PROVE  Hash(plain) = Hash(cipher) <=>
                        \A n \in HashNames : plain.field[n] = cipher.field[n]
    BY DEF HashTells
  <2>1. ASSUME NEW o \in {plain, cipher}, NEW n \in HashNames
        PROVE  /\ Hash(o)[n] = ReadMeta(n, o.field[n])
               /\ StoredMeta(n, ReadMeta(n, o.field[n])) = o.field[n]
    <3>1. n \in MetaNames /\ n # "scaling_factor_int"
      BY DEF HashNames, MetaNames, ScaleNames
    <3>2. o.field[n] \in Int /\ \E x \in Int : o.field[n] = StoredMeta(n, x)
      BY <3>1 DEF IInv, TypeOK, Made, Metadata
    <3> QED BY <3>1, <3>2, MetaReturns DEF Hash
  <2>2. ASSUME Hash(plain) = Hash(cipher), NEW n \in HashNames
        PROVE  plain.field[n] = cipher.field[n]
    BY <2>1, <2>2
  <2>3. ASSUME \A n \in HashNames : plain.field[n] = cipher.field[n]
        PROVE  Hash(plain) = Hash(cipher)
    BY <2>3 DEF Hash
  <2> QED BY <2>2, <2>3
<1> QED BY <1>1, Invariance, PTL
----------------------------------------------------------------------------
(* A plaintext modulus beyond R's integers, whichever it is, is stored as  *)
(* one and the same huge modulus, and its getter returns NA: for each such *)
(* argument of BFVParams() and BGVParams() (R/params.R:149), at any widths.*)
THEOREM LargeModulusLost ==
  Spec => [](params # None /\ params.name = "plaintext_modulus" /\ ~RInteger(params.arg) =>
               /\ params.field["plaintext_modulus"] = 2 * Wide - Half
               /\ Read(params.scheme, "plaintext_modulus", params.field["plaintext_modulus"]) = NA)
<1>1. IInv => (params # None /\ params.name = "plaintext_modulus" /\ ~RInteger(params.arg) =>
                 /\ params.field["plaintext_modulus"] = 2 * Wide - Half
                 /\ Read(params.scheme, "plaintext_modulus", params.field["plaintext_modulus"]) = NA)
  <2> SUFFICES ASSUME IInv, params # None, params.name = "plaintext_modulus",
                      ~RInteger(params.arg)
               PROVE  /\ params.field["plaintext_modulus"] = 2 * Wide - Half
                      /\ Read(params.scheme, "plaintext_modulus", params.field["plaintext_modulus"]) = NA
    OBVIOUS
  <2> DEFINE n == "plaintext_modulus"
  <2>1. n \in Names
    BY DEF Names, BFVNames
  <2>2. /\ params.arg \in Int /\ params.field = Fields(params.scheme, n, params.arg)
        /\ params.scheme \in Schemes /\ n \in ArgNames(params.scheme)
    BY NumberAssumption DEF IInv, Made, TypeOK
  <2>3. AsInteger(params.arg) = NA
    BY DEF RInteger
  <2>4. params.field[n] = UnsignedWide(NA)
    BY <2>1, <2>2, <2>3, ModulusStored DEF Fields
  <2>5. UnsignedWide(NA) = 2 * Wide - Half
    BY WidthAssumption, ModNegative DEF UnsignedWide, NA
  <2>6. Read(params.scheme, n, params.field[n]) = NA
    BY <2>1, <2>2, <2>3, RoundTrip DEF Fields, Converted, RealNames, CountNames
  <2> QED BY <2>4, <2>5, <2>6
<1> QED BY <1>1, Invariance, PTL
=============================================================================

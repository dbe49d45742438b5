-------------------------- MODULE ParameterNumbers --------------------------
(***************************************************************************)
(* Numbers on their way from R into the C++ library and back: the          *)
(* arguments of BFVParams(), BGVParams(), CKKSParams() and fhe_context(),  *)
(* their getters and a context's, the integers packed into plaintexts, and *)
(* the metadata a plaintext hands to its ciphertext (R/params.R,           *)
(* R/params-getters.R, R/cryptocontext-getters.R, R/plaintext-accessors.R, *)
(* R/ciphertext-accessors.R and their bindings).                           *)
(*                                                                         *)
(* A number from R is an integer of any size: as.integer() drops the       *)
(* fraction before anything else sees it, and the reals of floating-point  *)
(* arguments are counted in steps fine enough.  R integers have 2 * Half   *)
(* values, and the least of them is R's NA; a number that is no R integer  *)
(* is coerced to NA.  The library's unsigned fields have 2 * Half values,  *)
(* its moduli 2 * Wide.  Half is 2^31 and Wide 2^63 in the package.        *)
(***************************************************************************)
EXTENDS Integers

CONSTANTS
  Half, Wide,    \* half the values of a narrow and of a wide integer
  Number,        \* bound: the numbers a caller passes
  Default,       \* Default[n]: what field n holds when nobody sets it
  AsFloat(_),    \* the float that a double is rounded to
  None           \* no object, no argument

ASSUME WidthAssumption == Half \in Nat /\ Wide \in Nat /\ Half >= 2 /\ Wide >= 2 * Half
ASSUME NumberAssumption == \A x \in Number : x \in Int /\ AsFloat(x) \in Int

NA == -Half
AsInteger(x) == IF x \in (NA + 1)..(Half - 1) THEN x ELSE NA
RInteger(x) == AsInteger(x) # NA
----------------------------------------------------------------------------
(* The arguments of the constructors: the setters of each scheme that do   *)
(* not throw.                                                              *)
Schemes == {"BFV", "BGV", "CKKS"}

CommonNames ==
  {"multiplicative_depth", "scaling_mod_size", "batch_size", "security_level",
   "secret_key_dist", "key_switch_technique", "ring_dim", "digit_size", "num_large_digits",
   "standard_deviation", "max_relin_sk_deg", "pre_mode"}
BFVNames == CommonNames \cup
  {"plaintext_modulus", "multiparty_mode", "threshold_num_of_parties",
   "multiplication_technique", "eval_add_count", "key_switch_count", "encryption_technique"}
BGVNames == CommonNames \cup
  {"plaintext_modulus", "scaling_technique", "first_mod_size", "multiparty_mode",
   "threshold_num_of_parties", "statistical_security", "num_adversarial_queries",
   "eval_add_count", "key_switch_count", "pre_num_hops"}
CKKSNames == CommonNames \cup
  {"scaling_technique", "first_mod_size", "interactive_boot_compression_level",
   "register_word_size", "ckks_data_type", "execution_mode", "decryption_noise_mode",
   "noise_estimate", "desired_precision", "statistical_security",
   "num_adversarial_queries", "composite_degree"}
Names == BFVNames \cup BGVNames \cup CKKSNames
ArgNames(s) == CASE s = "BFV" -> BFVNames [] s = "BGV" -> BGVNames [] s = "CKKS" -> CKKSNames

ASSUME DefaultAssumption == \A n \in Names : Default[n] \in Int

(* Floating-point fields, and the two that are set through an unsigned     *)
(* argument and read as they are.                                          *)
RealNames == {"standard_deviation", "noise_estimate", "desired_precision"}
CountNames == {"statistical_security", "num_adversarial_queries"}

Unsigned(i) == i % (2 * Half)
UnsignedWide(i) == i % (2 * Wide)
(* Mutation: the sign is lost on the way back.                             *)
Signed_clamped(u) == IF u < Half THEN u ELSE 0
Signed(u) == IF u < Half THEN u ELSE u - 2 * Half
SignedWide(w) == IF w < Wide THEN w ELSE w - 2 * Wide
(* Rf_ScalarInteger() on a wide integer keeps its low half.                *)
LowHalf(i) == Signed(Unsigned(i))

(* as.integer() or as.double() in the constructor and the C++ setter,      *)
(* which each scheme has its own of.                                       *)
BFVStored(n, x) ==
  CASE n = "standard_deviation" -> AsFloat(x)
    [] n = "plaintext_modulus" -> UnsignedWide(AsInteger(x))
    [] OTHER -> Unsigned(AsInteger(x))
BGVStored(n, x) ==
  CASE n = "standard_deviation" -> AsFloat(x)
    [] n = "plaintext_modulus" -> UnsignedWide(AsInteger(x))
    [] OTHER -> Unsigned(AsInteger(x))
CKKSStored(n, x) ==
  CASE n = "standard_deviation" -> AsFloat(x)
    [] n \in {"noise_estimate", "desired_precision"} -> x
    [] OTHER -> Unsigned(AsInteger(x))

Stored(s, n, x) ==
  CASE s = "BFV" -> BFVStored(n, x) [] s = "BGV" -> BGVStored(n, x) [] s = "CKKS" -> CKKSStored(n, x)

(* The C++ getter and the conversion of its result; again one family for   *)
(* each scheme, which has a getter of every parameter, its own or not.     *)
BFVRead(n, u) ==
  CASE n \in RealNames \cup CountNames -> u
    [] n = "plaintext_modulus" -> LowHalf(SignedWide(u))
    [] OTHER -> Signed(u)
BGVRead(n, u) ==
  CASE n \in RealNames \cup CountNames -> u
    [] n = "plaintext_modulus" -> LowHalf(SignedWide(u))
    [] OTHER -> Signed(u)
CKKSRead(n, u) ==
  CASE n \in RealNames \cup CountNames -> u
    [] n = "plaintext_modulus" -> LowHalf(SignedWide(u))
    [] OTHER -> Signed(u)

Read(s, n, u) ==
  CASE s = "BFV" -> BFVRead(n, u) [] s = "BGV" -> BGVRead(n, u) [] s = "CKKS" -> CKKSRead(n, u)
----------------------------------------------------------------------------
(* Bound: the caller holds a parameter object, or a context with what it   *)
(* packed in it, or a plaintext with metadata and its ciphertext, until it *)
(* lets go of them; no call relates these but fhe_context(), which makes a *)
(* parameter object of its own.                                            *)
VARIABLES
  params,  \* a parameter object: its scheme, the argument given, its fields
  cc,      \* a context: the same
  keyLevel,\* the level its keys are generated at
  pt,      \* a packed plaintext's slot: the number given, the value held
  ct,      \* a ciphertext's slot, a residue of the context's modulus
  plain,   \* a plaintext's metadata: its fields, and whether one was set
  cipher   \* the metadata of a ciphertext it was encrypted to

vars == <<params, cc, keyLevel, pt, ct, plain, cipher>>

(* Mutation: a setter copied from its neighbour and not renamed.           *)
Fields_copied(s, n, x) ==
  LET own == IF n = "key_switch_count" THEN "eval_add_count" ELSE n
  IN  [m \in Names |-> IF m = own THEN Stored(s, n, x) ELSE Default[m]]

(* One argument at a time: no setter looks at a field but its own.         *)
Fields(s, n, x) == [m \in Names |-> IF m = n THEN Stored(s, n, x) ELSE Default[m]]

Nothing ==
  params = None /\ cc = None /\ pt = None /\ ct = None /\ plain = None /\ cipher = None

Init == Nothing /\ keyLevel = 0
Release ==
  /\ params' = None /\ cc' = None /\ pt' = None /\ ct' = None /\ plain' = None /\ cipher' = None
  /\ keyLevel' = 0

New(s, n, x) ==
  /\ Nothing /\ n \in ArgNames(s)
  /\ params' = [scheme |-> s, name |-> n, arg |-> x, field |-> Fields(s, n, x)]
  /\ UNCHANGED <<cc, keyLevel, pt, ct, plain, cipher>>

BFVParams(n, x) == New("BFV", n, x)
BGVParams(n, x) == New("BGV", n, x)
CKKSParams(n, x) == New("CKKS", n, x)

(* fhe_context(scheme, n = x): an error unless the library accepts the     *)
(* modulus; which other numbers it refuses is its own, and all are kept.   *)
FheContext(s, n, x) ==
  /\ Nothing /\ n \in ArgNames(s)
  /\ n = "plaintext_modulus" => Stored(s, n, x) > 1
  /\ cc' = [scheme |-> s, name |-> n, arg |-> x, field |-> Fields(s, n, x)]
  /\ UNCHANGED <<params, keyLevel, pt, ct, plain, cipher>>

(* The getters of a context the library keeps as they were given, without  *)
(* those it disables for the scheme: it may choose the other values.       *)
ContextNames(s) ==
  {"multiplicative_depth", "digit_size", "key_switch_technique"} \cup
  CASE s = "BFV" -> {"plaintext_modulus", "eval_add_count", "key_switch_count"}
    [] s = "BGV" -> {"plaintext_modulus", "scaling_technique", "eval_add_count",
                     "key_switch_count", "pre_num_hops"}
    [] s = "CKKS" -> {"scaling_technique", "noise_estimate", "ckks_data_type"}

(* Mutation: a getter copied from its neighbour and not renamed.           *)
ContextRead_copied(c, n) ==
  LET own == IF n = "key_switch_count" THEN "eval_add_count" ELSE n
  IN  Read(c.scheme, own, c.field[own])

(* A getter of the context, through GetCryptoParameters() and a cast.      *)
ContextRead(c, n) ==
  CASE n = "noise_estimate" -> c.field[n]
    [] n = "plaintext_modulus" -> LowHalf(SignedWide(c.field[n]))
    [] OTHER -> Signed(c.field[n])

(* set_key_gen_level(), the one setter of a context, and its getter.       *)
SetKeyGenLevel(x) ==
  /\ cc # None
  /\ keyLevel' = UnsignedWide(AsInteger(x))
  /\ UNCHANGED <<params, cc, pt, ct, plain, cipher>>
GetKeyGenLevel == LowHalf(SignedWide(keyLevel))
----------------------------------------------------------------------------
Magnitude(i) == IF i < 0 THEN -i ELSE i
Centred(r, m) == IF 2 * r > m THEN r - m ELSE r

(* Bound: slots are packed in contexts whose modulus is the argument.      *)
Packs == cc # None /\ cc.name = "plaintext_modulus"
Modulus == cc.field["plaintext_modulus"]

(* Mutation: the numbers are checked before the coercion.                  *)
MakePackedPlaintext_unchecked(x) ==
  /\ Packs
  /\ pt' = [arg |-> x, value |-> AsInteger(x)]
  /\ UNCHANGED <<params, cc, keyLevel, ct, plain, cipher>>

(* The encoder rejects what the modulus has no place for.                  *)
MakePackedPlaintext(x) ==
  /\ Packs /\ Magnitude(AsInteger(x)) < Modulus
  /\ pt' = [arg |-> x, value |-> AsInteger(x)]
  /\ UNCHANGED <<params, cc, keyLevel, ct, plain, cipher>>

Encrypt ==
  /\ pt # None
  /\ ct' = pt.value % Modulus
  /\ UNCHANGED <<params, cc, keyLevel, pt, plain, cipher>>

(* Mutation: the product of the slots is not reduced.                      *)
EvalPlain_unreduced ==
  /\ ct # None /\ pt # None
  /\ \/ ct' = (ct + pt.value) % Modulus
     \/ ct' = (ct - pt.value) % Modulus
     \/ ct' = ct * pt.value
  /\ UNCHANGED <<params, cc, keyLevel, pt, plain, cipher>>

(* eval_add(), eval_sub() and eval_mult() with the plaintext.              *)
EvalPlain ==
  /\ ct # None /\ pt # None
  /\ \/ ct' = (ct + pt.value) % Modulus
     \/ ct' = (ct - pt.value) % Modulus
     \/ ct' = (ct * pt.value) % Modulus
  /\ UNCHANGED <<params, cc, keyLevel, pt, plain, cipher>>

(* get_packed_value() of a decryption; of a plaintext as it was made.      *)
Decrypted == LowHalf(Centred(ct, Modulus))
GetPackedValue == LowHalf(pt.value)

(* low_bound() and high_bound() of a plaintext of the context; the bound   *)
(* below is that of inst/tinytest/test_plaintext_accessors.R:29, one less  *)
(* than R/plaintext-accessors.R:138 says when the modulus is odd.          *)
LowBound == LowHalf(-(Modulus \div 2) - (Modulus % 2))
HighBound == LowHalf(Modulus \div 2)
----------------------------------------------------------------------------
(* The metadata of plaintexts and ciphertexts: setters change the object   *)
(* in place, and encryption copies the fields.                             *)
ScaleNames == {"scaling_factor", "scaling_factor_int"}  \* read as they are
MetaNames == {"level", "noise_scale_deg", "slots"} \cup ScaleNames

ASSUME FreshAssumption == \A n \in MetaNames : Default[n] \in 0..(Half - 1)

StoredMeta(n, x) ==
  CASE n = "scaling_factor" -> x
    [] n = "slots" -> Unsigned(AsInteger(x))
    [] OTHER -> UnsignedWide(AsInteger(x))

(* Mutation: an unsigned field is returned as a double.                    *)
ReadMeta_double(n, u) ==
  CASE n \in {"level", "noise_scale_deg"} -> LowHalf(SignedWide(u)) [] OTHER -> u

ReadMeta(n, u) ==
  CASE n \in ScaleNames -> u
    [] n = "slots" -> Signed(u)
    [] OTHER -> LowHalf(SignedWide(u))

(* Bound: one setter is called on each object.                             *)
Put(object, n, x) ==
  [field |-> [object.field EXCEPT ![n] = StoredMeta(n, x)], set |-> TRUE]

(* A make_*_plaintext() call, with its metadata left at the defaults.      *)
MakePlaintext ==
  /\ Nothing
  /\ plain' = [field |-> [n \in MetaNames |-> Default[n]], set |-> FALSE]
  /\ UNCHANGED <<params, cc, keyLevel, pt, ct, cipher>>

(* set_level() and its sisters on the plaintext.                           *)
SetPlaintext(n, x) ==
  /\ plain # None /\ ~plain.set
  /\ plain' = Put(plain, n, x)
  /\ UNCHANGED <<params, cc, keyLevel, pt, ct, cipher>>

(* The new ciphertext's fields are the plaintext's at the time.            *)
EncryptPlaintext ==
  /\ plain # None
  /\ cipher' = [field |-> plain.field, set |-> FALSE]
  /\ UNCHANGED <<params, cc, keyLevel, pt, ct, plain>>

(* set_level() and its sisters on the ciphertext.                          *)
SetCiphertext(n, x) ==
  /\ cipher # None /\ ~cipher.set
  /\ cipher' = Put(cipher, n, x)
  /\ UNCHANGED <<params, cc, keyLevel, pt, ct, plain>>

(* plaintext_params_hash(), which goes through getters that ciphertexts    *)
(* have as well.  The encoding type has no setter.                         *)
HashNames == {"scaling_factor", "noise_scale_deg", "level", "slots"}

(* Mutation: the number of slots is left out.                              *)
Hash_short(o) == [n \in HashNames \ {"slots"} |-> ReadMeta(n, o.field[n])]
Hash(o) == [n \in HashNames |-> ReadMeta(n, o.field[n])]
----------------------------------------------------------------------------
Next ==
  \/ \E n \in Names, x \in Number : BFVParams(n, x) \/ BGVParams(n, x) \/ CKKSParams(n, x)
  \/ \E s \in Schemes, n \in Names, x \in Number : FheContext(s, n, x)
  \/ \E x \in Number : SetKeyGenLevel(x) \/ MakePackedPlaintext(x)
  \/ Encrypt \/ EvalPlain
  \/ MakePlaintext \/ EncryptPlaintext \/ Release
  \/ \E n \in MetaNames, x \in Number : SetPlaintext(n, x) \/ SetCiphertext(n, x)

Spec == Init /\ [][Next]_vars
----------------------------------------------------------------------------
TypeOK ==
  /\ params # None => /\ params.scheme \in Schemes /\ params.name \in ArgNames(params.scheme)
                      /\ params.arg \in Number /\ params.field \in [Names -> Int]
  /\ cc # None => /\ cc.scheme \in Schemes /\ cc.name \in ArgNames(cc.scheme)
                  /\ cc.arg \in Number /\ cc.field \in [Names -> Int]
  /\ keyLevel \in 0..(2 * Wide - 1)
  /\ Packs => Modulus \in 2..(2 * Wide - 1)
  /\ pt # None => Packs /\ pt.value \in NA..(Half - 1)
  /\ ct # None => Packs /\ ct \in 0..(Modulus - 1)
  /\ \A o \in {plain, cipher} \ {None} : o.field \in [MetaNames -> Int] /\ o.set \in BOOLEAN

(* Through two coercions, two casts and a truncation, every getter of a    *)
(* parameter object returns what as.integer() made of the argument, NA and *)
(* negative numbers included, and a getter of another parameter what it    *)
(* returned before.  The two counts come back as the unsigned number they  *)
(* were stored as, and the standard deviation as the float nearest to it   *)
(* (inst/tinytest/test_params_getters.R:46 allows for that).               *)
Converted(n, x) ==
  CASE n = "standard_deviation" -> AsFloat(x)
    [] n \in RealNames \ {"standard_deviation"} -> x
    [] n \in CountNames -> Unsigned(AsInteger(x))
    [] OTHER -> AsInteger(x)
ReadsAsGiven ==
  params # None =>
    \A n \in Names :
      Read(params.scheme, n, params.field[n]) =
        IF n = params.name THEN Converted(n, params.arg) ELSE Read(params.scheme, n, Default[n])

(* In a context whose modulus was a positive R integer no NA, and no       *)
(* number beyond R's integers, becomes data, and what is packed reads back.*)
EncodesAsGiven ==
  pt # None /\ RInteger(cc.arg) /\ cc.arg > 0 => pt.value = pt.arg /\ GetPackedValue = pt.arg

(* What decryption returns in such a context is the centred representative *)
(* of the residue: never NA, never wrapped, and between the bounds that    *)
(* low_bound() and high_bound() read.                                      *)
DecryptsToSlot ==
  ct # None /\ RInteger(cc.arg) /\ cc.arg > 0 =>
    /\ Decrypted # NA
    /\ Decrypted % Modulus = ct
    /\ 2 * Magnitude(Decrypted) <= Modulus
    /\ Decrypted \in LowBound..HighBound

(* The getters of a context, written apart from those of the parameter     *)
(* objects, return what those return for the same argument.                *)
ContextAgrees ==
  cc # None =>
    \A n \in ContextNames(cc.scheme) :
      ContextRead(cc, n) = Read(cc.scheme, n, Fields(cc.scheme, cc.name, cc.arg)[n])

(* What a metadata getter returned can be handed to the setter of another  *)
(* object, and sets what the first one has: so a plaintext is brought to   *)
(* the level and scale of a ciphertext.  Only the integer scaling factor   *)
(* is read as a double that its setter may take for NA.                    *)
ValuesCarryOver ==
  /\ \A o \in {plain, cipher} \ {None}, n \in MetaNames :
       (n = "scaling_factor_int" => o.field[n] < Half) =>
         StoredMeta(n, ReadMeta(n, o.field[n])) = o.field[n]
  /\ UnsignedWide(AsInteger(GetKeyGenLevel)) = keyLevel

(* The hash of a ciphertext is that of its plaintext as long as their      *)
(* scaling factors, degrees, levels and slots are the same, and only then: *)
(* "any parameter change produces a different string"                      *)
(* (R/plaintext-accessors.R:304).                                          *)
HashTells ==
  plain # None /\ cipher # None =>
    (Hash(plain) = Hash(cipher) <=> \A n \in HashNames : plain.field[n] = cipher.field[n])

(* get_plaintext_modulus() on a parameter object: "for moduli that exceed  *)
(* the 32-bit signed integer range the return value is a numeric (double)  *)
(* carrying a losslessly rounded 53-bit integer" (R/params-getters.R:46).  *)
ModulusReadsLossless ==
  params # None /\ params.name = "plaintext_modulus" /\ params.arg > 0 =>
    Read(params.scheme, "plaintext_modulus", params.field["plaintext_modulus"]) = params.arg
============================================================================

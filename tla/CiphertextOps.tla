---------------------------- MODULE CiphertextOps ----------------------------
(***************************************************************************)
(* Ciphertext variables of an R session and the operations on them         *)
(* (R/methods-eval.R, R/methods-eval-extra.R, R/operators.R and their      *)
(* bindings).                                                              *)
(*                                                                         *)
(* An R variable holds a handle on a C++ ciphertext: y <- x shares it, and *)
(* the in-place functions change the object under every variable that has  *)
(* it.  The arithmetic of the scheme is a parameter: the plaintext space   *)
(* with its operations, of which only what the dispatch code relies on is  *)
(* assumed.  Noise budget, levels and scaling factors are left out: a call *)
(* the scheme in use does not support, or for which the budget is spent,   *)
(* is an R error and changes nothing.                                      *)
(*                                                                         *)
(* A ciphertext has parts.  What one with more than two decrypts to is     *)
(* left open, as relinearize() is needed first; rotations and eval_mult()  *)
(* compute noise from it.  Hoisted rotations use digits precomputed from   *)
(* one ciphertext object and compute noise when it was changed since, or   *)
(* on another one.                                                         *)
(***************************************************************************)
EXTENDS Naturals

CONSTANTS
  Var,          \* R variables
  Obj,          \* ciphertext objects
  Value,        \* the plaintext space: vectors of slots
  Plain,        \* the plaintexts and scalars that occur as operands
  Index,        \* rotation amounts
  Batch,        \* batch sizes for eval_sum()
  Plus(_, _), Minus(_, _), Times(_, _), Negative(_),  \* slot-wise arithmetic
  Rot(_, _),    \* Rot(k, f): the slots of f moved by k
  WindowSum(_, _),  \* WindowSum(b, f): each slot and the b - 1 after it
  MaxParts,     \* bound: the parts of a ciphertext
  RelinDegree,  \* the powers of the secret that the relinearization keys cover
  NoObj, NoVar, \* nothing bound; no variable
  Noise,        \* what an invalid operation computes
  Unsaid        \* no claim about what a variable holds

ASSUME PlainAssumption == Plain \subseteq Value
ASSUME SentinelAssumption ==
  /\ NoObj \notin Obj /\ NoVar \notin Var
  /\ Noise \notin Value /\ Unsaid \notin Value
ASSUME PartsAssumption == MaxParts \in Nat /\ MaxParts >= 2 /\ RelinDegree \in Nat
ASSUME ClosureAssumption ==
  /\ \A f, g \in Value : /\ Plus(f, g) \in Value /\ Minus(f, g) \in Value
                         /\ Times(f, g) \in Value
  /\ \A f \in Value : /\ Negative(f) \in Value
                      /\ \A k \in Index : Rot(k, f) \in Value
                      /\ \A b \in Batch : WindowSum(b, f) \in Value
(* What the methods with the plaintext first rely on.                      *)
ASSUME RingAssumption ==
  \A f, g \in Value : /\ Negative(Minus(f, g)) = Minus(g, f)
                      /\ Plus(f, g) = Plus(g, f) /\ Times(f, g) = Times(g, f)

VARIABLES
  ref,     \* ref[v]: the ciphertext object variable v is a handle on
  obj,     \* obj[o]: what object o decrypts to, once it has two parts, and
           \* its number of parts
  digits,  \* the object that the precomputation held by the session fits
  from,    \* the variable the caller has it from, nothing done to its object since
  meant    \* meant[v]: what the calls of the session, read as value arithmetic,
           \* put into v; Unsaid once the caller shared and changed it in place
           \* or used an operand where the documentation rules it out

vars == <<ref, obj, digits, from, meant>>

Contents == [val : Value \cup {Noise}, parts : 2..MaxParts]
Blank == [val |-> Noise, parts |-> 2]
Bound(v) == ref[v] \in Obj
Val(v) == obj[ref[v]].val
Parts(v) == obj[ref[v]].parts
Most(m, n) == IF m >= n THEN m ELSE n
InUse == {ref[v] : v \in Var} \cap Obj

(* A result is noise, or without a claim, if an operand is.                *)
Computed(S, f) == IF Noise \in S THEN Noise ELSE f
Said(S, f) == IF Unsaid \in S THEN Unsaid ELSE f

Init ==
  /\ ref = [v \in Var |-> NoObj]
  /\ obj = [o \in Obj |-> Blank]
  /\ digits = NoObj /\ from = NoVar
  /\ meant = [v \in Var |-> Unsaid]
----------------------------------------------------------------------------
(* z is bound to object o; what no variable has any more is collected.     *)
Bind(z, o, content, m) ==
  LET used == {IF v = z THEN o ELSE ref[v] : v \in Var} IN
  /\ ref' = [ref EXCEPT ![z] = o]
  /\ obj' = [q \in Obj |-> IF q = o THEN content ELSE IF q \in used THEN obj[q] ELSE Blank]
  /\ meant' = [meant EXCEPT ![z] = m]

(* The caller no longer has the digits from a variable whose object is in  *)
(* S, or from z, which is bound anew.                                      *)
Forget(S, z) == from' = IF from # NoVar /\ (from = z \/ ref[from] \in S) THEN NoVar ELSE from

(* A call whose result is a new object; the representation, not the value, *)
(* of the objects in S may change by it.                                   *)
NewTouching(S, z, f, n, m) ==
  \E o \in Obj \ InUse, T \in SUBSET S :
    /\ Bind(z, o, [val |-> f, parts |-> n], m)
    /\ digits' = IF digits \notin T /\ \E v \in Var \ {z} : ref[v] = digits
                 THEN digits ELSE NoObj
    /\ Forget(S, z)

New(z, f, n, m) == NewTouching({}, z, f, n, m)

(* Mutation: the binding updates the operand's object and returns it.      *)
EvalNegate_inPlace(z, x) ==
  /\ Bound(x)
  /\ Bind(z, ref[x], [val |-> Computed({Val(x)}, Negative(Val(x))), parts |-> Parts(x)],
          Said({meant[x]}, Negative(meant[x])))
  /\ digits' = NoObj /\ from' = NoVar

(* encrypt(key, pt), with either key.                                      *)
Encrypt(z, p) == New(z, p, 2, p)

(* z <- x, +x, and z <- eval_*_in_place(x, ...) after its update of x.     *)
Share(z, x) ==
  /\ Bound(x)
  /\ Bind(z, ref[x], obj[ref[x]], meant[x])
  /\ digits' = IF \E v \in (Var \ {z}) \cup {x} : ref[v] = digits
               THEN digits ELSE NoObj
  /\ from' = IF from = z /\ ref[x] # ref[z] THEN NoVar ELSE from

EvalAdd(z, x, y) ==
  /\ Bound(x) /\ Bound(y)
  /\ New(z, Computed({Val(x), Val(y)}, Plus(Val(x), Val(y))), Most(Parts(x), Parts(y)),
         Said({meant[x], meant[y]}, Plus(meant[x], meant[y])))

EvalSub(z, x, y) ==
  /\ Bound(x) /\ Bound(y)
  /\ New(z, Computed({Val(x), Val(y)}, Minus(Val(x), Val(y))), Most(Parts(x), Parts(y)),
         Said({meant[x], meant[y]}, Minus(meant[x], meant[y])))

(* A plaintext or a scalar, packed into every slot, as the other operand:  *)
(* x + p, x - p, x * p.                                                    *)
EvalAddPlain(z, x, p) ==
  /\ Bound(x)
  /\ New(z, Computed({Val(x)}, Plus(Val(x), p)), Parts(x), Said({meant[x]}, Plus(meant[x], p)))

EvalSubPlain(z, x, p) ==
  /\ Bound(x)
  /\ New(z, Computed({Val(x)}, Minus(Val(x), p)), Parts(x), Said({meant[x]}, Minus(meant[x], p)))

EvalMultPlain(z, x, p) ==
  /\ Bound(x)
  /\ New(z, Computed({Val(x)}, Times(Val(x), p)), Parts(x), Said({meant[x]}, Times(meant[x], p)))

(* Mutation: the method with the scalar first forgets to negate.           *)
EvalPlainFirst_plainSub(z, p, x) ==
  /\ Bound(x)
  /\ \/ New(z, Computed({Val(x)}, Plus(Val(x), p)), Parts(x), Said({meant[x]}, Plus(p, meant[x])))
     \/ New(z, Computed({Val(x)}, Minus(Val(x), p)), Parts(x),
            Said({meant[x]}, Minus(p, meant[x])))
     \/ New(z, Computed({Val(x)}, Times(Val(x), p)), Parts(x), Said({meant[x]}, Times(p, meant[x])))

(* p + x, p - x, p * x: the ciphertext-first binding, negated for p - x.   *)
(* p is a scalar, or in a product a plaintext.                             *)
EvalPlainFirst(z, p, x) ==
  /\ Bound(x)
  /\ \/ New(z, Computed({Val(x)}, Plus(Val(x), p)), Parts(x), Said({meant[x]}, Plus(p, meant[x])))
     \/ New(z, Computed({Val(x)}, Negative(Minus(Val(x), p))), Parts(x),
            Said({meant[x]}, Minus(p, meant[x])))
     \/ New(z, Computed({Val(x)}, Times(Val(x), p)), Parts(x), Said({meant[x]}, Times(p, meant[x])))

EvalNegate(z, x) ==
  /\ Bound(x)
  /\ New(z, Computed({Val(x)}, Negative(Val(x))), Parts(x), Said({meant[x]}, Negative(meant[x])))
----------------------------------------------------------------------------
(* eval_mult(x, y): the product is relinearized with the key for the       *)
(* square of the secret, which makes noise of further parts.               *)
TwoParts(x, y) == Parts(x) = 2 /\ Parts(y) = 2

(* Mutation: eval_mult() is bound to the function that may adjust its      *)
(* operands.                                                               *)
EvalMult_mutable(z, x, y) ==
  /\ Bound(x) /\ Bound(y) /\ TwoParts(x, y)
  /\ \E o \in Obj \ InUse :
       /\ Bind(z, o, [val |-> Computed({Val(x), Val(y)}, Times(Val(x), Val(y))), parts |-> 2],
               Said({meant[x], meant[y]}, Times(meant[x], meant[y])))
       /\ digits' = IF digits \in {ref[x], ref[y]} THEN NoObj ELSE digits
       /\ Forget({}, z)

EvalMult(z, x, y) ==
  /\ Bound(x) /\ Bound(y)
  /\ IF TwoParts(x, y)
     THEN New(z, Computed({Val(x), Val(y)}, Times(Val(x), Val(y))), 2,
              Said({meant[x], meant[y]}, Times(meant[x], meant[y])))
     ELSE New(z, Noise, 2, Unsaid)

EvalSquare(z, x) == EvalMult(z, x, x)

EvalMultNoRelin(z, x, y) ==
  /\ Bound(x) /\ Bound(y) /\ Parts(x) + Parts(y) - 1 <= MaxParts
  /\ New(z, Computed({Val(x), Val(y)}, Times(Val(x), Val(y))), Parts(x) + Parts(y) - 1,
         Said({meant[x], meant[y]}, Times(meant[x], meant[y])))

(* Mutation: one part is taken off, whether or not there is one too many.  *)
Relinearize_onePart(z, x) ==
  /\ Bound(x) /\ Parts(x) - 1 <= RelinDegree
  /\ New(z, Val(x), Parts(x) - 1, meant[x])

(* An error when the keys do not cover the powers of the secret.           *)
Relinearize(z, x) ==
  /\ Bound(x) /\ Parts(x) - 1 <= RelinDegree
  /\ New(z, Val(x), 2, meant[x])

EvalMultAndRelinearize(z, x, y) ==
  /\ Bound(x) /\ Bound(y) /\ Parts(x) + Parts(y) - 2 <= RelinDegree
  /\ New(z, Computed({Val(x), Val(y)}, Times(Val(x), Val(y))), 2,
         Said({meant[x], meant[y]}, Times(meant[x], meant[y])))

EvalRotate(z, x, k) ==
  /\ Bound(x)
  /\ IF Parts(x) = 2
     THEN New(z, Computed({Val(x)}, Rot(k, Val(x))), 2, Said({meant[x]}, Rot(k, meant[x])))
     ELSE New(z, Noise, 2, Unsaid)

EvalSum(z, x, b) ==
  /\ Bound(x)
  /\ IF Parts(x) = 2
     THEN New(z, Computed({Val(x)}, WindowSum(b, Val(x))), 2,
              Said({meant[x]}, WindowSum(b, meant[x])))
     ELSE New(z, Noise, 2, Unsaid)

(* rescale(), mod_reduce(), level_reduce(), compress(): another            *)
(* representation of the same value, in a new object.                      *)
Reduce(z, x) ==
  /\ Bound(x)
  /\ New(z, Val(x), Parts(x), meant[x])
----------------------------------------------------------------------------
(* x's object gets another value: the in-place functions.  What another    *)
(* variable with the same object holds is no longer what was put into it.  *)
Update(x, f, n, m) ==
  /\ obj' = [obj EXCEPT ![ref[x]] = [val |-> f, parts |-> n]]
  /\ meant' = [v \in Var |-> IF v = x THEN m ELSE IF ref[v] = ref[x] THEN Unsaid ELSE meant[v]]
  /\ digits' = IF digits = ref[x] THEN NoObj ELSE digits
  /\ Forget({ref[x]}, NoVar)
  /\ UNCHANGED ref

EvalAddInPlace(x, y) ==
  /\ Bound(x) /\ Bound(y)
  /\ Update(x, Computed({Val(x), Val(y)}, Plus(Val(x), Val(y))), Most(Parts(x), Parts(y)),
            Said({meant[x], meant[y]}, Plus(meant[x], meant[y])))

(* Mutation: the operands are passed in the wrong order.                   *)
EvalSubInPlace_swapped(x, y) ==
  /\ Bound(x) /\ Bound(y)
  /\ Update(x, Computed({Val(x), Val(y)}, Minus(Val(y), Val(x))), Most(Parts(x), Parts(y)),
            Said({meant[x], meant[y]}, Minus(meant[x], meant[y])))

EvalSubInPlace(x, y) ==
  /\ Bound(x) /\ Bound(y)
  /\ Update(x, Computed({Val(x), Val(y)}, Minus(Val(x), Val(y))), Most(Parts(x), Parts(y)),
            Said({meant[x], meant[y]}, Minus(meant[x], meant[y])))

(* With a plaintext or a scalar; eval_mult_in_place() takes a scalar only. *)
EvalAddPlainInPlace(x, p) ==
  /\ Bound(x)
  /\ Update(x, Computed({Val(x)}, Plus(Val(x), p)), Parts(x), Said({meant[x]}, Plus(meant[x], p)))

EvalSubPlainInPlace(x, p) ==
  /\ Bound(x)
  /\ Update(x, Computed({Val(x)}, Minus(Val(x), p)), Parts(x), Said({meant[x]}, Minus(meant[x], p)))

EvalMultPlainInPlace(x, p) ==
  /\ Bound(x)
  /\ Update(x, Computed({Val(x)}, Times(Val(x), p)), Parts(x), Said({meant[x]}, Times(meant[x], p)))

EvalNegateInPlace(x) ==
  /\ Bound(x)
  /\ Update(x, Computed({Val(x)}, Negative(Val(x))), Parts(x), Said({meant[x]}, Negative(meant[x])))

(* mod_reduce_in_place(), level_reduce_in_place(): x's object gets another *)
(* representation of its value.                                            *)
ReduceInPlace(x) ==
  /\ Bound(x)
  /\ digits' = IF digits = ref[x] THEN NoObj ELSE digits
  /\ Forget({ref[x]}, NoVar)
  /\ UNCHANGED <<ref, obj, meant>>

(* The mutable family: the operands' objects may be adjusted to each other.*)
EvalAddMutable(z, x, y) ==
  /\ Bound(x) /\ Bound(y)
  /\ NewTouching({ref[x], ref[y]}, z,
       Computed({Val(x), Val(y)}, Plus(Val(x), Val(y))), Most(Parts(x), Parts(y)),
       Said({meant[x], meant[y]}, Plus(meant[x], meant[y])))

EvalSubMutable(z, x, y) ==
  /\ Bound(x) /\ Bound(y)
  /\ NewTouching({ref[x], ref[y]}, z,
       Computed({Val(x), Val(y)}, Minus(Val(x), Val(y))), Most(Parts(x), Parts(y)),
       Said({meant[x], meant[y]}, Minus(meant[x], meant[y])))

EvalMultMutable(z, x, y) ==
  /\ Bound(x) /\ Bound(y)
  /\ IF TwoParts(x, y)
     THEN NewTouching({ref[x], ref[y]}, z,
            Computed({Val(x), Val(y)}, Times(Val(x), Val(y))), 2,
            Said({meant[x], meant[y]}, Times(meant[x], meant[y])))
     ELSE NewTouching({ref[x], ref[y]}, z, Noise, 2, Unsaid)
----------------------------------------------------------------------------
(* eval_fast_rotation_precompute(x): the session keeps the last result.    *)
EvalFastRotationPrecompute(x) ==
  /\ Bound(x)
  /\ digits' = ref[x] /\ from' = x
  /\ UNCHANGED <<ref, obj, meant>>

(* What the digits held make of x: its slots moved, when they fit x.       *)
Hoisted(x, k) ==
  IF digits = ref[x] /\ Parts(x) = 2 THEN Computed({Val(x)}, Rot(k, Val(x))) ELSE Noise
HoistedSaid(x, k) ==
  IF from = x /\ Parts(x) = 2 THEN Said({meant[x]}, Rot(k, meant[x])) ELSE Unsaid

(* eval_fast_rotation(x, k, m, precomp): any digits are taken, also those  *)
(* that fit no ciphertext any more, or one of another context.             *)
EvalFastRotation(z, x, k) ==
  /\ Bound(x)
  /\ New(z, Hoisted(x, k), 2, HoistedSaid(x, k))

(* key_switch_down(y): y's value, back in the ordinary basis.              *)
KeySwitchDown(z, f, m) == New(z, f, 2, m)

(* eval_fast_rotation_ext(x, k, precomp, add_first): a rotation in the     *)
(* extended basis.  Without add_first it lacks a term (R/methods-eval.R:   *)
(* 201) or is the ordinary one (test_ckks_boot_rotation.R:104): left open. *)
(* Bound: it goes straight to key_switch_down(), no other call takes it.   *)
EvalFastRotationExt(z, x, k, addFirst) ==
  /\ Bound(x)
  /\ IF addFirst THEN KeySwitchDown(z, Hoisted(x, k), HoistedSaid(x, k))
     ELSE \E f \in {Noise, Hoisted(x, k)} : KeySwitchDown(z, f, Unsaid)

Next ==
  \/ \E z \in Var, p \in Plain : Encrypt(z, p)
  \/ \E z, x \in Var : Share(z, x) \/ EvalNegate(z, x) \/ EvalSquare(z, x)
  \/ \E z, x \in Var : Relinearize(z, x) \/ Reduce(z, x)
  \/ \E z, x, y \in Var : EvalAdd(z, x, y) \/ EvalSub(z, x, y) \/ EvalMult(z, x, y)
  \/ \E z, x, y \in Var : EvalMultNoRelin(z, x, y) \/ EvalMultAndRelinearize(z, x, y)
  \/ \E z, x, y \in Var :
       EvalAddMutable(z, x, y) \/ EvalSubMutable(z, x, y) \/ EvalMultMutable(z, x, y)
  \/ \E z, x \in Var, p \in Plain :
       EvalAddPlain(z, x, p) \/ EvalSubPlain(z, x, p) \/ EvalMultPlain(z, x, p)
  \/ \E z, x \in Var, p \in Plain : EvalPlainFirst(z, p, x)
  \/ \E z, x \in Var, k \in Index : EvalRotate(z, x, k) \/ EvalFastRotation(z, x, k)
  \/ \E z, x \in Var, k \in Index, first \in BOOLEAN : EvalFastRotationExt(z, x, k, first)
  \/ \E z, x \in Var, b \in Batch : EvalSum(z, x, b)
  \/ \E x, y \in Var : EvalAddInPlace(x, y) \/ EvalSubInPlace(x, y)
  \/ \E x \in Var, p \in Plain :
       EvalAddPlainInPlace(x, p) \/ EvalSubPlainInPlace(x, p) \/ EvalMultPlainInPlace(x, p)
  \/ \E x \in Var : EvalNegateInPlace(x) \/ ReduceInPlace(x) \/ EvalFastRotationPrecompute(x)

Spec == Init /\ [][Next]_vars
----------------------------------------------------------------------------
TypeOK ==
  /\ ref \in [Var -> Obj \cup {NoObj}]
  /\ obj \in [Obj -> Contents]
  /\ digits \in Obj \cup {NoObj}
  /\ from \in Var \cup {NoVar}
  /\ meant \in [Var -> Value \cup {Unsaid}]

(* Decrypting a variable gives what the calls that led to it compute when  *)
(* they are read as value arithmetic, through any mix of functional,       *)
(* in-place and mutable calls and hoisted rotations, unless the caller     *)
(* shared its ciphertext and changed it under another name.  A product     *)
(* that was not relinearized counts from when it is.                       *)
MeaningKept ==
  \A v \in Var : meant[v] # Unsaid => Bound(v) /\ (Parts(v) = 2 => Val(v) = meant[v])

(* A precomputation fits the variable it was made from as long as the      *)
(* caller names that variable's ciphertext in no in-place or mutable call: *)
(* no functional call, on this or on other variables, makes it stale.      *)
PrecomputationFits == from # NoVar => Bound(from) /\ digits = ref[from]

(* A call that binds its result leaves the value of every ciphertext that  *)
(* some variable keeps as it was: operands, their aliases and bystanders.  *)
OperandsUntouched ==
  [][ref' # ref => \A v \in Var : Bound(v) /\ ref'[v] = ref[v] => obj'[ref[v]] = obj[ref[v]]]_vars
============================================================================

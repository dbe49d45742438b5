------------------------ MODULE InteractiveBootstrap ------------------------
(***************************************************************************)
(* Multi-party interactive bootstrapping: the owners of a joint key        *)
(* refresh a worn ciphertext in rounds (R/interactive-bootstrap.R,         *)
(* src/pke_ckks_interactive_boot.cpp).  A round takes an adjusted          *)
(* ciphertext, a common random element, one shares pair of every owner,    *)
(* the sum of the pairs, and the final re-encryption.                      *)
(*                                                                         *)
(* The owners run in processes of their own.  Ciphertexts, elements, pairs *)
(* and sums of pairs are R objects that stay usable: they may be used      *)
(* late, twice, in another order, in another round or never, a call may be *)
(* made again after its pair went missing, and a refreshed ciphertext may  *)
(* be refreshed once more.                                                 *)
(*                                                                         *)
(* The arithmetic is the library's and is modelled by the terms it adds: a *)
(* pair is a decryption share of the ciphertext plus the call's own mask,  *)
(* and a share of the element minus that mask.                             *)
(***************************************************************************)
EXTENDS Integers, FiniteSets, Sequences

CONSTANTS
  Party,     \* those who may own a secret of the joint key
  Msg,       \* the encrypted messages
  Elem,      \* random elements
  NoElem,    \* the element of a ciphertext that was not refreshed yet
  MaxTries,  \* bound: how often an owner makes the same call
  MaxCalls,  \* bound: the int_mp_boot_decrypt() calls made
  MaxSums,   \* bound: the sums of pairs kept
  MaxExtent  \* bound: owners and elements together

ASSUME PartyAssumption == IsFiniteSet(Party)
ASSUME ElemAssumption == NoElem \notin Elem
ASSUME BoundAssumption ==
  MaxTries \in Nat /\ MaxCalls \in Nat /\ MaxSums \in Nat /\ MaxExtent \in Nat

(* A ciphertext under the joint key, by what it decrypts to, the element   *)
(* of the round it comes from, and whether its scale was adjusted.         *)
Ciphertexts == [msg : Msg, elem : Elem \cup {NoElem}, adjusted : BOOLEAN]
Calls == [by : Party, ct : Ciphertexts, elem : Elem, try : 1..MaxTries]

(* One half of a pair or of a sum of pairs: the role of the ciphertexts it *)
(* was added up from, the calls they are of, and whether one is in twice.  *)
Halves == [role : {"mask", "share", "none"}, calls : SUBSET Calls, twice : BOOLEAN]
Pairs == [1..2 -> Halves]

VARIABLES
  owners, \* the owners of the joint key, fixed before any ciphertext
  cts,    \* the ciphertexts made, useless ones aside
  elems,  \* the elements made
  pairs,  \* pairs[k]: what the list returned by the call k holds now
  sums    \* the sums of pairs made

vars == <<owners, cts, elems, pairs, sums>>

Called == DOMAIN pairs
InHand == {pairs[k] : k \in Called} \cup sums

Init ==
  /\ owners \in SUBSET Party /\ Cardinality(owners) >= 2
  /\ cts = [msg : Msg, elem : {NoElem}, adjusted : {FALSE}]
  /\ elems = {} /\ pairs = <<>> /\ sums = {}
----------------------------------------------------------------------------
(* int_mp_boot_adjust_scale(ct): a new ciphertext.                         *)
IntMPBootAdjustScale(ct) ==
  /\ cts' = cts \cup {[ct EXCEPT !.adjusted = TRUE]}
  /\ UNCHANGED <<owners, elems, pairs, sums>>

(* int_mp_boot_random_element_gen(cc, source): the source, a public key or *)
(* a ciphertext, gives the parameters, and the element is new.             *)
IntMPBootRandomElementGen(e) ==
  /\ e \notin elems /\ Cardinality(owners) + Cardinality(elems) < MaxExtent
  /\ elems' = elems \cup {e}
  /\ UNCHANGED <<owners, cts, pairs, sums>>

Half(role, k) == [role |-> role, calls |-> {k}, twice |-> FALSE]

(* Mutation: the vector is copied into the list from its end.              *)
PairOf_reversed(k) == <<Half("share", k), Half("mask", k)>>

(* The list int_mp_boot_decrypt() returns.                                 *)
PairOf(k) == <<Half("mask", k), Half("share", k)>>

Returns(k, pair) ==
  /\ k \notin Called /\ Cardinality(Called) < MaxCalls
  /\ k.ct \in cts /\ k.elem \in elems
  /\ pairs' = [c \in Called \cup {k} |-> IF c = k THEN pair ELSE pairs[c]]
  /\ UNCHANGED <<owners, cts, elems, sums>>

(* Mutation: the handle of an earlier call's ciphertext is used again.     *)
IntMPBootDecrypt_staleCt(k) ==
  \/ Returns(k, PairOf(k))
  \/ \E c \in Called : Returns(k, PairOf([k EXCEPT !.ct = c.ct]))

(* Mutation: the handle of an earlier call's element is used again.        *)
IntMPBootDecrypt_staleElem(k) ==
  \/ Returns(k, PairOf(k))
  \/ \E c \in Called : Returns(k, PairOf([k EXCEPT !.elem = c.elem]))

(* int_mp_boot_decrypt(sk, ct, a): each call draws a mask of its own.      *)
IntMPBootDecrypt(k) == Returns(k, PairOf(k))

(* The sum of the h-th ciphertexts of the pairs in the list q.             *)
Added(q, h) ==
  [role  |-> IF \A i \in DOMAIN q : q[i][h].role = q[1][h].role THEN q[1][h].role ELSE "none",
   calls |-> UNION {q[i][h].calls : i \in DOMAIN q},
   twice |-> \/ \E i \in DOMAIN q : q[i][h].twice
             \/ \E i, j \in DOMAIN q : i # j /\ q[i][h].calls \cap q[j][h].calls # {}]

(* Mutation: the list that is returned has room for one ciphertext.        *)
AddPairs_firstHalf(q) == [h \in 1..1 |-> Added(q, h)]

AddPairs(q) == [h \in 1..2 |-> Added(q, h)]

(* Mutation: the sum is made in the first pair of the list, which the      *)
(* library takes by a reference to a non-const vector.                     *)
IntMPBootAdd_inPlace(q) ==
  /\ AddPairs(q) \notin sums /\ Cardinality(sums) < MaxSums
  /\ sums' = sums \cup {AddPairs(q)}
  /\ pairs' = [k \in Called |-> IF pairs[k] = q[1] THEN AddPairs(q) ELSE pairs[k]]
  /\ UNCHANGED <<owners, cts, elems>>

(* int_mp_boot_add(cc, pairs): pairs of any rounds, sums among them.       *)
IntMPBootAdd(q) ==
  /\ AddPairs(q) \notin sums /\ Cardinality(sums) < MaxSums
  /\ sums' = sums \cup {AddPairs(q)}
  /\ UNCHANGED <<owners, cts, elems, pairs>>

(* The shares and masks of the pair cancel: it holds exactly one call of   *)
(* every owner, in both halves, on this ciphertext and with this element.  *)
Restores(pair, e, ct) ==
  /\ ct.adjusted
  /\ pair[1].role = "mask" /\ pair[2].role = "share"
  /\ ~pair[1].twice /\ ~pair[2].twice /\ pair[1].calls = pair[2].calls
  /\ \A k \in pair[1].calls : k.ct = ct /\ k.elem = e
  /\ \A p \in owners : Cardinality({k \in pair[1].calls : k.by = p}) = 1

(* int_mp_boot_encrypt(pk, pair, a, ct): any public key of the context; a  *)
(* ciphertext of noise, when the pair does not fit, is of no use.          *)
IntMPBootEncrypt(pair, e, ct) ==
  /\ cts' = IF Restores(pair, e, ct)
              THEN cts \cup {[msg |-> ct.msg, elem |-> e, adjusted |-> FALSE]} ELSE cts
  /\ UNCHANGED <<owners, elems, pairs, sums>>

(* Bound: as many pairs in a list as there are owners.                     *)
Lists == UNION {[1..n -> InHand] : n \in 1..Cardinality(owners)}

Next ==
  \/ \E ct \in cts : IntMPBootAdjustScale(ct)
  \/ \E e \in Elem : IntMPBootRandomElementGen(e)
  \/ \E k \in [by : owners, ct : cts, elem : elems, try : 1..MaxTries] : IntMPBootDecrypt(k)
  \/ \E q \in Lists : IntMPBootAdd(q)
  \/ \E pair \in InHand, e \in elems, ct \in cts : IntMPBootEncrypt(pair, e, ct)

Spec == Init /\ [][Next]_vars
----------------------------------------------------------------------------
TypeOK ==
  /\ owners \subseteq Party
  /\ cts \subseteq Ciphertexts /\ elems \subseteq Elem
  /\ Called \subseteq Calls /\ pairs \in [Called -> Pairs] /\ sums \subseteq Pairs

(* A refreshed ciphertext took one call of every owner, all on one         *)
(* adjusted ciphertext of the same message and with the element it has:    *)
(* pairs of other rounds, pairs twice and pairs missing never pass for it. *)
RefreshTakesAll ==
  \A c \in cts : c.elem # NoElem =>
    \E ct \in cts :
      /\ ct.adjusted /\ ct.msg = c.msg
      /\ \A p \in owners : \E k \in Called : k.by = p /\ k.ct = ct /\ k.elem = c.elem

(* However sums were nested, the two halves of a pair are of the same      *)
(* calls and in the order the last step expects: no mask stays behind.     *)
HalvesTogether ==
  \A pair \in InHand :
    /\ pair[1].calls = pair[2].calls /\ pair[1].twice = pair[2].twice
    /\ pair[1].role = "mask" /\ pair[2].role = "share"
    /\ pair[1].calls \subseteq Called

(* Once every owner has made its call on an adjusted ciphertext with one   *)
(* element, the round can be finished: with any of the calls an owner made *)
(* again, with the pairs in any order, with some of them added first, and  *)
(* whatever sums the pairs were in before.                                 *)
Orders == {o \in [1..Cardinality(owners) -> owners] : \A i, j \in DOMAIN o : o[i] = o[j] => i = j}
Picks(ct, e) ==
  {f \in [owners -> Called] : \A p \in owners : f[p].by = p /\ f[p].ct = ct /\ f[p].elem = e}
Split(q, n) == <<AddPairs(SubSeq(q, 1, n)), AddPairs(SubSeq(q, n + 1, Len(q)))>>

RoundCompletes ==
  \A ct \in cts, e \in elems : ct.adjusted =>
    \A f \in Picks(ct, e), o \in Orders :
      LET q == [i \in DOMAIN o |-> pairs[f[o[i]]]] IN
      /\ Restores(AddPairs(q), e, ct)
      /\ \A n \in 1..(Len(q) - 1) : Restores(AddPairs(Split(q, n)), e, ct)

(* The rounds are those of JointRefresh: a call on an adjusted ciphertext  *)
(* is its owner's consent to this round and no other, it is asked for a    *)
(* ciphertext that exists, and a ciphertext is refreshed after the last of *)
(* the consents, over a chain of any number of rounds.                     *)
Item(ct) == [msg |-> ct.msg, elem |-> ct.elem]
Agreed == {<<k.by, Item(k.ct), k.elem>> : k \in {c \in Called : c.ct.adjusted}}
Known == {Item(ct) : ct \in cts}

Joint == INSTANCE JointRefresh WITH agreed <- Agreed, known <- Known

ImplementsRefresh == Joint!RSpec
============================================================================

------------------------ MODULE ThresholdDecryption ------------------------
(***************************************************************************)
(* Threshold FHE in openfhe.R: the daisy chain of public keys, partial     *)
(* decryption by every party, fusion, the one-call threshold_decrypt(),    *)
(* and the recovery of a dropped-out party's secret from its shares        *)
(* (R/multiparty.R, R/secret-sharing.R).                                   *)
(*                                                                         *)
(* The parties run in processes of their own and exchange keys and partial *)
(* decryptions; what was sent stays available, so it may reach the fusing  *)
(* party late, twice, in any order or never.                               *)
(*                                                                         *)
(* The lattice arithmetic belongs to the library and is modelled by the    *)
(* terms it adds up: a public key is a sum of secrets, a lead partial      *)
(* carries the ciphertext body and one secret, any other partial carries   *)
(* one secret, and a fusion is the sum of what it is given; the sum is the *)
(* plaintext when the body occurs once and each secret as often as in the  *)
(* key, and noise otherwise.                                               *)
(***************************************************************************)
EXTENDS Integers, FiniteSets, Sequences

CONSTANTS
  Party,      \* the participants
  Ct,         \* ciphertexts
  Sharing,    \* secret-sharing parameters: scheme, n_parties and threshold
  MaxWeight,  \* bound: how often one secret may occur in a public key
  MaxKeys,    \* bound: how many public keys are made
  MaxExtent,  \* bound: ciphertexts and parties together, and ciphertexts and
              \* partials of one fusion together
  MaxShared,  \* bound: how many ciphertexts there are while a secret is shared
  NoParty,    \* no party: the maker of a partial made with a wrong key
  NoKey,      \* the key of a ciphertext not yet encrypted
  NoShare     \* a secret that was not shared

ASSUME PartyAssumption == NoParty \notin Party /\ IsFiniteSet(Party)
ASSUME BoundAssumption == MaxWeight \in Nat \ {0} /\ MaxKeys \in Nat
                          /\ MaxExtent \in Nat /\ MaxShared \in Nat
ASSUME ShareAssumption == NoShare \notin Sharing

(* A public key: the chain it descends from, as keys can only be added     *)
(* within one, how often each secret occurs in it, and, as history, the    *)
(* parties whose calls it was made with.                                   *)
PublicKeys ==
  [root : Party \cup {NoParty}, weight : [Party -> 0..MaxWeight], joined : SUBSET Party]
ASSUME NoKeyAssumption == NoKey \notin PublicKeys

Partials == [ct : Ct, lead : BOOLEAN, by : Party \cup {NoParty}]

VARIABLES
  secret,      \* secret[p]: "none", "live", "gone" (dropped out), or "wrong"
  share,       \* share[p]: the parameters p's secret was shared with
  pks,         \* the public keys made
  keyOf,       \* keyOf[c]: the public key c is encrypted under
  partials,    \* the partial decryptions made
  contributed, \* history: the parties that took part in decrypting c
  opened       \* the ciphertexts whose plaintext was computed

vars == <<secret, share, pks, keyOf, partials, contributed, opened>>

Owners(k) == {p \in Party : k.weight[p] > 0}
Only(p) == [q \in Party |-> IF q = p THEN 1 ELSE 0]
Sum(f, g) == [p \in Party |-> f[p] + g[p]]
WithinBound(f) == \A p \in Party : f[p] <= MaxWeight
Encrypted == {c \in Ct : keyOf[c] # NoKey}
Started == {p \in Party : secret[p] # "none"}
Room(S) == Cardinality(Encrypted) + Cardinality(S) < MaxExtent

Init ==
  /\ secret = [p \in Party |-> "none"]
  /\ share = [p \in Party |-> NoShare]
  /\ pks = {}
  /\ keyOf = [c \in Ct |-> NoKey]
  /\ partials = {}
  /\ contributed = [c \in Ct |-> {}]
  /\ opened = {}
----------------------------------------------------------------------------
NewKey(p, k) ==
  /\ secret[p] = "none"
  /\ Cardinality(pks) < MaxKeys /\ Room(Started)
  /\ secret' = [secret EXCEPT ![p] = "live"]
  /\ pks' = pks \cup {k}
  /\ UNCHANGED <<share, keyOf, partials, contributed, opened>>

(* key_gen(): p starts a chain.                                            *)
KeyGen(p) == NewKey(p, [root |-> p, weight |-> Only(p), joined |-> {p}])

(* Mutation: the flags are swapped, every key is a fresh one.              *)
MultipartyKeyGen_alwaysFresh(p, k, fresh) ==
  NewKey(p, [root |-> k.root, weight |-> Only(p),
             joined |-> IF fresh THEN {p} ELSE k.joined \cup {p}])

(* multiparty_key_gen(cc, lead_pk, fresh): p's secret is added to the key  *)
(* it is given; a fresh key keeps the chain and holds p's secret alone.    *)
MultipartyKeyGen(p, k, fresh) ==
  LET w == IF fresh THEN Only(p) ELSE Sum(k.weight, Only(p)) IN
  /\ WithinBound(w)
  /\ NewKey(p, [root |-> k.root, weight |-> w,
                joined |-> IF fresh THEN {p} ELSE k.joined \cup {p}])

(* multi_add_pub_keys(): keys of two chains add up to a useless one.       *)
MultiAddPubKeys(k1, k2) ==
  /\ WithinBound(Sum(k1.weight, k2.weight))
  /\ Cardinality(pks) < MaxKeys
  /\ pks' = pks \cup {[root |-> IF k1.root = k2.root THEN k1.root ELSE NoParty,
                       weight |-> Sum(k1.weight, k2.weight),
                       joined |-> k1.joined \cup k2.joined]}
  /\ UNCHANGED <<secret, share, keyOf, partials, contributed, opened>>

(* encrypt(pk, pt)                                                         *)
Encrypt(c, k) ==
  /\ keyOf[c] = NoKey /\ Room(Started)
  /\ Cardinality(Encrypted) < MaxShared \/ \A p \in Party : share[p] = NoShare
  /\ keyOf' = [keyOf EXCEPT ![c] = k]
  /\ UNCHANGED <<secret, share, pks, partials, contributed, opened>>
----------------------------------------------------------------------------
(* Whose secret the key p works with is: its own, or after a recovery with *)
(* other parameters than it was shared with, nobody's.                     *)
Maker(p) == IF secret[p] = "live" THEN p ELSE NoParty
CanDecrypt(p) == secret[p] \in {"live", "wrong"}

Contributions(S, C) ==
  contributed' = [c \in Ct |-> IF c \in C THEN contributed[c] \cup (S \ {NoParty})
                                          ELSE contributed[c]]

PartialOf(c, lead, p) == [ct |-> c, lead |-> lead, by |-> Maker(p)]

(* One result for each ciphertext, in the order given: the single form and *)
(* the list form.                                                          *)
DecryptPart(p, C, lead) ==
  /\ CanDecrypt(p) /\ C # {}
  /\ partials' = partials \cup {PartialOf(c, lead, p) : c \in C}
  /\ Contributions({Maker(p)}, C)
  /\ UNCHANGED <<secret, share, pks, keyOf, opened>>

MultipartyDecryptLead(p, C) == DecryptPart(p, C, TRUE)
MultipartyDecryptMain(p, C) == DecryptPart(p, C, FALSE)

(* The sum of the partials of q is the plaintext of c.                     *)
Opens(q, c) ==
  /\ keyOf[c] # NoKey /\ keyOf[c].root # NoParty
  /\ \A i \in DOMAIN q : q[i].ct = c /\ q[i].by # NoParty
  /\ Cardinality({i \in DOMAIN q : q[i].lead}) = 1
  /\ \A p \in Party : Cardinality({i \in DOMAIN q : q[i].by = p}) = keyOf[c].weight[p]

(* multiparty_decrypt_fusion(cc, ...): at least two partials, in the order *)
(* given; that the first is a lead's, that they are of one ciphertext and  *)
(* that none occurs twice is not checked, the sum is then noise.           *)
MultipartyDecryptFusion(q) ==
  /\ Len(q) >= 2
  /\ opened' = opened \cup {c \in Ct : Opens(q, c)}
  /\ UNCHANGED <<secret, share, pks, keyOf, partials, contributed>>

(* Mutation: the loop over the other keys starts at the lead's.            *)
ThresholdPartials_leadTwice(ps, c) ==
  [i \in 1..(Len(ps) + 1) |-> PartialOf(c, i = 1, IF i = 1 THEN ps[1] ELSE ps[i - 1])]

(* threshold_decrypt(cc, sks, ct): the first key leads.                    *)
ThresholdPartials(ps, c) == [i \in DOMAIN ps |-> PartialOf(c, i = 1, ps[i])]

ThresholdDecrypt(ps, c) ==
  /\ Len(ps) >= 2 /\ \A i \in DOMAIN ps : CanDecrypt(ps[i])
  /\ Contributions({Maker(ps[i]) : i \in DOMAIN ps}, {c})
  /\ opened' = IF Opens(ThresholdPartials(ps, c), c) THEN opened \cup {c} ELSE opened
  /\ UNCHANGED <<secret, share, pks, keyOf, partials>>
----------------------------------------------------------------------------
(* share_keys(): the other parties keep shares of p's secret.              *)
ShareKeys(p, how) ==
  /\ secret[p] = "live" /\ Cardinality(Encrypted) <= MaxShared
  /\ share' = [share EXCEPT ![p] = how]
  /\ UNCHANGED <<secret, pks, keyOf, partials, contributed, opened>>

(* p's process ends and its secret with it.                                *)
DropOut(p) ==
  /\ secret[p] \in {"live", "wrong"}
  /\ secret' = [secret EXCEPT ![p] = "gone"]
  /\ UNCHANGED <<share, pks, keyOf, partials, contributed, opened>>

(* Mutation: the placeholder is returned unfilled.                         *)
RecoverSharedKey_unfilled(p, how) ==
  /\ secret[p] \in {"gone", "wrong"} /\ share[p] # NoShare
  /\ secret' = [secret EXCEPT ![p] = "placeholder"]
  /\ UNCHANGED <<share, pks, keyOf, partials, contributed, opened>>

(* recover_shared_key(): the placeholder key is filled from the share map; *)
(* parameters other than those of share_keys() give some other key.        *)
RecoverSharedKey(p, how) ==
  /\ secret[p] \in {"gone", "wrong"} /\ share[p] # NoShare
  /\ secret' = [secret EXCEPT ![p] = IF how = share[p] THEN "live" ELSE "wrong"]
  /\ UNCHANGED <<share, pks, keyOf, partials, contributed, opened>>

Given(S) ==
  UNION {[1..k -> S] : k \in {n \in 2..MaxExtent : n + Cardinality(Encrypted) <= MaxExtent}}

Next ==
  \/ \E p \in Party : KeyGen(p) \/ DropOut(p)
  \/ \E p \in Party, k \in pks, fresh \in BOOLEAN : MultipartyKeyGen(p, k, fresh)
  \/ \E k1, k2 \in pks : MultiAddPubKeys(k1, k2)
  \/ \E c \in Ct, k \in pks : Encrypt(c, k)
  \/ \E p \in Party, C \in SUBSET Encrypted :
       MultipartyDecryptLead(p, C) \/ MultipartyDecryptMain(p, C)
  \/ \E q \in Given(partials) : MultipartyDecryptFusion(q)
  \/ \E ps \in Given(Party), c \in Encrypted : ThresholdDecrypt(ps, c)
  \/ \E p \in Party, how \in Sharing : ShareKeys(p, how) \/ RecoverSharedKey(p, how)

Spec == Init /\ [][Next]_vars

(* The recipe of R/multiparty.R:13-14: the lead calls key_gen(), and every *)
(* further party calls multiparty_key_gen() with the lead's public key.    *)
RecipeNext ==
  \/ pks = {} /\ \E p \in Party : KeyGen(p)
  \/ \E p \in Party, k \in pks : k.weight = Only(k.root) /\ MultipartyKeyGen(p, k, FALSE)
RecipeSpec == Init /\ [][RecipeNext]_vars
----------------------------------------------------------------------------
TypeOK ==
  /\ secret \in [Party -> {"none", "live", "gone", "wrong"}]
  /\ share \in [Party -> Sharing \cup {NoShare}]
  /\ pks \subseteq PublicKeys
  /\ keyOf \in [Ct -> PublicKeys \cup {NoKey}]
  /\ partials \subseteq Partials
  /\ contributed \in [Ct -> SUBSET Party]
  /\ opened \in SUBSET Ct

(* A plaintext is computed only from contributions, to that ciphertext, of *)
(* every party that took part in making its key: whatever chain of fresh,  *)
(* extended and added keys led to it, and whatever mix of early, late,     *)
(* repeated and reordered partials, of keys that were fused, added or      *)
(* recovered with wrong parameters, the fusing party was given.            *)
OpenedNeedsAll ==
  \A c \in opened : keyOf[c] # NoKey /\ keyOf[c].joined \subseteq contributed[c]

(* threshold_decrypt() with the secrets of a daisy-chained key opens its   *)
(* ciphertexts whichever party leads and whatever the order of the rest,   *)
(* also when some of the secrets were recovered from shares.               *)
ChainKey(k) == k.root # NoParty /\ \A p \in Party : k.weight[p] <= 1
Orders(S) == {ps \in [1..Cardinality(S) -> S] : \A i, j \in DOMAIN ps : ps[i] = ps[j] => i = j}

AnyLeadOpens ==
  \A c \in Encrypted :
    LET S == keyOf[c].joined IN
    ChainKey(keyOf[c]) /\ Cardinality(S) >= 2 /\ (\A p \in S : secret[p] = "live") =>
      \A ps \in Orders(S) : Opens(ThresholdPartials(ps, c), c)

(* R/multiparty.R:11-24: with that recipe the parties end up with a key    *)
(* under which all of them decrypt together.                               *)
RecipeGivesJointKey ==
  (\A p \in Party : secret[p] = "live") => \E k \in pks : Owners(k) = Party

(* The protocol implements the promise of JointDecryption: the owners of a *)
(* ciphertext are the parties that took part in making its key.            *)
CtOwners == [c \in Ct |-> IF keyOf[c] = NoKey THEN {} ELSE keyOf[c].joined]
Joint == INSTANCE JointDecryption WITH owners <- CtOwners
ImplementsJoint == Joint!JSpec
============================================================================

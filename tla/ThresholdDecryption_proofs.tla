--------------------- MODULE ThresholdDecryption_proofs ---------------------
(***************************************************************************)
(* Theorems about ThresholdDecryption for every set of parties and         *)
(* ciphertexts: typing, that a plaintext takes every owner, and that the   *)
(* protocol implements JointDecryption.                                    *)
(*                                                                         *)
(* OpenedNeedsAll becomes inductive with two facts: what was sent was made *)
(* by a party that is on record for that ciphertext (PartialsOnRecord),    *)
(* and the secrets in a key are those of the parties that took part in     *)
(* making it, one at least (KeysOwned).                                    *)
(***************************************************************************)
EXTENDS ThresholdDecryption, FiniteSetTheorems, TLAPS

PartialsOnRecord == \A r \in partials : r.by # NoParty => r.by \in contributed[r.ct]
Owned(k) == Owners(k) # {} /\ k.joined = Owners(k)
KeysOwned ==
  /\ \A k \in pks : Owned(k)
  /\ \A c \in Ct : keyOf[c] # NoKey => Owned(keyOf[c])

IInv == TypeOK /\ OpenedNeedsAll /\ PartialsOnRecord /\ KeysOwned

(* Weights add up party by party.                                          *)
LEMMA WeightFacts ==
  ASSUME NEW f \in [Party -> 0..MaxWeight], NEW g \in [Party -> 0..MaxWeight],
         WithinBound(Sum(f, g)), NEW p \in Party
  PROVE  Sum(f, g) \in [Party -> 0..MaxWeight] /\ Sum(f, g)[p] = f[p] + g[p]
  BY BoundAssumption DEF Sum, WithinBound

LEMMA OnlyFacts ==
  ASSUME NEW p \in Party, WithinBound(Only(p))
  PROVE  Only(p) \in [Party -> 0..MaxWeight] /\ Only(p)[p] = 1
  BY BoundAssumption DEF Only, WithinBound

(* A sequence of partials that adds up to the plaintext of c has one of c  *)
(* by every owner.                                                         *)
LEMMA OpensUsesAll ==
  ASSUME NEW q, NEW c \in Ct, Opens(q, c), keyOf[c] \in PublicKeys,
         NEW p \in Owners(keyOf[c])
  PROVE  \E i \in DOMAIN q : q[i].by = p /\ q[i].ct = c
<1>1. Cardinality({i \in DOMAIN q : q[i].by = p}) = keyOf[c].weight[p]
  BY DEF Opens, Owners
<1>2. keyOf[c].weight[p] > 0
  BY DEF Owners
<1>3. {i \in DOMAIN q : q[i].by = p} # {}
  <2> SUFFICES ASSUME {i \in DOMAIN q : q[i].by = p} = {} PROVE FALSE
    OBVIOUS
  <2>1. Cardinality({i \in DOMAIN q : q[i].by = p}) = 0
    BY FS_EmptySet
  <2> QED BY <1>1, <1>2, <2>1
<1> QED BY <1>3 DEF Opens

(* A fusion opens at most one ciphertext: that of its first partial.       *)
LEMMA FusionOpensOne ==
  ASSUME NEW q \in Given(partials), NEW c \in Ct, NEW d \in Ct,
         Opens(q, c), Opens(q, d)
  PROVE  c = d
<1>1. PICK k \in 2..MaxExtent : q \in [1..k -> partials]
  BY DEF Given
<1>2. 1 \in DOMAIN q
  BY <1>1, BoundAssumption
<1> QED BY <1>2 DEF Opens

LEMMA ContributionType ==
  ASSUME TypeOK, NEW S \in SUBSET (Party \cup {NoParty}), NEW C, Contributions(S, C)
  PROVE  /\ contributed' \in [Ct -> SUBSET Party]
         /\ \A c \in Ct : contributed[c] \subseteq contributed'[c]
         /\ \A c \in Ct \cap C : S \ {NoParty} \subseteq contributed'[c]
  BY DEF Contributions, TypeOK

LEMMA MakerType == ASSUME NEW p \in Party PROVE Maker(p) \in Party \cup {NoParty}
  BY DEF Maker

(* Partial decryption keeps the invariant.                                 *)
LEMMA DecryptKeeps ==
  ASSUME IInv, NEW p \in Party, NEW C \in SUBSET Encrypted, NEW lead \in BOOLEAN,
         DecryptPart(p, C, lead)
  PROVE  IInv'
<1>1. /\ TypeOK /\ Contributions({Maker(p)}, C)
      /\ partials' = partials \cup {PartialOf(c, lead, p) : c \in C}
      /\ UNCHANGED <<secret, share, pks, keyOf, opened>>
  BY DEF IInv, DecryptPart
<1>2. /\ contributed' \in [Ct -> SUBSET Party]
      /\ \A c \in Ct : contributed[c] \subseteq contributed'[c]
      /\ \A c \in Ct \cap C : {Maker(p)} \ {NoParty} \subseteq contributed'[c]
  BY <1>1, ContributionType, MakerType
<1>3. C \subseteq Ct
  BY DEF Encrypted
<1>4. \A c \in C : PartialOf(c, lead, p) \in Partials
  BY <1>3, MakerType DEF PartialOf, Partials
<1>5. TypeOK'
  BY <1>1, <1>2, <1>4 DEF TypeOK
<1>6. PartialsOnRecord'
  <2> SUFFICES ASSUME NEW r \in partials', r.by # NoParty PROVE r.by \in contributed'[r.ct]
    BY DEF PartialsOnRecord
  <2>1. CASE r \in partials
    BY <1>1, <1>2, <2>1 DEF IInv, PartialsOnRecord, TypeOK, Partials
  <2>2. CASE r \notin partials
    <3>1. PICK c \in C : r = PartialOf(c, lead, p)
      BY <1>1, <2>2
    <3> QED BY <1>2, <1>3, <3>1 DEF PartialOf
  <2> QED BY <2>1, <2>2
<1>7. OpenedNeedsAll'
  BY <1>1, <1>2 DEF IInv, OpenedNeedsAll, Owners, TypeOK
<1>8. KeysOwned'
  BY <1>1 DEF IInv, KeysOwned, Owned, Owners
<1> QED BY <1>5, <1>6, <1>7, <1>8 DEF IInv

LEMMA FusionKeeps ==
  ASSUME IInv, NEW q \in Given(partials), MultipartyDecryptFusion(q)
  PROVE  IInv'
<1>1. /\ opened' = opened \cup {c \in Ct : Opens(q, c)}
      /\ UNCHANGED <<secret, share, pks, keyOf, partials, contributed>>
  BY DEF MultipartyDecryptFusion
<1>2. PICK k \in 2..MaxExtent : q \in [1..k -> partials]
  BY DEF Given
<1>3. ASSUME NEW c \in Ct, Opens(q, c)
      PROVE  keyOf[c] # NoKey /\ keyOf[c].joined \subseteq contributed[c]
  <2>1. keyOf[c] \in PublicKeys /\ keyOf[c] # NoKey /\ keyOf[c].joined = Owners(keyOf[c])
    BY <1>3 DEF Opens, IInv, TypeOK, KeysOwned, Owned
  <2>2. ASSUME NEW p \in Owners(keyOf[c]) PROVE p \in contributed[c]
    <3>1. PICK i \in DOMAIN q : q[i].by = p /\ q[i].ct = c
      BY <1>3, <2>1, OpensUsesAll
    <3>2. q[i] \in partials /\ p \in Party
      BY <1>2 DEF Owners
    <3> QED BY <3>1, <3>2, PartyAssumption DEF IInv, PartialsOnRecord
  <2> QED BY <2>1, <2>2
<1>4. OpenedNeedsAll'
  BY <1>1, <1>3 DEF IInv, OpenedNeedsAll, Owners
<1>5. TypeOK'
  BY <1>1 DEF IInv, TypeOK
<1> QED BY <1>1, <1>4, <1>5 DEF IInv, PartialsOnRecord, KeysOwned, Owned, Owners

(* What threshold_decrypt() opens, its own keys' owners took part in.      *)
LEMMA ThresholdUsesAll ==
  ASSUME IInv, NEW ps \in Given(Party), NEW c \in Encrypted,
         ThresholdDecrypt(ps, c), Opens(ThresholdPartials(ps, c), c)
  PROVE  keyOf[c].joined \subseteq contributed'[c]
<1>1. keyOf[c] \in PublicKeys /\ c \in Ct /\ keyOf[c].joined = Owners(keyOf[c])
  BY DEF Encrypted, IInv, TypeOK, KeysOwned, Owned
<1>2. PICK k \in 2..MaxExtent : ps \in [1..k -> Party]
  BY DEF Given
<1>3. /\ contributed' \in [Ct -> SUBSET Party]
      /\ \A d \in Ct \cap {c} : {Maker(ps[i]) : i \in DOMAIN ps} \ {NoParty} \subseteq contributed'[d]
  <2>1. {Maker(ps[i]) : i \in DOMAIN ps} \in SUBSET (Party \cup {NoParty})
    BY <1>2, MakerType
  <2> QED BY <2>1, ContributionType DEF ThresholdDecrypt, IInv
<1>4. ASSUME NEW p \in Owners(keyOf[c]) PROVE p \in contributed'[c]
  <2>1. PICK i \in DOMAIN ThresholdPartials(ps, c) : ThresholdPartials(ps, c)[i].by = p
    BY <1>1, OpensUsesAll
  <2>2. i \in DOMAIN ps /\ Maker(ps[i]) = p
    BY <2>1 DEF ThresholdPartials, PartialOf
  <2>3. p # NoParty
    BY PartyAssumption DEF Owners
  <2> QED BY <1>1, <1>3, <2>2, <2>3
<1> QED BY <1>1, <1>4

LEMMA ThresholdKeeps ==
  ASSUME IInv, NEW ps \in Given(Party), NEW c \in Encrypted, ThresholdDecrypt(ps, c)
  PROVE  IInv'
<1>1. /\ TypeOK /\ c \in Ct /\ keyOf[c] # NoKey
      /\ Contributions({Maker(ps[i]) : i \in DOMAIN ps}, {c})
      /\ opened' = IF Opens(ThresholdPartials(ps, c), c) THEN opened \cup {c} ELSE opened
      /\ UNCHANGED <<secret, share, pks, keyOf, partials>>
  BY DEF IInv, ThresholdDecrypt, Encrypted
<1>2. PICK k \in 2..MaxExtent : ps \in [1..k -> Party]
  BY DEF Given
<1>3. /\ contributed' \in [Ct -> SUBSET Party]
      /\ \A d \in Ct : contributed[d] \subseteq contributed'[d]
  <2>1. {Maker(ps[i]) : i \in DOMAIN ps} \in SUBSET (Party \cup {NoParty})
    BY <1>2, MakerType
  <2> QED BY <1>1, <2>1, ContributionType
<1>4. TypeOK'
  BY <1>1, <1>3 DEF TypeOK
<1>5. PartialsOnRecord'
  BY <1>1, <1>3 DEF IInv, PartialsOnRecord, TypeOK, Partials
<1>6. OpenedNeedsAll'
  <2> SUFFICES ASSUME NEW d \in opened'
               PROVE  keyOf[d] # NoKey /\ keyOf[d].joined \subseteq contributed'[d]
    BY <1>1 DEF OpenedNeedsAll
  <2>1. CASE d \in opened
    BY <1>1, <1>3, <2>1 DEF IInv, OpenedNeedsAll, TypeOK
  <2>2. CASE d \notin opened
    BY <1>1, <2>2, ThresholdUsesAll
  <2> QED BY <2>1, <2>2
<1> QED BY <1>1, <1>4, <1>5, <1>6 DEF IInv, KeysOwned, Owners, Owned

(* A new public key with an owner keeps the invariant.                     *)
LEMMA KeyKeeps ==
  ASSUME IInv, NEW k \in PublicKeys, Owned(k), pks' = pks \cup {k},
         secret' \in [Party -> {"none", "live", "gone", "wrong"}],
         UNCHANGED <<share, keyOf, partials, contributed, opened>>
  PROVE  IInv'
  BY DEF IInv, TypeOK, OpenedNeedsAll, PartialsOnRecord, KeysOwned, Owned, Owners

LEMMA NewKeyKeeps ==
  ASSUME IInv, NEW p \in Party, NEW k \in PublicKeys, Owned(k), NewKey(p, k)
  PROVE  IInv'
<1>1. secret' \in [Party -> {"none", "live", "gone", "wrong"}]
  BY DEF IInv, TypeOK, NewKey
<1> QED BY <1>1, KeyKeeps DEF NewKey

LEMMA InvInit == Init => IInv
  BY DEF Init, IInv, TypeOK, OpenedNeedsAll, PartialsOnRecord, KeysOwned

LEMMA InvStep == IInv /\ [Next]_vars => IInv'
<1> SUFFICES ASSUME IInv, [Next]_vars PROVE IInv'
  OBVIOUS
<1> USE BoundAssumption
<1>1. ASSUME NEW p \in Party, KeyGen(p) PROVE IInv'
  <2> DEFINE k == [root |-> p, weight |-> Only(p), joined |-> {p}]
  <2>1. IInv /\ NewKey(p, k)
    BY <1>1 DEF KeyGen
  <2>2. WithinBound(Only(p))
    BY DEF WithinBound, Only
  <2>3. k \in PublicKeys /\ Owned(k)
    BY <2>2, OnlyFacts DEF PublicKeys, Owners, Owned, Only
  <2> QED BY <2>1, <2>3, NewKeyKeeps
<1>2. ASSUME NEW p \in Party, NEW k \in pks, NEW fresh \in BOOLEAN, MultipartyKeyGen(p, k, fresh)
      PROVE  IInv'
  <2>1. k \in PublicKeys /\ k.joined = Owners(k)
    BY DEF IInv, TypeOK, KeysOwned, Owned
  <2>2. WithinBound(Only(p))
    BY DEF WithinBound, Only
  <2>3. Only(p) \in [Party -> 0..MaxWeight] /\ \A q \in Party : Only(p)[q] = IF q = p THEN 1 ELSE 0
    BY <2>2, OnlyFacts DEF Only
  <2>4. PICK w, j : /\ w = (IF fresh THEN Only(p) ELSE Sum(k.weight, Only(p)))
                    /\ j = (IF fresh THEN {p} ELSE k.joined \cup {p})
                    /\ WithinBound(w)
                    /\ NewKey(p, [root |-> k.root, weight |-> w, joined |-> j])
    BY <1>2 DEF MultipartyKeyGen
  <2>5. w \in [Party -> 0..MaxWeight] /\ j = {q \in Party : w[q] > 0} /\ p \in j
    <3>1. CASE fresh
      BY <2>3, <2>4, <3>1
    <3>2. CASE ~fresh
      <4>1. k.weight \in [Party -> 0..MaxWeight] /\ w = Sum(k.weight, Only(p))
        BY <2>1, <2>4, <3>2 DEF PublicKeys
      <4>2. \A q \in Party : k.weight[q] \in Nat
        BY <4>1
      <4>3. ASSUME NEW q \in Party
            PROVE  /\ w \in [Party -> 0..MaxWeight]
                   /\ w[q] = k.weight[q] + (IF q = p THEN 1 ELSE 0)
        BY <2>3, <2>4, <4>1, WeightFacts
      <4>4. \A q \in Party : w[q] > 0 <=> q = p \/ k.weight[q] > 0
        BY <4>2, <4>3
      <4> QED BY <2>1, <2>4, <3>2, <4>3, <4>4 DEF Owners
    <3> QED BY <3>1, <3>2
  <2>6. [root |-> k.root, weight |-> w, joined |-> j] \in PublicKeys
    BY <2>1, <2>5 DEF PublicKeys
  <2>7. Owned([root |-> k.root, weight |-> w, joined |-> j])
    BY <2>5 DEF Owners, Owned
  <2> QED BY <2>4, <2>6, <2>7, NewKeyKeeps
<1>3. ASSUME NEW k1 \in pks, NEW k2 \in pks, MultiAddPubKeys(k1, k2) PROVE IInv'
  <2> DEFINE w == Sum(k1.weight, k2.weight)
             k == [root |-> IF k1.root = k2.root THEN k1.root ELSE NoParty,
                   weight |-> w, joined |-> k1.joined \cup k2.joined]
  <2>1. k1 \in PublicKeys /\ k2 \in PublicKeys /\ Owned(k1) /\ Owned(k2)
    BY DEF IInv, TypeOK, KeysOwned
  <2>2. WithinBound(w)
    BY <1>3 DEF MultiAddPubKeys
  <2>3. ASSUME NEW p \in Party
        PROVE  /\ w \in [Party -> 0..MaxWeight] /\ w[p] = k1.weight[p] + k2.weight[p]
               /\ k1.weight[p] \in Nat /\ k2.weight[p] \in Nat
    BY <2>1, <2>2, WeightFacts DEF PublicKeys
  <2>4. PICK p \in Party : k1.weight[p] > 0
    BY <2>1 DEF Owners, Owned
  <2>5. \A q \in Party : w[q] > 0 <=> k1.weight[q] > 0 \/ k2.weight[q] > 0
    BY <2>3
  <2>6. k \in PublicKeys
    BY <2>1, <2>3, <2>4 DEF PublicKeys
  <2> HIDE DEF w
  <2>7. Owned(k)
    BY <2>1, <2>4, <2>5 DEF Owners, Owned
  <2>8. /\ pks' = pks \cup {k}
        /\ UNCHANGED <<secret, share, keyOf, partials, contributed, opened>>
    BY <1>3 DEF MultiAddPubKeys, w
  <2>9. secret' \in [Party -> {"none", "live", "gone", "wrong"}]
    BY <2>8 DEF IInv, TypeOK
  <2> QED BY <2>6, <2>7, <2>8, <2>9, KeyKeeps
<1>4. ASSUME NEW c \in Ct, NEW k \in pks, Encrypt(c, k) PROVE IInv'
  <2>1. /\ keyOf[c] = NoKey /\ keyOf' = [keyOf EXCEPT ![c] = k]
        /\ UNCHANGED <<secret, share, pks, partials, contributed, opened>>
    BY <1>4 DEF Encrypt
  <2>2. TypeOK' /\ KeysOwned' /\ PartialsOnRecord'
    BY <2>1 DEF IInv, TypeOK, KeysOwned, PartialsOnRecord, Owned, Owners
  <2>3. OpenedNeedsAll'
    BY <2>1 DEF IInv, TypeOK, OpenedNeedsAll, Owners
  <2> QED BY <2>2, <2>3 DEF IInv
<1>5. ASSUME NEW p \in Party, NEW C \in SUBSET Encrypted,
             MultipartyDecryptLead(p, C) \/ MultipartyDecryptMain(p, C)
      PROVE  IInv'
  BY <1>5, DecryptKeeps DEF MultipartyDecryptLead, MultipartyDecryptMain
<1>6. ASSUME NEW q \in Given(partials), MultipartyDecryptFusion(q) PROVE IInv'
  BY <1>6, FusionKeeps
<1>7. ASSUME NEW ps \in Given(Party), NEW c \in Encrypted, ThresholdDecrypt(ps, c)
      PROVE  IInv'
  BY <1>7, ThresholdKeeps
<1>8. ASSUME NEW p \in Party, NEW how \in Sharing,
             ShareKeys(p, how) \/ RecoverSharedKey(p, how) \/ DropOut(p)
      PROVE  IInv'
  BY <1>8 DEF ShareKeys, RecoverSharedKey, DropOut, IInv, TypeOK, OpenedNeedsAll,
              PartialsOnRecord, KeysOwned, Owned, Owners
<1>9. ASSUME NEW p \in Party, DropOut(p) PROVE IInv'
  BY <1>9 DEF DropOut, IInv, TypeOK, OpenedNeedsAll, PartialsOnRecord, KeysOwned, Owned, Owners
<1>10. CASE UNCHANGED vars
  BY <1>10 DEF vars, IInv, TypeOK, OpenedNeedsAll, PartialsOnRecord, KeysOwned, Owned, Owners
<1> QED
  BY <1>1, <1>2, <1>3, <1>4, <1>5, <1>6, <1>7, <1>8, <1>9, <1>10 DEF Next

(* The protocol's state is well typed.                                     *)
THEOREM TypeCorrect == Spec => []TypeOK
<1>1. IInv => TypeOK
  BY DEF IInv
<1> QED BY <1>1, InvInit, InvStep, PTL DEF Spec

(* A plaintext takes a contribution of every party in the key.             *)
THEOREM OpeningTakesAll == Spec => []OpenedNeedsAll
<1>1. IInv => OpenedNeedsAll
  BY DEF IInv
<1> QED BY <1>1, InvInit, InvStep, PTL DEF Spec
----------------------------------------------------------------------------
(* Every step of the protocol is a step of JointDecryption or a stutter.   *)
LEMMA JointStep == IInv /\ IInv' /\ [Next]_vars => [Joint!JNext]_Joint!jvars
<1> SUFFICES ASSUME IInv, IInv', [Next]_vars PROVE [Joint!JNext]_Joint!jvars
  OBVIOUS
<1> DEFINE Still == UNCHANGED <<keyOf, contributed, opened>>
<1>1. ASSUME Still PROVE UNCHANGED Joint!jvars
  BY <1>1 DEF Joint!jvars, CtOwners, Owners
<1>2. ASSUME NEW p \in Party, KeyGen(p) \/ DropOut(p) PROVE Still
  BY <1>2 DEF KeyGen, NewKey, DropOut
<1>3. ASSUME NEW p \in Party, NEW k \in pks, NEW fresh \in BOOLEAN, MultipartyKeyGen(p, k, fresh)
      PROVE  Still
  BY <1>3 DEF MultipartyKeyGen, NewKey
<1>4. ASSUME NEW k1 \in pks, NEW k2 \in pks, MultiAddPubKeys(k1, k2) PROVE Still
  BY <1>4 DEF MultiAddPubKeys
<1>5. ASSUME NEW p \in Party, NEW how \in Sharing, ShareKeys(p, how) \/ RecoverSharedKey(p, how)
      PROVE  Still
  BY <1>5 DEF ShareKeys, RecoverSharedKey
<1>6. ASSUME NEW c \in Ct, NEW k \in pks, Encrypt(c, k) PROVE Joint!JNext
  <2>1. /\ keyOf[c] = NoKey /\ keyOf' = [keyOf EXCEPT ![c] = k]
        /\ UNCHANGED <<contributed, opened>>
    BY <1>6 DEF Encrypt
  <2>2. CtOwners[c] = {}
    BY <2>1 DEF CtOwners
  <2>3. k # NoKey
    BY NoKeyAssumption DEF IInv, TypeOK
  <2>4. CtOwners' = [CtOwners EXCEPT ![c] = k.joined]
    BY <2>1, <2>3 DEF CtOwners, IInv, TypeOK, Owners
  <2>5. Joint!JEncrypt(c, k.joined)
    BY <2>1, <2>2, <2>4 DEF Joint!JEncrypt
  <2>6. k.joined \in SUBSET Party
    BY DEF IInv, TypeOK, PublicKeys
  <2> QED BY <2>5, <2>6 DEF Joint!JNext
<1>7. ASSUME NEW p \in Party, NEW C \in SUBSET Encrypted,
             MultipartyDecryptLead(p, C) \/ MultipartyDecryptMain(p, C)
      PROVE  Joint!JNext
  <2> DEFINE S == {Maker(p)} \ {NoParty}
  <2>1. Contributions({Maker(p)}, C) /\ UNCHANGED <<keyOf, opened>>
    BY <1>7 DEF MultipartyDecryptLead, MultipartyDecryptMain, DecryptPart
  <2>2. CtOwners' = CtOwners
    BY <2>1 DEF CtOwners, Owners
  <2>3. Joint!Contribute(S, C)
    BY <2>1, <2>2 DEF Joint!Contribute, Contributions
  <2>4. S \in SUBSET Party /\ C \in SUBSET Ct
    BY MakerType DEF Encrypted
  <2> QED BY <2>3, <2>4 DEF Joint!JNext
<1>8. ASSUME NEW q \in Given(partials), MultipartyDecryptFusion(q)
      PROVE  Still \/ Joint!JNext
  <2>1. /\ opened' = opened \cup {c \in Ct : Opens(q, c)}
        /\ UNCHANGED <<keyOf, contributed>>
    BY <1>8 DEF MultipartyDecryptFusion
  <2>2. CASE {c \in Ct : Opens(q, c)} = {}
    BY <2>1, <2>2
  <2>3. ASSUME NEW c \in Ct, Opens(q, c) PROVE Joint!JNext
    <3>1. opened' = opened \cup {c}
      BY <2>1, <2>3, FusionOpensOne
    <3>2. CtOwners' = CtOwners
      BY <2>1 DEF CtOwners, Owners
    <3>3. contributed' = [contributed EXCEPT ![c] = @ \cup {}]
      BY <2>1 DEF IInv, TypeOK
    <3>4. keyOf[c] # NoKey /\ keyOf[c].joined # {} /\ keyOf[c].joined \subseteq contributed'[c]
      BY <2>1, <3>1 DEF IInv, OpenedNeedsAll, KeysOwned, Owned
    <3>5. CtOwners[c] # {} /\ CtOwners[c] \subseteq contributed'[c]
      BY <3>4 DEF CtOwners
    <3>6. Joint!Open(c, {})
      BY <3>1, <3>2, <3>3, <3>5 DEF Joint!Open
    <3> QED BY <3>6 DEF Joint!JNext
  <2> QED BY <2>2, <2>3
<1>9. ASSUME NEW ps \in Given(Party), NEW c \in Encrypted, ThresholdDecrypt(ps, c)
      PROVE  Joint!JNext
  <2> DEFINE T == {Maker(ps[i]) : i \in DOMAIN ps}
             S == T \ {NoParty}
  <2>1. /\ Contributions(T, {c}) /\ UNCHANGED keyOf
        /\ opened' = IF Opens(ThresholdPartials(ps, c), c) THEN opened \cup {c} ELSE opened
    BY <1>9 DEF ThresholdDecrypt
  <2>2. CtOwners' = CtOwners /\ c \in Ct /\ keyOf[c] # NoKey
    BY <2>1 DEF CtOwners, Owners, Encrypted
  <2>3. S \in SUBSET Party
    <3>1. PICK k \in 2..MaxExtent : ps \in [1..k -> Party]
      BY DEF Given
    <3> QED BY <3>1, MakerType
  <2> HIDE DEF T
  <2>4. CASE Opens(ThresholdPartials(ps, c), c)
    <3>1. keyOf[c].joined # {} /\ keyOf[c].joined \subseteq contributed'[c]
      BY <1>9, <2>2, <2>4, ThresholdUsesAll DEF IInv, KeysOwned, Owned
    <3>2. CtOwners[c] # {} /\ CtOwners[c] \subseteq contributed'[c]
      BY <2>2, <3>1 DEF CtOwners
    <3>3. contributed' = [contributed EXCEPT ![c] = @ \cup S]
      BY <2>1 DEF Contributions, IInv, TypeOK
    <3>4. Joint!Open(c, S)
      BY <2>1, <2>2, <2>4, <3>2, <3>3 DEF Joint!Open
    <3> QED BY <2>2, <2>3, <3>4 DEF Joint!JNext
  <2>5. CASE ~Opens(ThresholdPartials(ps, c), c)
    <3>1. Joint!Contribute(S, {c})
      BY <2>1, <2>2, <2>5 DEF Joint!Contribute, Contributions
    <3> QED BY <2>2, <2>3, <3>1 DEF Joint!JNext
  <2> QED BY <2>4, <2>5
<1>10. CASE UNCHANGED vars
  BY <1>10 DEF vars, Joint!jvars, CtOwners, Owners
<1> QED
  BY <1>1, <1>2, <1>3, <1>4, <1>5, <1>6, <1>7, <1>8, <1>9, <1>10 DEF Next

(* The protocol implements JointDecryption.                                *)
THEOREM Implementation == Spec => ImplementsJoint
<1>1. Init => Joint!JInit
  BY DEF Init, Joint!JInit, CtOwners
<1>2. Spec => []IInv
  BY InvInit, InvStep, PTL DEF Spec
<1> QED BY <1>1, <1>2, JointStep, PTL DEF Spec, ImplementsJoint, Joint!JSpec
----------------------------------------------------------------------------
(* A sequence without repetitions, as long as its finite set has elements, *)
(* holds each of them in exactly one place.                                *)
LEMMA OrderHoldsEach ==
  ASSUME NEW S, IsFiniteSet(S), NEW ps \in Orders(S), NEW p \in S
  PROVE  Cardinality({i \in DOMAIN ps : ps[i] = p}) = 1
<1> DEFINE n == Cardinality(S)
<1>1. n \in Nat
  BY FS_CardinalityType
<1>2. IsFiniteSet(1..n) /\ Cardinality(1..n) = n
  BY <1>1, FS_Interval
<1>3. ps \in [1..n -> S] /\ \A i, j \in 1..n : ps[i] = ps[j] => i = j
  BY DEF Orders
<1>4. ps \in Injection(1..n, S)
  BY <1>3 DEF Injection, IsInjective
<1>5. ps \in Surjection(1..n, S)
  BY <1>2, <1>4, FS_Injection
<1>6. PICK i \in 1..n : ps[i] = p
  BY <1>5 DEF Surjection
<1>7. {j \in DOMAIN ps : ps[j] = p} = {i}
  BY <1>3, <1>6
<1> QED BY <1>7, FS_Singleton

(* All owners of a daisy-chained key, in any order, open its ciphertexts.  *)
LEMMA OwnersOpen ==
  ASSUME IInv, NEW c \in Encrypted, ChainKey(keyOf[c]),
         Cardinality(keyOf[c].joined) >= 2,
         \A p \in keyOf[c].joined : secret[p] = "live",
         NEW ps \in Orders(keyOf[c].joined)
  PROVE  Opens(ThresholdPartials(ps, c), c)
<1> DEFINE S == keyOf[c].joined
           q == ThresholdPartials(ps, c)
<1>1. /\ c \in Ct /\ keyOf[c] # NoKey /\ keyOf[c] \in PublicKeys
      /\ S = {p \in Party : keyOf[c].weight[p] > 0}
  BY DEF IInv, TypeOK, KeysOwned, Owned, Owners, Encrypted
<1>2. IsFiniteSet(S) /\ Cardinality(S) \in Nat
  BY <1>1, PartyAssumption, FS_Subset, FS_CardinalityType
<1>3. DOMAIN ps = 1..Cardinality(S) /\ \A i \in DOMAIN ps : ps[i] \in S
  BY DEF Orders
<1>4. /\ DOMAIN q = DOMAIN ps
      /\ \A i \in DOMAIN q : q[i] = [ct |-> c, lead |-> i = 1, by |-> ps[i]]
  BY <1>3 DEF ThresholdPartials, PartialOf, Maker
<1> HIDE DEF q
<1>5. \A i \in DOMAIN q : q[i].ct = c /\ q[i].by # NoParty
  BY <1>1, <1>3, <1>4, PartyAssumption
<1>6. Cardinality({i \in DOMAIN q : q[i].lead}) = 1
  <2>1. 1 \in DOMAIN ps
    BY <1>2, <1>3
  <2>2. ASSUME NEW i \in DOMAIN q PROVE q[i].lead = (i = 1)
    <3> DEFINE first == i = 1
    <3> HIDE DEF first
    <3>1. [ct |-> c, lead |-> first, by |-> ps[i]].lead = first
      OBVIOUS
    <3> QED BY <1>4, <3>1 DEF first
  <2>3. {i \in DOMAIN q : q[i].lead} = {1}
    BY <1>4, <2>1, <2>2
  <2> QED BY <2>3, FS_Singleton
<1>7. ASSUME NEW p \in Party
      PROVE  Cardinality({i \in DOMAIN q : q[i].by = p}) = keyOf[c].weight[p]
  <2>1. {i \in DOMAIN q : q[i].by = p} = {i \in DOMAIN ps : ps[i] = p}
    BY <1>4
  <2>2. keyOf[c].weight[p] \in Nat /\ keyOf[c].weight[p] <= 1
    BY <1>1, BoundAssumption DEF PublicKeys, ChainKey
  <2>3. CASE p \in S
    BY <1>1, <1>2, <2>1, <2>2, <2>3, OrderHoldsEach
  <2>4. CASE p \notin S
    <3>1. {i \in DOMAIN ps : ps[i] = p} = {}
      BY <1>3, <2>4
    <3>2. keyOf[c].weight[p] = 0
      BY <1>1, <2>2, <2>4
    <3> HIDE DEF S
    <3> QED BY <2>1, <3>1, <3>2, FS_EmptySet
  <2> QED BY <2>3, <2>4
<1> QED BY <1>1, <1>5, <1>6, <1>7 DEF Opens, q, ChainKey

(* With all the secrets of a daisy-chained key at hand, whoever leads and  *)
(* whatever the order of the rest, threshold_decrypt() opens.              *)
THEOREM EveryLeadOpens == Spec => []AnyLeadOpens
<1>1. IInv => AnyLeadOpens
  BY OwnersOpen DEF AnyLeadOpens
<1> QED BY <1>1, InvInit, InvStep, PTL DEF Spec
----------------------------------------------------------------------------
(* The documented recipe: with the lead's public key for everybody, a key  *)
(* has the secret of the lead and of one other party at most.              *)
KeyOfTwo(k) ==
  \/ k.weight = Only(k.root)
  \/ \E p \in Party : k.weight = Sum(Only(k.root), Only(p))

LEMMA TwoOwnersAtMost ==
  ASSUME NEW k, KeyOfTwo(k)
  PROVE  \E p : Owners(k) \subseteq {k.root, p}
<1>1. \A q \in Party : Only(k.root)[q] > 0 => q = k.root
  BY DEF Only
<1>2. CASE k.weight = Only(k.root)
  BY <1>1, <1>2 DEF Owners
<1>3. ASSUME NEW p \in Party, k.weight = Sum(Only(k.root), Only(p))
      PROVE  Owners(k) \subseteq {k.root, p}
  BY <1>3 DEF Owners, Sum, Only
<1> QED BY <1>2, <1>3 DEF KeyOfTwo

LEMMA RecipeStep ==
  (\A k \in pks : KeyOfTwo(k)) /\ [RecipeNext]_vars => (\A k \in pks : KeyOfTwo(k))'
<1> SUFFICES ASSUME \A k \in pks : KeyOfTwo(k), [RecipeNext]_vars, NEW k \in pks'
             PROVE  KeyOfTwo(k)
  BY DEF KeyOfTwo
<1>1. ASSUME NEW p \in Party, KeyGen(p) PROVE KeyOfTwo(k)
  BY <1>1 DEF KeyGen, NewKey, KeyOfTwo
<1>2. ASSUME NEW p \in Party, NEW l \in pks, l.weight = Only(l.root),
             MultipartyKeyGen(p, l, FALSE)
      PROVE  KeyOfTwo(k)
  BY <1>2 DEF MultipartyKeyGen, NewKey, KeyOfTwo
<1>3. CASE UNCHANGED vars
  BY <1>3 DEF vars
<1> QED BY <1>1, <1>2, <1>3 DEF RecipeNext

(* As soon as there are three parties, the recipe of R/multiparty.R:13-14  *)
(* makes no key that has the secrets of all, however many take part and in *)
(* whatever order they come.                                               *)
THEOREM RecipeLeavesPartiesOut ==
  ASSUME NEW a \in Party, NEW b \in Party, NEW c \in Party, a # b, a # c, b # c
  PROVE  RecipeSpec => [](\A k \in pks : Owners(k) # Party)
<1>1. Init => \A k \in pks : KeyOfTwo(k)
  BY DEF Init
<1>2. (\A k \in pks : KeyOfTwo(k)) => \A k \in pks : Owners(k) # Party
  <2> SUFFICES ASSUME NEW k \in pks, KeyOfTwo(k), Owners(k) = Party PROVE FALSE
    OBVIOUS
  <2>1. PICK p : Owners(k) \subseteq {k.root, p}
    BY TwoOwnersAtMost
  <2> QED BY <2>1
<1> QED BY <1>1, <1>2, RecipeStep, PTL DEF RecipeSpec

(* What the tests do instead (inst/tinytest/test_multiparty_5p.R:21-25):   *)
(* every further party is given the key that the party before it made.     *)
ChainNext ==
  \/ pks = {} /\ \E p \in Party : KeyGen(p)
  \/ \E p \in Party, k \in pks : k.joined = Started /\ MultipartyKeyGen(p, k, FALSE)
ChainSpec == Init /\ [][ChainNext]_vars

Chained(k) ==
  k.joined \subseteq Started /\ k.weight = [p \in Party |-> IF p \in k.joined THEN 1 ELSE 0]
ChainInv ==
  /\ secret \in [Party -> {"none", "live"}] /\ (pks = {} <=> Started = {})
  /\ \A k \in pks : Chained(k)
  /\ Started # {} => \E k \in pks : k.joined = Started

(* A key that fits the chain takes the place of the one before it.         *)
LEMMA ChainGrows ==
  ASSUME ChainInv, NEW p \in Party, NEW l, NewKey(p, l), l.joined = Started \cup {p},
         l.weight = [q \in Party |-> IF q \in l.joined THEN 1 ELSE 0]
  PROVE  ChainInv'
<1>1. /\ secret' = [secret EXCEPT ![p] = "live"] /\ pks' = pks \cup {l}
      /\ secret[p] = "none"
  BY DEF NewKey
<1>2. secret' \in [Party -> {"none", "live"}] /\ Started' = Started \cup {p}
  BY <1>1 DEF ChainInv, Started
<1>3. \A k \in pks' : Chained(k)'
  BY <1>1, <1>2 DEF ChainInv, Chained
<1> QED BY <1>1, <1>2, <1>3 DEF ChainInv

LEMMA ChainStep == ChainInv /\ [ChainNext]_vars => ChainInv'
<1> SUFFICES ASSUME ChainInv, [ChainNext]_vars PROVE ChainInv'
  OBVIOUS
<1>1. ASSUME NEW p \in Party, pks = {}, KeyGen(p) PROVE ChainInv'
  <2> DEFINE l == [root |-> p, weight |-> Only(p), joined |-> {p}]
  <2>1. NewKey(p, l) /\ Started = {}
    BY <1>1 DEF KeyGen, ChainInv
  <2>2. l.joined = Started \cup {p} /\ l.weight = [q \in Party |-> IF q \in l.joined THEN 1 ELSE 0]
    BY <2>1 DEF Only
  <2> HIDE DEF l
  <2> QED BY <2>1, <2>2, ChainGrows
<1>2. ASSUME NEW p \in Party, NEW k \in pks, k.joined = Started, MultipartyKeyGen(p, k, FALSE)
      PROVE  ChainInv'
  <2> DEFINE l == [root |-> k.root, weight |-> Sum(k.weight, Only(p)), joined |-> k.joined \cup {p}]
  <2>1. NewKey(p, l) /\ p \notin Started
    BY <1>2 DEF MultipartyKeyGen, NewKey, Started
  <2>2. \A q \in Party : k.weight[q] = IF q \in Started THEN 1 ELSE 0
    BY <1>2 DEF ChainInv, Chained
  <2>3. l.weight = [q \in Party |-> IF q \in l.joined THEN 1 ELSE 0]
    BY <1>2, <2>1, <2>2 DEF Sum, Only
  <2>4. l.joined = Started \cup {p}
    BY <1>2
  <2> HIDE DEF l
  <2> QED BY <2>1, <2>3, <2>4, ChainGrows
<1>3. CASE UNCHANGED vars
  BY <1>3 DEF vars, ChainInv, Chained, Started
<1> QED BY <1>1, <1>2, <1>3 DEF ChainNext

(* With the chain, after every call there is a key that has the secret of  *)
(* each party that made one, once, and of no other: the key that the       *)
(* recipe misses, and the one threshold_decrypt() opens for (AnyLeadOpens).*)
THEOREM ChainTakesAllIn ==
  ChainSpec => [](Started # {} =>
                    \E k \in pks : Owners(k) = Started /\ \A p \in Started : k.weight[p] = 1)
<1>1. Init => ChainInv
  BY DEF Init, ChainInv, Started
<1>2. ChainInv => (Started # {} =>
                     \E k \in pks : Owners(k) = Started /\ \A p \in Started : k.weight[p] = 1)
  <2> SUFFICES ASSUME ChainInv, Started # {}
               PROVE  \E k \in pks : Owners(k) = Started /\ \A p \in Started : k.weight[p] = 1
    OBVIOUS
  <2>1. PICK k \in pks : k.joined = Started
    BY DEF ChainInv
  <2>2. \A p \in Party : k.weight[p] = IF p \in Started THEN 1 ELSE 0
    BY <2>1 DEF ChainInv, Chained
  <2> QED BY <2>1, <2>2 DEF Owners, Started
<1> QED BY <1>1, <1>2, ChainStep, PTL DEF ChainSpec
=============================================================================

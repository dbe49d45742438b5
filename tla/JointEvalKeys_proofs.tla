------------------------ MODULE JointEvalKeys_proofs ------------------------
(***************************************************************************)
(* The safety properties of JointEvalKeys, for any number of parties,      *)
(* indices, generation calls and retained maps.  What carries them: a tag  *)
(* that nothing reached has no keys, and a tag that only whole fitting     *)
(* maps reached has a fitting key at every index, so a merge, which fills  *)
(* gaps only, has nothing left to do there.  A party that joins later      *)
(* does not change what an earlier tag's keys must hold.                   *)
(***************************************************************************)
EXTENDS JointEvalKeys, TLAPS

Untouched == \A t \in Party : entered[t] = {} => reg[t] = Empty

IInv == TypeOK /\ Untouched /\ JointKeysFit

(* A merge is a map, and keeps the keys of its first map.                  *)
LEMMA MergeFacts ==
  ASSUME NEW m \in Maps, NEW n \in Maps
  PROVE  /\ Merge(m, n) \in Maps
         /\ \A i \in Index : m[i] # NoKey => Merge(m, n)[i] = m[i]
         /\ \A i \in Index : m[i] = NoKey => Merge(m, n)[i] = n[i]
BY DEF Merge, Maps

LEMMA EmptyFacts == Empty \in Maps /\ \A i \in Index : Empty[i] = NoKey
BY DEF Empty, Maps

(* The sum of two keys is a key.                                           *)
LEMMA AddType ==
  ASSUME NEW k \in Keys, NEW l \in Keys
  PROVE  AddKeys(k, l) \in Keys
BY DEF AddKeys, Keys

(* A party that joins changes nothing about the pairs before it.           *)
LEMMA JoinKeepsMembers ==
  ASSUME TypeOK, NEW p \in Party, p \notin Joined, chain' = Append(chain, p),
         NEW t \in Party, t \in Joined
  PROVE  t \in Joined' /\ Members(t)' = Members(t)
<1>1. /\ Len(chain) \in Nat /\ DOMAIN chain = 1..Len(chain)
      /\ DOMAIN chain' = 1..(Len(chain) + 1)
      /\ \A n \in DOMAIN chain : chain'[n] = chain[n]
      /\ chain'[Len(chain) + 1] = p
  BY DEF TypeOK
<1>2. \A n \in DOMAIN chain' : n \in DOMAIN chain \/ n = Len(chain) + 1
  BY <1>1
<1>3. DOMAIN chain \subseteq DOMAIN chain'
  BY <1>1
<1>4. t # p
  OBVIOUS
<1>5. t \in Joined'
  BY <1>1, <1>3 DEF Joined
<1>6. ASSUME NEW n \in DOMAIN chain', NEW l \in DOMAIN chain', n <= l, chain'[l] = t
      PROVE  n \in DOMAIN chain /\ l \in DOMAIN chain
  <2>1. l \in DOMAIN chain
    BY <1>1, <1>2, <1>4, <1>6
  <2>2. QED
    BY <1>1, <1>6, <2>1
<1>7. ASSUME NEW q
      PROVE  q \in Members(t)' <=> q \in Members(t)
  <2>1. ASSUME q \in Members(t)'  PROVE q \in Members(t)
    <3>1. PICK n \in DOMAIN chain' : q = chain'[n] /\ \E l \in DOMAIN chain' : n <= l /\ chain'[l] = t
      BY <2>1 DEF Members
    <3>2. PICK l \in DOMAIN chain' : n <= l /\ chain'[l] = t
      BY <3>1
    <3>3. n \in DOMAIN chain /\ l \in DOMAIN chain
      BY <1>6, <3>2
    <3>4. q = chain[n] /\ chain[l] = t
      BY <1>1, <3>1, <3>2, <3>3
    <3>5. QED
      BY <3>2, <3>3, <3>4 DEF Members
  <2>2. ASSUME q \in Members(t)  PROVE q \in Members(t)'
    <3>1. PICK n \in DOMAIN chain : q = chain[n] /\ \E l \in DOMAIN chain : n <= l /\ chain[l] = t
      BY <2>2 DEF Members
    <3>2. PICK l \in DOMAIN chain : n <= l /\ chain[l] = t
      BY <3>1
    <3>3. /\ n \in DOMAIN chain' /\ l \in DOMAIN chain'
          /\ q = chain'[n] /\ n <= l /\ chain'[l] = t
      BY <1>1, <1>3, <3>1, <3>2
    <3>4. QED
      BY <3>3 DEF Members
  <2>3. QED
    BY <2>1, <2>2
<1>8. QED
  BY <1>5, <1>7

(* What a step has to do for the safety properties: keys of a tag are      *)
(* added where it has none, or cleared.                                    *)
LEMMA RegisterKeeps ==
  ASSUME IInv, NEW m \in Maps, NEW t \in Party, t \in Joined, Register(m, t),
         UNCHANGED chain
  PROVE  /\ reg' \in [Party -> Maps]
         /\ entered' \in [Party -> SUBSET {"fitting", "other"}]
         /\ Untouched' /\ JointKeysFit'
         /\ \A u \in Party, i \in Index : Fits(u, i) => Fits(u, i)'
<1>1. /\ reg \in [Party -> Maps]
      /\ entered \in [Party -> SUBSET {"fitting", "other"}]
  BY DEF IInv, TypeOK
<1>2. /\ reg' = [reg EXCEPT ![t] = Merge(reg[t], m)]
      /\ entered' = [entered EXCEPT ![t] = @ \cup
           {IF \A i \in Index : FitsPair(m[i], t) THEN "fitting" ELSE "other"}]
  BY DEF Register
<1>3. Merge(reg[t], m) \in Maps
  BY <1>1, MergeFacts
<1>4. reg' \in [Party -> Maps] /\ entered' \in [Party -> SUBSET {"fitting", "other"}]
  BY <1>1, <1>2, <1>3
<1>6. \A u \in Party \ {t} : reg'[u] = reg[u] /\ entered'[u] = entered[u]
  BY <1>1, <1>2
<1>7. reg'[t] = Merge(reg[t], m) /\ entered'[t] # {} /\ entered[t] \subseteq entered'[t]
  BY <1>1, <1>2
<1>8. entered'[t] = {"fitting"} => \A i \in Index : FitsPair(m[i], t)
  BY <1>1, <1>2
<1>9. Untouched'
  BY <1>6, <1>7 DEF IInv, Untouched
<1>10. ASSUME NEW u \in Party, NEW i \in Index, Fits(u, i)
       PROVE  Fits(u, i)' /\ reg'[u][i] = reg[u][i]
  <2>1. reg[u][i] # NoKey
    BY <1>10 DEF Fits, FitsPair
  <2>2. reg'[u][i] = reg[u][i]
    BY <1>1, <1>6, <1>7, <2>1, MergeFacts
  <2>3. QED
    BY <1>10, <2>2 DEF Fits, FitsPair, Joined, Members
<1>11. JointKeysFit'
  <2>1. SUFFICES ASSUME NEW u \in Party, entered'[u] = {"fitting"}, NEW i \in Index
                 PROVE  Fits(u, i)'
    BY DEF JointKeysFit
  <2>2. CASE entered[u] = {"fitting"}
    BY <1>10, <2>2 DEF IInv, JointKeysFit
  <2>3. CASE entered[u] # {"fitting"}
    <3>1. u = t /\ entered[t] = {}
      BY <1>1, <1>6, <1>7, <2>1, <2>3
    <3>2. reg[t] = Empty
      BY <3>1 DEF IInv, Untouched
    <3>3. reg'[t][i] = m[i]
      BY <1>7, <3>2, MergeFacts, EmptyFacts
    <3>4. FitsPair(m[i], t)
      BY <1>8, <2>1, <3>1
    <3>5. QED
      BY <3>1, <3>3, <3>4 DEF Fits, FitsPair, Joined, Members
  <2>4. QED
    BY <2>2, <2>3
<1>12. QED
  BY <1>4, <1>9, <1>10, <1>11

(* A held map changes nothing but maps.                                    *)
LEMMA HoldKeeps ==
  ASSUME IInv, NEW m \in Maps, NEW old \in SUBSET maps, Hold(m, old)
  PROVE  TypeOK' /\ Untouched' /\ JointKeysFit' /\ UNCHANGED <<chain, reg>>
BY DEF Hold, IInv, TypeOK, Untouched, JointKeysFit, Fits, FitsPair, Joined, Members

LEMMA ShareType ==
  ASSUME NEW p \in Party, NEW m \in Maps, NEW I \in SUBSET Entries(m)
  PROVE  Share(p, m, I) \in Maps
<1>1. SUFFICES ASSUME NEW i \in Index, i \in I
               PROVE  [base |-> m[i].base, parts |-> IF m[i].base = Noise THEN {} ELSE {p}] \in Keys
  BY DEF Share, Maps
<1>2. m[i] \in Keys
  BY <1>1 DEF Entries, Maps
<1>3. QED
  BY <1>2 DEF Keys

LEMMA SumType ==
  ASSUME NEW m \in Maps, NEW n \in Maps
  PROVE  [i \in Index |-> IF i \in Entries(m) \cap Entries(n)
                          THEN AddKeys(m[i], n[i]) ELSE NoKey] \in Maps
<1>1. SUFFICES ASSUME NEW i \in Index, i \in Entries(m) \cap Entries(n)
               PROVE  AddKeys(m[i], n[i]) \in Keys
  BY DEF Maps
<1>2. m[i] \in Keys /\ n[i] \in Keys
  BY <1>1 DEF Entries, Maps
<1>3. QED
  BY <1>2, AddType

LEMMA InitIInv == Init => IInv
BY EmptyFacts DEF Init, IInv, TypeOK, Untouched, JointKeysFit

(* The invariant and the stability of fitting keys, action by action.      *)
LEMMA NextIInv ==
  ASSUME IInv, [Next]_vars
  PROVE  /\ IInv'
         /\ \A u \in Party, j \in Index : Fits(u, j) => Fits(u, j)' \/ reg'[u] = Empty
<1> DEFINE Stay == \A u \in Party, j \in Index : Fits(u, j) => Fits(u, j)' \/ reg'[u] = Empty
<1> USE DEF IInv
<1>1. ASSUME NEW p \in Party, Join(p)  PROVE IInv' /\ Stay
  <2>1. /\ p \notin Joined /\ chain' = Append(chain, p)
        /\ spent' = spent /\ reg' = reg /\ maps' = maps /\ entered' = entered
    BY <1>1 DEF Join
  <2>2. chain' \in Seq(Party) /\ \A m, n \in DOMAIN chain' : chain'[m] = chain'[n] => m = n
    <3>1. /\ Len(chain) \in Nat /\ DOMAIN chain = 1..Len(chain)
          /\ DOMAIN chain' = 1..(Len(chain) + 1)
          /\ \A n \in DOMAIN chain : chain'[n] = chain[n] /\ chain[n] # p
          /\ chain'[Len(chain) + 1] = p
          /\ chain' \in Seq(Party)
      BY <2>1 DEF TypeOK, Joined
    <3>2. QED
      BY <3>1 DEF TypeOK
  <2>3. TypeOK'
    BY <2>1, <2>2 DEF TypeOK
  <2>4. ASSUME NEW u \in Party, NEW j \in Index, Fits(u, j)  PROVE Fits(u, j)'
    <3>1. u \in Joined
      BY <2>4 DEF Fits, FitsPair
    <3>2. u \in Joined' /\ Members(u)' = Members(u)
      BY <2>1, <3>1, JoinKeepsMembers
    <3>3. QED
      BY <2>1, <2>4, <3>2 DEF Fits, FitsPair
  <2>5. Untouched' /\ JointKeysFit'
    BY <2>1, <2>4 DEF Untouched, JointKeysFit
  <2>6. QED
    BY <2>3, <2>4, <2>5
<1>2. ASSUME NEW p \in Party, NEW I \in SUBSET Index, NEW g \in Gen, EvalKeyGen(p, I, g)
      PROVE  IInv' /\ Stay
  <2>1. [i \in Index |-> IF i \in I THEN [base |-> g, parts |-> {p}] ELSE NoKey] \in Maps
    BY DEF Maps, Keys
  <2>2. /\ p \in Joined /\ spent' = spent \cup {g} /\ chain' = chain /\ maps' = maps
        /\ Register([i \in Index |-> IF i \in I THEN [base |-> g, parts |-> {p}] ELSE NoKey], p)
    BY <1>2 DEF EvalKeyGen
  <2>3. /\ reg' \in [Party -> Maps] /\ entered' \in [Party -> SUBSET {"fitting", "other"}]
        /\ Untouched' /\ JointKeysFit' /\ Stay
    BY <2>1, <2>2, RegisterKeeps
  <2>4. TypeOK'
    BY <2>2, <2>3 DEF TypeOK
  <2>5. QED
    BY <2>3, <2>4
<1>3. ASSUME NEW m \in Maps, NEW old \in SUBSET maps, Hold(m, old)
      PROVE  IInv' /\ Stay
  BY <1>3, HoldKeeps DEF Fits, FitsPair, Joined, Members
<1>4. ASSUME NEW t \in Party, GetEvalKeyMap(t)  PROVE IInv' /\ Stay
  BY <1>3, <1>4 DEF GetEvalKeyMap, TypeOK
<1>5. ASSUME NEW p \in Party, NEW m \in maps, NEW I \in SUBSET Index, MultiEvalKeyGen(p, m, I)
      PROVE  IInv' /\ Stay
  BY <1>3, <1>5, ShareType DEF MultiEvalKeyGen, TypeOK
<1>6. ASSUME NEW m \in maps, NEW n \in maps, MultiAddEvalKeys(m, n)  PROVE IInv' /\ Stay
  BY <1>3, <1>6, SumType DEF MultiAddEvalKeys, TypeOK
<1>7. ASSUME NEW m \in maps, NEW t \in Party, InsertEvalKey(m, t)  PROVE IInv' /\ Stay
  <2>1. /\ m \in Maps /\ t \in Joined /\ Register(m, t)
        /\ chain' = chain /\ spent' = spent /\ maps' = maps
    BY <1>7 DEF InsertEvalKey, TypeOK
  <2>2. /\ reg' \in [Party -> Maps] /\ entered' \in [Party -> SUBSET {"fitting", "other"}]
        /\ Untouched' /\ JointKeysFit' /\ Stay
    BY <2>1, RegisterKeeps
  <2>3. TypeOK'
    BY <2>1, <2>2 DEF TypeOK
  <2>4. QED
    BY <2>2, <2>3
<1>8. ASSUME NEW t \in Party, ClearEvalAutomorphismKeys(t)  PROVE IInv' /\ Stay
  <2>1. /\ reg' = [reg EXCEPT ![t] = Empty] /\ entered' = [entered EXCEPT ![t] = {}]
        /\ chain' = chain /\ spent' = spent /\ maps' = maps
    BY <1>8 DEF ClearEvalAutomorphismKeys
  <2>2. TypeOK'
    BY <2>1, EmptyFacts DEF TypeOK
  <2>3. reg'[t] = Empty /\ entered'[t] = {}
    BY <2>1 DEF TypeOK
  <2>4. \A u \in Party \ {t} : reg'[u] = reg[u] /\ entered'[u] = entered[u]
    BY <2>1 DEF TypeOK
  <2>5. \A u \in Party \ {t}, j \in Index : Fits(u, j)' <=> Fits(u, j)
    BY <2>1, <2>4 DEF Fits, FitsPair, Joined, Members
  <2>6. Untouched' /\ JointKeysFit'
    BY <2>3, <2>4, <2>5 DEF Untouched, JointKeysFit
  <2>7. Stay
    BY <2>3, <2>5
  <2>8. QED
    BY <2>2, <2>6, <2>7
<1>9. ASSUME NEW m \in maps, Drop(m)  PROVE IInv' /\ Stay
  BY <1>9 DEF Drop, TypeOK, Untouched, JointKeysFit, Fits, FitsPair, Joined, Members
<1>10. CASE UNCHANGED vars
  <2>1. chain' = chain /\ spent' = spent /\ reg' = reg /\ maps' = maps /\ entered' = entered
    BY <1>10 DEF vars
  <2>2. \A u \in Party, j \in Index : Fits(u, j)' <=> Fits(u, j)
    BY <2>1 DEF Fits, FitsPair, Joined, Members
  <2>3. TypeOK' /\ Untouched'
    BY <2>1 DEF TypeOK, Untouched
  <2>4. JointKeysFit'
    BY <2>1, <2>2 DEF JointKeysFit
  <2>5. QED
    BY <2>2, <2>3, <2>4
<1>11. QED
  BY <1>1, <1>2, <1>4, <1>5, <1>6, <1>7, <1>8, <1>9, <1>10 DEF Next

THEOREM Invariance == Spec => []IInv
<1>1. IInv /\ [Next]_vars => IInv'
  BY NextIInv
<1>2. QED
  BY <1>1, InitIInv, PTL DEF Spec

(* The joint-key state is well typed, and no party has two key pairs.      *)
THEOREM TypeCorrect == Spec => []TypeOK
<1>1. IInv => TypeOK
  BY DEF IInv
<1>2. QED
  BY <1>1, Invariance, PTL

(* Tags that only whole fitting maps reached have fitting keys.            *)
THEOREM WholeMapsFit == Spec => []JointKeysFit
<1>1. IInv => JointKeysFit
  BY DEF IInv
<1>2. QED
  BY <1>1, Invariance, PTL

(* No step but a clear takes a fitting joint key out of use.               *)
THEOREM FittingStays == Spec => FittingKeysStay
<1>1. IInv /\ [Next]_vars =>
        [\A t \in Party, i \in Index : Fits(t, i) => Fits(t, i)' \/ reg'[t] = Empty]_vars
  BY NextIInv
<1>2. QED
  BY <1>1, Invariance, PTL DEF FittingKeysStay, Spec
----------------------------------------------------------------------------
(* The documented recipe: when the shares are added up every tag has its   *)
(* party's own key at every index, and a merge leaves those where they are.*)
Own(t) == \A i \in Index : reg[t][i] # NoKey /\ reg[t][i].parts = {t}
OwnOrNone == reg \in [Party -> Maps] /\ \A t \in Party : reg[t] = Empty \/ Own(t)

LEMMA RecipeStep == OwnOrNone /\ [RecipeNext]_vars => OwnOrNone'
<1> SUFFICES ASSUME OwnOrNone, [RecipeNext]_vars PROVE OwnOrNone'
  OBVIOUS
<1>1. ASSUME NEW p \in Party, NEW g \in Gen, reg[p] = Empty, EvalKeyGen(p, Index, g)
      PROVE  OwnOrNone'
  <2> DEFINE own == [i \in Index |-> [base |-> g, parts |-> {p}]]
  <2>1. own \in Maps /\ \A i \in Index : own[i] # NoKey /\ own[i].parts = {p}
    BY NoKeyAssumption DEF Maps, Keys
  <2>2. Merge(Empty, own) = own
    BY DEF Merge, Empty
  <2>3. own = [i \in Index |-> IF i \in Index THEN [base |-> g, parts |-> {p}] ELSE NoKey]
    OBVIOUS
  <2>4. reg' = [reg EXCEPT ![p] = Merge(reg[p], own)]
    BY <1>1, <2>3 DEF EvalKeyGen, Register
  <2> HIDE DEF own
  <2>5. reg'[p] = own /\ \A t \in Party \ {p} : reg'[t] = reg[t]
    BY <1>1, <2>2, <2>4 DEF OwnOrNone
  <2>6. reg' \in [Party -> Maps]
    BY <1>1, <2>1, <2>2, <2>4 DEF OwnOrNone
  <2>7. Own(p)'
    BY <2>1, <2>5 DEF Own
  <2>8. ASSUME NEW t \in Party \ {p} PROVE reg'[t] = Empty \/ Own(t)'
    BY <2>5 DEF OwnOrNone, Own
  <2> QED BY <2>6, <2>7, <2>8 DEF OwnOrNone
<1>2. ASSUME reg' = reg PROVE OwnOrNone'
  BY <1>2 DEF OwnOrNone, Own
<1>3. ASSUME NEW m \in maps, NEW t, \A p \in Party : reg[p] # Empty, InsertEvalKey(m, t)
      PROVE  OwnOrNone'
  <2>1. reg' = [reg EXCEPT ![t] = Merge(reg[t], m)]
    BY <1>3 DEF InsertEvalKey, Register
  <2>2. CASE t \in Party
    <3>1. Own(t) /\ reg[t] \in Maps
      BY <1>3, <2>2 DEF OwnOrNone
    <3>2. Merge(reg[t], m) = reg[t]
      BY <3>1 DEF Merge, Own, Maps
    <3> QED BY <1>2, <2>1, <3>2 DEF OwnOrNone
  <2>3. CASE t \notin Party
    BY <1>2, <2>1, <2>3 DEF OwnOrNone
  <2> QED BY <2>2, <2>3
<1>4. ASSUME NEW p \in Party, Join(p) PROVE reg' = reg
  BY <1>4 DEF Join
<1>5. ASSUME NEW t, GetEvalKeyMap(t) PROVE reg' = reg
  BY <1>5 DEF GetEvalKeyMap, Hold
<1>6. ASSUME NEW p, NEW m, NEW I, MultiEvalKeyGen(p, m, I) PROVE reg' = reg
  BY <1>6 DEF MultiEvalKeyGen, Hold
<1>7. ASSUME NEW m, NEW n, MultiAddEvalKeys(m, n) PROVE reg' = reg
  BY <1>7 DEF MultiAddEvalKeys, Hold
<1>8. CASE UNCHANGED vars
  BY <1>2, <1>8 DEF vars
<1> QED BY <1>1, <1>2, <1>3, <1>4, <1>5, <1>6, <1>7, <1>8 DEF RecipeNext

(* Whoever follows R/eval-key-map.R:61-63 to the end never gets a fitting  *)
(* key under the tag of a joint key, for any number of parties and indices *)
(* and in any order of the calls: not even after the whole sum was         *)
(* inserted there.                                                         *)
THEOREM RecipeKeepsJointKeyOut ==
  RecipeSpec =>
    [](\A t \in Party, i \in Index : (\E p \in Members(t) : p # t) => ~Fits(t, i))
<1>1. Init => OwnOrNone
  BY EmptyFacts DEF Init, OwnOrNone
<1>2. OwnOrNone =>
        \A t \in Party, i \in Index : (\E p \in Members(t) : p # t) => ~Fits(t, i)
  BY EmptyFacts DEF OwnOrNone, Own, Fits, FitsPair
<1> QED BY <1>1, <1>2, RecipeStep, PTL DEF RecipeSpec
=============================================================================

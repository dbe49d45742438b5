----------------------- MODULE EvalKeyRegistry_proofs -----------------------
(***************************************************************************)
(* Theorems about EvalKeyRegistry for every set of secrets, tags, indices  *)
(* and map objects.                                                        *)
(*                                                                         *)
(* NoForeignKeys is not inductive by itself.  A merge reaches every tag    *)
(* that shares the merged object, so the invariant must say that sharing   *)
(* tags are recorded (SharingRecorded); and an insertion with an empty tag *)
(* uses the tag of a key in the map, so the makers of every map must carry *)
(* one (MakersTagged), even for the types to be kept.                      *)
(***************************************************************************)
EXTENDS EvalKeyRegistry, TLAPS

RelinOwned ==
  \A t \in Tag : mult[t] # NoKey => skTag[mult[t]] \in {t, Lost}
SharingRecorded ==
  \A t, u \in Tag : t # u /\ aut[t] = aut[u] /\ aut[t] # NoMap => t \in aliased
MakersTagged ==
  \A m \in MapId, s \in Secret : s \in Makers(heap[m]) => skTag[s] \in Tag

IInv == TypeOK /\ NoForeignKeys /\ SharingRecorded /\ MakersTagged

KeyMaps == [Index -> Secret \cup {NoKey}]

(* What a merge holds: only keys of the two maps; and a type.              *)
LEMMA MergeFacts ==
  ASSUME NEW f \in KeyMaps, NEW g \in KeyMaps
  PROVE  /\ Merge(f, g) \in KeyMaps
         /\ Makers(Merge(f, g)) \subseteq Makers(f) \cup Makers(g)
         /\ \A i \in Entries(f) : Merge(f, g)[i] = f[i]
  BY DEF KeyMaps, Merge, Makers, Entries

(* The map a key generation makes holds keys of its secret only.           *)
LEMMA KeyedFacts ==
  ASSUME NEW s \in Secret, NEW I \in SUBSET Index
  PROVE  Keyed(s, I) \in KeyMaps /\ Makers(Keyed(s, I)) \subseteq {s}
  BY DEF KeyMaps, Keyed, Makers, Entries

LEMMA EmptyFacts == Empty \in KeyMaps /\ Makers(Empty) = {}
  BY DEF KeyMaps, Empty, Makers, Entries

LEMMA MakersAreSecrets == ASSUME NEW f \in KeyMaps PROVE Makers(f) \subseteq Secret
  BY DEF KeyMaps, Makers, Entries

(* Storing generated keys keeps the types of the registry and the heap.    *)
LEMMA StoreType ==
  ASSUME TypeOK, NEW t \in Tag, NEW f \in KeyMaps, NEW m \in MapId,
         StoreGenerated(t, f, m)
  PROVE  /\ aut' \in [Tag -> MapId \cup {NoMap}]
         /\ heap' \in [MapId -> KeyMaps]
<1>1. CASE Entries(AutKeys(t)) = {}
  BY <1>1 DEF StoreGenerated, TypeOK, KeyMaps
<1>2. CASE Entries(AutKeys(t)) # {}
  <2>1. aut[t] \in MapId
    BY <1>2 DEF AutKeys, TypeOK, Empty, Entries
  <2>2. Merge(heap[aut[t]], f) \in KeyMaps
    BY <2>1, MergeFacts DEF TypeOK, KeyMaps
  <2> QED BY <1>2, <2>1, <2>2 DEF StoreGenerated, TypeOK, KeyMaps
<1> QED BY <1>1, <1>2

(* An insertion goes to a tag of the registry.                             *)
LEMMA InsertTag ==
  ASSUME TypeOK, MakersTagged, NEW m \in MapId, NEW arg \in Tag \cup {NoTag},
         InsertEvalAutomorphismKey(m, arg)
  PROVE  \E t \in Tag : InsertUnder(t, m)
<1> USE TagAssumption
<1>1. PICK i \in Entries(heap[m]) :
        InsertUnder(IF arg = NoTag THEN skTag[heap[m][i]] ELSE arg, m)
  BY DEF InsertEvalAutomorphismKey
<1>2. heap[m][i] \in Makers(heap[m])
  BY <1>1 DEF Makers
<1>3. heap[m][i] \in Secret
  BY <1>2, MakersAreSecrets DEF TypeOK, KeyMaps
<1>4. skTag[heap[m][i]] \in Tag
  BY <1>2, <1>3 DEF MakersTagged
<1> QED BY <1>1, <1>4

(* Every action keeps the types.                                           *)
LEMMA TypeStep == TypeOK /\ MakersTagged /\ [Next]_vars => TypeOK'
<1> SUFFICES ASSUME TypeOK, MakersTagged, [Next]_vars PROVE TypeOK'
  OBVIOUS
<1> USE TagAssumption, IndexAssumption, KeyAssumption, MapAssumption, DepthAssumption
<1>1. ASSUME NEW s \in Secret, NEW t \in Tag, NEW b \in BOOLEAN, NEW I \in SUBSET Index,
             NEW m \in MapId, KeyGen(s, t, b, I, m)
      PROVE  TypeOK'
  <2>1. aut' \in [Tag -> MapId \cup {NoMap}] /\ heap' \in [MapId -> KeyMaps]
    BY <1>1, StoreType, KeyedFacts DEF KeyGen, TypeOK, KeyMaps
  <2> QED BY <1>1, <2>1 DEF KeyGen, TypeOK, Put, Take, KeyMaps
<1>2. ASSUME NEW s \in Secret, NEW t \in Tag, NEW b \in BOOLEAN, KeyGenFails(s, t, b)
      PROVE  TypeOK'
  BY <1>2 DEF KeyGenFails, TypeOK, Take
<1>3. ASSUME NEW s \in Secret, EvalMultKeyGen(s) PROVE TypeOK'
  BY <1>3 DEF EvalMultKeyGen, TypeOK, history
<1>4. ASSUME NEW s \in Secret, NEW I \in SUBSET Index, NEW m \in MapId,
             EvalRotateKeyGen(s, I, m)
      PROVE  TypeOK'
  <2>1. aut' \in [Tag -> MapId \cup {NoMap}] /\ heap' \in [MapId -> KeyMaps]
    BY <1>4, StoreType, KeyedFacts DEF EvalRotateKeyGen
  <2> QED BY <1>4, <2>1 DEF EvalRotateKeyGen, TypeOK, Put, KeyMaps
<1>5. ASSUME NEW s \in Secret, NEW m \in MapId, EvalSumKeyGen(s, m) PROVE TypeOK'
  BY <1>4, <1>5 DEF EvalSumKeyGen
<1>6. ASSUME NEW s \in Secret, NEW I \in SUBSET Index, NEW m \in MapId,
             EvalAutomorphismKeyGen(s, I, m)
      PROVE  TypeOK'
  <2>1. Keyed(s, I) \in KeyMaps
    BY KeyedFacts
  <2>2. CASE Entries(AutKeys(skTag[s])) = {}
    <3>1. aut' \in [Tag -> MapId \cup {NoMap}]
      BY <1>6, <2>2 DEF EvalAutomorphismKeyGen, TypeOK
    <3>2. heap' \in [MapId -> KeyMaps]
      BY <1>6, <2>1, <2>2 DEF EvalAutomorphismKeyGen, TypeOK, KeyMaps
    <3>3. handle' \in [MapId -> HandleKind]
      BY <1>6 DEF EvalAutomorphismKeyGen, TypeOK, HandleKind
    <3>4. put' \in [Tag -> SUBSET Secret]
      BY <1>6 DEF EvalAutomorphismKeyGen, TypeOK, Put
    <3>5. UNCHANGED <<skTag, mult, depth, taken, aliased>>
      BY <1>6 DEF EvalAutomorphismKeyGen
    <3> QED BY <3>1, <3>2, <3>3, <3>4, <3>5 DEF TypeOK, KeyMaps
  <2>3. CASE Entries(AutKeys(skTag[s])) # {}
    <3>1. aut[skTag[s]] \in MapId
      BY <1>6, <2>3 DEF EvalAutomorphismKeyGen, AutKeys, TypeOK, Empty, Entries
    <3>2. Merge(heap[aut[skTag[s]]], Keyed(s, I)) \in KeyMaps
      BY <2>1, <3>1, MergeFacts DEF TypeOK, KeyMaps
    <3> QED BY <1>6, <2>1, <2>3, <3>1, <3>2
            DEF EvalAutomorphismKeyGen, TypeOK, Put, KeyMaps, HandleKind
  <2> QED BY <2>2, <2>3
<1>7. ASSUME NEW t \in Tag, NEW m \in MapId, GetEvalSumKeyMap(t, m) PROVE TypeOK'
  BY <1>7 DEF GetEvalSumKeyMap, TypeOK, HandleKind, history
<1>8. ASSUME NEW t \in Tag, GetEvalAutomorphismKeyMap(t) PROVE TypeOK'
  BY <1>8 DEF GetEvalAutomorphismKeyMap, TypeOK, HandleKind, tables, history
<1>9. ASSUME NEW m \in MapId, DropHandle(m) PROVE TypeOK'
  BY <1>9 DEF DropHandle, TypeOK, HandleKind, tables, history
<1>10. ASSUME NEW m \in MapId, NEW arg \in Tag \cup {NoTag}, InsertEvalAutomorphismKey(m, arg)
       PROVE  TypeOK'
  <2>1. PICK t \in Tag : InsertUnder(t, m)
    BY <1>10, InsertTag
  <2>2. UNCHANGED <<skTag, mult, depth>>
    BY <1>10 DEF InsertEvalAutomorphismKey
  <2>3. put' \in [Tag -> SUBSET Secret] /\ taken' \subseteq Tag
    <3>1. Makers(heap[m]) \subseteq Secret
      BY MakersAreSecrets DEF TypeOK, KeyMaps
    <3> QED BY <2>1, <3>1 DEF InsertUnder, Put, Take, TypeOK
  <2>4. CASE Entries(AutKeys(t)) = {}
    <3>1. aut' \in [Tag -> MapId \cup {NoMap}]
      BY <2>1, <2>4 DEF InsertUnder, TypeOK
    <3>2. handle' \in [MapId -> HandleKind]
      BY <2>1, <2>4 DEF InsertUnder, TypeOK, HandleKind
    <3>3. aliased' \in SUBSET Tag
      BY <2>1, <2>4 DEF InsertUnder, TypeOK
    <3>4. heap' = heap
      BY <2>1, <2>4 DEF InsertUnder
    <3> QED BY <2>2, <2>3, <3>1, <3>2, <3>3, <3>4 DEF TypeOK
  <2>5. CASE Entries(AutKeys(t)) # {}
    <3>1. heap' \in [MapId -> KeyMaps]
      <4>1. CASE aut[t] \in MapId
        <5>1. Merge(heap[aut[t]], heap[m]) \in KeyMaps
          BY <4>1, MergeFacts DEF TypeOK, KeyMaps
        <5> QED BY <2>1, <2>5, <4>1, <5>1 DEF InsertUnder, TypeOK, KeyMaps
      <4>2. CASE aut[t] \notin MapId
        BY <2>1, <2>5, <4>2 DEF InsertUnder, TypeOK, KeyMaps
      <4> QED BY <4>1, <4>2
    <3> QED BY <2>1, <2>2, <2>3, <2>5, <3>1 DEF InsertUnder, TypeOK, KeyMaps
  <2> QED BY <2>4, <2>5
<1>11. ASSUME NEW t \in Tag, ClearMultTag(t) PROVE TypeOK'
  BY <1>11 DEF ClearMultTag, TypeOK, history
<1>12. ASSUME NEW t \in Tag, ClearAutTag(t) PROVE TypeOK'
  BY <1>12 DEF ClearAutTag, Gone, TypeOK
<1>13. ASSUME NEW what \in SUBSET BothTables, ClearFheState(what) PROVE TypeOK'
  BY <1>13 DEF ClearFheState, ClearTables, Gone, TypeOK
<1>14. CASE EnterScope
  BY <1>14 DEF EnterScope, TypeOK, tables, history
<1>15. CASE ExitScope
  BY <1>15 DEF ExitScope, ClearTables, Gone, TypeOK
<1>16. CASE UNCHANGED vars
  BY <1>16 DEF vars, TypeOK
<1> QED
  BY <1>1, <1>2, <1>3, <1>4, <1>5, <1>6, <1>7, <1>8, <1>9, <1>10, <1>11, <1>12,
     <1>13, <1>14, <1>15, <1>16 DEF Next

LEMMA TypeInit == Init => TypeOK
  BY DepthAssumption DEF Init, TypeOK, Empty, HandleKind
----------------------------------------------------------------------------
(* Storing generated keys: a tag other than the one stored under sees a    *)
(* change only when it shares the map object.                              *)
LEMMA StoreReach ==
  ASSUME TypeOK, NEW t \in Tag, NEW f \in KeyMaps, NEW m \in MapId,
         ~Registered(m), StoreGenerated(t, f, m)
  PROVE  /\ Makers(AutKeys(t))' \subseteq Makers(AutKeys(t)) \cup Makers(f)
         /\ \A u \in Tag \ {t} :
              ~(aut[u] = aut[t] /\ aut[t] # NoMap) => AutKeys(u)' = AutKeys(u)
         /\ \A n \in MapId : Makers(heap'[n]) \subseteq Makers(heap[n]) \cup Makers(f)
         /\ \A u \in Tag : aut'[u] = aut[u] \/ (u = t /\ aut'[u] = m)
<1> USE MapAssumption
<1>1. CASE Entries(AutKeys(t)) = {}
  <2>1. aut' = [aut EXCEPT ![t] = m] /\ heap' = [heap EXCEPT ![m] = f]
    BY <1>1 DEF StoreGenerated
  <2>2. aut'[t] = m /\ heap'[m] = f
    BY <2>1 DEF TypeOK
  <2>3. AutKeys(t)' = f
    BY <2>2 DEF AutKeys
  <2>4. \A u \in Tag \ {t} : AutKeys(u)' = AutKeys(u)
    BY <2>1 DEF TypeOK, AutKeys, Registered
  <2>5. \A n \in MapId : heap'[n] = heap[n] \/ heap'[n] = f
    BY <2>1 DEF TypeOK
  <2>6. \A u \in Tag : aut'[u] = aut[u] \/ (u = t /\ aut'[u] = m)
    BY <2>1 DEF TypeOK
  <2>7. Makers(AutKeys(t))' = Makers(f)
    BY <2>3 DEF Makers, Entries
  <2>8. \A n \in MapId : Makers(heap'[n]) \subseteq Makers(heap[n]) \cup Makers(f)
    BY <2>5 DEF Makers, Entries
  <2> QED BY <2>4, <2>6, <2>7, <2>8
<1>2. CASE Entries(AutKeys(t)) # {}
  <2>1. /\ heap' = [heap EXCEPT ![aut[t]] = Merge(heap[aut[t]], f)]
        /\ aut' = aut
    BY <1>2 DEF StoreGenerated
  <2>2. aut[t] \in MapId /\ aut[t] # NoMap
    BY <1>2 DEF AutKeys, TypeOK, Empty, Entries
  <2>3. AutKeys(t)' = Merge(AutKeys(t), f)
    BY <2>1, <2>2 DEF AutKeys, TypeOK
  <2>4. AutKeys(t) \in KeyMaps
    BY <2>2 DEF AutKeys, TypeOK, KeyMaps
  <2>5. Makers(AutKeys(t))' \subseteq Makers(AutKeys(t)) \cup Makers(f)
    <3>1. Makers(Merge(AutKeys(t), f)) \subseteq Makers(AutKeys(t)) \cup Makers(f)
      BY <2>4, MergeFacts
    <3>2. Makers(AutKeys(t))' = Makers(Merge(AutKeys(t), f))
      BY <2>3 DEF Makers, Entries
    <3> QED BY <3>1, <3>2
  <2>6. \A u \in Tag \ {t} : aut[u] # aut[t] => AutKeys(u)' = AutKeys(u)
    BY <2>1, <2>2 DEF TypeOK, AutKeys
  <2>7. \A n \in MapId : Makers(heap'[n]) \subseteq Makers(heap[n]) \cup Makers(f)
    <3>1. Makers(Merge(heap[aut[t]], f)) \subseteq Makers(heap[aut[t]]) \cup Makers(f)
      BY <2>2, MergeFacts DEF TypeOK, KeyMaps
    <3>2. \A n \in MapId : heap'[n] = IF n = aut[t] THEN Merge(heap[n], f) ELSE heap[n]
      BY <2>1, <2>2 DEF TypeOK
    <3> QED BY <3>1, <3>2
  <2> QED BY <2>1, <2>2, <2>5, <2>6, <2>7
<1> QED BY <1>1, <1>2

(* A step after which every tag has the object and the histories it had or *)
(* none at all, no registered object changed and no keys appeared in a map *)
(* that are in none, keeps the invariant.                                  *)
Shrinks ==
  /\ \A t \in Tag : mult'[t] \in {mult[t], NoKey}
  /\ \A t \in Tag :
       \/ aut'[t] = aut[t] /\ put'[t] = put[t] /\ (t \in aliased' <=> t \in aliased)
       \/ aut'[t] = NoMap
  /\ \A n \in MapId : Registered(n) => heap'[n] = heap[n]
  /\ \A n \in MapId : \E k \in MapId : heap'[n] = heap[k]
  /\ UNCHANGED skTag

LEMMA ShrinkKeeps == ASSUME IInv, TypeOK', Shrinks PROVE IInv'
<1>1. ASSUME NEW t \in Tag, t \notin aliased'
      PROVE  Makers(AutKeys(t))' \subseteq put'[t]
  <2>1. CASE aut'[t] = aut[t] /\ put'[t] = put[t] /\ t \notin aliased
    <3>1. AutKeys(t)' = AutKeys(t)
      BY <2>1 DEF Shrinks, AutKeys, IInv, TypeOK, Registered, Empty
    <3>2. Makers(AutKeys(t))' = Makers(AutKeys(t))
      BY <3>1 DEF Makers, Entries
    <3> QED BY <2>1, <3>2 DEF IInv, NoForeignKeys
  <2>2. CASE aut'[t] = NoMap
    <3>1. AutKeys(t)' = Empty
      BY <2>2 DEF AutKeys, Empty
    <3>2. Makers(AutKeys(t))' = Makers(Empty)
      BY <3>1 DEF Makers, Entries
    <3> QED BY <3>2, EmptyFacts
  <2> QED BY <1>1, <2>1, <2>2 DEF Shrinks
<1>2. NoForeignKeys'
  BY <1>1 DEF IInv, NoForeignKeys, Shrinks
<1>4. SharingRecorded'
  BY DEF IInv, SharingRecorded, Shrinks
<1>5. MakersTagged'
  <2>1. \A n \in MapId : \E k \in MapId : Makers(heap'[n]) = Makers(heap[k])
    BY DEF Shrinks
  <2> QED BY <2>1 DEF IInv, MakersTagged, Shrinks, Makers, Entries
<1> QED BY <1>2, <1>4, <1>5 DEF IInv

(* Keys of s reach the registry under a tag they are put under, from a map *)
(* object no tag has: the invariant is kept.                               *)
LEMMA StoreKeeps ==
  ASSUME IInv, TypeOK', NEW s \in Secret, NEW t \in Tag, NEW I \in SUBSET Index,
         NEW m \in MapId, ~Registered(m), StoreGenerated(t, Keyed(s, I), m),
         s \in put'[t], \A u \in Tag : put[u] \subseteq put'[u], RelinOwned',
         \A r \in Secret : skTag[r] \in Tag => skTag'[r] = skTag[r],
         skTag'[s] \in Tag, aliased' = aliased
  PROVE  IInv'
<1> DEFINE f == Keyed(s, I)
<1> USE MapAssumption
<1>1. f \in KeyMaps /\ Makers(f) \subseteq {s}
  BY KeyedFacts
<1> HIDE DEF f
<1>2. /\ Makers(AutKeys(t))' \subseteq Makers(AutKeys(t)) \cup Makers(f)
      /\ \A u \in Tag \ {t} :
           ~(aut[u] = aut[t] /\ aut[t] # NoMap) => AutKeys(u)' = AutKeys(u)
      /\ \A n \in MapId : Makers(heap'[n]) \subseteq Makers(heap[n]) \cup Makers(f)
      /\ \A u \in Tag : aut'[u] = aut[u] \/ (u = t /\ aut'[u] = m)
  <2>1. StoreGenerated(t, f, m) /\ TypeOK
    BY DEF f, IInv
  <2> QED BY <1>1, <2>1, StoreReach
<1>3. ASSUME NEW u \in Tag, u \notin aliased
      PROVE  Makers(AutKeys(u))' \subseteq put'[u]
  <2>1. CASE u = t
    BY <1>1, <1>2, <1>3, <2>1 DEF IInv, NoForeignKeys
  <2>2. CASE u # t
    <3>1. ~(aut[u] = aut[t] /\ aut[t] # NoMap)
      BY <1>3, <2>2 DEF IInv, SharingRecorded
    <3>2. AutKeys(u)' = AutKeys(u)
      BY <1>2, <2>2, <3>1
    <3>3. Makers(AutKeys(u))' = Makers(AutKeys(u))
      BY <3>2 DEF Makers, Entries
    <3> QED BY <1>3, <3>3 DEF IInv, NoForeignKeys
  <2> QED BY <2>1, <2>2
<1>4. NoForeignKeys'
  BY <1>3 DEF NoForeignKeys, RelinOwned
<1>5. SharingRecorded'
  BY <1>2 DEF IInv, SharingRecorded, Registered
<1>6. MakersTagged'
  <2> SUFFICES ASSUME NEW n \in MapId, NEW r \in Secret, r \in Makers(heap'[n])
               PROVE  skTag'[r] \in Tag
    BY DEF MakersTagged, Makers, Entries
  <2>1. r \in Makers(heap[n]) \/ r = s
    BY <1>1, <1>2
  <2> QED BY <2>1 DEF IInv, MakersTagged
<1> QED BY <1>4, <1>5, <1>6 DEF IInv

(* A map the caller holds is inserted under tag t.                         *)
LEMMA InsertKeeps ==
  ASSUME IInv, TypeOK', NEW t \in Tag, NEW m \in MapId, InsertUnder(t, m),
         UNCHANGED <<skTag, mult>>
  PROVE  IInv'
<1> USE MapAssumption
<1>1. TypeOK /\ heap[m] \in KeyMaps
  BY DEF IInv, TypeOK, KeyMaps
<1>2. /\ \A u \in Tag : put[u] \subseteq put'[u]
      /\ Makers(heap[m]) \subseteq put'[t]
  BY <1>1 DEF InsertUnder, Put, TypeOK
<1>4. CASE Entries(AutKeys(t)) = {}
  <2>1. /\ aut' = [aut EXCEPT ![t] = m] /\ heap' = heap
        /\ aliased' = aliased \cup
             (IF \E u \in Tag \ {t} : aut[u] = m
              THEN {u \in Tag : u = t \/ aut[u] = m} ELSE {})
    BY <1>4 DEF InsertUnder
  <2>2. \A u \in Tag : aut'[u] = IF u = t THEN m ELSE aut[u]
    BY <1>1, <2>1 DEF TypeOK
  <2>3. SharingRecorded'
    BY <2>1, <2>2 DEF IInv, SharingRecorded
  <2>4. MakersTagged'
    BY <2>1 DEF IInv, MakersTagged
  <2>5. \A u \in Tag \ {t} : AutKeys(u)' = AutKeys(u)
    BY <2>1, <2>2 DEF AutKeys
  <2>6. AutKeys(t)' = heap[m]
    BY <2>1, <2>2 DEF AutKeys
  <2>7. NoForeignKeys'
    <3>1. \A u \in Tag \ {t} : Makers(AutKeys(u))' = Makers(AutKeys(u))
      BY <2>5 DEF Makers, Entries
    <3>2. Makers(AutKeys(t))' = Makers(heap[m])
      BY <2>6 DEF Makers, Entries
    <3>3. aliased \subseteq aliased'
      BY <2>1
    <3> QED BY <1>2, <3>1, <3>2, <3>3 DEF IInv, NoForeignKeys
  <2> QED BY <2>3, <2>4, <2>7 DEF IInv
<1>5. CASE Entries(AutKeys(t)) # {}
  <2>1. /\ heap' = [heap EXCEPT ![aut[t]] = Merge(heap[aut[t]], heap[m])]
        /\ aut' = aut /\ aliased' = aliased
    BY <1>5 DEF InsertUnder
  <2>2. aut[t] \in MapId
    BY <1>1, <1>5 DEF AutKeys, TypeOK, Empty, Entries
  <2>3. \A n \in MapId :
          heap'[n] = IF n = aut[t] THEN Merge(heap[n], heap[m]) ELSE heap[n]
    BY <1>1, <2>1, <2>2 DEF TypeOK
  <2>4. Makers(Merge(heap[aut[t]], heap[m])) \subseteq Makers(heap[aut[t]]) \cup Makers(heap[m])
    BY <1>1, <2>2, MergeFacts DEF TypeOK, KeyMaps
  <2>5. SharingRecorded'
    BY <2>1 DEF IInv, SharingRecorded
  <2>6. MakersTagged'
    <3> SUFFICES ASSUME NEW n \in MapId, NEW r \in Secret, r \in Makers(heap'[n])
                 PROVE  skTag[r] \in Tag
      BY DEF MakersTagged, Makers, Entries
    <3>1. r \in Makers(heap[n]) \cup Makers(heap[m])
      BY <2>3, <2>4
    <3> QED BY <3>1 DEF IInv, MakersTagged
  <2>7. ASSUME NEW u \in Tag, u \notin aliased
        PROVE  Makers(AutKeys(u))' \subseteq put'[u]
    <3>1. CASE u = t
      <4>1. AutKeys(t)' = Merge(heap[aut[t]], heap[m]) /\ AutKeys(t) = heap[aut[t]]
        BY <2>1, <2>2, <2>3 DEF AutKeys
      <4>2. Makers(AutKeys(t))' = Makers(Merge(heap[aut[t]], heap[m]))
        BY <4>1 DEF Makers, Entries
      <4> QED BY <1>2, <2>4, <2>7, <3>1, <4>1, <4>2 DEF IInv, NoForeignKeys
    <3>2. CASE u # t
      <4>1. aut[u] # aut[t]
        BY <2>2, <2>7, <3>2 DEF IInv, SharingRecorded
      <4>2. AutKeys(u)' = AutKeys(u)
        BY <1>1, <2>1, <2>3, <4>1 DEF AutKeys, TypeOK
      <4>3. Makers(AutKeys(u))' = Makers(AutKeys(u))
        BY <4>2 DEF Makers, Entries
      <4> QED BY <1>2, <2>7, <4>3 DEF IInv, NoForeignKeys
    <3> QED BY <3>1, <3>2
  <2>8. NoForeignKeys'
    BY <1>2, <2>1, <2>7 DEF IInv, NoForeignKeys
  <2> QED BY <2>5, <2>6, <2>8 DEF IInv
<1> QED BY <1>4, <1>5

(* eval_automorphism_key_gen() stores like the other generators; the map   *)
(* it returns, when it is a separate object, holds keys of the same secret.*)
LEMMA AutomorphismKeeps ==
  ASSUME IInv, TypeOK', NEW s \in Secret, NEW I \in SUBSET Index, NEW m \in MapId,
         EvalAutomorphismKeyGen(s, I, m), NEW t \in Tag, t = skTag[s]
  PROVE  IInv'
<1> DEFINE f == Keyed(s, I)
<1> USE MapAssumption
<1>1. /\ TypeOK /\ ~Registered(m)
      /\ UNCHANGED <<skTag, mult, aliased>>
      /\ put' = [put EXCEPT ![t] = @ \cup {s}]
  BY DEF IInv, EvalAutomorphismKeyGen, Free, Put
<1>2. /\ f \in KeyMaps /\ Makers(f) \subseteq {s} /\ s \in put'[t]
      /\ \A u \in Tag : put[u] \subseteq put'[u]
  BY <1>1, KeyedFacts DEF TypeOK
<1>3. CASE Entries(AutKeys(t)) = {}
  <2>1. StoreGenerated(t, f, m)
    BY <1>3 DEF EvalAutomorphismKeyGen, StoreGenerated
  <2>2. RelinOwned'
    BY <1>1 DEF IInv, RelinOwned, NoForeignKeys
  <2> QED BY <1>1, <1>2, <2>1, <2>2, StoreKeeps
<1>4. CASE Entries(AutKeys(t)) # {}
  <2> HIDE DEF f
  <2>1. /\ heap' = [heap EXCEPT ![aut[t]] = Merge(heap[aut[t]], f), ![m] = f]
        /\ aut' = aut
    BY <1>4 DEF EvalAutomorphismKeyGen, f
  <2>2. aut[t] \in MapId /\ aut[t] # m
    BY <1>1, <1>4 DEF AutKeys, TypeOK, Empty, Entries, Registered
  <2>3. \A n \in MapId :
          heap'[n] = IF n = m THEN f ELSE IF n = aut[t] THEN Merge(heap[n], f) ELSE heap[n]
    BY <1>1, <2>1, <2>2 DEF TypeOK
  <2>4. Makers(Merge(heap[aut[t]], f)) \subseteq Makers(heap[aut[t]]) \cup Makers(f)
    BY <1>1, <1>2, <2>2, MergeFacts DEF TypeOK, KeyMaps
  <2>5. SharingRecorded'
    BY <1>1, <2>1 DEF IInv, SharingRecorded
  <2>6. MakersTagged'
    <3> SUFFICES ASSUME NEW n \in MapId, NEW r \in Secret, r \in Makers(heap'[n])
                 PROVE  skTag'[r] \in Tag
      BY DEF MakersTagged, Makers, Entries
    <3>1. r \in Makers(heap[n]) \/ r \in Makers(f)
      BY <2>3, <2>4
    <3> QED BY <1>1, <1>2, <3>1 DEF IInv, MakersTagged
  <2>7. ASSUME NEW u \in Tag, u \notin aliased
        PROVE  Makers(AutKeys(u))' \subseteq put'[u]
    <3>1. CASE u = t
      <4>1. AutKeys(t)' = Merge(heap[aut[t]], f) /\ AutKeys(t) = heap[aut[t]]
        BY <2>1, <2>2, <2>3 DEF AutKeys
      <4>2. Makers(AutKeys(t))' = Makers(Merge(heap[aut[t]], f))
        BY <4>1 DEF Makers, Entries
      <4>3. Makers(AutKeys(t)) \subseteq put[t]
        BY <1>1, <2>7, <3>1 DEF IInv, NoForeignKeys
      <4> QED BY <1>2, <2>4, <3>1, <4>1, <4>2, <4>3
    <3>2. CASE u # t
      <4>1. aut[u] # aut[t] /\ aut[u] # m
        BY <1>1, <2>2, <2>7, <3>2 DEF IInv, SharingRecorded, Registered
      <4>2. AutKeys(u)' = AutKeys(u)
        BY <1>1, <2>1, <2>3, <4>1 DEF AutKeys, TypeOK
      <4>3. Makers(AutKeys(u))' = Makers(AutKeys(u))
        BY <4>2 DEF Makers, Entries
      <4> QED BY <1>2, <2>7, <4>3 DEF IInv, NoForeignKeys
    <3> QED BY <3>1, <3>2
  <2>8. NoForeignKeys'
    BY <1>1, <2>7 DEF IInv, NoForeignKeys
  <2> QED BY <2>5, <2>6, <2>8 DEF IInv
<1> QED BY <1>3, <1>4

LEMMA InvInit == Init => IInv
<1> SUFFICES ASSUME Init PROVE IInv
  OBVIOUS
<1>1. \A t \in Tag : AutKeys(t) = Empty
  BY DEF Init, AutKeys
<1>2. \A m \in MapId : Makers(heap[m]) = {}
  BY EmptyFacts DEF Init
<1>3. NoForeignKeys
  BY <1>1, EmptyFacts DEF Init, NoForeignKeys
<1> QED BY <1>2, <1>3, TypeInit DEF Init, IInv, SharingRecorded, MakersTagged

LEMMA InvStep == IInv /\ [Next]_vars => IInv'
<1> SUFFICES ASSUME IInv, [Next]_vars PROVE IInv'
  OBVIOUS
<1> USE TagAssumption, KeyAssumption, MapAssumption
<1>0. TypeOK /\ TypeOK'
  BY TypeStep DEF IInv
<1>1. ASSUME NEW s \in Secret, NEW t \in Tag, NEW b \in BOOLEAN, NEW I \in SUBSET Index,
             NEW m \in MapId, KeyGen(s, t, b, I, m)
      PROVE  IInv'
  <2>1. /\ skTag[s] = NoTag /\ skTag' = [skTag EXCEPT ![s] = t]
        /\ mult' = IF b THEN [mult EXCEPT ![t] = s] ELSE mult
        /\ UNCHANGED <<handle, depth, aliased>>
    BY <1>1 DEF KeyGen
  <2>2. /\ s # NoKey
        /\ \A r \in Secret : skTag'[r] = IF r = s THEN t ELSE skTag[r]
        /\ \A u \in Tag : mult'[u] = mult[u] \/ (u = t /\ mult'[u] = s)
    BY <1>0, <2>1 DEF TypeOK
  <2>4. RelinOwned'
    BY <1>0, <2>1, <2>2 DEF IInv, RelinOwned, NoForeignKeys, TypeOK
  <2>5. CASE I = {}
    <3>1. aut' = aut /\ heap' = heap /\ put' = put
      BY <1>1, <2>5 DEF KeyGen
    <3>2. \A u \in Tag : Makers(AutKeys(u))' = Makers(AutKeys(u))
      BY <3>1 DEF Makers, Entries, AutKeys
    <3>3. NoForeignKeys'
      BY <2>1, <2>4, <3>1, <3>2 DEF IInv, NoForeignKeys, RelinOwned
    <3>4. SharingRecorded' /\ MakersTagged'
      BY <2>1, <2>2, <3>1 DEF IInv, SharingRecorded, MakersTagged
    <3> QED BY <1>0, <3>3, <3>4 DEF IInv
  <2>6. CASE I # {}
    <3>1. ~Registered(m) /\ StoreGenerated(t, Keyed(s, I), m)
      BY <1>1, <2>6 DEF KeyGen, Free
    <3>2. s \in put'[t] /\ \A u \in Tag : put[u] \subseteq put'[u]
      BY <1>0, <1>1, <2>6 DEF KeyGen, Put, TypeOK
    <3> QED BY <1>0, <2>1, <2>2, <2>4, <3>1, <3>2, StoreKeeps
  <2> QED BY <2>5, <2>6
<1>2. ASSUME NEW s \in Secret, NEW t \in Tag, NEW b \in BOOLEAN, KeyGenFails(s, t, b)
      PROVE  IInv'
  <2>1. /\ skTag[s] = NoTag /\ skTag' = [skTag EXCEPT ![s] = Lost]
        /\ mult' = IF b THEN [mult EXCEPT ![t] = s] ELSE mult
        /\ UNCHANGED <<aut, heap, put, aliased>>
    BY <1>2 DEF KeyGenFails
  <2>2. /\ s # NoKey
        /\ \A r \in Secret : skTag'[r] = IF r = s THEN Lost ELSE skTag[r]
        /\ \A u \in Tag : mult'[u] = mult[u] \/ (u = t /\ mult'[u] = s)
    BY <1>0, <2>1 DEF TypeOK
  <2>3. \A u \in Tag : Makers(AutKeys(u))' = Makers(AutKeys(u))
    BY <2>1 DEF Makers, Entries, AutKeys
  <2>4. NoForeignKeys'
    BY <1>0, <2>1, <2>2, <2>3 DEF IInv, NoForeignKeys, TypeOK
  <2>5. SharingRecorded' /\ MakersTagged'
    BY <2>1, <2>2 DEF IInv, SharingRecorded, MakersTagged
  <2> QED BY <1>0, <2>4, <2>5 DEF IInv
<1>3. ASSUME NEW s \in Secret, EvalMultKeyGen(s) PROVE IInv'
  <2>1. /\ skTag[s] \in Tag /\ UNCHANGED <<skTag, aut, heap, put, aliased>>
        /\ \A u \in Tag : mult'[u] = mult[u] \/ (u = skTag[s] /\ mult'[u] = s)
    BY <1>0, <1>3 DEF EvalMultKeyGen, TypeOK, history
  <2>2. \A u \in Tag : Makers(AutKeys(u))' = Makers(AutKeys(u))
    BY <2>1 DEF Makers, Entries, AutKeys
  <2>3. NoForeignKeys'
    BY <2>1, <2>2 DEF IInv, NoForeignKeys
  <2> QED BY <1>0, <2>1, <2>3 DEF IInv, SharingRecorded, MakersTagged
<1>4. ASSUME NEW s \in Secret, NEW I \in SUBSET Index, NEW m \in MapId,
             EvalRotateKeyGen(s, I, m)
      PROVE  IInv'
  <2>1. /\ skTag[s] \in Tag /\ ~Registered(m)
        /\ StoreGenerated(skTag[s], Keyed(s, I), m)
        /\ UNCHANGED <<skTag, mult, aliased>>
    BY <1>4 DEF EvalRotateKeyGen, Free
  <2>2. /\ s \in put'[skTag[s]] /\ \A u \in Tag : put[u] \subseteq put'[u]
        /\ RelinOwned'
    BY <1>0, <1>4, <2>1 DEF EvalRotateKeyGen, Put, IInv, TypeOK, RelinOwned, NoForeignKeys
  <2> QED BY <1>0, <2>1, <2>2, StoreKeeps
<1>5. ASSUME NEW s \in Secret, NEW m \in MapId, EvalSumKeyGen(s, m) PROVE IInv'
  BY <1>4, <1>5, IndexAssumption DEF EvalSumKeyGen
<1>6. ASSUME NEW s \in Secret, NEW I \in SUBSET Index, NEW m \in MapId,
             EvalAutomorphismKeyGen(s, I, m)
      PROVE  IInv'
  <2>1. skTag[s] \in Tag
    BY <1>6 DEF EvalAutomorphismKeyGen
  <2> QED BY <1>0, <1>6, <2>1, AutomorphismKeeps
<1>7. ASSUME NEW t \in Tag, NEW m \in MapId, GetEvalSumKeyMap(t, m) PROVE IInv'
  <2>1. Shrinks
    BY <1>0, <1>7 DEF GetEvalSumKeyMap, Shrinks, TypeOK, Free, Registered, history
  <2> QED BY <1>0, <2>1, ShrinkKeeps
<1>8. ASSUME NEW t \in Tag, GetEvalAutomorphismKeyMap(t) PROVE IInv'
  <2>1. Shrinks
    BY <1>8 DEF GetEvalAutomorphismKeyMap, Shrinks, tables, history
  <2> QED BY <1>0, <2>1, ShrinkKeeps
<1>9. ASSUME NEW m \in MapId, DropHandle(m) PROVE IInv'
  <2>1. Shrinks
    BY <1>9 DEF DropHandle, Shrinks, tables, history
  <2> QED BY <1>0, <2>1, ShrinkKeeps
<1>10. ASSUME NEW m \in MapId, NEW arg \in Tag \cup {NoTag}, InsertEvalAutomorphismKey(m, arg)
       PROVE  IInv'
  <2>1. PICK t \in Tag : InsertUnder(t, m)
    BY <1>0, <1>10, InsertTag DEF IInv
  <2>2. UNCHANGED <<skTag, mult>>
    BY <1>10 DEF InsertEvalAutomorphismKey
  <2> QED BY <1>0, <2>1, <2>2, InsertKeeps
<1>11. ASSUME NEW t \in Tag, ClearMultTag(t) PROVE IInv'
  <2>1. Shrinks
    BY <1>0, <1>11 DEF ClearMultTag, Shrinks, TypeOK, history
  <2> QED BY <1>0, <2>1, ShrinkKeeps
<1>12. ASSUME NEW t \in Tag, ClearAutTag(t) PROVE IInv'
  <2>1. Shrinks
    BY <1>0, <1>12 DEF ClearAutTag, Gone, Shrinks, TypeOK
  <2> QED BY <1>0, <2>1, ShrinkKeeps
<1>13. ASSUME NEW what \in SUBSET BothTables, ClearFheState(what) PROVE IInv'
  <2>1. Shrinks
    BY <1>0, <1>13 DEF ClearFheState, ClearTables, Gone, Shrinks, TypeOK
  <2> QED BY <1>0, <2>1, ShrinkKeeps
<1>14. CASE EnterScope
  <2>1. Shrinks
    BY <1>14 DEF EnterScope, Shrinks, tables, history
  <2> QED BY <1>0, <2>1, ShrinkKeeps
<1>15. CASE ExitScope
  <2>1. Shrinks
    <3>1. aut' = [t \in Tag |-> NoMap] /\ mult' = [t \in Tag |-> NoKey]
      BY <1>15 DEF ExitScope, ClearTables, BothTables
    <3> QED BY <1>15, <3>1 DEF ExitScope, Shrinks
  <2> QED BY <1>0, <2>1, ShrinkKeeps
<1>16. CASE UNCHANGED vars
  <2>1. Shrinks
    BY <1>16 DEF vars, Shrinks
  <2> QED BY <1>0, <2>1, ShrinkKeeps
<1> QED
  BY <1>1, <1>2, <1>3, <1>4, <1>5, <1>6, <1>7, <1>8, <1>9, <1>10, <1>11, <1>12,
     <1>13, <1>14, <1>15, <1>16 DEF Next

(* Every state of every behaviour of the registry is well typed.           *)
THEOREM TypeCorrect == Spec => []TypeOK
<1>1. IInv => TypeOK
  BY DEF IInv
<1> QED BY <1>1, InvInit, InvStep, PTL DEF Spec

(* No sequence of calls makes a lookup under a tag find a key that was not *)
(* generated or inserted under that tag since it was last cleared.         *)
THEOREM OnlyOwnKeys == Spec => []NoForeignKeys
<1>1. IInv => NoForeignKeys
  BY DEF IInv
<1> QED BY <1>1, InvInit, InvStep, PTL DEF Spec

(* A secret a failed key_gen() lost has no rotation key anywhere.          *)
THEOREM LostSecretsKeyless == Spec => []LostSecretsHaveNoRotationKeys
<1>1. IInv => LostSecretsHaveNoRotationKeys
  BY TagAssumption DEF IInv, MakersTagged, LostSecretsHaveNoRotationKeys
<1> QED BY <1>1, InvInit, InvStep, PTL DEF Spec
----------------------------------------------------------------------------
(* What a step does to the contents of a map object that is in use:        *)
(* nothing, or it merges keys into it.                                     *)
UsedMapsMerge ==
  \A n \in MapId : ~Free(n) =>
    heap'[n] = heap[n] \/ \E t \in Tag, g \in KeyMaps :
                            aut[t] = n /\ heap'[n] = Merge(heap[n], g)

LEMMA StoreMerges ==
  ASSUME TypeOK, NEW t \in Tag, NEW f \in KeyMaps, NEW m \in MapId,
         Free(m), StoreGenerated(t, f, m)
  PROVE  UsedMapsMerge
<1>1. CASE Entries(AutKeys(t)) = {}
  BY <1>1 DEF StoreGenerated, UsedMapsMerge, TypeOK
<1>2. CASE Entries(AutKeys(t)) # {}
  <2>1. heap' = [heap EXCEPT ![aut[t]] = Merge(heap[aut[t]], f)]
    BY <1>2 DEF StoreGenerated
  <2>2. \A n \in MapId : heap'[n] = IF n = aut[t] THEN Merge(heap[n], f) ELSE heap[n]
    BY <2>1 DEF TypeOK
  <2> QED BY <2>2 DEF UsedMapsMerge
<1> QED BY <1>1, <1>2

LEMMA InsertMerges ==
  ASSUME TypeOK, NEW t \in Tag, NEW m \in MapId, InsertUnder(t, m)
  PROVE  UsedMapsMerge
<1>1. CASE Entries(AutKeys(t)) = {}
  BY <1>1 DEF InsertUnder, UsedMapsMerge
<1>2. CASE Entries(AutKeys(t)) # {}
  <2>1. heap' = [heap EXCEPT ![aut[t]] = Merge(heap[aut[t]], heap[m])]
    BY <1>2 DEF InsertUnder
  <2>2. \A n \in MapId : heap'[n] = IF n = aut[t] THEN Merge(heap[n], heap[m]) ELSE heap[n]
    BY <2>1 DEF TypeOK
  <2> QED BY <2>2 DEF UsedMapsMerge, TypeOK, KeyMaps
<1> QED BY <1>1, <1>2

LEMMA MergeStep == IInv /\ [Next]_vars => UsedMapsMerge
<1> SUFFICES ASSUME IInv, [Next]_vars PROVE UsedMapsMerge
  OBVIOUS
<1>0. TypeOK
  BY DEF IInv
<1>1. ASSUME NEW s \in Secret, NEW t \in Tag, NEW b \in BOOLEAN, NEW I \in SUBSET Index,
             NEW m \in MapId, KeyGen(s, t, b, I, m)
      PROVE  UsedMapsMerge
  <2>1. CASE I = {}
    BY <1>1, <2>1 DEF KeyGen, UsedMapsMerge
  <2>2. CASE I # {}
    BY <1>0, <1>1, <2>2, StoreMerges, KeyedFacts DEF KeyGen
  <2> QED BY <2>1, <2>2
<1>2. ASSUME NEW s \in Secret, NEW t \in Tag, NEW b \in BOOLEAN, KeyGenFails(s, t, b)
      PROVE  UsedMapsMerge
  BY <1>2 DEF KeyGenFails, UsedMapsMerge
<1>3. ASSUME NEW s \in Secret, EvalMultKeyGen(s) PROVE UsedMapsMerge
  BY <1>3 DEF EvalMultKeyGen, UsedMapsMerge
<1>4. ASSUME NEW s \in Secret, NEW I \in SUBSET Index, NEW m \in MapId,
             EvalRotateKeyGen(s, I, m)
      PROVE  UsedMapsMerge
  BY <1>0, <1>4, StoreMerges, KeyedFacts DEF EvalRotateKeyGen
<1>5. ASSUME NEW s \in Secret, NEW m \in MapId, EvalSumKeyGen(s, m) PROVE UsedMapsMerge
  BY <1>4, <1>5, IndexAssumption DEF EvalSumKeyGen
<1>6. ASSUME NEW s \in Secret, NEW I \in SUBSET Index, NEW m \in MapId,
             EvalAutomorphismKeyGen(s, I, m)
      PROVE  UsedMapsMerge
  <2>1. PICK t \in Tag : t = skTag[s]
    BY <1>6 DEF EvalAutomorphismKeyGen
  <2>2. Free(m) /\ Keyed(s, I) \in KeyMaps
    BY <1>6, KeyedFacts DEF EvalAutomorphismKeyGen
  <2>3. CASE Entries(AutKeys(t)) = {}
    <3>1. heap' = [heap EXCEPT ![m] = Keyed(s, I)]
      BY <1>6, <2>1, <2>3 DEF EvalAutomorphismKeyGen
    <3> QED BY <1>0, <2>2, <3>1 DEF UsedMapsMerge, TypeOK
  <2>4. CASE Entries(AutKeys(t)) # {}
    <3>1. heap' = [heap EXCEPT ![aut[t]] = Merge(heap[aut[t]], Keyed(s, I)),
                               ![m] = Keyed(s, I)]
      BY <1>6, <2>1, <2>4 DEF EvalAutomorphismKeyGen
    <3>2. \A n \in MapId \ {m} :
            heap'[n] = IF n = aut[t] THEN Merge(heap[n], Keyed(s, I)) ELSE heap[n]
      BY <1>0, <3>1 DEF TypeOK
    <3> QED BY <2>2, <3>2 DEF UsedMapsMerge
  <2> QED BY <2>3, <2>4
<1>7. ASSUME NEW t \in Tag, NEW m \in MapId, GetEvalSumKeyMap(t, m) PROVE UsedMapsMerge
  BY <1>0, <1>7 DEF GetEvalSumKeyMap, UsedMapsMerge, TypeOK
<1>8. ASSUME NEW t \in Tag, GetEvalAutomorphismKeyMap(t) PROVE UsedMapsMerge
  BY <1>8 DEF GetEvalAutomorphismKeyMap, UsedMapsMerge, tables
<1>9. ASSUME NEW m \in MapId, DropHandle(m) PROVE UsedMapsMerge
  BY <1>9 DEF DropHandle, UsedMapsMerge, tables
<1>10. ASSUME NEW m \in MapId, NEW arg \in Tag \cup {NoTag}, InsertEvalAutomorphismKey(m, arg)
       PROVE  UsedMapsMerge
  BY <1>0, <1>10, InsertTag, InsertMerges DEF IInv
<1>11. ASSUME NEW t \in Tag, ClearMultTag(t) PROVE UsedMapsMerge
  BY <1>11 DEF ClearMultTag, UsedMapsMerge
<1>12. ASSUME NEW t \in Tag, ClearAutTag(t) PROVE UsedMapsMerge
  BY <1>12 DEF ClearAutTag, UsedMapsMerge
<1>13. ASSUME NEW what \in SUBSET BothTables, ClearFheState(what) PROVE UsedMapsMerge
  BY <1>13 DEF ClearFheState, UsedMapsMerge
<1>14. CASE EnterScope
  BY <1>14 DEF EnterScope, UsedMapsMerge, tables
<1>15. CASE ExitScope
  BY <1>15 DEF ExitScope, UsedMapsMerge
<1>16. CASE UNCHANGED vars
  BY <1>16 DEF vars, UsedMapsMerge
<1> QED
  BY <1>1, <1>2, <1>3, <1>4, <1>5, <1>6, <1>7, <1>8, <1>9, <1>10, <1>11, <1>12,
     <1>13, <1>14, <1>15, <1>16 DEF Next

(* A map R holds keeps every entry, unchanged.                             *)
THEOREM HeldMapsKeepEntries == Spec => HeldMapsOnlyGrow
<1> DEFINE A == \A m \in MapId : handle[m] # "none" /\ handle'[m] # "none" =>
                  \A i \in Entries(heap[m]) : heap'[m][i] = heap[m][i]
<1>1. IInv /\ [Next]_vars => A
  <2> SUFFICES ASSUME IInv, [Next]_vars, NEW m \in MapId, handle[m] # "none",
                      NEW i \in Entries(heap[m])
               PROVE  heap'[m][i] = heap[m][i]
    OBVIOUS
  <2>1. CASE heap'[m] = heap[m]
    BY <2>1
  <2>2. CASE \E g \in KeyMaps : heap'[m] = Merge(heap[m], g)
    BY <2>2, MergeFacts DEF IInv, TypeOK, KeyMaps
  <2> QED BY <2>1, <2>2, MergeStep DEF UsedMapsMerge, Free
<1> QED BY <1>1, InvInit, InvStep, PTL DEF Spec, HeldMapsOnlyGrow
----------------------------------------------------------------------------
SnapshotsUnregistered ==
  \A m \in MapId : handle[m] = "snapshot" => ~Registered(m)

(* How registry entries and snapshot handles come to be: an entry changes  *)
(* only to nothing, or from one with no keys to an object that is no       *)
(* snapshot; a handle becomes a snapshot only on a free object.            *)
EntryStep ==
  /\ \A t \in Tag :
       \/ aut'[t] \in {aut[t], NoMap}
       \/ Entries(AutKeys(t)) = {} /\ aut'[t] \in MapId /\ handle'[aut'[t]] # "snapshot"
  /\ \A n \in MapId : handle'[n] = "snapshot" =>
       handle[n] = "snapshot" \/ (Free(n) /\ aut' = aut)

LEMMA StoreEntry ==
  ASSUME TypeOK, NEW t \in Tag, NEW f \in KeyMaps, NEW m \in MapId,
         Free(m), StoreGenerated(t, f, m), handle'[m] # "snapshot",
         \A n \in MapId \ {m} : handle'[n] = handle[n]
  PROVE  EntryStep
<1>1. CASE Entries(AutKeys(t)) = {}
  BY <1>1 DEF StoreGenerated, EntryStep, TypeOK
<1>2. CASE Entries(AutKeys(t)) # {}
  BY <1>2 DEF StoreGenerated, EntryStep, TypeOK
<1> QED BY <1>1, <1>2

LEMMA InsertEntry ==
  ASSUME TypeOK, NEW t \in Tag, NEW m \in MapId, InsertUnder(t, m)
  PROVE  EntryStep
<1>1. CASE Entries(AutKeys(t)) = {}
  <2>1. aut' = [aut EXCEPT ![t] = m]
    BY <1>1 DEF InsertUnder
  <2>2. handle' = [handle EXCEPT ![m] = IF @ = "snapshot" THEN "reinserted" ELSE @]
    BY <1>1 DEF InsertUnder
  <2>3. handle'[m] # "snapshot" /\ \A n \in MapId \ {m} : handle'[n] = handle[n]
    BY <2>2 DEF TypeOK
  <2> QED BY <1>1, <2>1, <2>3 DEF EntryStep, TypeOK
<1>2. CASE Entries(AutKeys(t)) # {}
  BY <1>2 DEF InsertUnder, EntryStep
<1> QED BY <1>1, <1>2

LEMMA EntryStepHolds == IInv /\ [Next]_vars => EntryStep
<1> SUFFICES ASSUME IInv, [Next]_vars PROVE EntryStep
  OBVIOUS
<1>0. TypeOK
  BY DEF IInv
<1>1. ASSUME NEW s \in Secret, NEW t \in Tag, NEW b \in BOOLEAN, NEW I \in SUBSET Index,
             NEW m \in MapId, KeyGen(s, t, b, I, m)
      PROVE  EntryStep
  <2>1. CASE I = {}
    BY <1>1, <2>1 DEF KeyGen, EntryStep
  <2>2. CASE I # {}
    BY <1>0, <1>1, <2>2, StoreEntry, KeyedFacts DEF KeyGen, Free
  <2> QED BY <2>1, <2>2
<1>2. ASSUME NEW s \in Secret, NEW t \in Tag, NEW b \in BOOLEAN, KeyGenFails(s, t, b)
      PROVE  EntryStep
  BY <1>2 DEF KeyGenFails, EntryStep
<1>3. ASSUME NEW s \in Secret, EvalMultKeyGen(s) PROVE EntryStep
  BY <1>3 DEF EvalMultKeyGen, EntryStep
<1>4. ASSUME NEW s \in Secret, NEW I \in SUBSET Index, NEW m \in MapId,
             EvalRotateKeyGen(s, I, m)
      PROVE  EntryStep
  BY <1>0, <1>4, StoreEntry, KeyedFacts DEF EvalRotateKeyGen, Free
<1>5. ASSUME NEW s \in Secret, NEW m \in MapId, EvalSumKeyGen(s, m) PROVE EntryStep
  BY <1>4, <1>5, IndexAssumption DEF EvalSumKeyGen
<1>6. ASSUME NEW s \in Secret, NEW I \in SUBSET Index, NEW m \in MapId,
             EvalAutomorphismKeyGen(s, I, m)
      PROVE  EntryStep
  <2>1. PICK t \in Tag : t = skTag[s]
    BY <1>6 DEF EvalAutomorphismKeyGen
  <2>2. handle' = [handle EXCEPT ![m] = "shared"] /\ Free(m)
    BY <1>6 DEF EvalAutomorphismKeyGen
  <2>3. handle'[m] = "shared" /\ \A n \in MapId \ {m} : handle'[n] = handle[n]
    BY <1>0, <2>2 DEF TypeOK
  <2>4. CASE Entries(AutKeys(t)) = {}
    <3>1. aut' = [aut EXCEPT ![t] = m]
      BY <1>6, <2>1, <2>4 DEF EvalAutomorphismKeyGen
    <3> QED BY <1>0, <2>3, <2>4, <3>1 DEF EntryStep, TypeOK
  <2>5. CASE Entries(AutKeys(t)) # {}
    <3>1. aut' = aut
      BY <1>6, <2>1, <2>5 DEF EvalAutomorphismKeyGen
    <3> QED BY <2>3, <3>1 DEF EntryStep
  <2> QED BY <2>4, <2>5
<1>7. ASSUME NEW t \in Tag, NEW m \in MapId, GetEvalSumKeyMap(t, m) PROVE EntryStep
  BY <1>0, <1>7 DEF GetEvalSumKeyMap, EntryStep, TypeOK
<1>8. ASSUME NEW t \in Tag, GetEvalAutomorphismKeyMap(t) PROVE EntryStep
  BY <1>0, <1>8 DEF GetEvalAutomorphismKeyMap, EntryStep, TypeOK, tables
<1>9. ASSUME NEW m \in MapId, DropHandle(m) PROVE EntryStep
  BY <1>0, <1>9 DEF DropHandle, EntryStep, TypeOK, tables
<1>10. ASSUME NEW m \in MapId, NEW arg \in Tag \cup {NoTag}, InsertEvalAutomorphismKey(m, arg)
       PROVE  EntryStep
  BY <1>0, <1>10, InsertTag, InsertEntry DEF IInv
<1>11. ASSUME NEW t \in Tag, ClearMultTag(t) PROVE EntryStep
  BY <1>11 DEF ClearMultTag, EntryStep
<1>12. ASSUME NEW t \in Tag, ClearAutTag(t) PROVE EntryStep
  BY <1>0, <1>12 DEF ClearAutTag, EntryStep, TypeOK
<1>13. ASSUME NEW what \in SUBSET BothTables, ClearFheState(what) PROVE EntryStep
  BY <1>0, <1>13 DEF ClearFheState, ClearTables, EntryStep, TypeOK
<1>14. CASE EnterScope
  BY <1>14 DEF EnterScope, EntryStep, tables
<1>15. CASE ExitScope
  BY <1>0, <1>15 DEF ExitScope, ClearTables, EntryStep, TypeOK
<1>16. CASE UNCHANGED vars
  BY <1>16 DEF vars, EntryStep
<1> QED
  BY <1>1, <1>2, <1>3, <1>4, <1>5, <1>6, <1>7, <1>8, <1>9, <1>10, <1>11, <1>12,
     <1>13, <1>14, <1>15, <1>16 DEF Next

(* A snapshot does not change while it is held and not given back.         *)
THEOREM SnapshotsStayFrozen == Spec => SnapshotsFrozen
<1> DEFINE A == \A m \in MapId : handle[m] = "snapshot" /\ handle'[m] = "snapshot" =>
                  heap'[m] = heap[m]
<1>1. IInv /\ SnapshotsUnregistered /\ [Next]_vars => A
  BY MergeStep DEF UsedMapsMerge, Free, Registered, SnapshotsUnregistered
<1>2. IInv /\ SnapshotsUnregistered /\ [Next]_vars => SnapshotsUnregistered'
  BY EntryStepHolds, MapAssumption DEF EntryStep, Free, Registered, SnapshotsUnregistered
<1>3. Init => SnapshotsUnregistered
  BY DEF Init, SnapshotsUnregistered
<1> QED BY <1>1, <1>2, <1>3, InvInit, InvStep, PTL DEF Spec, SnapshotsFrozen

(* A registered key is never overwritten by another.                       *)
THEOREM NoReplacement == Spec => RegisteredKeysNotReplaced
<1> DEFINE A == \A t \in Tag, i \in Index :
                  AutKeys(t)[i] # NoKey /\ AutKeys(t)'[i] # NoKey =>
                    AutKeys(t)'[i] = AutKeys(t)[i]
<1>1. IInv /\ [Next]_vars => A
  <2> SUFFICES ASSUME IInv, [Next]_vars, NEW t \in Tag, NEW i \in Index,
                      AutKeys(t)[i] # NoKey, AutKeys(t)'[i] # NoKey
               PROVE  AutKeys(t)'[i] = AutKeys(t)[i]
    OBVIOUS
  <2>1. aut[t] # NoMap /\ aut[t] \in MapId
    BY DEF AutKeys, Empty, IInv, TypeOK
  <2>2. aut'[t] # NoMap
    BY DEF AutKeys, Empty
  <2>3. aut'[t] = aut[t]
    BY <2>2, EntryStepHolds DEF EntryStep, Entries
  <2>4. ~Free(aut[t])
    BY <2>1 DEF Free, Registered
  <2>5. AutKeys(t)' = heap'[aut[t]] /\ AutKeys(t) = heap[aut[t]]
    BY <2>1, <2>3 DEF AutKeys
  <2>6. CASE heap'[aut[t]] = heap[aut[t]]
    BY <2>5, <2>6
  <2>7. CASE \E g \in KeyMaps : heap'[aut[t]] = Merge(heap[aut[t]], g)
    BY <2>1, <2>5, <2>7, MergeFacts DEF IInv, TypeOK, KeyMaps, Entries
  <2> QED BY <2>1, <2>4, <2>6, <2>7, MergeStep DEF UsedMapsMerge
<1> QED BY <1>1, InvInit, InvStep, PTL DEF Spec, RegisteredKeysNotReplaced
----------------------------------------------------------------------------
(* The registries implement KeyTable.  A tag has keys exactly when it has  *)
(* an object, for no registered object is empty; and a tag nobody has used *)
(* has neither table's keys, so that key_gen() makes the first.            *)
RegisteredHaveKeys ==
  \A t \in Tag : aut[t] # NoMap => Entries(heap[aut[t]]) # {}
FreshTagsUnused ==
  /\ \A t \in Tag : FreshTag(t) => mult[t] = NoKey /\ aut[t] = NoMap
  /\ \A s \in Secret : skTag[s] \in Tag => skTag[s] \in taken

TInv == IInv /\ RegisteredHaveKeys /\ FreshTagsUnused

LEMMA HasObject ==
  ASSUME TypeOK, RegisteredHaveKeys, NEW t \in Tag
  PROVE  Entries(AutKeys(t)) = {} <=> aut[t] = NoMap
  BY DEF AutKeys, RegisteredHaveKeys, Empty, Entries

(* A registered object is what lookups see: the tables are the same when   *)
(* the references and the registered objects are.                          *)
LEMMA SameObjects ==
  ASSUME TypeOK, aut' = aut, \A n \in MapId : Registered(n) => heap'[n] = heap[n]
  PROVE  (\A u \in Tag : AutKeys(u)' = AutKeys(u)) /\ Shared' = Shared
<1>1. ASSUME NEW u \in Tag PROVE AutKeys(u)' = AutKeys(u)
  <2>1. CASE aut[u] = NoMap
    BY <2>1 DEF AutKeys, Empty
  <2>2. CASE aut[u] # NoMap
    BY <2>2 DEF AutKeys, TypeOK, Registered
  <2> QED BY <2>1, <2>2
<1> QED BY <1>1 DEF Shared

LEMMA SameTable ==
  ASSUME TypeOK, aut' = aut, mult' = mult,
         \A n \in MapId : Registered(n) => heap'[n] = heap[n]
  PROVE  UNCHANGED Table!kvars
  BY SameObjects DEF Table!kvars

(* An object no tag has, with keys in it, becomes that of a tag with none. *)
LEMMA NewObjectFills ==
  ASSUME TypeOK, TypeOK', NEW t \in Tag, NEW m \in MapId, ~Registered(m),
         aut[t] = NoMap, aut' = [aut EXCEPT ![t] = m], Entries(heap'[m]) # {},
         \A n \in MapId : Registered(n) => heap'[n] = heap[n]
  PROVE  Table!Fill(t)
<1> USE MapAssumption
<1>1. aut'[t] = m /\ AutKeys(t)' = heap'[m]
  BY DEF TypeOK, AutKeys
<1>2. \A u \in Tag \ {t} : AutKeys(u)' = AutKeys(u)
  <2> SUFFICES ASSUME NEW u \in Tag \ {t} PROVE AutKeys(u)' = AutKeys(u)
    OBVIOUS
  <2>1. aut'[u] = aut[u]
    BY DEF TypeOK
  <2>2. CASE aut[u] = NoMap
    BY <2>1, <2>2 DEF AutKeys, Empty
  <2>3. CASE aut[u] # NoMap
    BY <2>1, <2>3 DEF AutKeys, TypeOK, Registered
  <2> QED BY <2>2, <2>3
<1>3. \A u \in Tag : AutKeys(u)' \in Table!KeyMaps
  BY DEF TypeOK, AutKeys, Empty, Table!KeyMaps
<1>4. AutKeys(t)' # Table!NoKeys
  BY <1>1 DEF Entries, Table!NoKeys
<1>5. Table!Changes({t})
  BY <1>2, <1>3 DEF Table!Changes
<1>6. Shared' = [Shared EXCEPT ![t] = {t}]
  <2>1. \A u \in Tag : aut'[u] = m <=> u = t
    BY DEF TypeOK, Registered
  <2>2. \A u \in Tag \ {t} : aut'[u] = aut[u]
    BY DEF TypeOK
  <2>3. ASSUME NEW u \in Tag \ {t}, aut[u] # NoMap
        PROVE  {v \in Tag : aut'[v] = aut'[u]} = {v \in Tag : aut[v] = aut[u]}
    BY <2>1, <2>2, <2>3
  <2>4. {v \in Tag : aut'[v] = aut'[t]} = {t}
    BY <1>1, <2>1
  <2>5. Shared'[t] = {t}
    BY <1>1, <2>4 DEF Shared
  <2>6. \A u \in Tag \ {t} : Shared'[u] = Shared[u]
    BY <2>2, <2>3 DEF Shared
  <2> QED BY <2>5, <2>6 DEF Shared
<1> QED BY <1>1, <1>4, <1>5, <1>6 DEF Table!Fill, Shared

(* A merge into the object of a tag adds keys to the tags that share it.   *)
LEMMA MergeAdds ==
  ASSUME TypeOK, TypeOK', NEW t \in Tag, NEW g \in KeyMaps, aut[t] # NoMap,
         aut' = aut, mult' = mult, heap'[aut[t]] = Merge(heap[aut[t]], g),
         \A n \in MapId \ {aut[t]} : Registered(n) => heap'[n] = heap[n]
  PROVE  Table!Add(t)
<1>1. /\ \A u \in Tag : aut[u] = aut[t] => AutKeys(u)' = heap'[aut[t]]
      /\ aut[t] \in MapId /\ AutKeys(t) = heap[aut[t]]
  BY DEF AutKeys, TypeOK
<1>2. \A u \in Tag : aut[u] # aut[t] => AutKeys(u)' = AutKeys(u)
  <2> SUFFICES ASSUME NEW u \in Tag, aut[u] # aut[t] PROVE AutKeys(u)' = AutKeys(u)
    OBVIOUS
  <2>1. CASE aut[u] = NoMap
    BY <2>1 DEF AutKeys, Empty
  <2>2. CASE aut[u] # NoMap
    BY <2>2 DEF AutKeys, TypeOK, Registered
  <2> QED BY <2>1, <2>2
<1>3. \A u \in Tag : AutKeys(u)' \in Table!KeyMaps
  BY DEF TypeOK, AutKeys, Empty, Table!KeyMaps
<1>4. Shared[t] = {u \in Tag : aut[u] = aut[t]} /\ Shared' = Shared
  BY DEF Shared
<1>5. Table!Changes(Shared[t])
  BY <1>2, <1>3, <1>4 DEF Table!Changes
<1>6. \A u \in Shared[t] : AutKeys(u)' = AutKeys(t)'
  BY <1>1, <1>4
<1>7. \A i \in Index : AutKeys(t)[i] # NoKey => AutKeys(t)'[i] = AutKeys(t)[i]
  <2>1. heap[aut[t]] \in KeyMaps
    BY <1>1 DEF TypeOK, KeyMaps
  <2>2. \A i \in Entries(heap[aut[t]]) : Merge(heap[aut[t]], g)[i] = heap[aut[t]][i]
    BY <2>1, MergeFacts
  <2>3. AutKeys(t)' = Merge(heap[aut[t]], g)
    BY <1>1
  <2> QED BY <1>1, <2>2, <2>3 DEF Entries
<1> QED BY <1>4, <1>5, <1>6, <1>7 DEF Table!Add

(* The object of one tag becomes that of another, which has none.          *)
LEMMA SameObjectJoins ==
  ASSUME TypeOK, NEW t \in Tag, NEW u \in Tag, aut[t] = NoMap, aut[u] # NoMap,
         aut' = [aut EXCEPT ![t] = aut[u]], heap' = heap, mult' = mult
  PROVE  Table!Join(t, u)
<1> DEFINE group == Shared[u] \cup {t}
<1>1. aut'[t] = aut[u] /\ \A v \in Tag \ {t} : aut'[v] = aut[v]
  BY DEF TypeOK
<1>2. Shared[t] = {} /\ Shared[u] # {} /\ Shared[u] = {v \in Tag : aut[v] = aut[u]}
  BY DEF Shared
<1>3. AutKeys(t)' = AutKeys(u)
  BY <1>1 DEF AutKeys
<1>4. \A v \in Tag \ {t} : AutKeys(v)' = AutKeys(v)
  BY <1>1 DEF AutKeys, Empty
<1>5. ASSUME NEW v \in Tag
      PROVE  Shared'[v] = IF v \in group THEN group ELSE Shared[v]
  <2>1. {w \in Tag : aut'[w] = aut[u]} = group
    BY <1>1, <1>2
  <2>2. CASE v \in group
    <3>1. aut'[v] = aut[u]
      BY <1>1, <1>2, <2>2
    <3> QED BY <2>1, <2>2, <3>1 DEF Shared
  <2>3. CASE v \notin group
    <3>1. v # t /\ aut'[v] = aut[v] /\ aut[v] # aut[u]
      BY <1>1, <1>2, <2>3
    <3>2. CASE aut[v] = NoMap
      BY <2>3, <3>1, <3>2 DEF Shared
    <3>3. CASE aut[v] # NoMap
      <4>1. {w \in Tag : aut'[w] = aut'[v]} = {w \in Tag : aut[w] = aut[v]}
        BY <1>1, <3>1, <3>3
      <4> QED BY <2>3, <3>1, <3>3, <4>1 DEF Shared
    <3> QED BY <3>2, <3>3
  <2> QED BY <2>2, <2>3
<1>6. Shared' = [v \in Tag |-> IF v \in group THEN group ELSE Shared[v]]
  BY <1>5 DEF Shared
<1> HIDE DEF group
<1> QED BY <1>2, <1>3, <1>4, <1>6 DEF Table!Join, group

(* References are dropped.                                                 *)
LEMMA DroppedClears ==
  ASSUME TypeOK, NEW R \in SUBSET Tag, NEW A \in SUBSET Tag,
         mult' = [t \in Tag |-> IF t \in R THEN NoKey ELSE mult[t]],
         aut' = [t \in Tag |-> IF t \in A THEN NoMap ELSE aut[t]],
         heap' = heap
  PROVE  Table!Clear(R, A)
<1>1. \A t \in Tag : AutKeys(t)' = IF t \in A THEN Table!NoKeys ELSE AutKeys(t)
  BY DEF AutKeys, Empty, Table!NoKeys
<1>2. ASSUME NEW t \in Tag
      PROVE  Shared'[t] = IF t \in A THEN {} ELSE Shared[t] \ A
  <2>1. CASE t \in A
    BY <2>1 DEF Shared
  <2>2. CASE t \notin A /\ aut[t] = NoMap
    BY <2>2 DEF Shared
  <2>3. CASE t \notin A /\ aut[t] # NoMap
    <3>1. {u \in Tag : aut'[u] = aut'[t]} = {u \in Tag : aut[u] = aut[t]} \ A
      BY <2>3
    <3> QED BY <2>3, <3>1 DEF Shared
  <2> QED BY <2>1, <2>2, <2>3
<1>3. Shared' = [t \in Tag |-> IF t \in A THEN {} ELSE Shared[t] \ A]
  BY <1>2 DEF Shared
<1> QED BY <1>1, <1>3 DEF Table!Clear

(* Generated keys are a tag's first, or are added to those it has.         *)
LEMMA StoreInTable ==
  ASSUME TInv, TypeOK', NEW s \in Secret, NEW t \in Tag, NEW I \in SUBSET Index,
         NEW m \in MapId, I # {}, Free(m), StoreGenerated(t, Keyed(s, I), m)
  PROVE  /\ aut[t] = NoMap => Table!Fill(t)
         /\ aut[t] # NoMap /\ mult' = mult => Table!Add(t)
<1>1. /\ TypeOK /\ ~Registered(m) /\ Keyed(s, I) \in KeyMaps
      /\ Entries(AutKeys(t)) = {} <=> aut[t] = NoMap
  BY HasObject, KeyedFacts DEF TInv, IInv, Free
<1>2. CASE aut[t] = NoMap
  <2>1. aut' = [aut EXCEPT ![t] = m] /\ heap' = [heap EXCEPT ![m] = Keyed(s, I)]
    BY <1>1, <1>2 DEF StoreGenerated
  <2>2. Entries(Keyed(s, I)) # {}
    BY KeyAssumption DEF Keyed, Entries
  <2>3. heap'[m] = Keyed(s, I) /\ \A n \in MapId : Registered(n) => heap'[n] = heap[n]
    BY <1>1, <2>1 DEF TypeOK
  <2> QED BY <1>1, <1>2, <2>1, <2>2, <2>3, NewObjectFills
<1>3. CASE aut[t] # NoMap
  <2>1. heap' = [heap EXCEPT ![aut[t]] = Merge(heap[aut[t]], Keyed(s, I))] /\ aut' = aut
    BY <1>1, <1>3 DEF StoreGenerated
  <2>2. /\ heap'[aut[t]] = Merge(heap[aut[t]], Keyed(s, I))
        /\ \A n \in MapId \ {aut[t]} : heap'[n] = heap[n]
    BY <1>1, <1>3, <2>1 DEF TypeOK
  <2> QED BY <1>1, <1>3, <2>1, <2>2, MergeAdds
<1> QED BY <1>2, <1>3

(* A map the caller holds, with keys in it, is inserted: first keys of the *)
(* tag, of its own or in common with another tag, or more of them.         *)
LEMMA InsertInTable ==
  ASSUME TInv, TypeOK', NEW t \in Tag, NEW m \in MapId, Entries(heap[m]) # {},
         InsertUnder(t, m), mult' = mult
  PROVE  Table!KNext
<1> USE MapAssumption
<1>1. /\ TypeOK /\ heap[m] \in KeyMaps
      /\ Entries(AutKeys(t)) = {} <=> aut[t] = NoMap
  BY HasObject DEF TInv, IInv, TypeOK, KeyMaps
<1>2. CASE aut[t] = NoMap
  <2>1. aut' = [aut EXCEPT ![t] = m] /\ heap' = heap
    BY <1>1, <1>2 DEF InsertUnder
  <2>2. CASE \E u \in Tag : aut[u] = m
    <3>1. PICK u \in Tag : aut[u] = m
      BY <2>2
    <3>2. Table!Join(t, u)
      BY <1>1, <1>2, <2>1, <3>1, SameObjectJoins
    <3> QED BY <3>2 DEF Table!KNext
  <2>3. CASE ~\E u \in Tag : aut[u] = m
    <3>1. Table!Fill(t)
      BY <1>1, <1>2, <2>1, <2>3, NewObjectFills DEF Registered
    <3> QED BY <3>1 DEF Table!KNext, Table!FirstKeys
  <2> QED BY <2>2, <2>3
<1>3. CASE aut[t] # NoMap
  <2>1. heap' = [heap EXCEPT ![aut[t]] = Merge(heap[aut[t]], heap[m])] /\ aut' = aut
    BY <1>1, <1>3 DEF InsertUnder
  <2>2. /\ heap'[aut[t]] = Merge(heap[aut[t]], heap[m])
        /\ \A n \in MapId \ {aut[t]} : heap'[n] = heap[n]
    BY <1>1, <1>3, <2>1 DEF TypeOK
  <2>3. Table!Add(t)
    BY <1>1, <1>3, <2>1, <2>2, MergeAdds
  <2> QED BY <2>3 DEF Table!KNext
<1> QED BY <1>2, <1>3

(* The relin keys of the tags R and the map objects of the tags A go.      *)
LEMMA ClearInTable ==
  ASSUME TypeOK, NEW R \in {{}, Tag}, NEW A \in {{}, Tag},
         mult' = IF R = {} THEN mult ELSE [t \in Tag |-> NoKey],
         aut' = IF A = {} THEN aut ELSE [t \in Tag |-> NoMap],
         heap' = heap
  PROVE  Table!KNext
<1>1. mult' = [t \in Tag |-> IF t \in R THEN NoKey ELSE mult[t]]
  BY DEF TypeOK
<1>2. aut' = [t \in Tag |-> IF t \in A THEN NoMap ELSE aut[t]]
  BY DEF TypeOK
<1>3. Table!Clear(R, A)
  BY <1>1, <1>2, DroppedClears
<1> QED BY <1>3 DEF Table!KNext

(* Every step is a step of the table or leaves it as it is.                *)
LEMMA TableStep == TInv /\ TypeOK' /\ [Next]_vars => [Table!KNext]_(Table!kvars)
<1> SUFFICES ASSUME TInv, TypeOK', [Next]_vars
             PROVE  Table!KNext \/ UNCHANGED Table!kvars
  OBVIOUS
<1>0. TypeOK
  BY DEF TInv, IInv
<1>1. ASSUME NEW s \in Secret, NEW t \in Tag, NEW b \in BOOLEAN, NEW I \in SUBSET Index,
             NEW m \in MapId, KeyGen(s, t, b, I, m)
      PROVE  Table!KNext \/ UNCHANGED Table!kvars
  <2>1. mult[t] = NoKey /\ aut[t] = NoMap
    BY <1>1 DEF KeyGen, TInv, FreshTagsUnused
  <2>2. CASE I = {}
    <3>1. aut' = aut /\ heap' = heap
      BY <1>1, <2>2 DEF KeyGen
    <3>2. CASE b
      <4>1. UNCHANGED <<[u \in Tag |-> AutKeys(u)], Shared>>
        BY <1>0, <3>1, SameObjects
      <4>2. Table!NewPair(t, s)
        BY <1>1, <2>1, <3>2, <4>1 DEF KeyGen, Table!NewPair
      <4> QED BY <4>2 DEF Table!KNext
    <3>3. CASE ~b
      BY <1>0, <1>1, <3>1, <3>3, SameTable DEF KeyGen
    <3> QED BY <3>2, <3>3
  <2>3. CASE I # {}
    <3>1. Table!Fill(t)
      BY <1>1, <2>1, <2>3, StoreInTable DEF KeyGen
    <3>2. CASE b
      <4>1. Table!NewPair(t, s)
        BY <1>1, <2>1, <3>1, <3>2 DEF KeyGen, Table!NewPair
      <4> QED BY <4>1 DEF Table!KNext
    <3>3. CASE ~b
      BY <1>1, <3>1, <3>3 DEF KeyGen, Table!FirstKeys, Table!KNext
    <3> QED BY <3>2, <3>3
  <2> QED BY <2>2, <2>3
<1>2. ASSUME NEW s \in Secret, NEW t \in Tag, NEW b \in BOOLEAN, KeyGenFails(s, t, b)
      PROVE  Table!KNext \/ UNCHANGED Table!kvars
  <2>1. mult[t] = NoKey
    BY <1>2 DEF KeyGenFails, TInv, FreshTagsUnused
  <2>2. aut' = aut /\ heap' = heap
    BY <1>2 DEF KeyGenFails
  <2>3. CASE b
    <3>1. UNCHANGED <<[u \in Tag |-> AutKeys(u)], Shared>>
      BY <1>0, <2>2, SameObjects
    <3>2. Table!NewPair(t, s)
      BY <1>2, <2>1, <2>3, <3>1 DEF KeyGenFails, Table!NewPair
    <3> QED BY <3>2 DEF Table!KNext
  <2>4. CASE ~b
    BY <1>0, <1>2, <2>2, <2>4, SameTable DEF KeyGenFails
  <2> QED BY <2>3, <2>4
<1>3. ASSUME NEW s \in Secret, EvalMultKeyGen(s)
      PROVE  Table!KNext \/ UNCHANGED Table!kvars
  <2>1. PICK t \in Tag : t = skTag[s]
    BY <1>3 DEF EvalMultKeyGen
  <2>2. aut' = aut /\ heap' = heap
    BY <1>3 DEF EvalMultKeyGen
  <2>3. CASE mult[t] = NoKey
    <3>1. mult' = [mult EXCEPT ![t] = s]
      BY <1>3, <2>1, <2>3 DEF EvalMultKeyGen
    <3>2. UNCHANGED <<[u \in Tag |-> AutKeys(u)], Shared>>
      BY <1>0, <2>2, SameObjects
    <3>3. Table!NewPair(t, s)
      BY <2>3, <3>1, <3>2 DEF Table!NewPair
    <3> QED BY <3>3 DEF Table!KNext
  <2>4. CASE mult[t] # NoKey
    <3>1. mult' = mult
      BY <1>0, <1>3, <2>1, <2>4 DEF EvalMultKeyGen, TypeOK
    <3> QED BY <1>0, <2>2, <3>1, SameTable
  <2> QED BY <2>3, <2>4
<1>4. ASSUME NEW s \in Secret, NEW I \in SUBSET Index, NEW m \in MapId,
             EvalRotateKeyGen(s, I, m)
      PROVE  Table!KNext \/ UNCHANGED Table!kvars
  <2>1. PICK t \in Tag : t = skTag[s]
    BY <1>4 DEF EvalRotateKeyGen
  <2>2. /\ I # {} /\ Free(m) /\ StoreGenerated(t, Keyed(s, I), m)
        /\ mult' = mult
    BY <1>4, <2>1 DEF EvalRotateKeyGen
  <2>3. Table!FirstKeys(t) \/ Table!Add(t)
    BY <2>2, StoreInTable DEF Table!FirstKeys
  <2> QED BY <2>3 DEF Table!KNext
<1>5. ASSUME NEW s \in Secret, NEW m \in MapId, EvalSumKeyGen(s, m)
      PROVE  Table!KNext \/ UNCHANGED Table!kvars
  BY <1>4, <1>5, IndexAssumption DEF EvalSumKeyGen
<1>6. ASSUME NEW s \in Secret, NEW I \in SUBSET Index, NEW m \in MapId,
             EvalAutomorphismKeyGen(s, I, m)
      PROVE  Table!KNext \/ UNCHANGED Table!kvars
  <2>1. PICK t \in Tag : t = skTag[s]
    BY <1>6 DEF EvalAutomorphismKeyGen
  <2>2. /\ I # {} /\ Free(m) /\ mult' = mult /\ Keyed(s, I) \in KeyMaps
        /\ Entries(AutKeys(t)) = {} <=> aut[t] = NoMap
    BY <1>0, <1>6, HasObject, KeyedFacts DEF EvalAutomorphismKeyGen, TInv
  <2>3. ~Registered(m)
    BY <2>2 DEF Free
  <2>4. CASE aut[t] = NoMap
    <3>1. aut' = [aut EXCEPT ![t] = m] /\ heap' = [heap EXCEPT ![m] = Keyed(s, I)]
      BY <1>6, <2>1, <2>2, <2>4 DEF EvalAutomorphismKeyGen
    <3>2. Entries(Keyed(s, I)) # {}
      BY <2>2, KeyAssumption DEF Keyed, Entries
    <3>3. /\ heap'[m] = Keyed(s, I)
          /\ \A n \in MapId : Registered(n) => heap'[n] = heap[n]
      BY <1>0, <2>3, <3>1 DEF TypeOK
    <3>4. Table!Fill(t)
      BY <1>0, <2>3, <2>4, <3>1, <3>2, <3>3, NewObjectFills
    <3> QED BY <2>2, <3>4 DEF Table!FirstKeys, Table!KNext
  <2>5. CASE aut[t] # NoMap
    <3>1. heap' = [heap EXCEPT ![aut[t]] = Merge(heap[aut[t]], Keyed(s, I)),
                               ![m] = Keyed(s, I)]
      BY <1>6, <2>1, <2>2, <2>5 DEF EvalAutomorphismKeyGen
    <3>2. aut' = aut
      BY <1>6, <2>1, <2>2, <2>5 DEF EvalAutomorphismKeyGen
    <3>3. aut[t] \in MapId /\ aut[t] # m
      BY <1>0, <2>3, <2>5 DEF TypeOK, Registered
    <3>4. /\ heap'[aut[t]] = Merge(heap[aut[t]], Keyed(s, I))
          /\ \A n \in MapId \ {aut[t], m} : heap'[n] = heap[n]
      BY <1>0, <3>1, <3>3 DEF TypeOK
    <3>5. Table!Add(t)
      BY <1>0, <2>2, <2>3, <2>5, <3>2, <3>4, MergeAdds
    <3> QED BY <3>5 DEF Table!KNext
  <2> QED BY <2>4, <2>5
<1>7. ASSUME NEW t \in Tag, NEW m \in MapId, GetEvalSumKeyMap(t, m)
      PROVE  UNCHANGED Table!kvars
  <2>1. heap' = [heap EXCEPT ![m] = heap[aut[t]]] /\ ~Registered(m)
    BY <1>7 DEF GetEvalSumKeyMap, Free
  <2>2. \A n \in MapId : Registered(n) => heap'[n] = heap[n]
    BY <1>0, <2>1 DEF TypeOK
  <2> QED BY <1>0, <1>7, <2>2, SameTable DEF GetEvalSumKeyMap
<1>8. ASSUME NEW t \in Tag, GetEvalAutomorphismKeyMap(t) PROVE UNCHANGED Table!kvars
  BY <1>0, <1>8, SameTable DEF GetEvalAutomorphismKeyMap, tables
<1>9. ASSUME NEW m \in MapId, DropHandle(m) PROVE UNCHANGED Table!kvars
  BY <1>0, <1>9, SameTable DEF DropHandle, tables
<1>10. ASSUME NEW m \in MapId, NEW arg \in Tag \cup {NoTag}, InsertEvalAutomorphismKey(m, arg)
       PROVE  Table!KNext
  <2>1. PICK t \in Tag : InsertUnder(t, m)
    BY <1>0, <1>10, InsertTag DEF TInv, IInv
  <2>2. Entries(heap[m]) # {} /\ mult' = mult
    BY <1>10 DEF InsertEvalAutomorphismKey
  <2> QED BY <2>1, <2>2, InsertInTable
<1>11. ASSUME NEW t \in Tag, ClearMultTag(t) PROVE Table!KNext
  <2> DEFINE R == {t}
             A == {}
  <2>1. mult' = [u \in Tag |-> IF u \in R THEN NoKey ELSE mult[u]]
    BY <1>0, <1>11 DEF ClearMultTag, TypeOK
  <2>2. aut' = [u \in Tag |-> IF u \in A THEN NoMap ELSE aut[u]] /\ heap' = heap
    BY <1>0, <1>11 DEF ClearMultTag, TypeOK
  <2>3. R \in SUBSET Tag /\ A \in SUBSET Tag
    OBVIOUS
  <2> HIDE DEF R, A
  <2>4. Table!Clear(R, A)
    BY <1>0, <2>1, <2>2, <2>3, DroppedClears
  <2> QED BY <2>4 DEF R, A, Table!KNext
<1>12. ASSUME NEW t \in Tag, ClearAutTag(t) PROVE Table!KNext
  <2> DEFINE R == {}
             A == {t}
  <2>1. mult' = [u \in Tag |-> IF u \in R THEN NoKey ELSE mult[u]]
    BY <1>0, <1>12 DEF ClearAutTag, TypeOK
  <2>2. aut' = [u \in Tag |-> IF u \in A THEN NoMap ELSE aut[u]] /\ heap' = heap
    BY <1>0, <1>12 DEF ClearAutTag, TypeOK
  <2>3. R \in SUBSET Tag /\ A \in SUBSET Tag
    OBVIOUS
  <2> HIDE DEF R, A
  <2>4. Table!Clear(R, A)
    BY <1>0, <2>1, <2>2, <2>3, DroppedClears
  <2> QED BY <2>4 DEF R, A, Table!KNext
<1>13. ASSUME NEW what \in SUBSET BothTables, ClearFheState(what)
       PROVE  Table!KNext
  <2> DEFINE R == IF "mult_keys" \in what THEN Tag ELSE {}
             A == IF "automorphism_keys" \in what THEN Tag ELSE {}
  <2>1. mult' = IF R = {} THEN mult ELSE [t \in Tag |-> NoKey]
    BY <1>0, <1>13 DEF ClearFheState, ClearTables, TypeOK
  <2>2. aut' = IF A = {} THEN aut ELSE [t \in Tag |-> NoMap]
    BY <1>0, <1>13 DEF ClearFheState, ClearTables, TypeOK
  <2>3. heap' = heap
    BY <1>13 DEF ClearFheState
  <2>4. R \in {{}, Tag} /\ A \in {{}, Tag}
    OBVIOUS
  <2> HIDE DEF R, A
  <2> QED BY <1>0, <2>1, <2>2, <2>3, <2>4, ClearInTable
<1>14. CASE EnterScope
  BY <1>0, <1>14, SameTable DEF EnterScope, tables
<1>15. CASE ExitScope
  <2>1. mult' = [t \in Tag |-> NoKey] /\ aut' = [t \in Tag |-> NoMap] /\ heap' = heap
    BY <1>15 DEF ExitScope, ClearTables, BothTables
  <2>2. mult' = [t \in Tag |-> IF t \in Tag THEN NoKey ELSE mult[t]]
    BY <2>1
  <2>3. aut' = [t \in Tag |-> IF t \in Tag THEN NoMap ELSE aut[t]]
    BY <2>1
  <2>4. Table!Clear(Tag, Tag)
    BY <1>0, <2>1, <2>2, <2>3, DroppedClears
  <2> QED BY <2>4 DEF Table!KNext
<1>16. CASE UNCHANGED vars
  BY <1>0, <1>16, SameTable DEF vars
<1> QED
  BY <1>1, <1>2, <1>3, <1>4, <1>5, <1>6, <1>7, <1>8, <1>9, <1>10, <1>11, <1>12,
     <1>13, <1>14, <1>15, <1>16 DEF Next

(* In the table a tag that shares keys has some; so has a registered       *)
(* object.                                                                 *)
LEMMA KeysStay ==
  ASSUME TInv, TypeOK', [Table!KNext]_(Table!kvars)
  PROVE  RegisteredHaveKeys'
<1> DEFINE has(t) == AutKeys(t) # Table!NoKeys
<1>1. \A t \in Tag : Shared[t] # {} <=> aut[t] # NoMap
  BY DEF Shared
<1>2. \A t \in Tag : Shared'[t] # {} <=> aut'[t] # NoMap
  BY DEF Shared
<1>3. ASSUME NEW t \in Tag, Shared[t] # {} PROVE has(t)
  BY <1>1, <1>3, HasObject DEF TInv, IInv, Entries, Table!NoKeys
<1>4. ASSUME NEW t \in Tag, Shared'[t] # {} PROVE has(t)'
  <2>1. CASE UNCHANGED Table!kvars
    BY <1>3, <1>4, <2>1 DEF Table!kvars
  <2>2. ASSUME NEW u \in Tag, Table!Fill(u) PROVE has(t)'
    BY <1>3, <1>4, <2>2 DEF Table!Fill, Table!Changes, Shared
  <2>3. ASSUME NEW u \in Tag, NEW s \in Secret, Table!NewPair(u, s) PROVE has(t)'
    BY <1>3, <1>4, <2>2, <2>3 DEF Table!NewPair
  <2>4. ASSUME NEW u \in Tag, Table!FirstKeys(u) PROVE has(t)'
    BY <2>2, <2>4 DEF Table!FirstKeys
  <2>5. ASSUME NEW u \in Tag, Table!Add(u) PROVE has(t)'
    <3>1. Shared[t] # {} /\ has(t)
      BY <1>3, <1>4, <2>5 DEF Table!Add
    <3>2. CASE t \notin Shared[u]
      BY <2>5, <3>1, <3>2 DEF Table!Add, Table!Changes
    <3>3. CASE t \in Shared[u]
      <4>1. PICK i \in Index : AutKeys(u)[i] # NoKey
        <5>1. AutKeys(u) \in KeyMaps /\ AutKeys(u) # Table!NoKeys
          BY <1>3, <3>3 DEF TInv, IInv, TypeOK, AutKeys, Empty, KeyMaps, Shared
        <5> QED BY <5>1 DEF KeyMaps, Table!NoKeys
      <4>2. AutKeys(u)'[i] # NoKey
        BY <2>5, <4>1 DEF Table!Add
      <4>3. AutKeys(t)' = AutKeys(u)'
        BY <2>5, <3>3 DEF Table!Add
      <4> QED BY <4>2, <4>3 DEF Table!NoKeys
    <3> QED BY <3>2, <3>3
  <2>6. ASSUME NEW u \in Tag, NEW v \in Tag, Table!Join(u, v) PROVE has(t)'
    <3>1. /\ Shared[v] # {}
          /\ AutKeys(t)' = IF t = u THEN AutKeys(v) ELSE AutKeys(t)
          /\ Shared'[t] = IF t \in Shared[v] \cup {u} THEN Shared[v] \cup {u} ELSE Shared[t]
      BY <2>6 DEF Table!Join
    <3>2. t \in Shared[v] => Shared[t] # {}
      BY DEF Shared
    <3> QED BY <1>3, <1>4, <3>1, <3>2
  <2>7. ASSUME NEW R \in SUBSET Tag, NEW A \in SUBSET Tag, Table!Clear(R, A)
        PROVE  has(t)'
    BY <1>3, <1>4, <2>7 DEF Table!Clear
  <2> QED BY <2>1, <2>3, <2>4, <2>5, <2>6, <2>7 DEF Table!KNext
<1> QED
  <2> SUFFICES ASSUME NEW t \in Tag, aut'[t] # NoMap PROVE Entries(heap'[aut'[t]]) # {}
    BY DEF RegisteredHaveKeys, Entries
  <2>1. AutKeys(t)' # Table!NoKeys
    BY <1>2, <1>4
  <2>2. AutKeys(t)' = heap'[aut'[t]] /\ heap'[aut'[t]] \in KeyMaps
    BY DEF AutKeys, TypeOK, KeyMaps
  <2> QED BY <2>1, <2>2 DEF Entries, KeyMaps, Table!NoKeys

(* Nothing is registered, and no secret gets a tag, but for a tag that is  *)
(* taken from then on.                                                     *)
Taking ==
  /\ taken \subseteq taken'
  /\ \A t \in Tag : t \notin taken' =>
       mult'[t] \in {mult[t], NoKey} /\ aut'[t] \in {aut[t], NoMap}
  /\ \A s \in Secret : skTag'[s] \in Tag => skTag'[s] = skTag[s] \/ skTag'[s] \in taken'

LEMMA StoreTakes ==
  ASSUME TypeOK, NEW t \in Tag, NEW f, NEW m \in MapId, StoreGenerated(t, f, m)
  PROVE  \A u \in Tag \ {t} : aut'[u] = aut[u]
  BY DEF StoreGenerated, TypeOK

LEMMA TakingStep == TInv /\ [Next]_vars => Taking
<1> SUFFICES ASSUME TInv, [Next]_vars PROVE Taking
  OBVIOUS
<1> USE TagAssumption
<1>0. TypeOK /\ FreshTagsUnused
  BY DEF TInv, IInv
<1>1. ASSUME NEW s \in Secret, NEW t \in Tag, NEW b \in BOOLEAN, NEW I \in SUBSET Index,
             NEW m \in MapId, KeyGen(s, t, b, I, m)
      PROVE  Taking
  <2>1. taken' = taken \cup {t} /\ skTag' = [skTag EXCEPT ![s] = t]
    BY <1>1 DEF KeyGen, Take
  <2>2. \A u \in Tag \ {t} : aut'[u] = aut[u]
    BY <1>0, <1>1, StoreTakes DEF KeyGen
  <2>3. \A u \in Tag \ {t} : mult'[u] = mult[u]
    BY <1>0, <1>1 DEF KeyGen, TypeOK
  <2> QED BY <1>0, <2>1, <2>2, <2>3 DEF Taking, TypeOK
<1>2. ASSUME NEW s \in Secret, NEW t \in Tag, NEW b \in BOOLEAN, KeyGenFails(s, t, b)
      PROVE  Taking
  BY <1>0, <1>2 DEF KeyGenFails, Taking, Take, TypeOK
<1>3. ASSUME NEW s \in Secret, EvalMultKeyGen(s) PROVE Taking
  BY <1>0, <1>3 DEF EvalMultKeyGen, Taking, TypeOK, FreshTagsUnused, history
<1>4. ASSUME NEW s \in Secret, NEW I \in SUBSET Index, NEW m \in MapId,
             EvalRotateKeyGen(s, I, m)
      PROVE  Taking
  <2>1. \A u \in Tag \ {skTag[s]} : aut'[u] = aut[u]
    BY <1>0, <1>4, StoreTakes DEF EvalRotateKeyGen
  <2> QED BY <1>0, <1>4, <2>1 DEF EvalRotateKeyGen, Taking, FreshTagsUnused
<1>5. ASSUME NEW s \in Secret, NEW m \in MapId, EvalSumKeyGen(s, m) PROVE Taking
  BY <1>4, <1>5, IndexAssumption DEF EvalSumKeyGen
<1>6. ASSUME NEW s \in Secret, NEW I \in SUBSET Index, NEW m \in MapId,
             EvalAutomorphismKeyGen(s, I, m)
      PROVE  Taking
  <2>1. \A u \in Tag \ {skTag[s]} : aut'[u] = aut[u]
    BY <1>0, <1>6 DEF EvalAutomorphismKeyGen, TypeOK
  <2> QED BY <1>0, <1>6, <2>1 DEF EvalAutomorphismKeyGen, Taking, FreshTagsUnused
<1>7. ASSUME NEW t \in Tag, NEW m \in MapId, GetEvalSumKeyMap(t, m) PROVE Taking
  BY <1>7 DEF GetEvalSumKeyMap, Taking, history
<1>8. ASSUME NEW t \in Tag, GetEvalAutomorphismKeyMap(t) PROVE Taking
  BY <1>8 DEF GetEvalAutomorphismKeyMap, Taking, tables, history
<1>9. ASSUME NEW m \in MapId, DropHandle(m) PROVE Taking
  BY <1>9 DEF DropHandle, Taking, tables, history
<1>10. ASSUME NEW m \in MapId, NEW arg \in Tag \cup {NoTag}, InsertEvalAutomorphismKey(m, arg)
       PROVE  Taking
  <2>1. PICK t \in Tag : InsertUnder(t, m)
    BY <1>0, <1>10, InsertTag DEF TInv, IInv
  <2>2. taken' = taken \cup {t} /\ \A u \in Tag \ {t} : aut'[u] = aut[u]
    BY <1>0, <2>1 DEF InsertUnder, Take, TypeOK
  <2> QED BY <1>10, <2>2 DEF InsertEvalAutomorphismKey, Taking
<1>11. ASSUME NEW t \in Tag, ClearMultTag(t) PROVE Taking
  BY <1>0, <1>11 DEF ClearMultTag, Taking, TypeOK, history
<1>12. ASSUME NEW t \in Tag, ClearAutTag(t) PROVE Taking
  BY <1>0, <1>12 DEF ClearAutTag, Gone, Taking, TypeOK
<1>13. ASSUME NEW what \in SUBSET BothTables, ClearFheState(what) PROVE Taking
  BY <1>13 DEF ClearFheState, ClearTables, Gone, Taking
<1>14. CASE EnterScope
  BY <1>14 DEF EnterScope, Taking, tables, history
<1>15. CASE ExitScope
  BY <1>15 DEF ExitScope, ClearTables, Gone, Taking
<1>16. CASE UNCHANGED vars
  BY <1>16 DEF vars, Taking
<1> QED
  BY <1>1, <1>2, <1>3, <1>4, <1>5, <1>6, <1>7, <1>8, <1>9, <1>10, <1>11, <1>12,
     <1>13, <1>14, <1>15, <1>16 DEF Next

(* Seen from outside, the registries are the table of KeyTable.            *)
THEOREM Implementation == Spec => ImplementsTable
<1>1. Init => TInv
  BY InvInit, TagAssumption DEF Init, TInv, RegisteredHaveKeys, FreshTagsUnused
<1>2. TInv /\ [Next]_vars => TypeOK'
  BY InvStep DEF TInv, IInv
<1>3. TInv /\ [Next]_vars => [Table!KNext]_(Table!kvars)
  BY <1>2, TableStep
<1>4. TInv /\ [Next]_vars => TInv'
  <2> SUFFICES ASSUME TInv, [Next]_vars PROVE TInv'
    OBVIOUS
  <2>1. IInv' /\ TypeOK'
    BY <1>2, InvStep DEF TInv
  <2>2. RegisteredHaveKeys'
    BY <1>3, <2>1, KeysStay
  <2>3. FreshTagsUnused'
    BY <2>1, TakingStep DEF TInv, Taking, FreshTagsUnused, FreshTag
  <2> QED BY <2>1, <2>2, <2>3 DEF TInv
<1>5. Init => Table!KInit
  BY DEF Init, Table!KInit, Table!NoKeys, AutKeys, Shared, Empty
<1> QED BY <1>1, <1>3, <1>4, <1>5, PTL DEF Spec, ImplementsTable, Table!KSpec
============================================================================

-------------------------- MODULE EvalKeyRegistry --------------------------
(***************************************************************************)
(* The process-wide evaluation-key registries behind openfhe.R.            *)
(*                                                                         *)
(* Two static tables of the OpenFHE library outlive every R object: the    *)
(* relinearization ("EvalMult") keys and the automorphism (rotation and    *)
(* sum) keys, both indexed by the tag of the secret key they were made     *)
(* from.  R reaches them through key_gen(), the eval_*_key_gen() wrappers, *)
(* the insert/get/clear functions and with_fhe_context().  A relin entry   *)
(* is stored by value; an automorphism entry is a pointer to a map object  *)
(* that R handles (EvalKeyMap) may share, so the objects are modelled as a *)
(* heap and the registry entries and the handles as references into it.    *)
(*                                                                         *)
(* R is single-threaded: one call is one step.  A call that ends in an R   *)
(* error without touching the registries is a stuttering step.             *)
(*                                                                         *)
(* What the library does with a key vector or map it is handed is outside  *)
(* src/ and is modelled from its use there: InsertEvalMultKey replaces     *)
(* (R/serialization.R:144-145); InsertEvalAutomorphismKey stores the       *)
(* caller's pointer when the tag has no keys and otherwise adds only the   *)
(* indices the tag lacks.                                                  *)
(***************************************************************************)
EXTENDS Naturals

CONSTANTS
  Secret,   \* identities of generated secret keys
  Tag,      \* key tags
  Index,    \* automorphism indices
  SumIndex, \* the indices EvalSumKeyGen makes keys for
  MapId,    \* addresses of automorphism-key map objects
  MaxDepth, \* bound on the nesting of with_fhe_context()
  NoTag,    \* the empty tag "", and the tag of a secret not yet generated
  Lost,     \* in place of a tag: key_gen() failed, no R handle has the secret
  NoKey,    \* no evaluation key
  NoMap     \* no map object

ASSUME TagAssumption == NoTag \notin Tag /\ Lost \notin Tag /\ NoTag # Lost
ASSUME IndexAssumption == Index \subseteq Nat /\ SumIndex \subseteq Index
ASSUME KeyAssumption == NoKey \notin Secret
ASSUME MapAssumption == NoMap \notin MapId
ASSUME DepthAssumption == MaxDepth \in Nat

(* What an R handle on a map object is: none; a private copy               *)
(* ("snapshot"); a snapshot the caller has inserted into the registry      *)
(* ("reinserted"); or any other handle ("shared").                         *)
HandleKind == {"none", "snapshot", "reinserted", "shared"}

VARIABLES
  skTag,   \* skTag[s]: the tag the PrivateKey of s carries, NoTag or Lost
  mult,    \* mult[t]: the secret whose relin key is registered under t
  aut,     \* aut[t]: the map object registered under t
  heap,    \* heap[m][i]: the secret whose key map object m holds for index i
  handle,  \* handle[m]: the R handle on map object m
  depth,   \* with_fhe_context() scopes in progress
  taken,   \* history: the tags of the pairs generated, and those inserted under
  put,     \* history: put[t]: whose automorphism keys were generated or inserted
           \* under t since t was last cleared
  aliased  \* history: the tags whose map object was shared with another tag
           \* since they were last cleared

vars == <<skTag, mult, aut, heap, handle, depth, taken, put, aliased>>
history == <<taken, put, aliased>>
tables == <<mult, aut, heap>>

Empty == [i \in Index |-> NoKey]
Entries(f) == {i \in Index : f[i] # NoKey}
Makers(f) == {f[i] : i \in Entries(f)}
Registered(m) == \E t \in Tag : aut[t] = m
Free(m) == handle[m] = "none" /\ ~Registered(m)
FreshTag(t) == t \notin taken
Keyed(s, I) == [i \in Index |-> IF i \in I THEN s ELSE NoKey]

(* The automorphism keys a lookup under tag t finds.                       *)
AutKeys(t) == IF aut[t] = NoMap THEN Empty ELSE heap[aut[t]]

Put(t, S) == put' = [put EXCEPT ![t] = @ \cup S]
Take(t) == taken' = taken \cup {t}

Init ==
  /\ skTag = [s \in Secret |-> NoTag]
  /\ mult = [t \in Tag |-> NoKey]
  /\ aut = [t \in Tag |-> NoMap]
  /\ heap = [m \in MapId |-> Empty]
  /\ handle = [m \in MapId |-> "none"]
  /\ depth = 0
  /\ taken = {}
  /\ put = [t \in Tag |-> {}]
  /\ aliased = {}
----------------------------------------------------------------------------
(* The library's merge: f with the entries of g at the indices f lacks.    *)
Merge(f, g) == [i \in Index |-> IF f[i] = NoKey THEN g[i] ELSE f[i]]

(* Mutation: keys for a tag that has some go to a new object for that tag, *)
(* and a tag sharing the old object does not get them.                     *)
StoreGenerated_apart(t, f, m) ==
  /\ aut' = [aut EXCEPT ![t] = m]
  /\ heap' = [heap EXCEPT ![m] = Merge(AutKeys(t), f)]

(* Freshly generated keys f reach the registry under t: in object m when   *)
(* the tag has no keys, else merged into the object the tag has.           *)
StoreGenerated(t, f, m) ==
  IF Entries(AutKeys(t)) = {}
  THEN /\ aut' = [aut EXCEPT ![t] = m]
       /\ heap' = [heap EXCEPT ![m] = f]
  ELSE /\ heap' = [heap EXCEPT ![aut[t]] = Merge(@, f)]
       /\ UNCHANGED aut

(* key_gen(cc, eval_mult, rotations): the pair, then the relin key, then   *)
(* the rotation keys, under the new tag.                                   *)
KeyGen(s, t, withMult, I, m) ==
  /\ skTag[s] = NoTag /\ FreshTag(t)
  /\ skTag' = [skTag EXCEPT ![s] = t]
  /\ mult' = IF withMult THEN [mult EXCEPT ![t] = s] ELSE mult
  /\ IF I = {} THEN UNCHANGED <<aut, heap, put>>
     ELSE Free(m) /\ StoreGenerated(t, Keyed(s, I), m) /\ Put(t, {s})
  /\ Take(t)
  /\ UNCHANGED <<handle, depth, aliased>>

(* Mutation: rotation keys are registered before the step that throws.     *)
KeyGenFails_rotationsFirst(s, t, afterMult) ==
  /\ skTag[s] = NoTag /\ FreshTag(t)
  /\ skTag' = [skTag EXCEPT ![s] = Lost]
  /\ \E m \in MapId : Free(m) /\ StoreGenerated(t, Keyed(s, Index), m)
  /\ Put(t, {s}) /\ Take(t)
  /\ UNCHANGED <<mult, handle, depth, aliased>>

(* key_gen() when EvalMultKeyGen or EvalRotateKeyGen throws: no KeyPair is *)
(* returned, and the relin key an earlier call registered stays.           *)
KeyGenFails(s, t, afterMult) ==
  /\ skTag[s] = NoTag /\ FreshTag(t)
  /\ skTag' = [skTag EXCEPT ![s] = Lost]
  /\ mult' = IF afterMult THEN [mult EXCEPT ![t] = s] ELSE mult
  /\ Take(t)
  /\ UNCHANGED <<aut, heap, handle, depth, put, aliased>>

(* eval_mult_key_gen(cc, sk): keeps the vector the tag already has.        *)
EvalMultKeyGen(s) ==
  /\ skTag[s] \in Tag
  /\ mult' = [mult EXCEPT ![skTag[s]] = IF @ = NoKey THEN s ELSE @]
  /\ UNCHANGED <<skTag, aut, heap, handle, depth, history>>

(* eval_rotate_key_gen() and eval_at_index_key_gen(): register, no result. *)
EvalRotateKeyGen(s, I, m) ==
  /\ skTag[s] \in Tag /\ I # {} /\ Free(m)
  /\ StoreGenerated(skTag[s], Keyed(s, I), m) /\ Put(skTag[s], {s})
  /\ UNCHANGED <<skTag, mult, handle, depth, taken, aliased>>

(* eval_sum_key_gen(): the sum keys live in the automorphism registry.     *)
EvalSumKeyGen(s, m) == EvalRotateKeyGen(s, SumIndex, m)

(* eval_automorphism_key_gen(): registers AND returns the generated map;   *)
(* the handle is the registered object exactly when the tag had no keys.   *)
EvalAutomorphismKeyGen(s, I, m) ==
  LET old == aut[skTag[s]] IN
  /\ skTag[s] \in Tag /\ I # {} /\ Free(m)
  /\ IF Entries(AutKeys(skTag[s])) = {}
     THEN /\ aut' = [aut EXCEPT ![skTag[s]] = m]
          /\ heap' = [heap EXCEPT ![m] = Keyed(s, I)]
     ELSE /\ heap' = [heap EXCEPT ![old] = Merge(@, Keyed(s, I)), ![m] = Keyed(s, I)]
          /\ UNCHANGED aut
  /\ handle' = [handle EXCEPT ![m] = "shared"]
  /\ Put(skTag[s], {s})
  /\ UNCHANGED <<skTag, mult, depth, taken, aliased>>
----------------------------------------------------------------------------
(* Mutation: the binding wraps the registered object, as the other getter. *)
GetEvalSumKeyMap_uncopied(t, m) ==
  /\ aut[t] # NoMap
  /\ handle' = [handle EXCEPT ![aut[t]] = IF @ = "none" THEN "snapshot" ELSE @]
  /\ UNCHANGED <<skTag, tables, depth, history>>

(* get_eval_sum_key_map(tag): a copy of the registered map in an object of *)
(* its own.                                                                *)
GetEvalSumKeyMap(t, m) ==
  /\ aut[t] # NoMap /\ Free(m)
  /\ heap' = [heap EXCEPT ![m] = heap[aut[t]]]
  /\ handle' = [handle EXCEPT ![m] = "snapshot"]
  /\ UNCHANGED <<skTag, mult, aut, depth, history>>

(* get_eval_automorphism_key_map(tag) and the get_all_*() getters of the   *)
(* automorphism registry: handles on the registered objects themselves.    *)
GetEvalAutomorphismKeyMap(t) ==
  /\ aut[t] # NoMap
  /\ handle' = [handle EXCEPT ![aut[t]] = IF @ = "none" THEN "shared" ELSE @]
  /\ UNCHANGED <<skTag, tables, depth, history>>

(* The caller drops its last handle on m and R collects it.                *)
DropHandle(m) ==
  /\ handle[m] # "none"
  /\ handle' = [handle EXCEPT ![m] = "none"]
  /\ UNCHANGED <<skTag, tables, depth, history>>

(* The library inserts map object m under t: the caller's own object       *)
(* becomes the registered one when the tag has no keys.                    *)
InsertUnder(t, m) ==
  /\ IF Entries(AutKeys(t)) = {}
     THEN /\ aut' = [aut EXCEPT ![t] = m]
          /\ handle' = [handle EXCEPT ![m] = IF @ = "snapshot" THEN "reinserted" ELSE @]
          /\ aliased' = aliased \cup
               (IF \E u \in Tag \ {t} : aut[u] = m
                THEN {u \in Tag : u = t \/ aut[u] = m} ELSE {})
          /\ UNCHANGED heap
     ELSE /\ heap' = [heap EXCEPT ![aut[t]] = Merge(@, heap[m])]
          /\ UNCHANGED <<aut, handle, aliased>>
  /\ Put(t, Makers(heap[m])) /\ Take(t)

(* Mutation: what is inserted takes the place of what is there, as with    *)
(* insert_eval_mult_key().                                                 *)
InsertEvalAutomorphismKey_replaces(m, arg) ==
  /\ handle[m] # "none"
  /\ \E i \in Entries(heap[m]) :
       LET t == IF arg = NoTag THEN skTag[heap[m][i]] ELSE arg IN
       /\ \A k \in Entries(heap[m]) : i <= k
       /\ aut' = [aut EXCEPT ![t] = m]
       /\ handle' = [handle EXCEPT ![m] = IF @ = "snapshot" THEN "reinserted" ELSE @]
       /\ Put(t, Makers(heap[m])) /\ Take(t)
  /\ UNCHANGED <<skTag, mult, heap, depth, aliased>>

(* insert_eval_sum_key() and insert_eval_automorphism_key(): an empty tag  *)
(* argument means the tag the map's first key carries.                     *)
InsertEvalAutomorphismKey(m, arg) ==
  /\ handle[m] # "none"
  /\ \E i \in Entries(heap[m]) :
       /\ \A k \in Entries(heap[m]) : i <= k
       /\ InsertUnder(IF arg = NoTag THEN skTag[heap[m][i]] ELSE arg, m)
  /\ UNCHANGED <<skTag, mult, depth>>
----------------------------------------------------------------------------
(* The caller counts on the automorphism keys under the tags of T to be    *)
(* gone.                                                                   *)
Gone(T) ==
  /\ put' = [t \in Tag |-> IF t \in T THEN {} ELSE put[t]]
  /\ aliased' = aliased \ T
  /\ UNCHANGED taken

(* clear_eval_mult_keys(tag) and clear_eval_automorphism_keys(tag).        *)
ClearMultTag(t) ==
  /\ mult' = [mult EXCEPT ![t] = NoKey]
  /\ UNCHANGED <<skTag, aut, heap, handle, depth, history>>

(* Mutation: the map object is emptied in place, not dropped.              *)
ClearAutTag_inPlace(t) ==
  /\ heap' = IF aut[t] = NoMap THEN heap ELSE [heap EXCEPT ![aut[t]] = Empty]
  /\ aut' = [aut EXCEPT ![t] = NoMap]
  /\ Gone({t})
  /\ UNCHANGED <<skTag, mult, handle, depth>>

ClearAutTag(t) ==
  /\ aut' = [aut EXCEPT ![t] = NoMap]
  /\ Gone({t})
  /\ UNCHANGED <<skTag, mult, heap, handle, depth>>

(* Mutation: match.arg() without several.ok takes the first choice only.   *)
ClearTables_firstOnly(what) ==
  /\ mult' = IF "mult_keys" \in what THEN [t \in Tag |-> NoKey] ELSE mult
  /\ aut' = IF "mult_keys" \notin what THEN [t \in Tag |-> NoMap] ELSE aut

(* The registry part of clear_fhe_state(what): whole tables at once.       *)
ClearTables(what) ==
  /\ mult' = IF "mult_keys" \in what THEN [t \in Tag |-> NoKey] ELSE mult
  /\ aut' = IF "automorphism_keys" \in what THEN [t \in Tag |-> NoMap] ELSE aut

BothTables == {"mult_keys", "automorphism_keys"}

(* clear_fhe_state(what), clear_eval_*_keys(NULL) and                      *)
(* clear_static_maps_and_vectors().                                        *)
ClearFheState(what) ==
  /\ ClearTables(what)
  /\ Gone(IF "automorphism_keys" \in what THEN Tag ELSE {})
  /\ UNCHANGED <<skTag, heap, handle, depth>>

(* with_fhe_context(expr): evaluation of expr begins; on.exit clears, when *)
(* expr returns and when it fails.                                         *)
EnterScope ==
  /\ depth < MaxDepth
  /\ depth' = depth + 1
  /\ UNCHANGED <<skTag, tables, handle, history>>

(* Mutation: the on.exit() cleanup runs once more than the scopes entered. *)
ExitScope_twice ==
  /\ depth' = depth - 1
  /\ depth >= 0
  /\ ClearTables(BothTables) /\ Gone(Tag)
  /\ UNCHANGED <<skTag, heap, handle>>

ExitScope ==
  /\ depth > 0
  /\ depth' = depth - 1
  /\ ClearTables(BothTables) /\ Gone(Tag)
  /\ UNCHANGED <<skTag, heap, handle>>

Next ==
  \/ \E s \in Secret, t \in Tag, b \in BOOLEAN, I \in SUBSET Index, m \in MapId :
       KeyGen(s, t, b, I, m)
  \/ \E s \in Secret, t \in Tag, b \in BOOLEAN : KeyGenFails(s, t, b)
  \/ \E s \in Secret : EvalMultKeyGen(s)
  \/ \E s \in Secret, I \in SUBSET Index, m \in MapId : EvalRotateKeyGen(s, I, m)
  \/ \E s \in Secret, m \in MapId : EvalSumKeyGen(s, m)
  \/ \E s \in Secret, I \in SUBSET Index, m \in MapId : EvalAutomorphismKeyGen(s, I, m)
  \/ \E t \in Tag, m \in MapId : GetEvalSumKeyMap(t, m)
  \/ \E t \in Tag : GetEvalAutomorphismKeyMap(t)
  \/ \E m \in MapId : DropHandle(m)
  \/ \E m \in MapId, arg \in Tag \cup {NoTag} : InsertEvalAutomorphismKey(m, arg)
  \/ \E t \in Tag : ClearMultTag(t)
  \/ \E t \in Tag : ClearAutTag(t)
  \/ \E what \in SUBSET BothTables : ClearFheState(what)
  \/ EnterScope
  \/ ExitScope

Spec == Init /\ [][Next]_vars

(* R runs on.exit() when the expression of a scope returns and when it     *)
(* fails: every scope ends, given that its expression does.                *)
FairSpec == Spec /\ WF_vars(ExitScope)
----------------------------------------------------------------------------
TypeOK ==
  /\ skTag \in [Secret -> Tag \cup {NoTag, Lost}]
  /\ mult \in [Tag -> Secret \cup {NoKey}]
  /\ aut \in [Tag -> MapId \cup {NoMap}]
  /\ heap \in [MapId -> [Index -> Secret \cup {NoKey}]]
  /\ handle \in [MapId -> HandleKind]
  /\ depth \in 0..MaxDepth
  /\ taken \subseteq Tag
  /\ put \in [Tag -> SUBSET Secret]
  /\ aliased \in SUBSET Tag

(* A lookup under a tag finds only keys that were generated or inserted    *)
(* under that tag since it was last cleared: after any mix of generation,  *)
(* merging, insertion of retained maps, clearing and scope exits, nested   *)
(* ones included, nothing older and nobody else's turns up, and a relin    *)
(* key is of the tag's own pair.  An automorphism map inserted under two   *)
(* tags is one object (the binding passes the pointer), so keys added      *)
(* under either show under both: those tags are excepted.                  *)
NoForeignKeys ==
  \A t \in Tag :
    /\ mult[t] # NoKey => skTag[mult[t]] \in {t, Lost}
    /\ t \notin aliased => Makers(AutKeys(t)) \subseteq put[t]

(* When key_gen() fails half-way its secret is out of R's reach: such a    *)
(* secret may leave a relin key behind, never rotation keys, neither in    *)
(* the registry nor in a map R holds.                                      *)
LostSecretsHaveNoRotationKeys ==
  \A s \in Secret : skTag[s] = Lost =>
    \A m \in MapId : s \notin Makers(heap[m])

(* A map R holds keeps every entry it has, unchanged, whatever is          *)
(* generated, inserted or cleared afterwards: clearing the registry drops  *)
(* references and does not empty objects.                                  *)
HeldMapsOnlyGrow ==
  [][\A m \in MapId : handle[m] # "none" /\ handle'[m] # "none" =>
       \A i \in Entries(heap[m]) : heap'[m][i] = heap[m][i]]_vars

(* The map get_eval_sum_key_map() returned does not change while it is     *)
(* held and has not been given back to the registry.                       *)
SnapshotsFrozen ==
  [][\A m \in MapId : handle[m] = "snapshot" /\ handle'[m] = "snapshot" =>
       heap'[m] = heap[m]]_vars

(* An automorphism key found under a tag and index is replaced by another  *)
(* only after that entry was cleared: generation and insertion never       *)
(* overwrite one (unlike insert_eval_mult_key, which replaces).            *)
RegisteredKeysNotReplaced ==
  [][\A t \in Tag, i \in Index :
       AutKeys(t)[i] # NoKey /\ AutKeys(t)'[i] # NoKey => AutKeys(t)'[i] = AutKeys(t)[i]]_vars

(* Seen from outside, the tables of pointers to map objects that R may     *)
(* hold as well are the table of KeyTable: no call on a handle and no call *)
(* for one tag changes what is under another, except for tags that share   *)
(* an object, and these have it in common until either is cleared.         *)
Shared == [t \in Tag |-> IF aut[t] = NoMap THEN {} ELSE {u \in Tag : aut[u] = aut[t]}]
Table == INSTANCE KeyTable WITH
  relin <- mult, keys <- [t \in Tag |-> AutKeys(t)], sharing <- Shared
ImplementsTable == Table!KSpec

(* Whoever enters with_fhe_context() finds both tables empty some time     *)
(* later, however the scopes nest and whatever is generated, inserted or   *)
(* held in them: "Clears eval keys and releases contexts on exit (even on  *)
(* error)" (R/serialization.R:129).                                        *)
ScopesEndClean ==
  depth > 0 ~> \A t \in Tag : mult[t] = NoKey /\ aut[t] = NoMap
============================================================================

--------------------------- MODULE JointEvalKeys ---------------------------
(***************************************************************************)
(* Joint rotation and sum keys for a threshold key (R/eval-key-map.R,      *)
(* src/pke_multi_eval_keys.cpp): the lead generates keys for its own       *)
(* secret, every other party makes a share from a retained EvalKeyMap, the *)
(* shares are added up, and the sum is inserted under the joint key's tag, *)
(* where eval_sum() and eval_rotate() on the joint ciphertexts find it.    *)
(*                                                                         *)
(* The arithmetic is the library's and is modelled by terms: a key is made *)
(* from the random part of one generation call and holds the shares of a   *)
(* set of parties.  Adding keys of two calls, or one share twice, gives a  *)
(* key that computes noise.  A tag of the registry is named by the party   *)
(* whose key pair has it; the last pair of a chain is the joint one, so    *)
(* its tag needs keys that hold the shares of everybody up to it.  How     *)
(* maps in R alias the registry is the business of EvalKeyRegistry: here a *)
(* map is its value.                                                       *)
(***************************************************************************)
EXTENDS Naturals, FiniteSets, Sequences

CONSTANTS
  Party,    \* the participants, and the tags of their key pairs
  Index,    \* automorphism indices
  Gen,      \* generation calls: each has a random part of its own
  MaxMaps,  \* bound: how many EvalKeyMap objects R holds
  MaxExtent,\* bound: key pairs, generation calls and indices in use, together
  Noise,    \* in place of a generation call: the key computes noise
  NoKey     \* no key at an index

Keys == [base : Gen \cup {Noise}, parts : SUBSET Party]
Maps == [Index -> Keys \cup {NoKey}]

ASSUME NoiseAssumption == Noise \notin Gen
ASSUME NoKeyAssumption == NoKey \notin Keys
ASSUME BoundAssumption == MaxMaps \in Nat /\ MaxExtent \in Nat

VARIABLES
  chain,  \* the parties in the order of their key pairs, each made from the last
  spent,  \* the generation calls made
  reg,    \* reg[t][i]: the key registered under tag t for index i
  maps,   \* the EvalKeyMap objects R holds
  entered \* history: what reached tag t since its keys were cleared, keys
          \* that make up a whole map fitting t's key ("fitting") or others

vars == <<chain, spent, reg, maps, entered>>

Joined == {chain[n] : n \in DOMAIN chain}
Entries(m) == {i \in Index : m[i] # NoKey}
Empty == [i \in Index |-> NoKey]

(* The parties whose secrets the key pair of party t adds up.              *)
Members(t) ==
  {chain[n] : n \in {n \in DOMAIN chain : \E l \in DOMAIN chain : n <= l /\ chain[l] = t}}

(* Key k fits the key pair of party t; a lookup under t finds such a key.  *)
FitsPair(k, t) ==
  /\ k # NoKey /\ k.base # Noise
  /\ t \in Joined /\ k.parts = Members(t)

Fits(t, i) == FitsPair(reg[t][i], t)

IndicesInUse ==
  UNION ({Entries(m) : m \in maps} \cup {Entries(reg[t]) : t \in Party})
WithinBound ==
  Cardinality(Joined) + Cardinality(spent) + Cardinality(IndicesInUse) <= MaxExtent

Init ==
  /\ chain = <<>>
  /\ spent = {}
  /\ reg = [t \in Party |-> Empty]
  /\ maps = {}
  /\ entered = [t \in Party |-> {}]
----------------------------------------------------------------------------
(* The library adds to a tag only the indices it lacks.                    *)
Merge(m, n) == [i \in Index |-> IF m[i] = NoKey THEN n[i] ELSE m[i]]

(* The keys of map m reach the registry under tag t.                       *)
Register(m, t) ==
  /\ reg' = [reg EXCEPT ![t] = Merge(@, m)]
  /\ entered' = [entered EXCEPT ![t] = @ \cup
       {IF \A i \in Index : FitsPair(m[i], t) THEN "fitting" ELSE "other"}]

(* Mutation: a party may be given a second key pair under its first tag.   *)
Join_again(p) ==
  /\ chain' = Append(chain, p)
  /\ UNCHANGED <<spent, reg, maps, entered>>

(* key_gen() for the first party, multiparty_key_gen() with the last pair's*)
(* public key for the others.                                              *)
Join(p) ==
  /\ p \notin Joined
  /\ chain' = Append(chain, p)
  /\ UNCHANGED <<spent, reg, maps, entered>>
  /\ WithinBound'

(* Mutation: a generation drops the keys its tag has.                      *)
EvalKeyGen_replaces(p, I, g) ==
  /\ p \in Joined /\ g \notin spent /\ I # {}
  /\ spent' = spent \cup {g}
  /\ reg' = [reg EXCEPT ![p] =
       [i \in Index |-> IF i \in I THEN [base |-> g, parts |-> {p}] ELSE NoKey]]
  /\ entered' = [entered EXCEPT ![p] = @ \cup {"other"}]
  /\ UNCHANGED <<chain, maps>>

(* eval_sum_key_gen(cc, sk), eval_rotate_key_gen(cc, sk, indices): keys of *)
(* p's own secret under p's tag.                                           *)
EvalKeyGen(p, I, g) ==
  /\ p \in Joined /\ g \notin spent /\ I # {}
  /\ spent' = spent \cup {g}
  /\ Register([i \in Index |-> IF i \in I THEN [base |-> g, parts |-> {p}] ELSE NoKey], p)
  /\ UNCHANGED <<chain, maps>>
  /\ WithinBound'

(* The caller keeps map m, as one more map or in place of those of old.    *)
Hold(m, old) ==
  /\ \E dropped \in {{}, old} : maps' = (maps \ dropped) \cup {m}
  /\ Cardinality(maps') <= MaxMaps
  /\ UNCHANGED <<chain, spent, reg, entered>>

(* get_eval_sum_key_map(tag), get_eval_automorphism_key_map(tag)           *)
GetEvalKeyMap(t) == Entries(reg[t]) # {} /\ Hold(reg[t], {})

(* multi_eval_sum_key_gen() for all the indices of m, and                  *)
(* multi_eval_automorphism_key_gen(), multi_eval_at_index_key_gen() for    *)
(* some: p's share, made with the random part of m's keys.                 *)
Share(p, m, I) ==
  [i \in Index |-> IF i \in I
     THEN [base |-> m[i].base, parts |-> IF m[i].base = Noise THEN {} ELSE {p}] ELSE NoKey]

MultiEvalKeyGen(p, m, I) ==
  /\ p \in Joined /\ I # {} /\ I \subseteq Entries(m)
  /\ Hold(Share(p, m, I), {m})

AddKeys(k, l) ==
  IF k.base = l.base /\ k.base # Noise /\ k.parts \cap l.parts = {}
  THEN [base |-> k.base, parts |-> k.parts \cup l.parts]
  ELSE [base |-> Noise, parts |-> {}]

(* multi_add_eval_sum_keys(), multi_add_eval_automorphism_keys(): the      *)
(* indices that both maps have.                                            *)
MultiAddEvalKeys(m, n) ==
  Hold([i \in Index |-> IF i \in Entries(m) \cap Entries(n)
                          THEN AddKeys(m[i], n[i]) ELSE NoKey], {m})

(* Mutation: the tag argument is lost and the map goes to the lead's tag.  *)
InsertEvalKey_ignoresTag(m, t) ==
  /\ Entries(m) # {} /\ t \in Joined
  /\ reg' = [reg EXCEPT ![chain[1]] = Merge(@, m)]
  /\ entered' = [entered EXCEPT ![t] = @ \cup
       {IF \A i \in Index : FitsPair(m[i], t) THEN "fitting" ELSE "other"}]
  /\ UNCHANGED <<chain, spent, maps>>

(* insert_eval_sum_key(map, tag), insert_eval_automorphism_key(map, tag)   *)
InsertEvalKey(m, t) ==
  /\ Entries(m) # {} /\ t \in Joined
  /\ Register(m, t)
  /\ UNCHANGED <<chain, spent, maps>>

(* clear_eval_automorphism_keys(tag)                                       *)
ClearEvalAutomorphismKeys(t) ==
  /\ reg' = [reg EXCEPT ![t] = Empty]
  /\ entered' = [entered EXCEPT ![t] = {}]
  /\ UNCHANGED <<chain, spent, maps>>

(* The caller drops a map.                                                 *)
Drop(m) ==
  /\ maps' = maps \ {m}
  /\ UNCHANGED <<chain, spent, reg, entered>>

Next ==
  \/ \E p \in Party : Join(p)
  \/ \E p \in Party, I \in SUBSET Index, g \in Gen : EvalKeyGen(p, I, g)
  \/ \E t \in Party : GetEvalKeyMap(t)
  \/ \E p \in Party, m \in maps, I \in SUBSET Index : MultiEvalKeyGen(p, m, I)
  \/ \E m, n \in maps : MultiAddEvalKeys(m, n)
  \/ \E m \in maps, t \in Party : InsertEvalKey(m, t)
  \/ \E t \in Party : ClearEvalAutomorphismKeys(t)
  \/ \E m \in maps : Drop(m)

Spec == Init /\ [][Next]_vars

(* The protocol as the documentation of eval_sum_key_gen() has it: every   *)
(* party calls it on its own secret; then shares are made from the map of  *)
(* the lead, added up, and the whole sum is inserted under the joint tag.  *)
RecipeNext ==
  \/ \E p \in Party : maps = {} /\ Join(p)
  \/ \E p \in Party, g \in Gen : reg[p] = Empty /\ EvalKeyGen(p, Index, g)
  \/ /\ Joined = Party /\ \A p \in Party : reg[p] # Empty
     /\ \/ GetEvalKeyMap(chain[1])
        \/ \E n \in 2..Cardinality(Party) : MultiEvalKeyGen(chain[n], reg[chain[1]], Index)
        \/ \E m, n \in maps : MultiAddEvalKeys(m, n)
        \/ \E m \in maps :
             /\ \A i \in Index : FitsPair(m[i], chain[Cardinality(Party)])
             /\ InsertEvalKey(m, chain[Cardinality(Party)])

RecipeSpec == Init /\ [][RecipeNext]_vars
----------------------------------------------------------------------------
TypeOK ==
  /\ chain \in Seq(Party)
  /\ \A m, n \in DOMAIN chain : chain[m] = chain[n] => m = n
  /\ spent \in SUBSET Gen
  /\ reg \in [Party -> Maps]
  /\ maps \in SUBSET Maps
  /\ entered \in [Party -> SUBSET {"fitting", "other"}]

(* A fitting joint key stays in use until the tag's keys are cleared,      *)
(* whatever is generated, added up or inserted afterwards and whoever      *)
(* joins: no party can spoil the joint key of the others.                  *)
FittingKeysStay ==
  [][\A t \in Party, i \in Index : Fits(t, i) => Fits(t, i)' \/ reg'[t] = Empty]_vars

(* When nothing but whole fitting maps reached a tag since it was cleared, *)
(* in any number and from any mix of generation calls, every index of the  *)
(* tag fits: maps of different calls are not mixed into one key.           *)
JointKeysFit ==
  \A t \in Party : entered[t] = {"fitting"} => \A i \in Index : Fits(t, i)

(* Once the whole joint map was inserted under the joint tag, eval_sum()   *)
(* on joint ciphertexts finds it: what the recipe is for.                  *)
RecipeRegistersJointKey ==
  \A t \in Party : "fitting" \in entered[t] => \A i \in Index : Fits(t, i)
============================================================================

------------------------------ MODULE KeyTable ------------------------------
(***************************************************************************)
(* What the evaluation-key registries promise, without map objects and     *)
(* without handles on them: a table with at most one relinearization key   *)
(* and one automorphism key for each index under a tag.  Keys are added to *)
(* a tag and never replaced, they go when they are cleared, and no call    *)
(* reaches another tag, except that a tag which was given the keys of      *)
(* another one shares them from then on: what either gains both have.      *)
(***************************************************************************)
CONSTANTS
  Secret,   \* identities of generated secret keys
  Tag,      \* key tags
  Index,    \* automorphism indices
  NoKey     \* no evaluation key

VARIABLES
  relin,    \* relin[t]: whose relinearization key is under t
  keys,     \* keys[t][i]: whose key is under t for index i
  sharing   \* sharing[t]: the tags that share t's automorphism keys, t with them;
            \* none when t has no keys

kvars == <<relin, keys, sharing>>

KeyMaps == [Index -> Secret \cup {NoKey}]
NoKeys == [i \in Index |-> NoKey]

(* The tags T have other keys than before, the others what they had.       *)
Changes(T) == keys' \in [Tag -> KeyMaps] /\ \A u \in Tag \ T : keys'[u] = keys[u]

KInit ==
  /\ relin = [t \in Tag |-> NoKey]
  /\ keys = [t \in Tag |-> NoKeys]
  /\ sharing = [t \in Tag |-> {}]

(* The first automorphism keys of t.                                       *)
Fill(t) ==
  /\ sharing[t] = {}
  /\ Changes({t}) /\ keys'[t] # NoKeys
  /\ sharing' = [sharing EXCEPT ![t] = {t}]

(* A new pair under t may come with keys.                                  *)
NewPair(t, s) ==
  /\ relin[t] = NoKey
  /\ relin' = [relin EXCEPT ![t] = s]
  /\ Fill(t) \/ UNCHANGED <<keys, sharing>>

FirstKeys(t) == Fill(t) /\ UNCHANGED relin

(* More automorphism keys for t, and for the tags that share its keys.     *)
Add(t) ==
  /\ Changes(sharing[t]) /\ \A u \in sharing[t] : keys'[u] = keys'[t]
  /\ \A i \in Index : keys[t][i] # NoKey => keys'[t][i] = keys[t][i]
  /\ UNCHANGED <<relin, sharing>>

(* t is given the keys that u has, to share them.                          *)
Join(t, u) ==
  LET group == sharing[u] \cup {t} IN
  /\ sharing[t] = {} /\ sharing[u] # {}
  /\ keys' = [keys EXCEPT ![t] = keys[u]]
  /\ sharing' = [v \in Tag |-> IF v \in group THEN group ELSE sharing[v]]
  /\ UNCHANGED relin

(* The relinearization keys of the tags R and the automorphism keys of the *)
(* tags A are cleared.                                                     *)
Clear(R, A) ==
  /\ relin' = [t \in Tag |-> IF t \in R THEN NoKey ELSE relin[t]]
  /\ keys' = [t \in Tag |-> IF t \in A THEN NoKeys ELSE keys[t]]
  /\ sharing' = [t \in Tag |-> IF t \in A THEN {} ELSE sharing[t] \ A]

KNext ==
  \/ \E R, A \in {{}, Tag} : Clear(R, A)
  \/ \E t \in Tag : Clear({t}, {}) \/ Clear({}, {t}) \/ FirstKeys(t) \/ Add(t)
  \/ \E t \in Tag, s \in Secret : NewPair(t, s)
  \/ \E t, u \in Tag : Join(t, u)

KSpec == KInit /\ [][KNext]_kvars
============================================================================

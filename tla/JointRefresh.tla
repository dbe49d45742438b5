---------------------------- MODULE JointRefresh ----------------------------
(***************************************************************************)
(* What refreshing a ciphertext promises to the owners of the joint key,   *)
(* without scales, masks, pairs or sums: an owner agrees to refresh one    *)
(* ciphertext in one round, named by its random element, nobody takes that *)
(* back, and a refreshed ciphertext comes only out of a round in which     *)
(* every owner agreed to refresh the ciphertext it comes from.             *)
(***************************************************************************)
CONSTANTS
  Party,  \* those who may own a secret of the joint key
  Msg,    \* the encrypted messages
  Elem,   \* random elements, one for each round
  NoElem  \* the round of a ciphertext that was not refreshed yet

VARIABLES
  owners,  \* the owners of the joint key
  agreed,  \* <<p, x, e>>: the owner p agreed to refresh x in the round of e
  known    \* the ciphertexts, by message and the round they come from

rvars == <<owners, agreed, known>>

RInit ==
  /\ owners \in SUBSET Party /\ \E p, q \in owners : p # q
  /\ agreed = {} /\ known = [msg : Msg, elem : {NoElem}]

Agree(p, x, e) ==
  /\ agreed' = agreed \cup {<<p, x, e>>}
  /\ UNCHANGED <<owners, known>>

Refresh(x, e) ==
  /\ \A p \in owners : <<p, x, e>> \in agreed
  /\ known' = known \cup {[msg |-> x.msg, elem |-> e]}
  /\ UNCHANGED <<owners, agreed>>

RNext == \E x \in known, e \in Elem : Refresh(x, e) \/ \E p \in owners : Agree(p, x, e)

RSpec == RInit /\ [][RNext]_rvars
============================================================================

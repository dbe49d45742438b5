-------------------------- MODULE JointDecryption --------------------------
(***************************************************************************)
(* What n-of-n threshold decryption promises, without keys, partial        *)
(* decryptions or fusion: a ciphertext has owners, every party may         *)
(* contribute to a ciphertext at any time, and its plaintext comes out     *)
(* only when all of its owners have contributed to that ciphertext.        *)
(***************************************************************************)
CONSTANTS
  Party,  \* the participants
  Ct      \* ciphertexts

VARIABLES
  owners,       \* owners[c]: the parties that must take part; {} before encryption
  contributed,  \* contributed[c]: the parties that have taken part
  opened        \* the ciphertexts whose plaintext has been computed

jvars == <<owners, contributed, opened>>

JInit ==
  /\ owners = [c \in Ct |-> {}]
  /\ contributed = [c \in Ct |-> {}]
  /\ opened = {}

JEncrypt(c, S) ==
  /\ owners[c] = {}
  /\ owners' = [owners EXCEPT ![c] = S]
  /\ UNCHANGED <<contributed, opened>>

(* The parties S take part in the decryption of every ciphertext of C.     *)
Contribute(S, C) ==
  /\ UNCHANGED <<owners, opened>>
  /\ contributed' = [c \in Ct |-> IF c \in C THEN contributed[c] \cup S ELSE contributed[c]]

(* The plaintext of c is computed, S taking part in the same call.         *)
Open(c, S) ==
  /\ contributed' = [contributed EXCEPT ![c] = @ \cup S]
  /\ owners[c] # {} /\ owners[c] \subseteq contributed'[c]
  /\ opened' = opened \cup {c}
  /\ UNCHANGED owners

JNext ==
  \/ \E S \in SUBSET Party, C \in SUBSET Ct : Contribute(S, C)
  \/ \E c \in Ct, S \in SUBSET Party : JEncrypt(c, S) \/ Open(c, S)

JSpec == JInit /\ [][JNext]_jvars
============================================================================

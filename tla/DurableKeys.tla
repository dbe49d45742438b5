---------------------------- MODULE DurableKeys ----------------------------
(***************************************************************************)
(* What saving keys to files promises, without tables, formats, archives   *)
(* or faults: a session holds keys, a file may stand for a set of keys     *)
(* that were held when they were saved to it, and loading such a file, in  *)
(* this session or a later one, adds these keys, all of them and no other. *)
(* A save may spoil its file unnoticed: the file then restores nothing,    *)
(* until it is saved to again.  What a file holds that stands for nothing  *)
(* is not promised: keys of secrets that some session generated.           *)
(***************************************************************************)
CONSTANTS
  Tag,   \* key tags, each naming one generated secret key
  Slot,  \* what tells the keys of one kind under one tag apart
  Main,  \* the slot of a secret key
  Kind,  \* kinds of evaluation keys
  File   \* file names

VARIABLES
  made,  \* the secret keys generated in any session
  live,  \* the keys this session has
  kept,  \* kept[f]: {S} when f stands for the keys S, otherwise {}
  spoilt \* the files whose last save was reported as done and was not

dvars == <<made, live, kept, spoilt>>
files == <<kept, spoilt>>

Secret(t) == <<"secret", t, Main>>
KeysOf(T) == {Secret(t) : t \in T} \cup (Kind \X T \X Slot)

DInit == made = {} /\ live = {} /\ kept = [f \in File |-> {}] /\ spoilt = {}

DKeyGen(t) ==
  /\ t \notin made
  /\ made' = made \cup {t} /\ live' = live \cup {Secret(t)}
  /\ UNCHANGED files

(* The session has more keys, all of them of the tags T.                   *)
Gains(T) == live \subseteq live' /\ live' \subseteq live \cup KeysOf(T)

(* Evaluation keys are made from a secret key the session has.             *)
DGenerate(t) == Secret(t) \in live /\ Gains({t}) /\ UNCHANGED <<made, files>>

(* Keys are cleared, or go with their session.                             *)
Forget == live' \subseteq live /\ UNCHANGED <<made, files>>

(* A save that was reported as done: of keys the session has.              *)
Keep(f) ==
  /\ \E S \in kept'[f] : S \subseteq live /\ kept' = [kept EXCEPT ![f] = {S}]
  /\ spoilt' = spoilt \ {f}
  /\ UNCHANGED <<made, live>>

(* A save that was reported as done, and failed later.                     *)
Spoil(f) ==
  /\ kept' = [kept EXCEPT ![f] = {}] /\ spoilt' = spoilt \cup {f}
  /\ UNCHANGED <<made, live>>

(* A save that was not: an error, or the session ended meanwhile.          *)
Break(f) ==
  /\ kept' = [kept EXCEPT ![f] = {}] /\ spoilt' = spoilt \ {f}
  /\ live' \in {live, {}}
  /\ UNCHANGED made

Restore(f) ==
  /\ f \notin spoilt
  /\ IF kept[f] # {} THEN \E S \in kept[f] : live' = live \cup S
     ELSE Gains(made)
  /\ UNCHANGED <<made, files>>

DNext ==
  \/ \E t \in Tag : DKeyGen(t) \/ DGenerate(t)
  \/ Forget
  \/ \E f \in File : Keep(f) \/ Spoil(f) \/ Break(f) \/ Restore(f)

DSpec == DInit /\ [][DNext]_dvars
============================================================================

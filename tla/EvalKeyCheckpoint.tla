------------------------- MODULE EvalKeyCheckpoint -------------------------
(***************************************************************************)
(* Checkpoint and resume: saving the evaluation-key tables and the keys    *)
(* themselves to files, the end of the R process, and loading in a later   *)
(* session (R/serialization.R, src/pke_serialization.cpp).                 *)
(*                                                                         *)
(* A save opens its file, which truncates it, before it looks up what to   *)
(* write.  A failing write is noticed by the binary archive, which throws, *)
(* and by nobody when the archive is JSON; the bindings neither test that  *)
(* the file opened nor that it closed, so a write that fails when the      *)
(* stream is closed is reported as done in either format.  What is written *)
(* and parsed is the library's business; a file is whole (it parses, as    *)
(* the type and in the format it was written in) or torn (loading it is an *)
(* R error).                                                               *)
(***************************************************************************)
EXTENDS Naturals

CONSTANTS
  Tag,     \* key tags, each naming one generated secret key
  Index,   \* automorphism indices
  Relin,   \* the one slot of a relinearization-key vector
  File,    \* file names
  Formats, \* the formats in use: a subset of {"binary", "json"}
  Faults,  \* what a save may meet: a subset of {"unopened", "full", "late"}
  AllTags, \* the key_tag argument "": every tag
  Torn,    \* what a truncated or partly written file holds
  None     \* no such file; nothing acknowledged

Types == {"mult", "automorphism", "sum"}
Tables == {"mult", "automorphism"}
Slots(k) == IF k = "mult" THEN {Relin} ELSE Index

ASSUME FormatAssumption == Formats \subseteq {"binary", "json"}
ASSUME FaultAssumption == Faults \subseteq {"unopened", "full", "late"}
ASSUME TagAssumption == AllTags \notin Tag

(* What a file holds when it is whole.                                     *)
KeyFiles == [kind : Tables, format : Formats, body : [Tag -> SUBSET (Index \cup {Relin})]]
SecretFiles == [kind : {"secret"}, format : Formats, body : Tag]
Contents == KeyFiles \cup SecretFiles
ASSUME FileAssumption == None \notin Contents /\ Torn \notin Contents /\ Torn # None

VARIABLES
  made,   \* history: the secret keys generated in any session
  held,   \* the secret keys this session has a handle on
  table,  \* table[k][t]: the slots registered under tag t in table k
  disk,   \* disk[f]: None, Torn, or what the whole file holds
  acked,  \* acked[f]: what the last save to f that returned TRUE was to write,
          \* None once a later save to f was reported as failed or cut short
  lost    \* the files whose last save returned TRUE although its close failed

vars == <<made, held, table, disk, acked, lost>>
session == <<made, held, table>>

NoKeys == [k \in Tables |-> [t \in Tag |-> {}]]

Init ==
  /\ made = {} /\ held = {}
  /\ table = NoKeys
  /\ disk = [f \in File |-> None]
  /\ acked = [f \in File |-> None]
  /\ lost = {}
----------------------------------------------------------------------------
(* Sum keys are automorphism keys: both entry points reach one table.      *)
TableOf(type) == IF type = "sum" THEN "automorphism" ELSE type

(* key_gen(): a new tag.                                                   *)
KeyGen(t) ==
  /\ t \notin made
  /\ made' = made \cup {t} /\ held' = held \cup {t}
  /\ UNCHANGED <<table, disk, acked, lost>>

(* The eval_*_key_gen() functions.                                         *)
Generate(k, t, S) ==
  /\ t \in held /\ S # {}
  /\ table' = [table EXCEPT ![k][t] = @ \cup S]
  /\ UNCHANGED <<made, held, disk, acked, lost>>

(* clear_eval_*_keys(), for one tag or for all.                            *)
Clear(k, tag) ==
  /\ table' = [table EXCEPT ![k] = [t \in Tag |-> IF tag \in {t, AllTags} THEN {} ELSE @[t]]]
  /\ UNCHANGED <<made, held, disk, acked, lost>>

(* The R process ends, and with it the tables and every handle.            *)
Restart ==
  /\ held' = {} /\ table' = NoKeys
  /\ UNCHANGED <<made, disk, acked, lost>>
----------------------------------------------------------------------------
(* The archive throws on a failing write when it is binary; a write that   *)
(* fails when the stream is closed is past every check.                    *)
Noticed(format, fault) == format = "binary" /\ fault \in {"unopened", "full"}

(* What a save leaves on disk: a file that cannot be opened is left as it  *)
(* was, any other is truncated first.                                      *)
Written(f, fault, content) ==
  CASE fault = "unopened" -> disk[f]
    [] fault \in {"full", "late"} -> Torn
    [] OTHER -> content

(* What the save reported, and the failing close that it passed over.      *)
Reports(f, a, fault) ==
  /\ acked' = [acked EXCEPT ![f] = a]
  /\ lost' = IF a # None /\ fault = "late" THEN lost \cup {f} ELSE lost \ {f}

Selected(k, tag) ==
  [t \in Tag |-> IF tag \in {t, AllTags} THEN table[k][t] ELSE {}]

(* Mutation: the binding drops the library's FALSE for a missing tag.      *)
SaveEvalKeys_ignoresResult(f, type, format, tag, fault) ==
  LET k == TableOf(type)
      content == [kind |-> k, format |-> format, body |-> Selected(k, tag)]
      missing == tag # AllTags /\ table[k][tag] = {}
  IN
  /\ disk' = [disk EXCEPT ![f] = Written(f, IF missing /\ fault # "unopened"
                                              THEN "full" ELSE fault, content)]
  /\ Reports(f, IF Noticed(format, fault) THEN None ELSE content, fault)
  /\ UNCHANGED session

(* serialize_eval_keys(filename, type, format, key_tag): TRUE, or an R     *)
(* error when the tag has no keys or the archive throws.                   *)
SaveEvalKeys(f, type, format, tag, fault) ==
  LET k == TableOf(type)
      content == [kind |-> k, format |-> format, body |-> Selected(k, tag)]
      missing == tag # AllTags /\ table[k][tag] = {}
  IN
  /\ disk' = [disk EXCEPT ![f] = Written(f, IF missing /\ fault # "unopened"
                                              THEN "full" ELSE fault, content)]
  /\ Reports(f, IF missing \/ Noticed(format, fault) THEN None ELSE content, fault)
  /\ UNCHANGED session

(* Mutation: the handle is not checked before the key is written.          *)
SaveSecret_unchecked(f, t, format, fault) ==
  LET content == [kind |-> "secret", format |-> format, body |-> t] IN
  /\ disk' = [disk EXCEPT ![f] = Written(f, fault, content)]
  /\ Reports(f, IF fault = "unopened" \/ Noticed(format, fault) THEN None ELSE content, fault)
  /\ UNCHANGED session

(* fhe_serialize(x, filename, format), for a PrivateKey: the library's     *)
(* file function reports a file it cannot open in either format.           *)
SaveSecret(f, t, format, fault) ==
  LET content == [kind |-> "secret", format |-> format, body |-> t] IN
  /\ t \in held
  /\ disk' = [disk EXCEPT ![f] = Written(f, fault, content)]
  /\ Reports(f, IF fault = "unopened" \/ Noticed(format, fault) THEN None ELSE content, fault)
  /\ UNCHANGED session

(* The R process ends during a save to f.                                  *)
SaveCutShort(f) ==
  /\ disk' = [disk EXCEPT ![f] = Torn]
  /\ acked' = [acked EXCEPT ![f] = None] /\ lost' = lost \ {f}
  /\ held' = {} /\ table' = NoKeys
  /\ UNCHANGED made
----------------------------------------------------------------------------
(* Mutation: a file of either table is read as one of the other.           *)
Loads_anyTable(f, kind, format) ==
  /\ disk[f] \in Contents /\ disk[f].format = format
  /\ disk[f].kind = kind \/ {kind, disk[f].kind} \subseteq Tables

Loads(f, kind, format) ==
  disk[f] \in Contents /\ disk[f].kind = kind /\ disk[f].format = format

(* Mutation: a loaded map takes the place of the one the tag has.          *)
LoadEvalKeys_replaces(f, type, format) ==
  LET k == TableOf(type) IN
  /\ Loads(f, k, format)
  /\ table' = [table EXCEPT ![k] = [t \in Tag |->
       IF disk[f].body[t] # {} THEN disk[f].body[t] ELSE @[t]]]
  /\ UNCHANGED <<made, held, disk, acked, lost>>

(* Mutation: what is loaded is kept only where the tag has no keys.        *)
LoadEvalKeys_fillsGaps(f, type, format) ==
  LET k == TableOf(type) IN
  /\ Loads(f, k, format)
  /\ table' = [table EXCEPT ![k] = [t \in Tag |-> IF @[t] = {} THEN disk[f].body[t] ELSE @[t]]]
  /\ UNCHANGED <<made, held, disk, acked, lost>>

(* deserialize_eval_keys(filename, type, format): a relinearization vector *)
(* takes the place of the tag's, automorphism keys are added to the tag's; *)
(* a file that is absent, torn, of another kind or in another format is an *)
(* R error that leaves the tables alone.                                   *)
LoadEvalKeys(f, type, format) ==
  LET k == TableOf(type) IN
  /\ Loads(f, k, format)
  /\ table' = [table EXCEPT ![k] = [t \in Tag |-> @[t] \cup disk[f].body[t]]]
  /\ UNCHANGED <<made, held, disk, acked, lost>>

(* fhe_deserialize(filename, "PrivateKey", format)                         *)
LoadSecret(f, format) ==
  /\ Loads(f, "secret", format)
  /\ held' = held \cup {disk[f].body}
  /\ UNCHANGED <<made, table, disk, acked, lost>>

Next ==
  \/ \E t \in Tag : KeyGen(t)
  \/ \E k \in Tables, t \in Tag : \E S \in SUBSET Slots(k) : Generate(k, t, S)
  \/ \E k \in Tables, tag \in Tag \cup {AllTags} : Clear(k, tag)
  \/ Restart
  \/ \E f \in File, type \in Types, format \in Formats, tag \in Tag \cup {AllTags},
        fault \in Faults \cup {"none"} : SaveEvalKeys(f, type, format, tag, fault)
  \/ \E f \in File, t \in Tag, format \in Formats, fault \in Faults \cup {"none"} :
        SaveSecret(f, t, format, fault)
  \/ \E f \in File : SaveCutShort(f)
  \/ \E f \in File, type \in Types, format \in Formats : LoadEvalKeys(f, type, format)
  \/ \E f \in File, format \in Formats : LoadSecret(f, format)

Spec == Init /\ [][Next]_vars
----------------------------------------------------------------------------
TypeOK ==
  /\ made \in SUBSET Tag /\ held \in SUBSET made
  /\ table \in [Tables -> [Tag -> SUBSET (Index \cup {Relin})]]
  /\ disk \in [File -> Contents \cup {Torn, None}]
  /\ acked \in [File -> Contents \cup {None}]
  /\ lost \in SUBSET {f \in File : acked[f] # None}

(* A file whose last save returned TRUE loads as what that save was to     *)
(* write or, when the close failed behind its back, not at all: never as   *)
(* an older checkpoint or part of one, whatever saves to this and other    *)
(* files failed or were cut short.                                         *)
AckedLoadsRight ==
  \A f \in File : acked[f] # None => disk[f] = IF f \in lost THEN Torn ELSE acked[f]

(* The TRUE of serialize_eval_keys() and fhe_serialize() taken at its      *)
(* word: what a save reported as written is what a later load finds.       *)
AckedIsRestorable == \A f \in File : acked[f] # None => disk[f] = acked[f]

(* A tag's keys are cleared or kept, never thinned out: resuming from an   *)
(* old checkpoint takes away no rotation key that was generated since.     *)
LoadsOnlyAdd ==
  [][\A k \in Tables, t \in Tag : table[k][t] \subseteq table'[k][t] \/ table'[k][t] = {}]_vars

(* A table never has a key of a secret that no session generated, and in   *)
(* the relinearization table and in files of it never an automorphism key: *)
(* the files of the two tables are not taken for one another.              *)
TablesApart ==
  \A t \in Tag :
    /\ table["mult"][t] \subseteq {Relin} /\ table["automorphism"][t] \subseteq Index
    /\ t \notin made => table["mult"][t] = {} /\ table["automorphism"][t] = {}

(* Whatever faults the saves meet and wherever sessions end, the files are *)
(* those of DurableKeys: a file that a save was acknowledged for restores  *)
(* the keys it was to write, through either name of the table, or nothing  *)
(* at all if its close failed, and nothing is restored that was not        *)
(* generated.                                                              *)
InTable(k, body) == UNION {{k} \X {t} \X body[t] : t \in Tag}
Secrets(T) == {<<"secret", t, Relin>> : t \in T}
KeysIn(c) == IF c.kind = "secret" THEN Secrets({c.body}) ELSE InTable(c.kind, c.body)
Live == Secrets(held) \cup InTable("mult", table["mult"])
          \cup InTable("automorphism", table["automorphism"])
Kept == [f \in File |-> IF acked[f] = None \/ f \in lost THEN {} ELSE {KeysIn(acked[f])}]
Durable == INSTANCE DurableKeys WITH
  live <- Live, kept <- Kept, spoilt <- lost, Slot <- Index \cup {Relin}, Main <- Relin, Kind <- Tables
ImplementsDurable == Durable!DSpec
============================================================================

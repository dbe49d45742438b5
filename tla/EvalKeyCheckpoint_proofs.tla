---------------------- MODULE EvalKeyCheckpoint_proofs ----------------------
(***************************************************************************)
(* Proofs about EvalKeyCheckpoint.  A table stays well formed because what *)
(* is loaded into it was written from a table, so the invariant has to say *)
(* of every whole file what TablesApart says of the tables.                *)
(***************************************************************************)
EXTENDS EvalKeyCheckpoint, TLAPS

(* What a whole file holds fits the table it was written from.             *)
Fits(c) ==
  /\ c.kind \in Tables => c \in KeyFiles /\ \A t \in Tag :
       c.body[t] \subseteq Slots(c.kind) /\ (t \notin made => c.body[t] = {})
  /\ c.kind = "secret" => c.body \in made

FilesFit == \A f \in File : disk[f] \in Contents => Fits(disk[f])

IInv == TypeOK /\ TablesApart /\ FilesFit

(* What a save of either table is to write is a file that fits.            *)
LEMMA SelectionFits ==
  ASSUME IInv, NEW type \in Types, NEW tag, NEW format \in Formats, NEW c,
         c = [kind |-> TableOf(type), format |-> format, body |-> Selected(TableOf(type), tag)]
  PROVE  c \in Contents /\ Fits(c)
<1>1. TableOf(type) \in Tables
  BY DEF TableOf, Types, Tables
<1>2. ASSUME NEW k \in Tables
      PROVE  /\ Selected(k, tag) \in [Tag -> SUBSET (Index \cup {Relin})]
             /\ \A t \in Tag : Selected(k, tag)[t] \subseteq Slots(k)
                               /\ (t \notin made => Selected(k, tag)[t] = {})
  <2>1. table[k] \in [Tag -> SUBSET (Index \cup {Relin})]
    BY <1>2 DEF IInv, TypeOK
  <2>2. \A t \in Tag : table[k][t] \subseteq Slots(k) /\ (t \notin made => table[k][t] = {})
    BY <1>2 DEF IInv, TablesApart, Tables, Slots
  <2> QED
    BY <2>1, <2>2 DEF Selected
<1>3. c \in KeyFiles
  BY <1>1, <1>2, FormatAssumption DEF KeyFiles
<1>4. TableOf(type) # "secret"
  BY DEF TableOf, Types
<1> QED
  BY <1>1, <1>2, <1>3, <1>4 DEF Contents, Fits

(* A step that grows made, and leaves the files alone, keeps them fitting. *)
LEMMA FilesKeepFitting ==
  ASSUME IInv, made \subseteq made', UNCHANGED disk
  PROVE  FilesFit'
BY DEF IInv, FilesFit, Fits

(* A step that puts nothing, something torn or a file that fits in f keeps *)
(* every file fitting.                                                     *)
LEMMA WriteKeepsFitting ==
  ASSUME IInv, NEW f \in File, NEW d \in Contents \cup {Torn, None},
         d \in Contents => Fits(d),
         disk' = [disk EXCEPT ![f] = d], UNCHANGED made
  PROVE  FilesFit' /\ disk' \in [File -> Contents \cup {Torn, None}]
<1>1. disk \in [File -> Contents \cup {Torn, None}]
  BY DEF IInv, TypeOK
<1>2. \A g \in File : disk'[g] = IF g = f THEN d ELSE disk[g]
  BY <1>1
<1>3. ASSUME NEW c, Fits(c) PROVE Fits(c)'
  BY <1>3 DEF Fits
<1>4. ASSUME NEW g \in File, disk'[g] \in Contents PROVE Fits(disk[g])'
  <2>1. CASE g = f
    BY <1>2, <1>4, <2>1 DEF Fits
  <2>2. CASE g # f
    BY <1>2, <1>4, <2>2 DEF Fits, IInv, FilesFit
  <2> QED
    BY <2>1, <2>2
<1> QED
  BY <1>1, <1>4 DEF FilesFit

(* What a save leaves in f is old contents, torn, or what it was to write. *)
LEMMA WrittenIs ==
  ASSUME NEW f, NEW fault, NEW c
  PROVE  Written(f, fault, c) \in {disk[f], Torn, c}
BY DEF Written

LEMMA InitIInv == Init => IInv
<1> SUFFICES ASSUME Init PROVE IInv
  OBVIOUS
<1>1. TypeOK
  BY DEF Init, TypeOK, NoKeys
<1>2. TablesApart
  BY DEF Init, TablesApart, NoKeys, Tables
<1>3. FilesFit
  BY FileAssumption DEF Init, FilesFit
<1> QED
  BY <1>1, <1>2, <1>3 DEF IInv

(* A save that leaves the session alone keeps the invariant.               *)
LEMMA SaveKeeps ==
  ASSUME IInv, NEW f \in File, NEW fault, NEW c \in Contents, Fits(c),
         disk' = [disk EXCEPT ![f] = Written(f, fault, c)],
         NEW a \in Contents \cup {None}, NEW g, Reports(f, a, g),
         UNCHANGED session
  PROVE  IInv'
<1>1. Written(f, fault, c) \in Contents \cup {Torn, None}
  BY WrittenIs DEF IInv, TypeOK
<1>2. Written(f, fault, c) \in Contents => Fits(Written(f, fault, c))
  BY WrittenIs, FileAssumption DEF IInv, FilesFit
<1>3. FilesFit' /\ disk' \in [File -> Contents \cup {Torn, None}]
  BY <1>1, <1>2, WriteKeepsFitting DEF session
<1>4. TypeOK'
  <2>1. \A h \in File : acked'[h] = IF h = f THEN a ELSE acked[h]
    BY DEF IInv, TypeOK, Reports
  <2>2. lost' \in SUBSET {h \in File : acked'[h] # None}
    BY <2>1 DEF IInv, TypeOK, Reports
  <2>3. acked' \in [File -> Contents \cup {None}]
    BY DEF IInv, TypeOK, Reports
  <2> QED BY <1>3, <2>2, <2>3 DEF IInv, TypeOK, session
<1>5. TablesApart'
  BY DEF IInv, TablesApart, session
<1> QED
  BY <1>3, <1>4, <1>5 DEF IInv

(* The invariant is kept by every step.                                    *)
LEMMA NextIInv == IInv /\ [Next]_vars => IInv'
<1> SUFFICES ASSUME IInv, [Next]_vars PROVE IInv'
  OBVIOUS
<1> USE DEF IInv
<1>0. table \in [Tables -> [Tag -> SUBSET (Index \cup {Relin})]]
  BY DEF TypeOK
<1>1. ASSUME NEW t \in Tag, KeyGen(t) PROVE IInv'
  <2>1. TypeOK'
    BY <1>1 DEF KeyGen, TypeOK
  <2>2. TablesApart'
    BY <1>1 DEF KeyGen, TablesApart
  <2> QED
    BY <1>1, <2>1, <2>2, FilesKeepFitting DEF KeyGen
<1>2. ASSUME NEW k \in Tables, NEW t \in Tag, NEW S \in SUBSET Slots(k), Generate(k, t, S)
      PROVE  IInv'
  <2>1. S \subseteq Index \cup {Relin} /\ t \in made
    BY <1>2 DEF Generate, Slots, TypeOK
  <2>2. \A j \in Tables, u \in Tag :
          table'[j][u] = IF j = k /\ u = t THEN table[j][u] \cup S ELSE table[j][u]
    BY <1>0, <1>2 DEF Generate
  <2>3. TypeOK'
    <3>1. table' \in [Tables -> [Tag -> SUBSET (Index \cup {Relin})]]
      BY <1>0, <1>2, <2>1 DEF Generate
    <3> QED
      BY <1>2, <3>1 DEF Generate, TypeOK
  <2>4. \A u \in Tag : table'["mult"][u] \subseteq {Relin} /\ table'["automorphism"][u] \subseteq Index
    BY <1>2, <2>2 DEF TablesApart, Slots, Tables
  <2>5. \A u \in Tag : u \notin made' => table'["mult"][u] = {} /\ table'["automorphism"][u] = {}
    BY <1>2, <2>1, <2>2 DEF Generate, TablesApart, Tables
  <2>6. FilesFit'
    BY <1>2, FilesKeepFitting DEF Generate
  <2> QED
    BY <2>3, <2>4, <2>5, <2>6 DEF TablesApart
<1>3. ASSUME NEW k \in Tables, NEW tag \in Tag \cup {AllTags}, Clear(k, tag) PROVE IInv'
  <2>1. \A j \in Tables, u \in Tag : table'[j][u] \in {table[j][u], {}}
    BY <1>0, <1>3 DEF Clear
  <2>2. TypeOK'
    <3>1. [t \in Tag |-> IF tag \in {t, AllTags} THEN {} ELSE table[k][t]]
             \in [Tag -> SUBSET (Index \cup {Relin})]
      BY <1>0, <1>3
    <3> QED
      BY <1>0, <1>3, <3>1 DEF Clear, TypeOK
  <2>3. TablesApart'
    BY <1>3, <2>1 DEF Clear, TablesApart, Tables
  <2> QED
    BY <1>3, <2>2, <2>3, FilesKeepFitting DEF Clear
<1>4. CASE Restart
  <2>1. TypeOK'
    BY <1>4 DEF Restart, TypeOK, NoKeys
  <2>2. TablesApart'
    BY <1>4 DEF Restart, TablesApart, NoKeys, Tables
  <2> QED
    BY <1>4, <2>1, <2>2, FilesKeepFitting DEF Restart
<1>5. ASSUME NEW f \in File, NEW type \in Types, NEW format \in Formats, NEW tag \in Tag \cup {AllTags},
             NEW fault \in Faults \cup {"none"}, SaveEvalKeys(f, type, format, tag, fault)
      PROVE  IInv'
  <2> DEFINE k == TableOf(type)
             c == [kind |-> k, format |-> format, body |-> Selected(k, tag)]
             missing == tag # AllTags /\ table[k][tag] = {}
             flt == IF missing /\ fault # "unopened" THEN "full" ELSE fault
             a == IF missing \/ Noticed(format, fault) THEN None ELSE c
  <2>1. c \in Contents /\ Fits(c)
    BY SelectionFits
  <2>2. a \in Contents \cup {None}
    BY <2>1
  <2>3. /\ disk' = [disk EXCEPT ![f] = Written(f, flt, c)]
        /\ Reports(f, a, fault)
        /\ UNCHANGED session
    BY <1>5 DEF SaveEvalKeys
  <2> HIDE DEF c, flt, a
  <2> QED
    BY <2>1, <2>2, <2>3, SaveKeeps
<1>6. ASSUME NEW f \in File, NEW t \in Tag, NEW format \in Formats,
             NEW fault \in Faults \cup {"none"}, SaveSecret(f, t, format, fault)
      PROVE  IInv'
  <2> DEFINE c == [kind |-> "secret", format |-> format, body |-> t]
             a == IF fault = "unopened" \/ Noticed(format, fault) THEN None ELSE c
  <2>1. c \in Contents /\ Fits(c)
    BY <1>6, FormatAssumption DEF SaveSecret, Contents, SecretFiles, Fits, Tables, TypeOK
  <2>2. a \in Contents \cup {None}
    BY <2>1
  <2>3. /\ disk' = [disk EXCEPT ![f] = Written(f, fault, c)]
        /\ Reports(f, a, fault)
        /\ UNCHANGED session
    BY <1>6 DEF SaveSecret
  <2> HIDE DEF c, a
  <2> QED
    BY <2>1, <2>2, <2>3, SaveKeeps
<1>7. ASSUME NEW f \in File, SaveCutShort(f) PROVE IInv'
  <2>1. FilesFit' /\ disk' \in [File -> Contents \cup {Torn, None}]
    BY <1>7, FileAssumption, WriteKeepsFitting DEF SaveCutShort
  <2>2. TypeOK'
    <3>1. /\ acked' \in [File -> Contents \cup {None}]
          /\ \A h \in File : acked'[h] = IF h = f THEN None ELSE acked[h]
      BY <1>7 DEF SaveCutShort, TypeOK
    <3>2. lost' \in SUBSET {h \in File : acked'[h] # None}
      BY <1>7, <3>1 DEF SaveCutShort, TypeOK
    <3> QED BY <1>7, <2>1, <3>1, <3>2 DEF SaveCutShort, TypeOK, NoKeys
  <2>3. TablesApart'
    BY <1>7 DEF SaveCutShort, TablesApart, NoKeys, Tables
  <2> QED
    BY <2>1, <2>2, <2>3
<1>8. ASSUME NEW f \in File, NEW type \in Types, NEW format \in Formats, LoadEvalKeys(f, type, format)
      PROVE  IInv'
  <2>1. PICK k \in Tables : k = TableOf(type)
    BY DEF TableOf, Types, Tables
  <2>2. disk[f] \in KeyFiles /\ \A t \in Tag :
          disk[f].body[t] \subseteq Slots(k) /\ (t \notin made => disk[f].body[t] = {})
    BY <1>8, <2>1 DEF LoadEvalKeys, Loads, FilesFit, Fits
  <2>3. \A j \in Tables, u \in Tag :
          table'[j][u] = IF j = k THEN table[j][u] \cup disk[f].body[u] ELSE table[j][u]
    BY <1>0, <1>8, <2>1 DEF LoadEvalKeys
  <2>4. TypeOK'
    <3>1. \A t \in Tag : disk[f].body[t] \subseteq Index \cup {Relin}
      BY <2>2 DEF KeyFiles
    <3>2. [t \in Tag |-> table[k][t] \cup disk[f].body[t]] \in [Tag -> SUBSET (Index \cup {Relin})]
      BY <1>0, <3>1
    <3>3. table' = [table EXCEPT ![k] = [t \in Tag |-> table[k][t] \cup disk[f].body[t]]]
      BY <1>0, <1>8, <2>1 DEF LoadEvalKeys
    <3>4. table' \in [Tables -> [Tag -> SUBSET (Index \cup {Relin})]]
      BY <1>0, <3>2, <3>3
    <3> QED
      BY <1>8, <3>4 DEF LoadEvalKeys, TypeOK
  <2>5. \A u \in Tag : table'["mult"][u] \subseteq {Relin} /\ table'["automorphism"][u] \subseteq Index
    BY <2>2, <2>3 DEF TablesApart, Slots, Tables
  <2>6. \A u \in Tag : u \notin made' => table'["mult"][u] = {} /\ table'["automorphism"][u] = {}
    BY <1>8, <2>2, <2>3 DEF LoadEvalKeys, TablesApart, Tables
  <2>7. FilesFit'
    BY <1>8, FilesKeepFitting DEF LoadEvalKeys
  <2> QED
    BY <2>4, <2>5, <2>6, <2>7 DEF TablesApart
<1>9. ASSUME NEW f \in File, NEW format \in Formats, LoadSecret(f, format) PROVE IInv'
  <2>1. disk[f].body \in made
    BY <1>9 DEF LoadSecret, Loads, FilesFit, Fits
  <2>2. TypeOK'
    BY <1>9, <2>1 DEF LoadSecret, TypeOK
  <2>3. TablesApart'
    BY <1>9 DEF LoadSecret, TablesApart
  <2> QED
    BY <1>9, <2>2, <2>3, FilesKeepFitting DEF LoadSecret
<1>10. CASE UNCHANGED vars
  <2>1. TypeOK' /\ TablesApart'
    BY <1>10 DEF vars, TypeOK, TablesApart
  <2> QED
    BY <1>10, <2>1, FilesKeepFitting DEF vars
<1> QED
  BY <1>1, <1>2, <1>3, <1>4, <1>5, <1>6, <1>7, <1>8, <1>9, <1>10 DEF Next

(* The strengthened invariant: it holds in every reachable state of the    *)
(* checkpoint model, whatever fails and whenever the process ends.         *)
THEOREM Invariance == Spec => []IInv
BY InitIInv, NextIInv, PTL DEF Spec

(* Sessions, tables, files and acknowledgements are well typed.            *)
THEOREM TypeCorrect == Spec => []TypeOK
<1>1. IInv => TypeOK
  BY DEF IInv
<1> QED
  BY <1>1, Invariance, PTL

(* Keys of the two tables, and of secrets nobody generated, never mix,     *)
(* however many sessions save and load.                                    *)
THEOREM TablesStayApart == Spec => []TablesApart
<1>1. IInv => TablesApart
  BY DEF IInv
<1> QED
  BY <1>1, Invariance, PTL
----------------------------------------------------------------------------
(* Binary saves under any faults: a fault that the archive does not notice *)
(* is the close that fails after everything was checked, and then the file *)
(* is torn and counted as lost.                                            *)
OnlyBinary == Formats \subseteq {"binary"}

LEMMA AckedSave ==
  ASSUME TypeOK, AckedLoadsRight, OnlyBinary, NEW f \in File, NEW c,
         NEW format \in Formats, NEW fault \in Faults \cup {"none"}, NEW flt, NEW a,
         a # None => flt = fault /\ ~Noticed(format, fault) /\ a = c,
         disk' = [disk EXCEPT ![f] = Written(f, flt, c)],
         Reports(f, a, fault)
  PROVE  AckedLoadsRight'
<1>1. a # None => Written(f, flt, c) = IF fault = "late" THEN Torn ELSE c
  BY FaultAssumption DEF OnlyBinary, Noticed, Written
<1>2. \A g \in File : /\ acked'[g] = IF g = f THEN a ELSE acked[g]
                      /\ disk'[g] = IF g = f THEN Written(f, flt, c) ELSE disk[g]
  BY DEF TypeOK, Reports
<1>3. a # None => (f \in lost' <=> fault = "late")
  BY DEF Reports
<1>4. \A g \in File \ {f} : g \in lost' <=> g \in lost
  BY DEF Reports
<1> QED
  BY <1>1, <1>2, <1>3, <1>4 DEF AckedLoadsRight

(* A binary save that serialize_eval_keys() or fhe_serialize() reported as *)
(* done is what a later load finds, or its close failed and a later load   *)
(* is an error; an older checkpoint is never taken for it.                 *)
THEOREM AcknowledgedSavesRestore ==
  ASSUME OnlyBinary
  PROVE  Spec => []AckedLoadsRight
<1>1. Init => AckedLoadsRight
  BY DEF Init, AckedLoadsRight
<1>2. TypeOK /\ AckedLoadsRight /\ [Next]_vars => AckedLoadsRight'
  <2> SUFFICES ASSUME TypeOK, AckedLoadsRight, [Next]_vars PROVE AckedLoadsRight'
    OBVIOUS
  <2>1. ASSUME NEW f \in File, NEW type \in Types, NEW format \in Formats,
               NEW tag \in Tag \cup {AllTags}, NEW fault \in Faults \cup {"none"},
               SaveEvalKeys(f, type, format, tag, fault)
        PROVE  AckedLoadsRight'
    <3> DEFINE k == TableOf(type)
               c == [kind |-> k, format |-> format, body |-> Selected(k, tag)]
               missing == tag # AllTags /\ table[k][tag] = {}
               flt == IF missing /\ fault # "unopened" THEN "full" ELSE fault
               a == IF missing \/ Noticed(format, fault) THEN None ELSE c
    <3>1. a # None => flt = fault /\ ~Noticed(format, fault) /\ a = c
      OBVIOUS
    <3>2. /\ disk' = [disk EXCEPT ![f] = Written(f, flt, c)]
          /\ Reports(f, a, fault)
      BY <2>1 DEF SaveEvalKeys
    <3> HIDE DEF c, flt, a
    <3> QED
      BY <3>1, <3>2, AckedSave
  <2>2. ASSUME NEW f \in File, NEW t \in Tag, NEW format \in Formats,
               NEW fault \in Faults \cup {"none"}, SaveSecret(f, t, format, fault)
        PROVE  AckedLoadsRight'
    <3> DEFINE c == [kind |-> "secret", format |-> format, body |-> t]
               a == IF fault = "unopened" \/ Noticed(format, fault) THEN None ELSE c
    <3>1. a # None => fault = fault /\ ~Noticed(format, fault) /\ a = c
      OBVIOUS
    <3>2. /\ disk' = [disk EXCEPT ![f] = Written(f, fault, c)]
          /\ Reports(f, a, fault)
      BY <2>2 DEF SaveSecret
    <3> HIDE DEF c, a
    <3> QED
      BY <3>1, <3>2, AckedSave
  <2>3. ASSUME NEW f \in File, SaveCutShort(f) PROVE AckedLoadsRight'
    BY <2>3 DEF SaveCutShort, AckedLoadsRight, TypeOK
  <2>4. CASE UNCHANGED <<disk, acked, lost>>
    BY <2>4 DEF AckedLoadsRight
  <2> QED
    BY <2>1, <2>2, <2>3, <2>4
       DEF Next, vars, KeyGen, Generate, Clear, Restart, LoadEvalKeys, LoadSecret
<1> QED
  BY <1>1, <1>2, TypeCorrect, PTL DEF Spec

(* No call takes away part of a tag's keys: a load adds, a clear takes all.*)
THEOREM LoadsTakeNothing == Spec => LoadsOnlyAdd
<1> DEFINE TakesNothing == \A k \in Tables, t \in Tag :
                             table[k][t] \subseteq table'[k][t] \/ table'[k][t] = {}
<1>1. TypeOK /\ [Next]_vars => TakesNothing
  <2> SUFFICES ASSUME TypeOK, [Next]_vars PROVE TakesNothing
    OBVIOUS
  <2>0. table \in [Tables -> [Tag -> SUBSET (Index \cup {Relin})]]
    BY DEF TypeOK
  <2>1. ASSUME NEW k \in Tables, NEW t \in Tag, NEW S \in SUBSET Slots(k), Generate(k, t, S)
        PROVE  TakesNothing
    BY <2>0, <2>1 DEF Generate
  <2>2. ASSUME NEW k \in Tables, NEW tag \in Tag \cup {AllTags}, Clear(k, tag) PROVE TakesNothing
    BY <2>0, <2>2 DEF Clear
  <2>3. CASE table' = NoKeys
    BY <2>3 DEF NoKeys
  <2>4. ASSUME NEW f \in File, NEW type \in Types, NEW format \in Formats,
               LoadEvalKeys(f, type, format)
        PROVE  TakesNothing
    <3>1. PICK k \in Tables : k = TableOf(type)
      BY DEF TableOf, Types, Tables
    <3>2. table' = [table EXCEPT ![k] = [t \in Tag |-> table[k][t] \cup disk[f].body[t]]]
      BY <2>0, <2>4, <3>1 DEF LoadEvalKeys
    <3>3. \A t \in Tag : table[k][t] \subseteq table'[k][t]
      BY <2>0, <3>2
    <3>4. \A j \in Tables \ {k} : table'[j] = table[j]
      BY <2>0, <3>2
    <3> QED
      BY <3>3, <3>4
  <2>5. CASE UNCHANGED table
    BY <2>5
  <2> QED
    BY <2>1, <2>2, <2>3, <2>4, <2>5
       DEF Next, vars, KeyGen, Restart, SaveEvalKeys, SaveSecret, SaveCutShort, LoadSecret, session
<1> QED
  BY <1>1, TypeCorrect, PTL DEF Spec, LoadsOnlyAdd
----------------------------------------------------------------------------
(* The checkpoints implement DurableKeys.  The keys of a table go as the   *)
(* slots under its tags go.                                                *)
LEMMA InTableIs ==
  ASSUME NEW k, NEW body, NEW x
  PROVE  x \in InTable(k, body) <=> \E t, i : t \in Tag /\ i \in body[t] /\ x = <<k, t, i>>
  BY DEF InTable

LEMMA InTableGrows ==
  ASSUME NEW k, NEW a, NEW b, \A t \in Tag : a[t] \subseteq b[t]
  PROVE  InTable(k, a) \subseteq InTable(k, b)
  BY InTableIs

LEMMA InTableAdds ==
  ASSUME NEW k, NEW a, NEW b, NEW c, \A t \in Tag : c[t] = a[t] \cup b[t]
  PROVE  InTable(k, c) = InTable(k, a) \cup InTable(k, b)
  BY InTableIs

LEMMA InTableOf ==
  ASSUME NEW k \in Tables, NEW T, NEW body,
         \A t \in Tag : body[t] \subseteq Index \cup {Relin} /\ (t \notin T => body[t] = {})
  PROVE  InTable(k, body) \subseteq Durable!KeysOf(T)
<1> SUFFICES ASSUME NEW x \in InTable(k, body) PROVE x \in Durable!KeysOf(T)
  OBVIOUS
<1>1. PICK t, i : t \in Tag /\ i \in body[t] /\ x = <<k, t, i>>
  BY InTableIs
<1>2. t \in T /\ i \in Index \cup {Relin}
  BY <1>1
<1> QED BY <1>1, <1>2 DEF Durable!KeysOf

(* A step that changes one of the tables.                                  *)
LEMMA TableChange ==
  ASSUME TypeOK, NEW k \in Tables, NEW b, table' = [table EXCEPT ![k] = b], UNCHANGED held
  PROVE  /\ InTable(k, table[k]) \subseteq InTable(k, b) => Live \subseteq Live'
         /\ \A S : InTable(k, b) \subseteq InTable(k, table[k]) \cup S => Live' \subseteq Live \cup S
<1>1. \A j \in Tables : table'[j] = IF j = k THEN b ELSE table[j]
  BY DEF TypeOK
<1>2. k \in {"mult", "automorphism"}
  BY DEF Tables
<1>3. CASE k = "mult"
  BY <1>1, <1>3 DEF Live, Tables
<1>4. CASE k = "automorphism"
  BY <1>1, <1>4 DEF Live, Tables
<1> QED BY <1>2, <1>3, <1>4

(* A session that ends has no keys.                                        *)
LEMMA LiveGone == ASSUME held' = {}, table' = NoKeys PROVE Live' = {}
<1>1. Secrets({}) = {}
  BY DEF Secrets
<1>2. \A k \in Tables : InTable(k, NoKeys[k]) = {}
  BY InTableIs DEF NoKeys
<1> QED BY <1>1, <1>2 DEF Live, Tables

(* What is promised of a file by an acknowledgement, and by none.          *)
LEMMA KeptChange ==
  ASSUME TypeOK, NEW f \in File, NEW a, acked' = [acked EXCEPT ![f] = a],
         lost' \ {f} = lost \ {f}
  PROVE  /\ a = None \/ f \in lost' => Kept' = [Kept EXCEPT ![f] = {}]
         /\ a # None /\ f \notin lost' =>
              Kept' = [Kept EXCEPT ![f] = {KeysIn(a)}] /\ Kept'[f] = {KeysIn(a)}
<1>1. acked'[f] = a /\ \A g \in File \ {f} : acked'[g] = acked[g] /\ (g \in lost' <=> g \in lost)
  BY DEF TypeOK
<1> QED BY <1>1 DEF Kept, KeysIn

(* A save, of keys the session has, that is acknowledged or not, and whose *)
(* close fails or not.                                                     *)
LEMMA SaveIsStep ==
  ASSUME TypeOK, NEW f \in File, NEW a, NEW g, Reports(f, a, g),
         a # None => KeysIn(a) \subseteq Live, UNCHANGED session
  PROVE  Durable!DNext
<1>0. acked' = [acked EXCEPT ![f] = a] /\ lost' \ {f} = lost \ {f}
  BY DEF Reports
<1>1. UNCHANGED <<made, Live>>
  BY DEF session, Live
<1>2. CASE a = None
  <2>1. lost' = lost \ {f}
    BY <1>2 DEF Reports
  <2>2. Durable!Break(f)
    BY <1>0, <1>1, <1>2, <2>1, KeptChange DEF Durable!Break
  <2> QED BY <2>2 DEF Durable!DNext
<1>3. CASE a # None /\ g = "late"
  <2>1. lost' = lost \cup {f}
    BY <1>3 DEF Reports
  <2>2. Durable!Spoil(f)
    BY <1>0, <1>1, <2>1, KeptChange DEF Durable!Spoil
  <2> QED BY <2>2 DEF Durable!DNext
<1>4. CASE a # None /\ g # "late"
  <2>1. lost' = lost \ {f}
    BY <1>4 DEF Reports
  <2>2. Durable!Keep(f)
    BY <1>0, <1>1, <1>4, <2>1, KeptChange DEF Durable!Keep
  <2> QED BY <2>2 DEF Durable!DNext
<1> QED BY <1>2, <1>3, <1>4

(* A load adds what the file holds, and that is what it stands for.        *)
LEMMA LoadIsStep ==
  ASSUME IInv, AckedLoadsRight, NEW f \in File, disk[f] \in Contents,
         Live' = Live \cup KeysIn(disk[f]), UNCHANGED <<made, acked, lost>>
  PROVE  Durable!DNext
<1>1. Kept' = Kept
  BY DEF Kept, KeysIn
<1>0. f \notin lost
  BY FileAssumption DEF IInv, TypeOK, AckedLoadsRight
<1>2. CASE acked[f] # None
  <2>1. Kept[f] = {KeysIn(disk[f])}
    BY <1>0, <1>2 DEF Kept, AckedLoadsRight
  <2>2. Durable!Restore(f)
    BY <1>0, <1>1, <2>1 DEF Durable!Restore, Durable!files
  <2> QED BY <2>2 DEF Durable!DNext
<1>3. CASE acked[f] = None
  <2>1. Kept[f] = {}
    BY <1>3 DEF Kept
  <2>2. KeysIn(disk[f]) \subseteq Durable!KeysOf(made)
    <3>1. CASE disk[f].kind = "secret"
      <4>1. disk[f].body \in made
        BY <3>1 DEF IInv, FilesFit, Fits
      <4> QED BY <3>1, <4>1 DEF KeysIn, Secrets, Durable!KeysOf, Durable!Secret
    <3>2. CASE disk[f].kind # "secret"
      <4>1. disk[f] \in KeyFiles /\ disk[f].kind \in Tables
        BY <3>2 DEF Contents, KeyFiles, SecretFiles
      <4>2. \A t \in Tag : /\ disk[f].body[t] \subseteq Index \cup {Relin}
                           /\ t \notin made => disk[f].body[t] = {}
        BY <4>1 DEF IInv, FilesFit, Fits, KeyFiles
      <4> QED BY <3>2, <4>1, <4>2, InTableOf DEF KeysIn
    <3> QED BY <3>1, <3>2
  <2>3. Durable!Restore(f)
    BY <1>0, <1>1, <2>1, <2>2 DEF Durable!Restore, Durable!Gains, Durable!files
  <2> QED BY <2>3 DEF Durable!DNext
<1> QED BY <1>2, <1>3

LEMMA DurableStep ==
  IInv /\ AckedLoadsRight /\ [Next]_vars => [Durable!DNext]_(Durable!dvars)
<1> SUFFICES ASSUME IInv, AckedLoadsRight, [Next]_vars
             PROVE  Durable!DNext \/ UNCHANGED Durable!dvars
  OBVIOUS
<1>0. TypeOK /\ table \in [Tables -> [Tag -> SUBSET (Index \cup {Relin})]]
  BY DEF IInv, TypeOK
<1>1. ASSUME NEW t \in Tag, KeyGen(t) PROVE Durable!DNext
  <2>1. Live' = Live \cup {Durable!Secret(t)}
    BY <1>1 DEF KeyGen, Live, Secrets, Durable!Secret
  <2>2. Kept' = Kept
    BY <1>1 DEF KeyGen, Kept, KeysIn
  <2>3. Durable!DKeyGen(t)
    BY <1>1, <2>1, <2>2 DEF KeyGen, Durable!DKeyGen, Durable!files
  <2> QED BY <2>3 DEF Durable!DNext
<1>2. ASSUME NEW k \in Tables, NEW t \in Tag, NEW S \in SUBSET Slots(k), Generate(k, t, S)
      PROVE  Durable!DNext
  <2> DEFINE b == [table[k] EXCEPT ![t] = @ \cup S]
  <2>1. table' = [table EXCEPT ![k] = b] /\ S \subseteq Index \cup {Relin}
    BY <1>0, <1>2 DEF Generate, Slots
  <2>2. \A u \in Tag : b[u] = IF u = t THEN table[k][u] \cup S ELSE table[k][u]
    BY <1>0
  <2> HIDE DEF b
  <2>3. InTable(k, table[k]) \subseteq InTable(k, b)
    BY <2>2, InTableGrows
  <2>4. InTable(k, b) \subseteq InTable(k, table[k]) \cup Durable!KeysOf({t})
    <3> SUFFICES ASSUME NEW x \in InTable(k, b), x \notin InTable(k, table[k])
                 PROVE  x \in Durable!KeysOf({t})
      OBVIOUS
    <3>1. PICK u, i : u \in Tag /\ i \in b[u] /\ x = <<k, u, i>>
      BY InTableIs
    <3>2. i \notin table[k][u]
      BY <3>1, InTableIs
    <3>3. u = t /\ i \in S
      BY <2>2, <3>1, <3>2
    <3> QED BY <2>1, <3>1, <3>3 DEF Durable!KeysOf
  <2>5. Durable!Gains({t})
    BY <1>0, <1>2, <2>1, <2>3, <2>4, TableChange DEF Generate, Durable!Gains
  <2>6. Durable!Secret(t) \in Live
    BY <1>2 DEF Generate, Live, Secrets, Durable!Secret
  <2>7. Kept' = Kept
    BY <1>2 DEF Generate, Kept, KeysIn
  <2>8. Durable!DGenerate(t)
    BY <1>2, <2>5, <2>6, <2>7 DEF Generate, Durable!DGenerate, Durable!files
  <2> QED BY <2>8 DEF Durable!DNext
<1>3. ASSUME NEW k \in Tables, NEW tag \in Tag \cup {AllTags}, Clear(k, tag)
      PROVE  Durable!DNext
  <2> DEFINE b == [t \in Tag |-> IF tag \in {t, AllTags} THEN {} ELSE table[k][t]]
  <2>1. table' = [table EXCEPT ![k] = b]
    BY <1>0, <1>3 DEF Clear
  <2>2. \A t \in Tag : b[t] \subseteq table[k][t]
    OBVIOUS
  <2> HIDE DEF b
  <2>3. InTable(k, b) \subseteq InTable(k, table[k]) \cup {}
    BY <2>2, InTableGrows
  <2>4. Live' \subseteq Live
    BY <1>0, <1>3, <2>1, <2>3, TableChange DEF Clear
  <2>5. Kept' = Kept
    BY <1>3 DEF Clear, Kept, KeysIn
  <2> QED BY <1>3, <2>4, <2>5 DEF Clear, Durable!Forget, Durable!files, Durable!DNext
<1>4. CASE Restart
  <2>1. Live' = {}
    BY <1>4, LiveGone DEF Restart
  <2>2. Kept' = Kept
    BY <1>4 DEF Restart, Kept, KeysIn
  <2> QED BY <1>4, <2>1, <2>2 DEF Restart, Durable!Forget, Durable!files, Durable!DNext
<1>5. ASSUME NEW f \in File, NEW type \in Types, NEW format \in Formats, NEW tag \in Tag \cup {AllTags},
             NEW fault \in Faults \cup {"none"}, SaveEvalKeys(f, type, format, tag, fault)
      PROVE  Durable!DNext
  <2> DEFINE k == TableOf(type)
             c == [kind |-> k, format |-> format, body |-> Selected(k, tag)]
             a == IF (tag # AllTags /\ table[k][tag] = {}) \/ Noticed(format, fault)
                    THEN None ELSE c
  <2>1. Reports(f, a, fault) /\ UNCHANGED session
    BY <1>5 DEF SaveEvalKeys
  <2>2. k \in Tables
    BY DEF TableOf, Types, Tables
  <2>3. KeysIn(c) = InTable(k, Selected(k, tag))
    BY <2>2 DEF KeysIn, Tables
  <2>4. \A t \in Tag : Selected(k, tag)[t] \subseteq table[k][t]
    BY DEF Selected
  <2>5. InTable(k, Selected(k, tag)) \subseteq InTable(k, table[k])
    BY <2>4, InTableGrows
  <2>6. InTable(k, table[k]) \subseteq Live
    BY <2>2 DEF Live, Tables
  <2>7. a # None => KeysIn(a) \subseteq Live
    BY <2>3, <2>5, <2>6
  <2> HIDE DEF a
  <2> QED BY <1>0, <2>1, <2>7, SaveIsStep
<1>6. ASSUME NEW f \in File, NEW t \in Tag, NEW format \in Formats,
             NEW fault \in Faults \cup {"none"}, SaveSecret(f, t, format, fault)
      PROVE  Durable!DNext
  <2> DEFINE c == [kind |-> "secret", format |-> format, body |-> t]
             a == IF fault = "unopened" \/ Noticed(format, fault) THEN None ELSE c
  <2>1. Reports(f, a, fault) /\ UNCHANGED session
    BY <1>6 DEF SaveSecret
  <2>2. KeysIn(c) = Secrets({t}) /\ Secrets({t}) \subseteq Live
    BY <1>6 DEF SaveSecret, KeysIn, Secrets, Live
  <2>3. a # None => KeysIn(a) \subseteq Live
    BY <2>2
  <2> HIDE DEF a
  <2> QED BY <1>0, <2>1, <2>3, SaveIsStep
<1>7. ASSUME NEW f \in File, SaveCutShort(f) PROVE Durable!DNext
  <2>1. Live' = {}
    BY <1>7, LiveGone DEF SaveCutShort
  <2>2. Kept' = [Kept EXCEPT ![f] = {}]
    <3>1. lost' \ {f} = lost \ {f}
      BY <1>7 DEF SaveCutShort
    <3> QED BY <1>0, <1>7, <3>1, KeptChange DEF SaveCutShort
  <2>3. Durable!Break(f)
    BY <1>7, <2>1, <2>2 DEF SaveCutShort, Durable!Break
  <2> QED BY <2>3 DEF Durable!DNext
<1>8. ASSUME NEW f \in File, NEW type \in Types, NEW format \in Formats, LoadEvalKeys(f, type, format)
      PROVE  Durable!DNext
  <2>1. PICK k \in Tables : k = TableOf(type)
    BY DEF TableOf, Types, Tables
  <2> DEFINE b == [t \in Tag |-> table[k][t] \cup disk[f].body[t]]
  <2>2. table' = [table EXCEPT ![k] = b] /\ disk[f] \in Contents /\ disk[f].kind = k
    BY <1>0, <1>8, <2>1 DEF LoadEvalKeys, Loads
  <2>3. InTable(k, b) = InTable(k, table[k]) \cup InTable(k, disk[f].body)
    BY InTableAdds
  <2> HIDE DEF b
  <2>4. KeysIn(disk[f]) = InTable(k, disk[f].body)
    BY <2>2 DEF KeysIn, Tables
  <2>5. table'[k] = b /\ \A j \in Tables \ {k} : table'[j] = table[j]
    BY <1>0, <2>2
  <2>6. Live' = Live \cup KeysIn(disk[f])
    <3>1. held' = held
      BY <1>8 DEF LoadEvalKeys
    <3>2. InTable(k, table'[k]) = InTable(k, table[k]) \cup KeysIn(disk[f])
      BY <2>3, <2>4, <2>5
    <3>3. CASE k = "mult"
      BY <2>5, <3>1, <3>2, <3>3 DEF Live, Tables
    <3>4. CASE k = "automorphism"
      BY <2>5, <3>1, <3>2, <3>4 DEF Live, Tables
    <3> QED BY <3>3, <3>4 DEF Tables
  <2> QED BY <1>8, <2>2, <2>6, LoadIsStep DEF LoadEvalKeys
<1>9. ASSUME NEW f \in File, NEW format \in Formats, LoadSecret(f, format) PROVE Durable!DNext
  <2>1. disk[f] \in Contents /\ disk[f].kind = "secret"
    BY <1>9 DEF LoadSecret, Loads
  <2>2. Live' = Live \cup KeysIn(disk[f])
    BY <1>9, <2>1 DEF LoadSecret, Live, KeysIn, Secrets
  <2> QED BY <1>9, <2>1, <2>2, LoadIsStep DEF LoadSecret
<1>10. CASE UNCHANGED vars
  BY <1>10 DEF vars, Durable!dvars, Live, Kept, KeysIn
<1> QED
  BY <1>1, <1>2, <1>3, <1>4, <1>5, <1>6, <1>7, <1>8, <1>9, <1>10 DEF Next

(* Binary files are those of DurableKeys, through any failures and any     *)
(* number of sessions.                                                     *)
THEOREM Implementation ==
  ASSUME OnlyBinary
  PROVE  Spec => ImplementsDurable
<1>1. Init => Durable!DInit
  <2>1. Secrets({}) = {}
    BY DEF Secrets
  <2>2. \A k \in Tables : InTable(k, NoKeys[k]) = {}
    BY InTableIs DEF NoKeys
  <2> QED BY <2>1, <2>2 DEF Init, Durable!DInit, Live, Kept, Tables
<1>2. Spec => []AckedLoadsRight
  BY AcknowledgedSavesRestore
<1> QED BY <1>1, <1>2, DurableStep, Invariance, PTL
        DEF Spec, ImplementsDurable, Durable!DSpec
============================================================================

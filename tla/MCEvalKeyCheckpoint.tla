------------------------ MODULE MCEvalKeyCheckpoint ------------------------
EXTENDS EvalKeyCheckpoint, TLC

Symmetry == Permutations(Tag) \cup Permutations(File) \cup Permutations(Index)

(* What a save whose close failed was to write is read by no step, and of  *)
(* the properties by AckedIsRestorable only, which the run with this view  *)
(* does not check: states that differ in nothing else are one.             *)
View ==
  <<made, held, table, disk, lost, [f \in File |-> IF f \in lost THEN Torn ELSE acked[f]]>>
============================================================================

-------------------------- MODULE MCEvalKeyRegistry --------------------------
EXTENDS EvalKeyRegistry

(* States are told apart by what a later call can find.  The addresses of  *)
(* map objects do not count: an object is what it holds, the handle on it  *)
(* and the tags it is registered under, and with two objects the set of    *)
(* these descriptions says what both are.  Nor does it count what an       *)
(* object held last that nothing refers to, as it is filled before it is   *)
(* used again.  Two states with one view take the same calls to states     *)
(* with one view, and no property tells them apart.                        *)
Content(m) == IF Free(m) THEN Empty ELSE heap[m]
Described == {<<Content(m), handle[m], {t \in Tag : aut[t] = m}>> : m \in MapId}
Reachable == <<skTag, mult, Described, depth, history>>
============================================================================

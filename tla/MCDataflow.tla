----------------------------- MODULE MCDataflow -----------------------------
(* Model-checking instances of Dataflow.                                   *)
EXTENDS Dataflow, TLC

(* Variables of one kind are interchangeable: no action names one.         *)
Symmetry ==
  Permutations(Globals) \cup Permutations(Locals) \cup Permutations(Enclosing)
=============================================================================

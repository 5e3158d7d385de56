----------------------------- MODULE MCBacktrace -----------------------------
(* Model-checking instances of Backtrace.                                  *)
EXTENDS Backtrace, TLC

(* No action prefers one name to another.                                  *)
Symmetry == Permutations(Names)
=============================================================================

----------------------------- MODULE MCInterproc -----------------------------
(* Model-checking instances of Interproc.                                  *)
EXTENDS Interproc, TLC

CONSTANTS p, q, x, g
Names2 == <<p, q>>
Shadowed == {g, p}   \* a global, and one that a parameter hides
State == {p, x}      \* an analysed body with one parameter

(* No step from a state that is blind: it stays so, and nothing is claimed.*)
Seen == ~blind
=============================================================================

----------------------------- MODULE MCCallOrder -----------------------------
(* Model-checking instances of CallOrder.                                  *)
EXTENDS CallOrder

CONSTANTS f, g, h
DeclaredNames == <<f, g, h>>
=============================================================================

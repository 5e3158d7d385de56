------------------------------- MODULE MCNames -------------------------------
(* Model-checking instances of Names.                                      *)
EXTENDS Names, TLC

(* No action and no property tells two names apart.                        *)
Symmetry == Permutations(Idents)
=============================================================================

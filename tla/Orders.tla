-------------------------------- MODULE Orders --------------------------------
(***************************************************************************)
(* Sequences put in order: Python's sorted over a list, and the            *)
(* comprehensions that keep some of its members where they are.            *)
(***************************************************************************)
EXTENDS Naturals, FiniteSets

(* The members of ws at the positions S, in the order R of them.           *)
Arranged(ws, S, R) ==
  [k \in 1 .. Cardinality(S) |->
     ws[CHOOSE n \in S : Cardinality({m \in S : m = n \/ <<m, n>> \in R}) = k]]

Ascending(S) == {p \in S \X S : p[1] < p[2]}

(* The members of ws that P holds of.                                      *)
Where(ws, P(_)) ==
  LET S == {n \in DOMAIN ws : P(ws[n])} IN Arranged(ws, S, Ascending(S))
===============================================================================

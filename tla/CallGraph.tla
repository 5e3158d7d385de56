------------------------------ MODULE CallGraph ------------------------------
(***************************************************************************)
(* Call graphs as segmsan/backtrace.py keeps them: a dictionary from the   *)
(* name of a procedure to the set of names its body calls.  A name that is *)
(* called and never declared (a system procedure) has no entry.            *)
(***************************************************************************)
EXTENDS Naturals, Sequences, FiniteSets

CONSTANT Names      \* upper-cased procedure names

(* graph.get(n, set())                                                     *)
Callees(g, n) == IF n \in DOMAIN g THEN g[n] ELSE {}

(* reverse_graph.get(n, set())                                             *)
Callers(g, n) == {m \in DOMAIN g : n \in g[m]}

(* Declared, or called by somebody.                                        *)
Known(g, w) == w \in DOMAIN g \/ \E m \in DOMAIN g : w \in g[m]

(* graph[n] = C: a later declaration of n replaces an earlier one.         *)
WithProc(g, n, C) == [m \in DOMAIN g \cup {n} |-> IF m = n THEN C ELSE g[m]]

-----------------------------------------------------------------------------
(* The reference: paths and reachability.                                  *)

(* Each frame is called by the frame before it.                            *)
IsCallPath(g, p) ==
  \A i \in 1 .. Len(p) - 1 : p[i + 1] \in Callees(g, p[i])

(* t is called from s, directly or not: it belongs to every set that       *)
(* contains the callees of s and the callees of its own members.           *)
Reaches(g, s, t) ==
  \A S \in SUBSET Names :
     /\ Callees(g, s) \subseteq S
     /\ \A n \in S : Callees(g, n) \subseteq S
     => t \in S
=============================================================================

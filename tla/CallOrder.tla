------------------------------ MODULE CallOrder ------------------------------
(***************************************************************************)
(* The two depth-first searches of CallGraph in segmsan/interproc.py:      *)
(* _detect_recursion marks every procedure that calls itself through       *)
(* whatever chain, topological_order lists every name after its callees.   *)
(* Both are recursive Python functions over a shared visited set; here a   *)
(* step is one round of the loop over the callees of the innermost call,   *)
(* and the recursion is the explicit "stack".                              *)
(***************************************************************************)
EXTENDS CallGraph, SequencesExt

CONSTANTS
  Declared,   \* the keys of CallGraph.summaries, in insertion order
  MaxOut,     \* bound: calls in one body
  MaxCalls    \* bound: calls in all bodies

Known1 == {Declared[i] : i \in DOMAIN Declared}

ASSUME CallOrderAssumption ==
  /\ IsFiniteSet(Names)
  /\ Declared \in Seq(Names)
  /\ \A i, j \in DOMAIN Declared : Declared[i] = Declared[j] => i = j
  /\ MaxOut \in Nat /\ MaxCalls \in Nat

VARIABLES
  calls,      \* ProcSummary.calls of each declared procedure, in order
  phase,      \* which of the two functions runs
  root,       \* index in Declared of the name its loop is at
  stack,      \* calls of _reaches or visit: <<name, next callee>>
  visited,
  recursive,  \* the names with is_recursive
  order       \* topological_order's result

vars == <<calls, phase, root, stack, visited, recursive, order>>

Init ==
  /\ calls \in [Known1 -> SeqOf(Names, MaxOut)]
  /\ FoldFunction(LAMBDA s, n : Len(s) + n, 0, calls) <= MaxCalls
  /\ phase = "recursion" /\ root = 1
  /\ stack = <<>> /\ visited = {}
  /\ recursive = {} /\ order = <<>>

-----------------------------------------------------------------------------
CalleesOf(n) == IF n \in Known1 THEN calls[n] ELSE <<>>

Frame == Last(stack)
Caller == Frame[1]
Callee == CalleesOf(Caller)[Frame[2]]
HasCallee == stack # <<>> /\ Frame[2] <= Len(CalleesOf(Caller))
Exhausted == stack # <<>> /\ ~HasCallee

NextCallee == Append(Front(stack), <<Caller, Frame[2] + 1>>)

(* Variant: visited is shared by the searches of all targets.              *)
StartSearchShared ==
  /\ phase = "recursion" /\ stack = <<>> /\ root <= Len(Declared)
  /\ stack' = <<<<Declared[root], 1>>>>
  /\ visited' = visited \cup {Declared[root]}
  /\ UNCHANGED <<calls, phase, root, recursive, order>>

(* The outer loop takes the next name; visited is fresh for every target   *)
(* of _reaches.                                                            *)
StartSearch ==
  /\ phase = "recursion" /\ stack = <<>> /\ root <= Len(Declared)
  /\ stack' = <<<<Declared[root], 1>>>>
  /\ visited' = {Declared[root]}
  /\ UNCHANGED <<calls, phase, root, recursive, order>>

(* callee == target: True is returned through every frame.                 *)
FoundTarget ==
  /\ phase = "recursion" /\ HasCallee /\ Callee = Declared[root]
  /\ recursive' = recursive \cup {Callee}
  /\ stack' = <<>> /\ root' = root + 1
  /\ UNCHANGED <<calls, phase, visited, order>>

(* Variant: the loop does not move past a visited callee.                  *)
DescendStuck ==
  /\ HasCallee
  /\ phase = "recursion" => Callee # Declared[root]
  /\ visited' = visited \cup {Callee}
  /\ stack' = IF Callee \in visited THEN stack
              ELSE Append(NextCallee, <<Callee, 1>>)
  /\ UNCHANGED <<calls, phase, root, recursive, order>>

(* The next callee is entered, or was visited and answers at once.         *)
Descend ==
  /\ HasCallee
  /\ phase = "recursion" => Callee # Declared[root]
  /\ visited' = visited \cup {Callee}
  /\ stack' = IF Callee \in visited THEN NextCallee
              ELSE Append(NextCallee, <<Callee, 1>>)
  /\ UNCHANGED <<calls, phase, root, recursive, order>>

(* No callee is left: _reaches returns False.                              *)
NotFound ==
  /\ phase = "recursion" /\ Exhausted
  /\ stack' = Front(stack)
  /\ root' = IF Len(stack) = 1 THEN root + 1 ELSE root
  /\ UNCHANGED <<calls, phase, visited, recursive, order>>

(* topological_order begins, with one visited set for all names.           *)
Sort ==
  /\ phase = "recursion" /\ stack = <<>> /\ root > Len(Declared)
  /\ phase' = "order" /\ root' = 1 /\ visited' = {}
  /\ UNCHANGED <<calls, stack, recursive, order>>

Visit ==
  /\ phase = "order" /\ stack = <<>> /\ root <= Len(Declared)
  /\ stack' = IF Declared[root] \in visited THEN <<>>
              ELSE <<<<Declared[root], 1>>>>
  /\ visited' = visited \cup {Declared[root]}
  /\ root' = root + 1
  /\ UNCHANGED <<calls, phase, recursive, order>>

(* Variant: a name is put in front of the names listed before it.          *)
LeaveInFront ==
  /\ phase = "order" /\ Exhausted
  /\ stack' = Front(stack)
  /\ order' = <<Caller>> \o order
  /\ UNCHANGED <<calls, phase, root, visited, recursive>>

(* visit returns: every callee has been visited.                           *)
Leave ==
  /\ phase = "order" /\ Exhausted
  /\ stack' = Front(stack)
  /\ order' = Append(order, Caller)
  /\ UNCHANGED <<calls, phase, root, visited, recursive>>

Finish ==
  /\ phase = "order" /\ stack = <<>> /\ root > Len(Declared)
  /\ phase' = "done"
  /\ UNCHANGED <<calls, root, stack, visited, recursive, order>>

Next == \/ StartSearch \/ FoundTarget \/ Descend \/ NotFound
        \/ Sort \/ Visit \/ Leave \/ Finish

Spec == Init /\ [][Next]_vars /\ WF_vars(Next)

-----------------------------------------------------------------------------
Graph == [n \in Known1 |-> ToSet(calls[n])]

(* A procedure is marked recursive exactly when some chain of calls leads  *)
(* from it back to it, although one visited set cuts every search short    *)
(* (_detect_recursion, _reaches).                                          *)
RecursionExact ==
  \A i \in 1 .. Len(Declared) :
     (phase # "recursion" \/ i < root) =>
        (Declared[i] \in recursive <=> Reaches(Graph, Declared[i], Declared[i]))

(* Every name, called or declared, is listed once, and a callee stands     *)
(* before its caller unless it calls it back (topological_order).          *)
CalleesFirst ==
  phase = "done" =>
    /\ IsInjective(order)
    /\ ToSet(order) = Known1 \cup UNION {Graph[n] : n \in Known1}
    /\ \A i, j \in DOMAIN order :
         (i < j /\ order[j] \in Callees(Graph, order[i]))
            => Reaches(Graph, order[j], order[i])

(* Both searches end, on cyclic call graphs too.                           *)
SearchesEnd == <>(phase = "done")
=============================================================================

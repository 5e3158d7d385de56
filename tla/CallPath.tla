------------------------------ MODULE CallPath -------------------------------
(***************************************************************************)
(* What a backtrace request gets, with no word on how the answer is found: *)
(* procedures are declared, a request names some of them, and the reply is *)
(* a call path through all of them in the order requested, from a root     *)
(* caller down.  The request is refused when there is no such path, and    *)
(* when it asks to go from a procedure to itself without a direct          *)
(* recursive call.                                                         *)
(*                                                                         *)
(* This is less than segmsan/backtrace.py promises (lines 5 and 10: up to  *)
(* the root caller): where procedures above the first call each other, the *)
(* reply may stop inside their cycle (CutShort), even when one of them is  *)
(* also called from a root.                                                *)
(***************************************************************************)
EXTENDS CallGraph

CONSTANT Words      \* what a request may contain

VARIABLES
  graph,     \* the call graph
  parts,     \* the request
  stage,     \* "open", then "asked", then "answered"
  answer     \* the path, outermost caller first; <<>> when refused

cvars == <<graph, parts, stage, answer>>

Leg(s, t) == t \in Callees(graph, s) \/ (s # t /\ Reaches(graph, s, t))

Resolvable ==
  /\ parts # <<>>
  /\ \A i \in 1 .. Len(parts) : Known(graph, parts[i])
  /\ Len(parts) > 1 => parts[1] \in DOMAIN graph
  /\ \A i \in 1 .. Len(parts) - 1 : Leg(parts[i], parts[i + 1])

(* From frame k to the last frame, p visits the words of w in their order. *)
Visits(p, k, w) ==
  \E f \in [1 .. Len(w) -> k .. Len(p)] :
     /\ f[1] = k /\ f[Len(w)] = Len(p)
     /\ \A i \in 1 .. Len(w) : p[f[i]] = w[i]
     /\ \A i \in 1 .. Len(w) - 1 : f[i] < f[i + 1]

(* Nobody calls n.                                                         *)
Root(n) == Callers(graph, n) = {}

(* The exception: the first frame has callers, but all are among the first *)
(* k frames, so that it calls itself through them.                         *)
CutShort(p, k) ==
  /\ ~Root(p[1])
  /\ Callers(graph, p[1]) \subseteq {p[i] : i \in 1 .. k}

(* The frames up to k go up through distinct callers, to a root or into a  *)
(* cycle.                                                                  *)
ClimbedTo(p, k) ==
  /\ \A i, j \in 1 .. k : p[i] = p[j] => i = j
  /\ Root(p[1]) \/ CutShort(p, k)

Answers(p) ==
  /\ p \in Seq(Names)
  /\ IsCallPath(graph, p)
  /\ \E k \in 1 .. Len(p) : Visits(p, k, parts) /\ ClimbedTo(p, k)

Init ==
  /\ graph = <<>>
  /\ parts = <<>>
  /\ stage = "open"
  /\ answer = <<>>

Declare ==
  /\ stage = "open"
  /\ \E n \in Names, C \in SUBSET Names : graph' = WithProc(graph, n, C)
  /\ UNCHANGED <<parts, stage, answer>>

Ask ==
  /\ stage = "open"
  /\ parts' \in Seq(Words)
  /\ stage' = "asked"
  /\ UNCHANGED <<graph, answer>>

Reply ==
  /\ stage = "asked"
  /\ IF Resolvable THEN Answers(answer') ELSE answer' = <<>>
  /\ stage' = "answered"
  /\ UNCHANGED <<graph, parts>>

Next == Declare \/ Ask \/ Reply

Spec == Init /\ [][Next]_cvars
=============================================================================

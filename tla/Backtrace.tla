------------------------------ MODULE Backtrace ------------------------------
(***************************************************************************)
(* The backtrace of segmsan/backtrace.py: build the call graph, search     *)
(* downwards through the requested procedures, climb to a root, and answer *)
(* with the frames.  The analysed program and the request are the          *)
(* environment; every other action is a step of resolve_backtrace_path or  *)
(* of a function it calls.                                                 *)
(*                                                                         *)
(* Names stand for strings.  The climb takes the alphabetically first      *)
(* caller it has not visited: since a climb takes a name at most once,     *)
(* any choice is the first one under some alphabet, so Climb chooses       *)
(* freely.  The search iterates over Python sets of strings, whose order   *)
(* differs from run to run: Expand chooses it.                             *)
(***************************************************************************)
EXTENDS CallGraph

CONSTANTS
  Dots,         \* a part that is no procedure name, "..." among them
  MaxCalls,     \* bound: number of edges of the call graph
  MaxParts      \* bound: length of a request

ASSUME BacktraceAssumption ==
  /\ IsFiniteSet(Names)
  /\ Dots \notin Names
  /\ MaxCalls \in Nat
  /\ MaxParts \in Nat

Words == Names \cup {Dots}

VARIABLES
  graph,      \* build_call_graph's dictionary
  parts,      \* bt_str, split at ":"
  phase,      \* where resolve_backtrace_path is
  leg,        \* number of parts down reaches
  down,       \* down_path; its last element is "current"
  queue,      \* find_path_down's queue; a node is the last of its path
  visited,    \* find_path_down's visited set
  up,         \* find_path_up's path, already reversed
  answer      \* the result, <<>> for None

vars == <<graph, parts, phase, leg, down, queue, visited, up, answer>>

Phases == {"build", "check", "leg", "search", "up", "done"}

TypeOK ==
  /\ \E D \in SUBSET Names : graph \in [D -> SUBSET Names]
  /\ parts \in Seq(Words)
  /\ phase \in Phases
  /\ leg \in 0 .. Len(parts)
  /\ down \in Seq(Names)
  /\ queue \in Seq(Seq(Names))
  /\ visited \subseteq Names
  /\ up \in Seq(Names)
  /\ answer \in Seq(Names)

Init ==
  /\ graph = <<>>
  /\ parts = <<>>
  /\ phase = "build"
  /\ leg = 0
  /\ down = <<>>
  /\ queue = <<>>
  /\ visited = {}
  /\ up = <<>>
  /\ answer = <<>>

-----------------------------------------------------------------------------
(* build_call_graph: one round of its loop over program.procedures.  The   *)
(* declaration calls "walked" in the statements _collect_calls walks, which*)
(* are not those in BEGIN..END, DO and labelled CASE.  The same name may   *)
(* come again: a FORWARD or EXTERNAL declaration has no body.              *)
Declare(n, walked) ==
  /\ phase = "build"
  /\ graph' = WithProc(graph, n, walked)
  /\ UNCHANGED <<parts, phase, leg, down, queue, visited, up, answer>>

(* The request arrives; the program is complete.                           *)
Ask(w) ==
  /\ phase = "build"
  /\ parts' = w
  /\ phase' = "check"
  /\ UNCHANGED <<graph, leg, down, queue, visited, up, answer>>

(* return None                                                             *)
GiveUp ==
  /\ answer' = <<>>
  /\ phase' = "done"
  /\ queue' = <<>>
  /\ visited' = {}
  /\ UNCHANGED <<graph, parts, leg, down, up>>

Acceptable ==
  /\ parts # <<>>
  /\ \A i \in 1 .. Len(parts) : Known(graph, parts[i])
  /\ Len(parts) > 1 => parts[1] \in DOMAIN graph

Reject == phase = "check" /\ ~Acceptable /\ GiveUp

Start ==
  /\ phase = "check"
  /\ Acceptable
  /\ down' = <<parts[1]>>
  /\ leg' = 1
  /\ phase' = "leg"
  /\ UNCHANGED <<graph, parts, queue, visited, up, answer>>

-----------------------------------------------------------------------------
(* The loop over the parts: current -> target.                             *)
Current == down[Len(down)]
Target == parts[leg + 1]

MoreParts == phase = "leg" /\ leg < Len(parts)

DirectCall ==
  /\ MoreParts
  /\ Target \in Callees(graph, Current)
  /\ down' = Append(down, Target)
  /\ leg' = leg + 1
  /\ UNCHANGED <<graph, parts, phase, queue, visited, up, answer>>

(* find_path_down(f, f) is [f], which is too short to count.               *)
SamePart ==
  /\ MoreParts
  /\ Target \notin Callees(graph, Current)
  /\ Target = Current
  /\ GiveUp

StartSearch ==
  /\ MoreParts
  /\ Target \notin Callees(graph, Current)
  /\ Target # Current
  /\ queue' = <<<<Current>>>>
  /\ visited' = {Current}
  /\ phase' = "search"
  /\ UNCHANGED <<graph, parts, leg, down, up, answer>>

(* The breadth-first search, one path taken off the queue a step.          *)
Searching == phase = "search" /\ queue # <<>>
Oldest == Head(queue)
Node == Oldest[Len(Oldest)]

Found ==
  /\ Searching
  /\ Target \in Callees(graph, Node)
  /\ down' = down \o Append(Tail(Oldest), Target)
  /\ leg' = leg + 1
  /\ phase' = "leg"
  /\ queue' = <<>>
  /\ visited' = {}
  /\ UNCHANGED <<graph, parts, up, answer>>

(* Every order in which iteration over the set S may yield its members.    *)
Orders(S) ==
  {o \in [1 .. Cardinality(S) -> S] :
      \A x \in S : \E i \in 1 .. Cardinality(S) : o[i] = x}

(* Variant: queue.pop() instead of popleft(), newest path first.           *)
ExpandNewestFirst ==
  /\ Searching
  /\ Target \notin Callees(graph, Node)
  /\ LET new == Callees(graph, Node) \ visited IN
       /\ \E o \in Orders(new) :
            queue' = [i \in 1 .. Cardinality(new) |-> Append(Oldest, o[i])]
                       \o Tail(queue)
       /\ visited' = visited \cup new
  /\ UNCHANGED <<graph, parts, phase, leg, down, up, answer>>

Expand ==
  /\ Searching
  /\ Target \notin Callees(graph, Node)
  /\ LET new == Callees(graph, Node) \ visited IN
       /\ \E o \in Orders(new) :
            queue' = Tail(queue) \o
                       [i \in 1 .. Cardinality(new) |-> Append(Oldest, o[i])]
       /\ visited' = visited \cup new
  /\ UNCHANGED <<graph, parts, phase, leg, down, up, answer>>

Exhausted == phase = "search" /\ queue = <<>> /\ GiveUp

-----------------------------------------------------------------------------
(* find_path_up from the first frame; its visited set is the path itself.  *)
GoUp ==
  /\ phase = "leg"
  /\ leg = Len(parts)
  /\ up' = <<down[1]>>
  /\ phase' = "up"
  /\ UNCHANGED <<graph, parts, leg, down, queue, visited, answer>>

OnPath == {up[i] : i \in 1 .. Len(up)}

Climb(c) ==
  /\ phase = "up"
  /\ c \in Callers(graph, up[1]) \ OnPath
  /\ up' = <<c>> \o up
  /\ UNCHANGED <<graph, parts, phase, leg, down, queue, visited,
                 answer>>

(* Variant: upward + down_path, the first frame twice.                     *)
StopRepeatsFirst ==
  /\ phase = "up"
  /\ Callers(graph, up[1]) \subseteq OnPath
  /\ answer' = up \o down
  /\ phase' = "done"
  /\ UNCHANGED <<graph, parts, leg, down, queue, visited, up>>

(* Variant: the climb ends only where nobody calls, visited or not.        *)
StopAtRootOnly ==
  /\ phase = "up"
  /\ Callers(graph, up[1]) = {}
  /\ answer' = up \o Tail(down)
  /\ phase' = "done"
  /\ UNCHANGED <<graph, parts, leg, down, queue, visited, up>>

(* full_path = upward + down_path[1:]                                      *)
Stop ==
  /\ phase = "up"
  /\ Callers(graph, up[1]) \subseteq OnPath
  /\ answer' = up \o Tail(down)
  /\ phase' = "done"
  /\ UNCHANGED <<graph, parts, leg, down, queue, visited, up>>

-----------------------------------------------------------------------------
Calls(g) == {e \in Names \X Names : e[2] \in Callees(g, e[1])}

Requests == UNION {[1 .. k -> Words] : k \in 0 .. MaxParts}

Program ==
  \/ \E n \in Names, walked \in SUBSET Names :
        /\ Declare(n, walked)
        /\ Cardinality(Calls(graph')) <= MaxCalls
  \/ \E w \in Requests : Ask(w)

Resolve ==
  \/ Reject \/ Start
  \/ DirectCall \/ SamePart \/ StartSearch
  \/ Found \/ Expand \/ Exhausted
  \/ GoUp \/ (\E c \in Names : Climb(c)) \/ Stop

Next == Program \/ Resolve

Spec == Init /\ [][Next]_vars

-----------------------------------------------------------------------------
(***************************************************************************)
(* What a backtrace is.                                                    *)
(***************************************************************************)
Stage == CASE phase = "build" -> "open"
           [] phase = "done"  -> "answered"
           [] OTHER           -> "asked"

Promise == INSTANCE CallPath WITH stage <- Stage

(* The answer is a call path from a root caller through the requested      *)
(* procedures in their order, and None exactly when CallPath refuses       *)
(* (backtrace.py:146-198).  Excepted: a climb that meets a cycle of callers*)
(* may stop inside it although a root leads there too (lines 100-105,      *)
(* against lines 5 and 10); the property says nothing of which frame of the*)
(* cycle is the first, only that the path is one.                          *)
KeepsPromise == Promise!Spec

(* No call path from current to target has fewer frames than the one the   *)
(* search adds, whatever order the sets are iterated in (find_path_down).  *)
ShorterPath(s, t, n) ==
  \E k \in 2 .. n : \E p \in [1 .. k -> Names] :
     p[1] = s /\ p[k] = t /\ IsCallPath(graph, p)

ShortestLegs ==
  [][ phase = "search" /\ phase' = "leg"
      => ~ShorterPath(Current, Target, Len(down') - Len(down)) ]_vars

(* Every request is answered, on recursive programs too: between the call  *)
(* and the return of resolve_backtrace_path some step is possible, and     *)
(* every step uses up a part, an unvisited procedure, a queued path or a   *)
(* caller not yet on the path (both visited sets; Slots weighs them so     *)
(* that a later kind may restart when an earlier one is used up).          *)
Slots == Cardinality(Names) + 2

StepsLeft ==
  CASE phase = "check"  -> (Len(parts) + 3) * Slots * Slots * Slots
    [] phase = "leg"    -> (Len(parts) - leg + 2) * Slots * Slots * Slots
    [] phase = "search" -> (Len(parts) - leg + 1) * Slots * Slots * Slots
                             + (Slots - Cardinality(visited)) * Slots
                             + Len(queue)
    [] phase = "up"     -> Slots - Len(up)
    [] OTHER            -> 0

Asked == phase \notin {"build", "done"}

Answered ==
  /\ [](Asked => ENABLED Resolve)
  /\ [][Asked => StepsLeft' < StepsLeft]_vars

-----------------------------------------------------------------------------
(***************************************************************************)
(* The inductive invariant behind KeepsPromise.                            *)
(***************************************************************************)
LegFound(s, t) == t \in Callees(graph, s) \/ (s # t /\ Reaches(graph, s, t))

(* Where down meets the first n parts: f[i] is the frame of part i.        *)
MeetsParts(n) ==
  \E f \in [1 .. n -> 1 .. Len(down)] :
     /\ f[1] = 1 /\ f[n] = Len(down)
     /\ \A i \in 1 .. n : down[f[i]] = parts[i]
     /\ \A i \in 1 .. n - 1 : f[i] < f[i + 1]

DownInv ==
  phase \in {"leg", "search", "up"} =>
    /\ Acceptable
    /\ leg \in 1 .. Len(parts)
    /\ IsCallPath(graph, down)
    /\ MeetsParts(leg)
    /\ \A i \in 1 .. leg - 1 : LegFound(parts[i], parts[i + 1])

(* A queued path starts at current and leads to a visited procedure.       *)
GoodPath(q) ==
  /\ q # <<>> /\ q[1] = Current /\ IsCallPath(graph, q)
  /\ q[Len(q)] \in visited
  /\ Len(q) > 1 => Reaches(graph, Current, q[Len(q)])

Pending(n) == \E i \in 1 .. Len(queue) : queue[i][Len(queue[i])] = n

(* Whatever a visited procedure calls is visited, or it waits in the queue.*)
SearchInv ==
  phase = "search" =>
    /\ leg < Len(parts)
    /\ Target # Current
    /\ Target \notin Callees(graph, Current)
    /\ Current \in visited
    /\ Target \notin visited
    /\ \A i \in 1 .. Len(queue) : GoodPath(queue[i])
    /\ \A n \in visited : Callees(graph, n) \subseteq visited \/ Pending(n)

ClimbInv ==
  phase = "up" =>
    /\ leg = Len(parts)
    /\ up # <<>>
    /\ up[Len(up)] = down[1]
    /\ IsCallPath(graph, up)
    /\ \A i, j \in 1 .. Len(up) : up[i] = up[j] => i = j

QuietInv ==
  /\ phase = "build" => leg = 0
  /\ phase # "done" => answer = <<>>

BacktraceInv == TypeOK /\ DownInv /\ SearchInv /\ ClimbInv /\ QuietInv

=============================================================================

------------------------------ MODULE Interproc ------------------------------
(***************************************************************************)
(* The interprocedural analysis of segmsan/interproc.py.  CallGraph.build  *)
(* walks every body once and keeps a summary of what it does with the      *)
(* parameters; InterprocAnalyzer then walks every body again and judges    *)
(* each CALL by the summary of the callee.  The environment chooses the    *)
(* statements of both walks: whatever body is analysed, it meets whatever  *)
(* summaries the declarations left.                                        *)
(*                                                                         *)
(* Both walks take each statement once and pass some by.  The reference    *)
(* does not: it runs loops again and the statements that are passed by,    *)
(* and notes where the code may lag behind ("missed", "blind").            *)
(*                                                                         *)
(* Abstractions.  "assigned" is set and merged and never read, points_to   *)
(* follows taint_sources, and the only statement that clears "tainted"     *)
(* needs a name of the state that is a global, which there is none: a      *)
(* variable is tainted when its sources are not empty.                     *)
(***************************************************************************)
EXTENDS Naturals, Sequences, FiniteSets

CONSTANTS
  Procs,       \* names of declared procedures
  System,      \* callees without a summary of a body: stubs, SUBPROCs
  ParamNames,  \* the parameters of every procedure, in order
  References,  \* those of them declared as references
  Locals,      \* the locals of every procedure
  Keys,        \* the analyser's state: the names of an analysed PROC or SUBPROC
  Enclosing,   \* the names of the PROC around an analysed SUBPROC
  Globals,     \* _global_names; a local may have the name of one
  MaxSummary,  \* bound: statements summarised, over all bodies
  MaxStmts,    \* bound: those and the statements analysed, but IF, WHILE, FOR
  MaxDepth     \* bound: nesting of IF, WHILE and FOR in it

Positions == 1 .. Len(ParamNames)
Params == {ParamNames[i] : i \in Positions}
Own == Params \cup Locals
Named == Own \cup Globals           \* what a summarised body names
Scoped == Keys \cup Enclosing       \* scope.is_local
Vars == Scoped \cup Globals         \* what an analysed body names
Callees == Procs \cup System

ASSUME InterprocAssumption ==
  /\ Procs \cap System = {}
  /\ ParamNames \in Seq(Params)
  /\ \A i, j \in Positions : ParamNames[i] = ParamNames[j] => i = j
  /\ References \subseteq Params
  /\ Params \cap Locals = {}
  /\ Keys \cap Enclosing = {}
  /\ MaxSummary \in Nat /\ MaxStmts \in Nat /\ MaxDepth \in Nat

ProcSummary == [calls : SUBSET Callees,
                stores_refs_globally : BOOLEAN,
                ref_params_stored    : SUBSET Positions,
                returns_local_ref    : BOOLEAN]
Fresh == [calls |-> {}, stores_refs_globally |-> FALSE, ref_params_stored |-> {},
          returns_local_ref |-> FALSE]

Sources == [Keys -> SUBSET Scoped]
Pointers == [Vars -> SUBSET Scoped]
Fork == [kind : {"THEN", "ELSE", "LOOP"}, base : Sources, then : Sources,
         path : Pointers, thenPath : Pointers]

Warning == [kind : {"DANGLING_POINTER_STORE", "RETURN_LOCAL_ADDR"},
            sources : SUBSET Scoped]

(* A statement by which local addresses leave: by CALL of "callee", or, if *)
(* there is none, by RETURN or by a store in a global.                     *)
Visit == [issued : SUBSET Warning, callee : SUBSET Callees,
          position : 0 .. Len(ParamNames), used : SUBSET Scoped]
Quiet == [issued |-> {}, callee |-> {}, position |-> 0, used |-> {}]

(* Why a body may leak what its summary does not tell: a statement of a    *)
(* form that is passed by, a loop run again, a CALL of its own, a later    *)
(* declaration of its name.                                                *)
Lost == {"UNSEEN", "ITERATE", "PASSED", "REDECLARED"}

(* Why the parameters of a summary may be wrong though its flag is right,  *)
(* and why the flag may be raised for nothing: a parameter was overwritten *)
(* with a name, a local has the name of a global.                          *)
Blurred == {"ALIASED", "SHADOWED"}

(* An assignment, to be executed again.                                    *)
Said == [target : Named, given : SUBSET Positions, froms : SUBSET Named]
Leaf == [target : Vars, given : SUBSET Scoped, froms : SUBSET Vars]
Use == [visit : Visit, name : Vars]

VARIABLES
  phase,      \* "summary" or "analysis"
  current,    \* the procedure being summarised; <<>> before the first
  summaries,  \* CallGraph.summaries of the declared procedures
  tainted,    \* tainted_locals of the current summary
  taint,      \* taint_sources of the analyser's state
  stack,      \* the recursion into IF, WHILE and FOR, innermost last
  ready,      \* a statement may be visited here (a body is one statement)
  count,      \* statements visited
  holds,      \* reference: parameters whose reference a variable may hold
  leaks,      \* reference: parameters a procedure hands to a global
  missed,     \* reference: why its summary may not tell, see Lost, Blurred
  said,       \* reference: assignments of the body being summarised
  path,       \* reference: local addresses a variable may hold
  leaves,     \* reference: assignments in the outermost loop being walked
  uses,       \* reference: uses of names in it
  blind,      \* reference: the walk may lag behind path, see below
  last        \* the last visit

summary == <<current, summaries, tainted, holds, leaks, missed, said>>
walk == <<taint, stack, ready, path, leaves, uses, blind>>
vars == <<phase, summary, walk, count, last>>

TypeOK ==
  /\ phase \in {"summary", "analysis"}
  /\ current \in {<<>>} \cup {<<n>> : n \in Procs}
  /\ \E D \in SUBSET Procs :
       /\ summaries \in [D -> ProcSummary]
       /\ leaks \in [D -> SUBSET Positions]
       /\ missed \in [D -> SUBSET (Lost \cup Blurred)]
  /\ tainted \in [Own -> SUBSET Positions]
  /\ holds \in [Named -> SUBSET Positions]
  /\ said \subseteq Said
  /\ taint \in Sources
  /\ stack \in Seq(Fork)
  /\ ready \in BOOLEAN
  /\ path \in Pointers
  /\ leaves \subseteq Leaf
  /\ uses \subseteq Use
  /\ blind \in BOOLEAN
  /\ count \in 0 .. MaxSummary + MaxStmts
  /\ last \in Visit

Empty(S) == [v \in S |-> {}]
With(f, n, e) == [m \in DOMAIN f \cup {n} |-> IF m = n THEN e ELSE f[m]]

Init ==
  /\ phase = "summary" /\ current = <<>>
  /\ summaries = <<>> /\ leaks = <<>> /\ missed = <<>>
  /\ tainted = Empty(Own) /\ holds = Empty(Named) /\ said = {}
  /\ taint = Empty(Keys) /\ stack = <<>> /\ ready = TRUE
  /\ path = Empty(Vars) /\ leaves = {} /\ uses = {} /\ blind = FALSE
  /\ count = 0 /\ last = Quiet

-----------------------------------------------------------------------------
(* build: the next declaration.  One of a name that is summarised already  *)
(* (a FORWARD or EXTERNAL declaration may follow the body) starts afresh;  *)
(* the procedure leaks what it leaked.                                     *)
Declare(n) ==
  LET before == n \in DOMAIN summaries /\ leaks[n] # {}
  IN /\ phase = "summary"
     /\ current' = <<n>>
     /\ summaries' = With(summaries, n, Fresh)
     /\ leaks' = With(leaks, n, IF before THEN leaks[n] ELSE {})
     /\ missed' = With(missed, n, IF before THEN {"REDECLARED"} ELSE {})
     /\ tainted' = Empty(Own) /\ holds' = Empty(Named) /\ said' = {}
     /\ UNCHANGED <<phase, walk, count, last>>

Summarising ==
  /\ phase = "summary" /\ current # <<>>
  /\ count < MaxSummary
  /\ count' = count + 1
  /\ UNCHANGED <<phase, current, walk, last>>

(* Variant: positions counted from zero, as enumerate does.                *)
PositionFromZero(p) == {i - 1 : i \in {k \in Positions : ParamNames[k] = p}}

PositionOf(p) == {i \in Positions : ParamNames[i] = p}

(* Variant: the flag is set and the parameter is not recorded.             *)
StoredUnnamed(t, P) ==
  IF t \in Globals /\ P # {}
  THEN [summaries EXCEPT ![current[1]].stores_refs_globally = TRUE]
  ELSE summaries

(* The effect of a store of the parameters P in t.  _global_names is asked *)
(* before local_names.                                                     *)
StoredIn(t, P) ==
  IF t \in Globals /\ P # {}
  THEN [summaries EXCEPT ![current[1]].stores_refs_globally = TRUE,
                         ![current[1]].ref_params_stored = @ \cup P]
  ELSE summaries

TaintedIn(t, P) ==
  IF t \in Globals THEN tainted ELSE [tainted EXCEPT ![t] = @ \cup P]

(* Reference: t may hold the references R now, as may what held them, and  *)
(* a global leaks them; "why" the summary may not tell.                    *)
Reaches(t, R, why) ==
  /\ holds' = [holds EXCEPT ![t] = @ \cup R]
  /\ leaks' = IF t \in Globals \ Own
              THEN [leaks EXCEPT ![current[1]] = @ \cup R] ELSE leaks
  /\ missed' = IF R = {} THEN missed
               ELSE [missed EXCEPT ![current[1]] = @ \cup why]

Hiding(t) == IF t \in Own \cap Globals THEN {"SHADOWED"} ELSE {}

(* t := @v in a summarised body.                                           *)
SummaryAddress(t, v) ==
  LET P == IF v \in References THEN PositionOf(v) ELSE {}
  IN /\ Summarising
     /\ summaries' = StoredIn(t, P)
     /\ tainted' = TaintedIn(t, P)
     /\ Reaches(t, P, Hiding(t))
     /\ said' = said \cup {[target |-> t, given |-> P, froms |-> {}]}

(* Variant: the chain through a local is not followed.                     *)
CarriedParamOnly(s) == PositionOf(s)

(* What a name carries: the parameters it was tainted with, and itself.    *)
Carried(s) == (IF s \in Own THEN tainted[s] ELSE {}) \cup PositionOf(s)

(* t := s in a summarised body.  A parameter that is assigned is not       *)
(* tainted: only local_names are.                                          *)
SummaryCopy(t, s) ==
  /\ Summarising
  /\ summaries' = StoredIn(t, Carried(s))
  /\ tainted' = IF t \in Locals THEN TaintedIn(t, Carried(s)) ELSE tainted
  /\ Reaches(t, holds[s] \cup PositionOf(s),
             Hiding(t) \cup (IF t \in Params THEN {"ALIASED"} ELSE {}))
  /\ said' = said \cup {[target |-> t, given |-> PositionOf(s), froms |-> {s}]}

(* CALL f(.., v, ..) in a summarised body: an edge, and no summary is      *)
(* drawn through it.  R is what f, or what f calls, stores of what v holds.*)
SummaryCall(f, v, R) ==
  /\ Summarising
  /\ R \subseteq holds[v] \cup PositionOf(v)
  /\ summaries' = [summaries EXCEPT ![current[1]].calls = @ \cup {f}]
  /\ leaks' = [leaks EXCEPT ![current[1]] = @ \cup R]
  /\ missed' = IF R = {} THEN missed
               ELSE [missed EXCEPT ![current[1]] = @ \cup {"PASSED"}]
  /\ UNCHANGED <<tainted, holds, said>>

(* RETURN @v in a summarised body.                                         *)
SummaryReturn(v) ==
  /\ Summarising
  /\ summaries' = IF v \in Locals
       THEN [summaries EXCEPT ![current[1]].returns_local_ref = TRUE]
       ELSE summaries
  /\ UNCHANGED <<tainted, holds, leaks, missed, said>>

(* t gets what s holds or @s where the pass does not look: in BEGIN..END,  *)
(* DO, CASE or a labelled statement, in a SUBPROC, as an initializer, as   *)
(* the second target of an assignment, by an expression or a function.     *)
SummaryUnseen(t, s) ==
  /\ Summarising
  /\ Reaches(t, holds[s] \cup PositionOf(s), {"UNSEEN"})
  /\ UNCHANGED <<summaries, tainted, said>>

(* The program only: a loop, or a GOTO, executes an assignment again.      *)
SummaryAgain(l) ==
  LET R == l.given \cup UNION {holds[s] : s \in l.froms}
  IN /\ phase = "summary" /\ current # <<>>
     /\ ~(R \subseteq holds[l.target])
     /\ Reaches(l.target, R, {"ITERATE"})
     /\ UNCHANGED <<phase, current, summaries, tainted, said, walk, count, last>>

-----------------------------------------------------------------------------
(* The second walk.  InterprocAnalyzer.analyze starts a body with a fresh  *)
(* state; nothing of the first walk survives but the summaries.  The body  *)
(* is that of a summarised procedure or of a SUBPROC in one; the locals    *)
(* around a SUBPROC may hold addresses ("inherited").                      *)
Analyze(inherited) ==
  /\ phase = "summary" /\ current # <<>>
  /\ phase' = "analysis"
  /\ current' = <<>>
  /\ tainted' = Empty(Own) /\ holds' = Empty(Named) /\ said' = {}
  /\ path' = [v \in Vars |-> IF v \in Enclosing THEN inherited ELSE {}]
  /\ UNCHANGED <<count, summaries, leaks, missed, taint, stack, ready, leaves, uses,
                 blind, last>>

Visited ==
  /\ phase = "analysis" /\ ready
  /\ count < MaxStmts
  /\ count' = count + 1
  /\ UNCHANGED <<phase, summary>>

(* A statement without a body: the walk goes on at the top level only.     *)
Simple == Visited /\ ready' = (stack = <<>>) /\ UNCHANGED stack

Dangling(S) == [kind |-> "DANGLING_POINTER_STORE", sources |-> S]
Returned(S) == [kind |-> "RETURN_LOCAL_ADDR", sources |-> S]
Known(v) == IF v \in Keys THEN taint[v] ELSE {}
Taint(t, S) == IF t \in Keys THEN [taint EXCEPT ![t] = @ \cup S] ELSE taint
Stored(t, S) == IF t \in Globals \ Scoped THEN S ELSE {}
InLoop == \E k \in 1 .. Len(stack) : stack[k].kind = "LOOP"

(* Reference: what an assignment of the addresses A and of the names froms *)
(* to t does; "unknown" to the walk if they hold an address.               *)
Value(A, froms) == A \cup UNION {path[s] : s \in froms}
Execute(t, A, froms, unknown) ==
  /\ path' = [path EXCEPT ![t] = Value(A, froms)]
  /\ leaves' = leaves \cup (IF InLoop
       THEN {[target |-> t, given |-> A, froms |-> froms]} ELSE {})
  /\ blind' = (blind \/ (unknown /\ Value(A, froms) # {}))
  /\ UNCHANGED uses

(* t := @x.  Only a scoped x taints, only a name of the state is tainted.  *)
AddressAssign(t, x) ==
  LET A == {x} \cap Scoped
  IN /\ Simple
     /\ taint' = Taint(t, A)
     /\ Execute(t, A, {}, FALSE)
     /\ last' = [Quiet EXCEPT !.used = Stored(t, A),
          !.issued = IF Stored(t, A) # {} THEN {Dangling(A)} ELSE {}]

(* t := s.  Taint is added and never taken away.  A copy to a global is    *)
(* not judged: that is MemoryAnalyzer's (Dataflow).                        *)
CopyAssign(t, s) ==
  /\ Simple
  /\ taint' = Taint(t, Known(s))
  /\ Execute(t, {}, {s}, s \notin Keys)
  /\ last' = Quiet

(* t := an expression that is no name, over the pointers of froms.         *)
ExprAssign(t, froms) ==
  /\ Simple
  /\ Execute(t, {}, froms, TRUE)
  /\ last' = Quiet
  /\ UNCHANGED taint

(* t may get @x where the walk does not look: the forms of SummaryUnseen.  *)
UnseenAssign(t, x) ==
  /\ Simple
  /\ path' = [path EXCEPT ![t] = @ \cup {x}]
  /\ blind' = TRUE
  /\ last' = [Quiet EXCEPT !.used = Stored(t, {x})]
  /\ UNCHANGED <<taint, leaves, uses>>

(* Variant: an argument is judged by the parameter at its place in the     *)
(* list alone, from which omitted arguments are missing.                   *)
StoresByPosition(f, i) ==
  f \in DOMAIN summaries /\ i \in summaries[f].ref_params_stored

(* The summary's flag covers every parameter; stubs never have it set.     *)
Stores(f, i) ==
  /\ f \in DOMAIN summaries
  /\ \/ i \in summaries[f].ref_params_stored
     \/ summaries[f].stores_refs_globally

(* CALL f(.., @x, ..): the argument for parameter j is the i-th of the     *)
(* list, i < j when arguments before it were omitted.                      *)
CallAddress(f, x, i, j) ==
  /\ Simple
  /\ last' = [callee |-> {f}, position |-> j, used |-> {x},
              issued |-> IF Stores(f, i) THEN {Dangling({x})} ELSE {}]
  /\ UNCHANGED <<taint, path, leaves, uses, blind>>

(* RETURN @x                                                               *)
ReturnAddress(x) ==
  /\ Simple
  /\ last' = [Quiet EXCEPT !.used = {x}, !.issued = {Returned({x})}]
  /\ UNCHANGED <<taint, path, leaves, uses, blind>>

(* A statement lets go of what the name v holds.                           *)
Uses(v, visit) ==
  /\ Simple
  /\ last' = visit
  /\ uses' = uses \cup (IF InLoop THEN {[visit |-> visit, name |-> v]} ELSE {})
  /\ blind' = (blind \/ (v \notin Keys /\ path[v] # {}))
  /\ UNCHANGED <<taint, path, leaves>>

(* CALL f(.., v, ..): only the flag is asked.                              *)
CallName(f, v, j) ==
  Uses(v, [callee |-> {f}, position |-> j, used |-> path[v],
           issued |-> IF Known(v) # {} /\ f \in DOMAIN summaries
                         /\ summaries[f].stores_refs_globally
                      THEN {Dangling(Known(v))} ELSE {}])

(* RETURN v                                                                *)
ReturnName(v) ==
  Uses(v, [Quiet EXCEPT !.used = path[v],
           !.issued = IF Known(v) # {} THEN {Returned(Known(v))} ELSE {}])

(* An address leaves where the walk does not look: in the forms above, or  *)
(* as an argument of a function in an expression (_analyze_call_expr).     *)
UnseenUse(x) ==
  /\ Simple
  /\ last' = [Quiet EXCEPT !.used = {x}]
  /\ blind' = TRUE
  /\ UNCHANGED <<taint, path, leaves, uses>>

-----------------------------------------------------------------------------
Top == stack[Len(stack)]
Below == SubSeq(stack, 1, Len(stack) - 1)

(* Variant: only the last merged state survives.                           *)
MergeLast(base, other) == other

(* _merge_states for one other state.                                      *)
Merge(base, other) == [v \in Keys |-> base[v] \cup other[v]]

Join(m1, m2) == [v \in Vars |-> m1[v] \cup m2[v]]

Enter(kind) ==
  /\ phase = "analysis" /\ ready /\ Len(stack) < MaxDepth
  /\ stack' = Append(stack, [kind |-> kind, base |-> taint, then |-> Empty(Keys),
                             path |-> path, thenPath |-> Empty(Vars)])
  /\ last' = Quiet
  /\ UNCHANGED <<phase, summary, count, taint, ready, path, leaves, uses, blind>>

Midway(kind) ==
  /\ phase = "analysis" /\ stack # <<>> /\ Top.kind = kind
  /\ UNCHANGED <<phase, summary, count>>

(* The ELSE branch starts from the state at the fork.                      *)
EnterElse ==
  /\ Midway("THEN")
  /\ stack' = Append(Below, [Top EXCEPT !.kind = "ELSE", !.then = taint,
                                        !.thenPath = path])
  /\ taint' = Top.base /\ path' = Top.path
  /\ ready' = TRUE /\ last' = Quiet
  /\ UNCHANGED <<leaves, uses, blind>>

LeaveIf ==
  /\ Midway("ELSE")
  /\ stack' = Below
  /\ taint' = Merge(Merge(Top.base, Top.then), taint)
  /\ path' = Join(Top.thenPath, path)
  /\ ready' = (Below = <<>>) /\ last' = Quiet
  /\ UNCHANGED <<leaves, uses, blind>>

Outermost == \A k \in 1 .. Len(stack) - 1 : stack[k].kind # "LOOP"

(* A WHILE or FOR body is walked once and merged with the state before it. *)
LeaveLoop ==
  /\ Midway("LOOP")
  /\ stack' = Below
  /\ taint' = Merge(Top.base, taint)
  /\ path' = Join(Top.path, path)
  /\ ready' = (Below = <<>>) /\ last' = Quiet
  /\ leaves' = (IF Outermost THEN {} ELSE leaves)
  /\ uses' = (IF Outermost THEN {} ELSE uses)
  /\ UNCHANGED blind

(* The program only: the outermost loop runs again and takes the branch to *)
(* the assignment l, which brings an address where there was none.  A body *)
(* is one statement: an iteration executes one assignment or one use of it *)
(* outside inner loops.                                                    *)
Iterate(l) ==
  /\ Midway("LOOP") /\ Outermost
  /\ ~(Value(l.given, l.froms) \subseteq path[l.target])
  /\ path' = [path EXCEPT ![l.target] = @ \cup Value(l.given, l.froms)]
  /\ blind' = TRUE
  /\ last' = Quiet
  /\ UNCHANGED <<taint, stack, ready, leaves, uses>>

(* The program only: likewise for the use u.  What was issued for it was   *)
(* issued when the walk was there.                                         *)
UseAgain(u) ==
  /\ Midway("LOOP") /\ Outermost
  /\ last' = [u.visit EXCEPT !.used = path[u.name]]
  /\ blind' = (blind \/ ~(path[u.name] \subseteq u.visit.used))
  /\ UNCHANGED <<taint, stack, ready, path, leaves, uses>>

Summarise ==
  \/ \E n \in Procs : Declare(n)
  \/ \E t \in Named, v \in Own : SummaryAddress(t, v)
  \/ \E t, s \in Named : SummaryCopy(t, s) \/ SummaryUnseen(t, s)
  \/ \E f \in Callees, v \in Named, R \in SUBSET Positions :
        SummaryCall(f, v, R)
  \/ \E v \in Own : SummaryReturn(v)
  \/ \E l \in said : SummaryAgain(l)

Walk ==
  \/ \E t, x \in Vars : AddressAssign(t, x)
  \/ \E t, s \in Vars : CopyAssign(t, s)
  \/ \E t \in Vars, froms \in {{}} \cup {{s} : s \in Vars} : ExprAssign(t, froms)
  \/ \E t \in Vars, x \in Scoped : UnseenAssign(t, x)
  \/ \E f \in Callees, x \in Scoped, j \in Positions : \E i \in 1 .. j :
        CallAddress(f, x, i, j)
  \/ \E f \in Callees, v \in Vars, j \in Positions : CallName(f, v, j)
  \/ \E x \in Scoped : ReturnAddress(x) \/ UnseenUse(x)
  \/ \E v \in Vars : ReturnName(v)
  \/ \E kind \in {"THEN", "LOOP"} : Enter(kind)
  \/ EnterElse
  \/ LeaveIf
  \/ LeaveLoop
  \/ \E l \in leaves : Iterate(l)
  \/ \E u \in uses : UseAgain(u)

Next == Summarise \/ (\E inherited \in SUBSET Enclosing : Analyze(inherited)) \/ Walk

Spec == Init /\ [][Next]_vars

-----------------------------------------------------------------------------
(* A reference that the body of a procedure hands to a global raises the   *)
(* flag of its summary, through any chain of assignments in the order of   *)
(* the text, unless the store or a link of the chain is one of Lost: in a  *)
(* form that is passed by, in an earlier line of a loop, in the callee of  *)
(* a CALL, in front of another declaration of the name.  A raised flag     *)
(* stands for such a chain, on which no value is overwritten, or for a     *)
(* local with the name of a global (_analyze_assign of CallGraph).         *)
LeaksFlagged ==
  \A f \in DOMAIN summaries :
    /\ leaks[f] # {} /\ missed[f] \cap Lost = {} => summaries[f].stores_refs_globally
    /\ summaries[f].stores_refs_globally => leaks[f] # {} \/ "SHADOWED" \in missed[f]

(* The stored parameters of a summary are those the procedure hands to a   *)
(* global, in the same sense: none is left out but for the reasons of Lost,*)
(* a local with the name of a global, which is not tainted, and a parameter*)
(* that gets a reference by a copy, which is not either; and none is there *)
(* for nothing but by a local with the name of a global.                   *)
SummaryExact ==
  \A f \in DOMAIN summaries :
    /\ missed[f] = {} => leaks[f] \subseteq summaries[f].ref_params_stored
    /\ "SHADOWED" \notin missed[f] => summaries[f].ref_params_stored \subseteq leaks[f]

Reported(visit) == UNION {w.sources : w \in visit.issued}

CallJudged(visit) ==
  \A f \in visit.callee :
     /\ f \in DOMAIN leaks
     /\ visit.position \in leaks[f] /\ missed[f] \cap Lost = {}
     => visit.used \subseteq Reported(visit)

EscapeJudged(visit) == visit.callee = {} => visit.used \subseteq Reported(visit)

(* A local address handed by CALL to a parameter that a procedure stores   *)
(* globally (and not by one of Lost) is reported, whatever branch, chain of*)
(* copies or iteration brings it there and whatever arguments are omitted, *)
(* until one of four things makes the walk blind: an address in a statement*)
(* of a form that is passed by, a later iteration of a loop that first     *)
(* brings an address, an expression as its source, a name that is not in   *)
(* the state (_analyze_call_by_name, _merge_states).                       *)
CallsReported == ~blind => CallJudged(last)

(* A local address that goes into a global by t := @x, or that RETURN hands*)
(* out by @x or by a name, is reported with the local it points to, until  *)
(* the walk is blind as above (_analyze_assign, _analyze_return).          *)
EscapesReported == ~blind => EscapeJudged(last)
=============================================================================

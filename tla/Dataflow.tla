------------------------------ MODULE Dataflow ------------------------------
(***************************************************************************)
(* The forward taint analysis of segmsan/dataflow.py (MemoryAnalyzer), run *)
(* over one PROC or SUBPROC of a TAL program.                              *)
(*                                                                         *)
(* The analyser walks the statement tree recursively and visits every      *)
(* statement once, in source order.  The specification is that walk: each  *)
(* action is the visit of one statement, the recursion of _analyze_stmt    *)
(* into IF, WHILE and FOR is the explicit "stack", and the environment     *)
(* chooses which statement comes next, so that the behaviours range over   *)
(* all programs of up to MaxStmts statements.                              *)
(*                                                                         *)
(* Beside the analyser's state ("vars", "warnings") the specification      *)
(* carries the reference it is judged against: "path", the exact effect of *)
(* the visited statements on the pointers of the analysed program.  A      *)
(* pointer is abstracted to the addresses it may hold and to whether every *)
(* path to this point assigned it; both are exact for this language        *)
(* because no statement's effect depends on more than one variable.        *)
(***************************************************************************)
EXTENDS Naturals, Sequences, FiniteSets

CONSTANTS
  Globals,     \* names declared at the GLOBAL level of the ScopeStack
  Locals,      \* parameters and locals of the analysed unit
  Enclosing,   \* locals of the PROC around an analysed SUBPROC
  Unit,        \* "PROC" (_analyze_proc) or "SUBPROC" (_analyze_subproc)
  MaxStmts,    \* bound on the number of visited statements
  MaxDepth     \* bound on the nesting of IF, WHILE and FOR

ASSUME DataflowAssumption ==
  /\ Globals \cap Locals = {}
  /\ Globals \cap Enclosing = {}
  /\ Locals \cap Enclosing = {}
  /\ Unit \in {"PROC", "SUBPROC"}
  /\ Unit = "PROC" => Enclosing = {}
  /\ MaxStmts \in Nat
  /\ MaxDepth \in Nat

Names == Globals \cup Locals \cup Enclosing

(* scope.is_local: LOCAL or SUBLOCAL in the ScopeStack. *)
Scoped == Locals \cup Enclosing

(* Variant: the globals are not declared for a PROC either.                *)
TrackedLocalsOnly == Locals

(* The keys of DataflowState.vars.  _analyze_proc declares the globals and *)
(* its own names; _analyze_subproc declares its own names only.            *)
Tracked == IF Unit = "PROC" THEN Globals \cup Locals ELSE Locals

(* Why the reference may know of an address the analyser was never shown:  *)
(* a store in a form it does not look at (UnseenAssign lists them), a      *)
(* source that is not a name, a further loop iteration, a name outside its *)
(* state.                                                                  *)
Reasons == {"UNSEEN", "ARITH", "ITERATE", "UNTRACKED"}

-----------------------------------------------------------------------------
(***************************************************************************)
(* Analyser data.  points_to is left out of VarState: every operation      *)
(* updates it together with, and exactly like, taint_sources.              *)
(***************************************************************************)
VarState == [assigned : BOOLEAN, tainted : BOOLEAN,
             taint_sources : SUBSET Names]
DataflowState == [Tracked -> VarState]

Kinds == {"DANGLING_POINTER_STORE", "RETURN_LOCAL_ADDR",
          "UNINIT_POINTER_DEREF"}

(* A warning: the pointers it is about and the addresses its text names.   *)
Warning == [kind : Kinds, about : SUBSET Names, sources : SUBSET Names]

Dangling(t, srcs) ==
  [kind |-> "DANGLING_POINTER_STORE", about |-> {t}, sources |-> srcs]
Returned(srcs) ==
  [kind |-> "RETURN_LOCAL_ADDR", about |-> {}, sources |-> srcs]
Uninit(v) ==
  [kind |-> "UNINIT_POINTER_DEREF", about |-> {v}, sources |-> {}]

(***************************************************************************)
(* Reference data: what the statements do to the analysed program.         *)
(***************************************************************************)
Path == [may  : [Names -> SUBSET Names],  \* addresses a pointer may hold
         must : SUBSET Names,             \* assigned on every path to here
         dead : BOOLEAN]                  \* no path reaches this point

(* An assignment inside a loop: its target, the addresses it stores and    *)
(* the pointers it copies.  A later iteration executes it again.           *)
Leaf == [target : Names, addrs : SUBSET Names, froms : SUBSET Names]

Frame == [kind : {"THEN", "ELSE", "LOOP"},
          vars : DataflowState,      \* state at the fork
          path : Path,
          thenVars : DataflowState,  \* state after the THEN branch
          thenPath : Path]

VARIABLES
  vars,      \* DataflowState.vars of the state being updated
  warnings,  \* MemoryAnalyzer.warnings, as a set
  crashed,   \* an exception left the analysis
  stack,     \* the recursion into IF, WHILE and FOR, innermost last
  ready,     \* a statement may be visited here (a body is one statement)
  size,      \* number of statements visited
  path,      \* reference: effect of the statements on this point
  leaves,    \* reference: assignments of the loop being visited
  blind,     \* reference: why the analyser may lag behind "path"
  returned,  \* reference: addresses a RETURN handed to the caller
  last       \* the last visit: warnings, wild dereferences, target

reference == <<path, leaves, blind, returned>>
allvars == <<vars, warnings, crashed, stack, ready, size, reference, last>>

Visit == [issued : SUBSET Warning, wild : SUBSET Names, target : SUBSET Names]

TypeOK ==
  /\ vars \in DataflowState
  /\ warnings \subseteq Warning
  /\ crashed \in BOOLEAN
  /\ stack \in Seq(Frame)
  /\ ready \in BOOLEAN
  /\ size \in 0 .. MaxStmts
  /\ path \in Path
  /\ leaves \subseteq Leaf
  /\ blind \subseteq Reasons
  /\ returned \subseteq Names
  /\ last \in Visit

-----------------------------------------------------------------------------
(***************************************************************************)
(* DataflowState's methods.  Each is a no-op on a name it does not track.  *)
(***************************************************************************)
MarkAssigned(V, t) ==
  IF t \in Tracked THEN [V EXCEPT ![t].assigned = TRUE] ELSE V

TaintFromAddressOf(V, t, x) ==
  IF t \in Tracked
  THEN [V EXCEPT ![t].tainted = TRUE,
                 ![t].taint_sources = @ \cup {x}]
  ELSE V

IsTainted(V, s) == s \in Tracked /\ V[s].tainted

PropagateTaint(V, t, s) ==
  IF t \in Tracked /\ IsTainted(V, s)
  THEN [V EXCEPT ![t].tainted = TRUE,
                 ![t].taint_sources = @ \cup V[s].taint_sources]
  ELSE V

TransferPointsTo(V, t, s) ==
  IF t \in Tracked /\ s \in Tracked
  THEN [V EXCEPT ![t].tainted = V[s].tainted,
                 ![t].taint_sources = V[s].taint_sources]
  ELSE V

ClearTaint(V, t) == [V EXCEPT ![t].tainted = FALSE]

(* Variants of the join: it keeps the taint both sides agree on, takes a   *)
(* name for assigned when one side assigned it, or loses the names one     *)
(* side has not assigned.                                                  *)
MergeCommonTaint(V, W) ==
  [v \in Tracked |->
     [assigned      |-> V[v].assigned /\ W[v].assigned,
      tainted       |-> V[v].tainted /\ W[v].tainted,
      taint_sources |-> V[v].taint_sources \cap W[v].taint_sources]]

MergeAnyAssigned(V, W) ==
  [v \in Tracked |->
     [assigned      |-> V[v].assigned \/ W[v].assigned,
      tainted       |-> V[v].tainted \/ W[v].tainted,
      taint_sources |-> V[v].taint_sources \cup W[v].taint_sources]]

MergeAssignedOnly(V, W) ==
  [v \in {n \in DOMAIN V \cap DOMAIN W :
         V[n].assigned /\ W[n].assigned} |->
     [assigned      |-> TRUE,
      tainted       |-> V[v].tainted \/ W[v].tainted,
      taint_sources |-> V[v].taint_sources \cup W[v].taint_sources]]

Merge(V, W) ==
  [v \in Tracked |->
     [assigned      |-> V[v].assigned /\ W[v].assigned,
      tainted       |-> V[v].tainted \/ W[v].tainted,
      taint_sources |-> V[v].taint_sources \cup W[v].taint_sources]]

(* _check_derefs_in_expr over an expression that dereferences D.           *)
CheckDerefs(V, D) == {Uninit(v) : v \in {d \in D \cap Tracked : ~V[d].assigned}}

-----------------------------------------------------------------------------
(***************************************************************************)
(* The reference.                                                          *)
(***************************************************************************)
ValueOf(P, addrs, froms) == addrs \cup UNION {P.may[s] : s \in froms}

Store(P, t, addrs, froms) ==
  IF P.dead THEN P
  ELSE [P EXCEPT !.may[t] = ValueOf(P, addrs, froms), !.must = @ \cup {t}]

Stop(P) == [P EXCEPT !.dead = TRUE]

Join(P, Q) ==
  IF P.dead THEN Q
  ELSE IF Q.dead THEN P
  ELSE [may  |-> [v \in Names |-> P.may[v] \cup Q.may[v]],
        must |-> P.must \cap Q.must,
        dead |-> FALSE]

(* Dereferences of D that reach an unassigned pointer on some path.        *)
WildDerefs(P, D) == IF P.dead THEN {} ELSE D \ P.must

HoldsScoped(P, froms) ==
  ~P.dead /\ \E s \in froms : P.may[s] \cap Scoped # {}

InLoop == \E i \in 1 .. Len(stack) : stack[i].kind = "LOOP"

NewLeaves(t, addrs, froms) ==
  IF InLoop /\ ~path.dead
  THEN {[target |-> t, addrs |-> addrs, froms |-> froms]}
  ELSE {}

-----------------------------------------------------------------------------
(***************************************************************************)
(* Visiting a statement.                                                   *)
(***************************************************************************)
CanVisit == ~crashed /\ ready /\ size < MaxStmts

(* Bookkeeping of a statement without a body: a body is one statement, so  *)
(* the walk goes on only at the top level.                                 *)
Visited(issued, wild, target) ==
  /\ size' = size + 1
  /\ ready' = (stack = <<>>)
  /\ warnings' = warnings \cup issued
  /\ last' = [issued |-> issued, wild |-> wild, target |-> target]
  /\ UNCHANGED <<crashed, stack>>

(* What an assignment of addresses "addrs" and of pointers "froms" to t    *)
(* does to the analysed program; "why" tells what the analyser missed.     *)
Execute(t, addrs, froms, why) ==
  /\ path' = Store(path, t, addrs, froms)
  /\ leaves' = leaves \cup NewLeaves(t, addrs, froms)
  /\ blind' = blind \cup why
  /\ UNCHANGED returned

(* Variant: only the innermost level of the scope counts as local.         *)
AddressAssignInnermost(t, x) ==
  /\ CanVisit
  /\ vars' = MarkAssigned(TaintFromAddressOf(vars, t, x), t)
  /\ Visited(IF x \in Locals /\ t \in Globals
             THEN {Dangling(t, {x})} ELSE {}, {}, {t})
  /\ Execute(t, {x}, {}, {})

(* t := @x                                                                 *)
AddressAssign(t, x) ==
  /\ CanVisit
  /\ vars' = MarkAssigned(TaintFromAddressOf(vars, t, x), t)
  /\ Visited(IF x \in Scoped /\ t \in Globals
             THEN {Dangling(t, {x})} ELSE {}, {}, {t})
  /\ Execute(t, {x}, {}, {})

(* t := s, and t := .s when D = {s}.  The target is marked before the      *)
(* dereferences of the right-hand side are checked.                        *)
Copied(t, s) ==
  MarkAssigned(TransferPointsTo(PropagateTaint(vars, t, s), t, s), t)

StoresTaint(t, s) == t \in Globals /\ IsTainted(Copied(t, s), s)

CopyAssign(t, s, D) ==
  /\ CanVisit
  /\ ~StoresTaint(t, s)
  /\ vars' = Copied(t, s)
  /\ Visited(CheckDerefs(Copied(t, s), D), WildDerefs(path, D), {t})
  /\ Execute(t, {}, {s},
             IF s \notin Tracked /\ HoldsScoped(path, {s})
             THEN {"UNTRACKED"} ELSE {})

CopyTaintToGlobal(t, s, D) ==
  /\ CanVisit
  /\ StoresTaint(t, s)
  /\ t \in Tracked
  /\ vars' = ClearTaint(Copied(t, s), t)
  /\ Visited({Dangling(t, Copied(t, s)[s].taint_sources)}
               \cup CheckDerefs(Copied(t, s), D), WildDerefs(path, D), {t})
  /\ Execute(t, {}, {s}, {})

(* The same store from a SUBPROC: state.vars[t].tainted = False raises     *)
(* KeyError because the globals are not in the state of a SUBPROC.         *)
CopyTaintKeyError(t, s) ==
  /\ CanVisit
  /\ StoresTaint(t, s)
  /\ t \notin Tracked
  /\ crashed' = TRUE
  /\ UNCHANGED <<vars, warnings, stack, ready, size, reference, last>>

(* t := an expression that is not a name: a literal (froms = {}) or an     *)
(* operator expression over the pointers of froms.                         *)
ExprAssign(t, froms, D) ==
  /\ CanVisit
  /\ vars' = MarkAssigned(vars, t)
  /\ Visited(CheckDerefs(vars', D), WildDerefs(path, D), {t})
  /\ Execute(t, {}, froms, IF HoldsScoped(path, froms) THEN {"ARITH"} ELSE {})

(* t := @x where the analyser does not look: in a BEGIN..END block, a DO   *)
(* or CASE statement, a labelled statement or the condition of an IF; as   *)
(* the second target of t1 := t := @x (line 240 takes targets[0]); as the  *)
(* initializer INT .t := @x, which only marks t (lines 193-197, 388-390);  *)
(* or in a procedure that is called.                                       *)
UnseenAssign(t, x) ==
  /\ CanVisit
  /\ Visited({}, {}, {t})
  /\ Execute(t, {x}, {}, IF path.dead THEN {} ELSE {"UNSEEN"})
  /\ UNCHANGED vars

(* RETURN @x                                                               *)
ReturnAddress(x) ==
  /\ CanVisit
  /\ Visited(IF x \in Scoped THEN {Returned({x})} ELSE {}, {}, {})
  /\ path' = Stop(path)
  /\ returned' = returned \cup (IF path.dead THEN {} ELSE {x} \cap Scoped)
  /\ UNCHANGED <<vars, leaves, blind>>

(* RETURN v, and RETURN .v when D = {v}                                    *)
ReturnName(v, D) ==
  /\ CanVisit
  /\ Visited((IF IsTainted(vars, v)
              THEN {Returned(vars[v].taint_sources)} ELSE {})
               \cup CheckDerefs(vars, D), WildDerefs(path, D), {})
  /\ path' = Stop(path)
  /\ returned' = returned \cup
                   (IF path.dead THEN {} ELSE path.may[v] \cap Scoped)
  /\ blind' = blind \cup (IF v \notin Tracked /\ HoldsScoped(path, {v})
                          THEN {"UNTRACKED"} ELSE {})
  /\ UNCHANGED <<vars, leaves>>

-----------------------------------------------------------------------------
(***************************************************************************)
(* IF, WHILE and FOR.  A condition dereferences D.                         *)
(***************************************************************************)
Fork(kind) ==
  [kind |-> kind, vars |-> vars, path |-> path,
   thenVars |-> vars, thenPath |-> path]

Enter(kind, D) ==
  /\ CanVisit
  /\ Len(stack) < MaxDepth
  /\ stack' = Append(stack, Fork(kind))
  /\ ready' = TRUE
  /\ size' = size + 1
  /\ warnings' = warnings \cup CheckDerefs(vars, D)
  /\ last' = [issued |-> CheckDerefs(vars, D),
              wild |-> WildDerefs(path, D), target |-> {}]
  /\ UNCHANGED <<vars, crashed, path, blind, returned>>

EnterIf(D) == Enter("THEN", D) /\ UNCHANGED leaves

(* WHILE checks its condition, FOR (D = {}) does not look at its bounds.   *)
EnterLoop(D) ==
  /\ Enter("LOOP", D)
  /\ leaves' = IF InLoop THEN leaves ELSE {}

Top == stack[Len(stack)]
Popped == SubSeq(stack, 1, Len(stack) - 1)

NoVisit == last' = [issued |-> {}, wild |-> {}, target |-> {}]

(* The THEN branch is done; the ELSE branch starts from the fork.          *)
EnterElse ==
  /\ ~crashed /\ stack # <<>> /\ Top.kind = "THEN"
  /\ stack' = Append(Popped, [Top EXCEPT !.kind = "ELSE", !.thenVars = vars,
                                         !.thenPath = path])
  /\ vars' = Top.vars
  /\ path' = Top.path
  /\ ready' = TRUE
  /\ NoVisit
  /\ UNCHANGED <<warnings, crashed, size, leaves, blind, returned>>

(* Variant: the state of the THEN branch is dropped when there is an ELSE.  *)
LeaveIfLastBranch ==
  /\ ~crashed /\ stack # <<>> /\ Top.kind \in {"THEN", "ELSE"}
  /\ vars' = Merge(Top.vars, vars)
  /\ path' = IF Top.kind = "THEN" THEN Join(path, Top.path)
             ELSE Join(Top.thenPath, path)
  /\ stack' = Popped
  /\ ready' = (Len(stack) = 1)
  /\ NoVisit
  /\ UNCHANGED <<warnings, crashed, size, leaves, blind, returned>>

(* state.merge(then_state); state.merge(else_state).  Without an ELSE      *)
(* part else_state is the untouched fork.                                  *)
LeaveIf ==
  /\ ~crashed /\ stack # <<>> /\ Top.kind \in {"THEN", "ELSE"}
  /\ IF Top.kind = "THEN"
     THEN /\ vars' = Merge(Merge(Top.vars, vars), Top.vars)
          /\ path' = Join(path, Top.path)
     ELSE /\ vars' = Merge(Merge(Top.vars, Top.thenVars), vars)
          /\ path' = Join(Top.thenPath, path)
  /\ stack' = Popped
  /\ ready' = (Len(stack) = 1)
  /\ NoVisit
  /\ UNCHANGED <<warnings, crashed, size, leaves, blind, returned>>

(* Variant: the state of the body is not merged back.                      *)
LeaveLoopUnmerged ==
  /\ ~crashed /\ stack # <<>> /\ Top.kind = "LOOP"
  /\ vars' = Top.vars
  /\ path' = Join(Top.path, path)
  /\ stack' = Popped
  /\ ready' = (Len(stack) = 1)
  /\ NoVisit
  /\ UNCHANGED <<warnings, crashed, size, leaves, blind, returned>>

LeaveLoop ==
  /\ ~crashed /\ stack # <<>> /\ Top.kind = "LOOP"
  /\ vars' = Merge(Top.vars, vars)
  /\ path' = Join(Top.path, path)
  /\ stack' = Popped
  /\ ready' = (Len(stack) = 1)
  /\ NoVisit
  /\ UNCHANGED <<warnings, crashed, size, leaves, blind, returned>>

(* The analysed program runs the body of its outermost loop once more and  *)
(* takes the branch to the assignment l.  A loop body is one statement, so *)
(* every iteration executes at most one assignment outside inner loops.    *)
(* The analyser visits the body once and does not see this.                *)
Iterate(l) ==
  /\ ~crashed /\ stack # <<>> /\ Top.kind = "LOOP"
  /\ \A i \in 1 .. Len(stack) - 1 : stack[i].kind # "LOOP"
  /\ ~path.dead
  /\ ~(ValueOf(path, l.addrs, l.froms) \subseteq path.may[l.target])
  /\ path' = [path EXCEPT !.may[l.target] =
                              @ \cup ValueOf(path, l.addrs, l.froms)]
  /\ blind' = blind \cup {"ITERATE"}
  /\ UNCHANGED <<vars, warnings, crashed, stack, ready, size, leaves,
                 returned, last>>

-----------------------------------------------------------------------------
(* Value parameters and indirect locals with an initializer ("given")      *)
(* start assigned, and hold no address yet: an initializer that is one is  *)
(* an UnseenAssign before the body.  The pointers of the PROC around a     *)
(* SUBPROC may already hold addresses of its locals ("inherited").         *)
Init ==
  \E given \in SUBSET Locals, inherited \in SUBSET Enclosing :
    /\ vars = [v \in Tracked |-> [assigned |-> v \in given, tainted |-> FALSE,
                                  taint_sources |-> {}]]
    /\ path = [may |-> [v \in Names |-> IF v \in Enclosing THEN inherited
                                       ELSE {}],
               must |-> given, dead |-> FALSE]
    /\ warnings = {}
    /\ crashed = FALSE
    /\ stack = <<>>
    /\ ready = TRUE
    /\ size = 0
    /\ leaves = {}
    /\ blind = {}
    /\ returned = {}
    /\ last = [issued |-> {}, wild |-> {}, target |-> {}]

(* What a single expression may dereference: nothing or one pointer.       *)
Derefs(v) == {{}, {v}}
AnyDeref == {{}} \cup {{v} : v \in Names}

Assign ==
  \E t \in Names :
    \/ \E x \in Names : AddressAssign(t, x) \/ UnseenAssign(t, x)
    \/ \E s \in Names :
         \/ \E D \in Derefs(s) : CopyAssign(t, s, D)
                                 \/ CopyTaintToGlobal(t, s, D)
                                 \/ ExprAssign(t, {s}, D)
         \/ CopyTaintKeyError(t, s)
    \/ ExprAssign(t, {}, {})

Return ==
  \E v \in Names :
    \/ ReturnAddress(v)
    \/ \E D \in Derefs(v) : ReturnName(v, D)

Next ==
  \/ Assign
  \/ Return
  \/ \E D \in AnyDeref : EnterIf(D) \/ EnterLoop(D)
  \/ EnterElse
  \/ LeaveIf
  \/ LeaveLoop
  \/ \E l \in leaves : Iterate(l)

Spec == Init /\ [][Next]_allvars

-----------------------------------------------------------------------------
(***************************************************************************)
(* What the analysis promises.                                             *)
(***************************************************************************)
ReportedSources == UNION {w.sources : w \in warnings}

Escaped == IF path.dead THEN {}
           ELSE (UNION {path.may[g] : g \in Globals}) \cap Scoped

(* No missed dangling store: when every statement was of a form the        *)
(* analyser follows, an address of a local that some execution leaves in a *)
(* global variable is named by a warning, through any chain of copies,     *)
(* branches and one pass over each loop (dataflow.py:3-8).  Excepted by    *)
(* "blind": the stores UnseenAssign lists, among them second targets and   *)
(* initializers; expressions over pointers; what a further iteration of a  *)
(* loop stores; in a SUBPROC, addresses taken from the PROC's names or from*)
(* globals.  Programs with a GOTO are not covered at all.                  *)
EscapesReported == blind = {} /\ ~crashed => Escaped \subseteq ReportedSources

(* No missed dangling RETURN: likewise, and with the same exceptions, the  *)
(* address of a local that some execution returns is named by a warning    *)
(* (_check_return).                                                        *)
ReturnsReported == blind = {} /\ ~crashed => returned \subseteq ReportedSources

(* No missed wild dereference: a dereference that some path reaches before *)
(* the pointer is assigned gets its own warning, unless the dereference is *)
(* part of the assignment to that pointer (_check_derefs_in_expr).         *)
UninitDerefReported ==
  \A v \in (last.wild \cap Tracked) \ last.target : Uninit(v) \in last.issued

(* The analysis reaches the end of every unit without an exception.        *)
AnalysisCompletes == ~crashed

-----------------------------------------------------------------------------
(***************************************************************************)
(* The inductive invariant behind these promises.  It speaks of every      *)
(* state the analyser holds: the current one and the ones saved in frames, *)
(* because LeaveIf and LeaveLoop merge the saved ones back.                *)
(***************************************************************************)

(* An address a tracked pointer may hold is among its taint sources, and   *)
(* the pointer is tainted unless a warning of R has named the address.     *)
Covered(V, P, R) ==
  ~P.dead => \A v \in Tracked : \A x \in P.may[v] \cap Scoped :
                /\ x \in V[v].taint_sources
                /\ V[v].tainted \/ x \in R

(* The addresses in global variables have been reported.                   *)
NoSilentEscape(P, R) ==
  ~P.dead => \A g \in Globals : P.may[g] \cap Scoped \subseteq R

Sound(V, P, R) == Covered(V, P, R) /\ NoSilentEscape(P, R)

SavedSound(stk, R) ==
  \A i \in 1 .. Len(stk) : /\ Sound(stk[i].vars, stk[i].path, R)
                           /\ Sound(stk[i].thenVars, stk[i].thenPath, R)

TaintInv ==
  blind = {} => /\ Sound(vars, path, ReportedSources)
                /\ SavedSound(stack, ReportedSources)
                /\ returned \subseteq ReportedSources

(* A pointer the analyser takes for assigned is assigned on every path.    *)
MustFollows(V, P) ==
  ~P.dead => \A v \in Tracked : V[v].assigned => v \in P.must

SavedFollow(stk) ==
  \A i \in 1 .. Len(stk) : /\ MustFollows(stk[i].vars, stk[i].path)
                           /\ MustFollows(stk[i].thenVars, stk[i].thenPath)

AssignedInv == MustFollows(vars, path) /\ SavedFollow(stack)

=============================================================================

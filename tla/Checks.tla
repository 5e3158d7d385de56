-------------------------------- MODULE Checks --------------------------------
(***************************************************************************)
(* The rules of a run that walk over statements (checks/control_flow.py,   *)
(* misc.py, bounds.py and cc_clobber.py), in the run of Main.              *)
(*                                                                         *)
(* A statement is [k, line, name, exprs, then, else]; exprs is the         *)
(* condition, the targets and the source, the arguments, the bounds of a   *)
(* FOR over name, or the operands.  k "block" is a compound, DO or CASE,   *)
(* "return" any statement no rule has a case for.  An expression is        *)
(* [k, name, subs]; k "other" is one of a form no rule has a case for, @   *)
(* and a sign among them.  The rules that other modules model are given by *)
(* the warnings they found: a case is [body, others, options, input], body *)
(* being that of PROC "f" and others[rule] the warnings of such a rule.    *)
(***************************************************************************)
EXTENDS Main

CONSTANT Literals     \* program.literals

Each(Op(_), s) == FlattenSeq([k \in DOMAIN s |-> Op(s[k])])
Maybe(ok, w) == IF ok THEN <<w>> ELSE <<>>

-----------------------------------------------------------------------------
(* Recursion: a call of its own name, anywhere in the body, but not in an  *)
(* argument of CALL, a loop condition or an assignment's target.           *)

RECURSIVE ExprCalls(_, _), StmtCalls(_, _)
ExprCalls(e, name) ==
  \/ e.k = "call" /\ e.name = name
  \/ e.k \in {"call", "bin"} /\ \E s \in ToSet(e.subs) : ExprCalls(s, name)

StmtCalls(s, name) ==
  \/ s.k = "call" /\ s.name = name
  \/ s.k = "assign" /\ ExprCalls(Last(s.exprs), name)
  \/ s.k = "if" /\ ExprCalls(s.exprs[1], name)
  \/ \E t \in ToSet(s.then \o s.else) : StmtCalls(t, name)

CallsSelf(body) == \E s \in ToSet(body) : StmtCalls(s, "f")

Recursion(c) ==
  Maybe(CallsSelf(c.body) /\ ~c.options.largestack,
        Warning("RECURSION_WITHOUT_LARGESTACK", 0, "f"))

(* SCAN: one of the next four statements beside it reads $CARRY.           *)
RECURSIVE ExprCarry(_), ScanIn(_), CompIn(_)
ExprCarry(e) ==
  \/ e.k = "dollar" /\ e.name = "CARRY"
  \/ e.k \in {"bin", "call"} /\ \E s \in ToSet(e.subs) : ExprCarry(s)

ReadsCarry(s) ==
  s.k \in {"if", "assign"} /\ \E e \in ToSet(s.exprs) : ExprCarry(e)

Nested(s) == IF s.k \in {"if", "while", "for"} THEN <<s.then, s.else>> ELSE <<>>

ScanIn(stmts) ==
  FlattenSeq([n \in DOMAIN stmts |->
    Maybe(stmts[n].k = "scan" /\ ~\E m \in n + 1 .. n + 4 :
                                     m \in DOMAIN stmts /\ ReadsCarry(stmts[m]),
          Warning("SCAN_WITHOUT_CARRY_CHECK", stmts[n].line, "scan"))
    \o Each(ScanIn, Nested(stmts[n]))])

(* $COMP as the condition of an IF.                                        *)
CompIn(stmts) ==
  FlattenSeq([n \in DOMAIN stmts |->
    LET s == stmts[n]
    IN  Maybe(s.k = "if" /\ s.exprs[1].k = "dollar" /\ s.exprs[1].name = "COMP",
              Warning("COMP_USED_AS_COMPARISON", s.line, "if"))
        \o Each(CompIn, Nested(s))])

(* Bounds: names compared in the conditions around a statement guard the   *)
(* indices in it.  An index that is itself an element is not looked at.    *)
Composed == {"bin", "call", "dollar"}

RECURSIVE Compared(_), NamesIn(_), Unchecked(_, _), BoundsIn(_, _)
NamesIn(e) ==
  (IF e.k = "var" THEN {e.name} ELSE {})
  \cup (IF e.k \in Composed THEN UNION {NamesIn(s) : s \in ToSet(e.subs)} ELSE {})

Compared(e) ==
  IF e.k # "bin" THEN {}
  ELSE (IF e.name = "<" THEN NamesIn(e) ELSE {})
       \cup UNION {Compared(s) : s \in ToSet(e.subs)}

Unchecked(e, guarded) ==
  IF e.k = "index" THEN NamesIn(e.subs[1]) \ (Literals \cup guarded)
  ELSE IF e.k \in Composed THEN UNION {Unchecked(s, guarded) : s \in ToSet(e.subs)}
  ELSE {}

BodyGuards(s, guarded) ==
  IF s.k \in {"if", "while"} THEN guarded \cup Compared(s.exprs[1]) ELSE guarded
ElseGuardsToo(s, guarded) == BodyGuards(s, guarded)
ElseGuards(s, guarded) == guarded

Examined(s) == IF s.k \in {"assign", "if", "while", "call"} THEN ToSet(s.exprs) ELSE {}

IndexWarnings(s, guarded) ==
  LET names == UNION {Unchecked(e, guarded) : e \in Examined(s)}
  IN  [k \in 1 .. Cardinality(names) |->
         Warning("INDEX_WITHOUT_BOUNDS_CHECK", s.line, SetToSeq(names)[k])]

BoundsIn(stmts, guarded) ==
  FlattenSeq([n \in DOMAIN stmts |->
    LET s == stmts[n]
    IN  IF s.k \in {"scan", "block"} THEN <<>>
        ELSE IndexWarnings(s, guarded)
             \o BoundsIn(s.then, BodyGuards(s, guarded))
             \o BoundsIn(s.else, ElseGuards(s, guarded))])

(* The condition code: the assignment before the test must set it for the  *)
(* walk to go on, and then must not have for a warning.                    *)
SetsCode(s) ==
  \/ s.k = "assign" /\ Last(s.exprs).k \in {"call", "dollar"}
  \/ s.k = "assign" /\ Last(s.exprs).k = "bin" /\ Last(s.exprs).name # "<"
  \/ s.k \in {"call", "scan"}
CodeIn(stmts) ==
  FlattenSeq([n \in DOMAIN stmts |->
    Maybe(/\ stmts[n].k = "if" /\ stmts[n].exprs[1].k = "bin"
          /\ stmts[n].exprs[1].name = "<" /\ n > 2
          /\ stmts[n - 1].k \in {"assign", "call"} /\ SetsCode(stmts[n - 1])
          /\ SetsCode(stmts[n - 2]) /\ ~SetsCode(stmts[n - 1]),
          Warning("CONDITION_CODE_CLOBBER", stmts[n].line, "if"))])

(* A rule of run_all_checks.                                               *)
RulesFound(c, rule) ==
  CASE rule = "control flow" -> Recursion(c) \o ScanIn(c.body)
    [] rule = "misc" -> c.others[rule] \o CompIn(c.body)
    [] rule = "bounds" -> BoundsIn(c.body, {})
    [] rule = "condition code" -> CodeIn(c.body)
    [] OTHER -> c.others[rule]

-----------------------------------------------------------------------------
(* What an index may be needs a check: a name in it, unless the path to the*)
(* statement compares that name, going into the THEN branch of an IF or    *)
(* into the body of a WHILE.                                               *)
RECURSIVE Within(_, _), Paths(_)
Within(e, kinds) ==     \* e and its parts, down through those kinds
  {e} \cup (IF e.k \in kinds THEN UNION {Within(s, kinds) : s \in ToSet(e.subs)} ELSE {})

Ordinary == {"bin", "call", "dollar"}
AnyKind == Ordinary \cup {"index", "other"}

Named(e, kinds) == {v.name : v \in {u \in Within(e, kinds) : u.k = "var"}}

IndexedBy(e, kinds) ==
  UNION {Named(x.subs[1], kinds) : x \in {u \in Within(e, kinds) : u.k = "index"}}

Tested(condition) ==
  UNION {Named(c, Ordinary) :
           c \in {u \in Within(condition, {"bin"}) : u.k = "bin" /\ u.name = "<"}}

Paths(stmts) ==
  UNION {LET s == stmts[n]
         IN  {<<[stmt |-> s, by |-> "none"]>>}
             \cup {<<[stmt |-> s, by |-> "then"]>> \o p : p \in Paths(s.then)}
             \cup {<<[stmt |-> s, by |-> "else"]>> \o p : p \in Paths(s.else)}
         : n \in DOMAIN stmts}

GuardedOn(p, name) ==
  \E n \in DOMAIN p : /\ p[n].by = "then" /\ p[n].stmt.k \in {"if", "while"}
                      /\ name \in Tested(p[n].stmt.exprs[1])

Unguarded(p, kinds) ==
  {name \in UNION {IndexedBy(e, kinds) : e \in ToSet(Last(p).stmt.exprs)} \ Literals :
     ~GuardedOn(p, name)}

(* What the rule passes by: operands of RETURN, SCAN and other statements, *)
(* bounds of a FOR, and all that is in a compound, labelled, DO or CASE    *)
(* statement.                                                              *)
PassedBy(p) ==
  \/ Last(p).stmt.k \in {"return", "scan", "for", "block"}
  \/ \E n \in 1 .. Len(p) - 1 : p[n].stmt.k = "block"

LoopVariables(p) == {p[n].stmt.name : n \in {m \in 1 .. Len(p) - 1 : p[m].stmt.k = "for"}}

(* No index is reported without need, and every index that needs a check   *)
(* is reported (bounds.py:3-10).  Excepted from the second part, because   *)
(* the rule does not look there: the statements of PassedBy; an index under*)
(* @, a sign or another form no rule has a case for; an index inside an    *)
(* index.  Left open: the variable of a FOR in its body, which line 10 says*)
(* is not reported and the code reports (lines 93-94).  That a name may be *)
(* assigned between its test and its use is in neither.                    *)
IndexesChecked ==
  Reported =>
    LET lines == {w.line : w \in {v \in ToSet(found) :
                                    v.kind = "INDEX_WITHOUT_BOUNDS_CHECK"}}
        Due(p) == ~PassedBy(p) /\ ~(Unguarded(p, Ordinary) \subseteq LoopVariables(p))
        paths == Paths(case.body)
    IN  /\ lines \subseteq {Last(p).stmt.line : p \in {q \in paths : Unguarded(q, AnyKind) # {}}}
        /\ {Last(p).stmt.line : p \in {q \in paths : Due(q)}} \subseteq lines
===============================================================================

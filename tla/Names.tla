-------------------------------- MODULE Names --------------------------------
(***************************************************************************)
(* The rules that judge a declaration or a statement by what a name stands *)
(* for: checks/ext_ptr.py through a ScopeStack, checks/equivalence.py      *)
(* through dictionaries of its own; and what proc_body.py keeps of a       *)
(* parameter.                                                              *)
(*                                                                         *)
(* The environment is a TAL program, declared unit by unit.  The rules are *)
(* passes of their own over it; none reads what another one writes, so one *)
(* walk stands for all of them.                                            *)
(***************************************************************************)
EXTENDS Naturals, SequencesExt, FiniteSetsExt

CONSTANTS
  Idents,     \* names a program declares
  Nobody,     \* what a declaration that is no equivalence overlays
  MaxDecls,   \* bound: declarations of a program
  MaxProcs,   \* bound: PROCs
  MaxSubs     \* bound: SUBPROCs of a PROC

ASSUME NamesAssumption ==
  /\ Nobody \notin Idents
  /\ MaxDecls \in Nat /\ MaxProcs \in Nat /\ MaxSubs \in Nat

VARIABLES
  unit,      \* <<>> the globals, <<p>> a PROC, <<p, s>> a SUBPROC of it
  part,      \* "decls" or "body"
  levels,    \* ScopeStack.levels of the unit
  maps,      \* the unit's scope of check_equivalence, and the enclosing ones
  warned,    \* what the last step issued
  stored,    \* the "target := @source" of the last step, if it was one
  program    \* reference: every declaration of the program, in order

vars == <<unit, part, levels, maps, warned, stored, program>>

(* "large" is an array of more than 32767 words, "overlay" a structure     *)
(* with "= name", the only declaration proc_body.py sets is_equivalence of.*)
VarKinds == {"plain", "large", "string", "pointer", "extended", "overlay"}
ParamKinds == {"value", "reference", "extended"}

(* What is kept of a variable or a parameter is a record: whether it is a  *)
(* parameter, its kind, the kind the program says it is ("written"), and   *)
(* what it overlays.                                                       *)

Init ==
  /\ unit = <<>> /\ part = "decls"
  /\ levels = <<<<>>>> /\ maps = <<<<>>>>
  /\ warned = {} /\ stored = <<>> /\ program = <<>>

With(f, x, e) == [y \in DOMAIN f \cup {x} |-> IF y = x THEN e ELSE f[y]]

IsIndirect(e) == e.kind \in {"pointer", "extended"}
IsExtended(e) == e.kind = "extended"

-----------------------------------------------------------------------------
(* The levels that know a name.                                            *)
Knowing(n) == {l \in DOMAIN levels : n \in DOMAIN levels[l]}

(* Variant: from the outermost level inwards.                              *)
LookupOutermost(n) ==
  IF Knowing(n) = {} THEN <<>> ELSE <<levels[Min(Knowing(n))][n]>>

(* ScopeStack.lookup: from the innermost level outwards; <<>> is None.     *)
Lookup(n) ==
  IF Knowing(n) = {} THEN <<>> ELSE <<levels[Max(Knowing(n))][n]>>

Fresh(n) == /\ part = "decls" /\ Len(program) < MaxDecls
            /\ \A i \in DOMAIN program :
                 ~(program[i].unit = unit /\ program[i].name = n)

Declared(n, e) ==
  program' = Append(program, [unit |-> unit, name |-> n, entry |-> e])

(* ScopeStack.declare, and the same declaration in check_equivalence.      *)
(* What a structure overlays was declared before it.                       *)
DeclareVar(n, k, o) ==
  LET e == [param |-> FALSE, kind |-> k, written |-> k, overlays |-> o]
  IN /\ Fresh(n)
     /\ IF k = "overlay" THEN o \in Idents \ {n} /\ Lookup(o) # <<>>
                         ELSE o = Nobody
     /\ levels' = Append(Front(levels), With(Last(levels), n, e))
     /\ maps' = Append(Front(maps), With(Last(maps), n, e))
     /\ Declared(n, e)
     /\ warned' = {} /\ stored' = <<>>
     /\ UNCHANGED <<unit, part>>

(* A parameter typed in the list keeps what it says; one that is only      *)
(* named there is an INT by value, and proc_full drops the declaration     *)
(* behind the header that says more.                                       *)
Read(k, inList) == IF inList THEN k ELSE "value"

(* ScopeStack.declare_param; check_equivalence does not know parameters.   *)
DeclareParam(n, k, inList) ==
  LET e == [param |-> TRUE, kind |-> Read(k, inList), written |-> k,
            overlays |-> Nobody]
  IN /\ unit # <<>> /\ Fresh(n)
     /\ \A i \in DOMAIN program :
           program[i].unit = unit => program[i].entry.param
     /\ levels' = Append(Front(levels), With(Last(levels), n, e))
     /\ Declared(n, e)
     /\ warned' = {} /\ stored' = <<>>
     /\ UNCHANGED <<unit, part, maps>>

(* The levels that were copied for a unit inside unit u: those of the      *)
(* globals and, for a SUBPROC, of its PROC.                                *)
Enclosing(s, u) == SubSeq(s, 1, Len(u))

(* _check_proc_ext, _check_subproc_ext: a new stack with the levels of the *)
(* parent and one more; check_equivalence copies the parent's dictionary.  *)
Enter(u) ==
  /\ unit' = u /\ part' = "decls"
  /\ levels' = Append(Enclosing(levels, u), <<>>)
  /\ maps' = LET M == SubSeq(maps, 1, Len(u)) IN Append(M, Last(M))
  /\ warned' = {} /\ stored' = <<>>
  /\ UNCHANGED program

EnterProc ==
  /\ part = "body"
  /\ LET p == IF unit = <<>> THEN 1 ELSE unit[1] + 1
     IN p <= MaxProcs /\ Enter(<<p>>)

EnterSub ==
  /\ part = "body" /\ unit # <<>>
  /\ LET s == IF Len(unit) = 1 THEN 1 ELSE unit[2] + 1
     IN s <= MaxSubs /\ Enter(<<unit[1], s>>)

(* Variant: the dictionary of the enclosing unit.                          *)
OverlaidOutside(e) ==
  LET M == maps[Len(maps) - (IF Len(maps) > 1 THEN 1 ELSE 0)]
  IN IF e.overlays \in DOMAIN M THEN <<M[e.overlays]>> ELSE <<>>

(* scope_vars.get(equivalence_target): the dictionary as it is when all    *)
(* declarations of the unit are in it.                                     *)
Overlaid(e) ==
  IF e.overlays \in DOMAIN Last(maps) THEN <<Last(maps)[e.overlays]>> ELSE <<>>

(* _check_equivalence_decl for a structure, which is direct and no STRING. *)
OverlayWarnings(t) ==
  IF IsIndirect(t) THEN {"EQUIVALENCE_TO_IMPLICIT_PTR"}
  ELSE IF t.kind = "string" THEN {"EQUIVALENCE_CROSS_ADDRESSING"} ELSE {}

Mine == {program[i] : i \in {j \in DOMAIN program : program[j].unit = unit}}

Judged(d) ==
  IF d.entry.overlays = Nobody THEN {}
  ELSE UNION {OverlayWarnings(t) : t \in Range(Overlaid(d.entry))}

Overlays == UNION {{[kind |-> w, name |-> d.name] : w \in Judged(d)} : d \in Mine}

(* The declarations of the unit are complete.                              *)
StartBody ==
  /\ part = "decls" /\ part' = "body"
  /\ warned' = Overlays
  /\ stored' = <<>>
  /\ UNCHANGED <<unit, levels, maps, program>>

(* A VarDecl that is a direct array of more than 32767 words: a ParamDecl  *)
(* has no word_size.                                                       *)
IsLarge(e) == ~e.param /\ ~IsIndirect(e) /\ e.kind = "large"

(* _check_stmt_ext for t := @x.                                            *)
Store(t, x) ==
  /\ part = "body" /\ unit # <<>>
  /\ stored' = <<t, x>>
  /\ warned' =
       IF /\ \E i \in Range(Lookup(x)) : IsLarge(i)
          /\ \E i \in Range(Lookup(t)) : ~IsExtended(i)
       THEN {[kind |-> "EXTENDED_POINTER_NEEDED", name |-> t]} ELSE {}
  /\ UNCHANGED <<unit, part, levels, maps, program>>

Next ==
  \/ \E n \in Idents, k \in VarKinds, o \in Idents \cup {Nobody} : DeclareVar(n, k, o)
  \/ \E n \in Idents, k \in ParamKinds, inList \in BOOLEAN : DeclareParam(n, k, inList)
  \/ StartBody
  \/ \E t, x \in Idents : Store(t, x)
  \/ EnterProc
  \/ EnterSub

Spec == Init /\ [][Next]_vars

-----------------------------------------------------------------------------
(* What a name means in TAL at the k-th declaration of the program, in a   *)
(* unit: the declaration of the innermost unit around it that was made by  *)
(* then.                                                                   *)
Meaning(n, u, k) ==
  LET D == {i \in 1..k : program[i].name = n /\ IsPrefix(program[i].unit, u)}
  IN {program[i] : i \in {j \in D : \A h \in D :
                            Len(program[h].unit) <= Len(program[j].unit)}}

(* The address of a large array is reported exactly when it goes to a      *)
(* variable not declared .EXT, whatever units declare the two names again  *)
(* and in whatever order they were walked.  The one wrong report is for a  *)
(* parameter whose .EXT stands behind the header (_check_stmt_ext).        *)
AddressesJudged ==
  stored # <<>> =>
    LET T == Meaning(stored[1], unit, Len(program))
        X == Meaning(stored[2], unit, Len(program))
        needed == /\ \E x \in X : x.entry.written = "large"
                  /\ \E t \in T : t.entry.written # "extended"
    IN /\ needed => warned # {}
       /\ warned # {} => needed \/ \E t \in T : t.entry.kind # t.entry.written

(* An overlay is judged by the declaration it names, in every unit; the    *)
(* exceptions are a parameter, which the rule does not see, and a name     *)
(* the unit declares again after the overlay (_build_scope_vars).          *)
OverlaysJudged ==
  part = "body" /\ stored = <<>> =>
    \A i \in DOMAIN program :
      (program[i].unit = unit /\ program[i].entry.kind = "overlay") =>
        LET o == program[i].entry.overlays
            then == Meaning(o, unit, i)
        IN then = Meaning(o, unit, Len(program))
             /\ (\A d \in then : ~d.entry.param)
           => {w.kind : w \in {v \in warned : v.name = program[i].name}}
                = UNION {OverlayWarnings(d.entry) : d \in then}
=============================================================================

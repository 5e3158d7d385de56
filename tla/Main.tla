--------------------------------- MODULE Main ---------------------------------
(***************************************************************************)
(* A run of the program from the parsed source to the exit status:         *)
(* __main__.main, run_all_checks of checks/__init__.py and the report of   *)
(* report.py.  What a rule finds is a parameter: Checks defines it for the *)
(* rules that walk over statements.                                        *)
(*                                                                         *)
(* A warning is [kind, line, what], what being what its message names.     *)
(***************************************************************************)
EXTENDS Naturals, SequencesExt, Orders

CONSTANTS
  Cases,         \* what a run is given: [options, input] and what the rules read
  Found(_, _)    \* the warnings of a rule, by name, for a case

Critical ==
  {"DANGLING_POINTER_STORE", "GLOBAL_OVERFLOW", "LOCAL_OVERFLOW",
   "SUBLOCAL_OVERFLOW", "EQUIVALENCE_TO_IMPLICIT_PTR",
   "STRING_VALUE_PARAM_MISMATCH", "RETURN_LOCAL_ADDR"}
High ==
  {"UNINIT_POINTER_DEREF", "EXTENDED_POINTER_NEEDED", "FIXED_DIV_PRECISION_LOSS",
   "RECURSION_WITHOUT_LARGESTACK", "SCAN_WITHOUT_CARRY_CHECK",
   "READONLY_ARRAY_MODIFICATION", "UPPER_32K_WITHOUT_PTR", "SECONDARY_OVERFLOW"}
PaddingScopes ==
  {"PADDING_WASTE_GLOBAL", "PADDING_WASTE_LOCAL", "PADDING_WASTE_SUBLOCAL"}
Padding == PaddingScopes \cup {"PADDING_WASTE_STRUCT"}
Low == PaddingScopes \cup {"LITERAL_COULD_BE_USED", "MISSING_DEBUG_DIRECTIVE"}
Groupable ==
  Padding \cup {"SCAN_WITHOUT_CARRY_CHECK", "INDEX_WITHOUT_BOUNDS_CHECK"}

Rank(kind) ==
  CASE kind \in Critical -> 0 [] kind \in High -> 1 [] kind \in Low -> 3
    [] OTHER -> 2

Options == [strict : BOOLEAN, padding : BOOLEAN, json : BOOLEAN,
            backtrace : BOOLEAN, largestack : BOOLEAN]
Unusable == {"missing", "preprocessor fails", "parser fails"}
Uncaught == {"unreadable", "an import fails"}

(* run_all_checks, in its order; the equivalence rule is run twice.        *)
Passes ==
  <<"storage", "control flow", "equivalence", "equivalence", "readonly", "misc",
    "fixed", "extended", "bounds", "condition code", "padding", "interproc", "dataflow">>

Warnings == [kind : STRING, line : Nat, what : STRING]
Warning(kind, line, what) == [kind |-> kind, line |-> line, what |-> what]
Exception == <<Warning("exception", 0, "")>>

ASSUME MainAssumption ==
  \A c \in Cases :
    /\ c.options \in Options
    /\ c.input \in Unusable \cup Uncaught \cup {"good"}
    /\ \A p \in DOMAIN Passes : Found(c, Passes[p]) \in Seq(Warnings)

VARIABLES
  case,
  stage,      \* "read", "checks", "filter", "report" or "exit"
  pass,       \* run_all_checks: the rule it is at
  warnings,   \* the warnings of run_all_checks, deduplicated after the last
  found,      \* reference: all that the rules found
  row,        \* format_report: the warning it is at
  grouped,    \* shown_grouped
  shown,      \* the report: warnings, each with the number it speaks for
  status      \* the exit status

mainVars == <<case, stage, pass, warnings, found, row, grouped, shown, status>>
options == case.options

MainInit ==
  /\ case \in Cases
  /\ stage = "read" /\ pass = 1
  /\ warnings = <<>> /\ found = <<>>
  /\ row = 1 /\ grouped = {} /\ shown = <<>> /\ status = 0

-----------------------------------------------------------------------------
(* The first warning of each kind and place stays.                         *)
Key(w) == <<w.kind, w.line>>
FirstOfKind(ws) ==
  {n \in DOMAIN ws : \A m \in 1 .. n - 1 : ws[m].kind # ws[n].kind}
DeduplicatedByKind(ws) ==
  Arranged(ws, FirstOfKind(ws), Ascending(FirstOfKind(ws)))

FirstOfKey(ws) ==
  {n \in DOMAIN ws : \A m \in 1 .. n - 1 : Key(ws[m]) # Key(ws[n])}
Deduplicated(ws) ==
  Arranged(ws, FirstOfKey(ws), Ascending(FirstOfKey(ws)))

Stop(code) == stage' = "exit" /\ status' = code

(* A file that cannot be read, preprocessed or parsed.                     *)
Read ==
  /\ stage = "read"
  /\ \/ case.input \in Unusable /\ Stop(2)
     \/ case.input \in Uncaught /\ Stop(1)
     \/ case.input = "good" /\ stage' = "checks" /\ status' = status
  /\ UNCHANGED <<case, pass, warnings, found, row, grouped, shown>>

RunCheck ==
  /\ stage = "checks" /\ pass <= Len(Passes)
  /\ Found(case, Passes[pass]) # Exception
  /\ warnings' = warnings \o Found(case, Passes[pass])
  /\ found' = warnings'
  /\ pass' = pass + 1
  /\ UNCHANGED <<case, stage, row, grouped, shown, status>>

(* An exception in a rule is not caught: a traceback and status 1.         *)
CheckFails ==
  /\ stage = "checks" /\ pass <= Len(Passes)
  /\ Found(case, Passes[pass]) = Exception
  /\ Stop(1)
  /\ UNCHANGED <<case, pass, warnings, found, row, grouped, shown>>

Deduplicate ==
  /\ stage = "checks" /\ pass > Len(Passes)
  /\ warnings' = Deduplicated(warnings)
  /\ stage' = "filter"
  /\ UNCHANGED <<case, pass, found, row, grouped, shown, status>>

(* --backtrace prints its paths and leaves the warnings out.               *)
Backtrace ==
  /\ stage = "filter" /\ options.backtrace
  /\ Stop(0)
  /\ UNCHANGED <<case, pass, warnings, found, row, grouped, shown>>

WantedStrictly(w) ==
  /\ options.strict => Rank(w.kind) = 1
  /\ ~options.padding => w.kind \notin Padding
Wanted(w) ==
  /\ options.strict => Rank(w.kind) <= 1
  /\ ~options.padding => w.kind \notin Padding

(* Text is sorted by severity, kind and line, JSON is not.  Any order of the *)
(* kinds of one severity stands for that of their names.                     *)
Place(kind) == CHOOSE n \in DOMAIN warnings : /\ warnings[n].kind = kind
                                             /\ \A m \in 1 .. n - 1 : warnings[m].kind # kind
Before(v, w) ==
  \/ Rank(v.kind) < Rank(w.kind)
  \/ Rank(v.kind) = Rank(w.kind) /\ Place(v.kind) < Place(w.kind)
  \/ v.kind = w.kind /\ v.line < w.line

Filter ==
  /\ stage = "filter" /\ ~options.backtrace
  /\ LET kept == {n \in DOMAIN warnings : Wanted(warnings[n])}
         sorted == {p \in kept \X kept : Before(warnings[p[1]], warnings[p[2]])}
     IN  warnings' = Arranged(warnings, kept,
                              IF options.json THEN Ascending(kept) ELSE sorted)
  /\ stage' = "report"
  /\ UNCHANGED <<case, pass, found, row, grouped, shown, status>>

Entry(w, n) == [kind |-> w.kind, line |-> w.line, for |-> n]
Occurrences(kind) ==
  Cardinality({n \in DOMAIN warnings : warnings[n].kind = kind})
InGroup(kind) == kind \in Groupable /\ kind \in grouped

ReportJson ==
  /\ stage = "report" /\ options.json /\ row <= Len(warnings)
  /\ shown' = Append(shown, Entry(warnings[row], 1))
  /\ row' = row + 1
  /\ UNCHANGED <<case, stage, pass, warnings, found, grouped, status>>

(* The first of a groupable kind speaks for the others.                    *)
ReportText ==
  /\ stage = "report" /\ ~options.json /\ row <= Len(warnings)
  /\ LET kind == warnings[row].kind
     IN  \/ /\ InGroup(kind)
            /\ UNCHANGED <<shown, grouped>>
         \/ /\ ~InGroup(kind) /\ kind \in Groupable
            /\ shown' = Append(shown, Entry(warnings[row], Occurrences(kind)))
            /\ grouped' = grouped \cup {kind}
         \/ /\ kind \notin Groupable
            /\ shown' = Append(shown, Entry(warnings[row], 1))
            /\ grouped' = grouped
  /\ row' = row + 1
  /\ UNCHANGED <<case, stage, pass, warnings, found, status>>

Finish ==
  /\ stage = "report" /\ row > Len(warnings)
  /\ Stop(IF \E w \in ToSet(warnings) : w.kind \in Critical THEN 1 ELSE 0)
  /\ UNCHANGED <<case, pass, warnings, found, row, grouped, shown>>

MainNext == \/ Read \/ RunCheck \/ CheckFails \/ Deduplicate \/ Backtrace
            \/ Filter \/ ReportJson \/ ReportText \/ Finish

MainSpec == MainInit /\ [][MainNext]_mainVars

-----------------------------------------------------------------------------
(* Safety.                                                                 *)

Reported == stage = "exit" /\ pass > Len(Passes) /\ ~options.backtrace

(* Nothing is hidden: each place a rule found something at, and that the   *)
(* options ask for, has an entry of its own in the report, or is counted   *)
(* in the one entry of its kind, which names the first of them; and the    *)
(* report shows nothing else and nothing twice, whatever rules ran twice   *)
(* and in whatever order they ran.  A place is what the code takes for one:*)
(* lines of imported files are places of the main file.                    *)
NothingHidden ==
  LET asked == {Key(w) : w \in {v \in ToSet(found) : Wanted(v)}}
      Of(kind) == {k \in asked : k[1] = kind}
      EntriesOf(kind) == {n \in DOMAIN shown : shown[n].kind = kind}
  IN  Reported =>
        /\ \A n \in DOMAIN shown : Key(shown[n]) \in asked
        /\ \A k \in asked :
             IF options.json \/ k[1] \notin Groupable
             THEN \E n \in DOMAIN shown :
                    /\ Key(shown[n]) = k /\ shown[n].for = 1
                    /\ \A m \in DOMAIN shown : Key(shown[m]) = k => m = n
             ELSE \E n \in DOMAIN shown :
                    /\ EntriesOf(k[1]) = {n}
                    /\ shown[n].for = Cardinality(Of(k[1]))
                    /\ shown[n].line <= k[2]

(* The exit status says what was found, not what was asked for: 2 for a    *)
(* source that is missing or fails the preprocessor or the parser; 1 when  *)
(* an exception is not caught (the source or an import cannot be decoded, a*)
(* rule fails) and when some rule found something critical; 0 otherwise,   *)
(* and for a backtrace.  --strict, --padding and the format do not change  *)
(* it.                                                                     *)
ExitHonest ==
  stage = "exit" =>
    status = IF case.input \in Unusable THEN 2
             ELSE IF pass <= Len(Passes) THEN 1
             ELSE IF options.backtrace THEN 0
             ELSE IF \E w \in ToSet(found) : w.kind \in Critical THEN 1
             ELSE 0
===============================================================================

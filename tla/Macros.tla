-------------------------------- MODULE Macros --------------------------------
(***************************************************************************)
(* The DEFINE preprocessor of segmsan/preprocessor.py as __main__ runs it: *)
(* collect_defines takes the DEFINE statements out of the text and leaves  *)
(* their newlines, twice, for a DEFINE behind another on its line begins   *)
(* the line only when the first is gone; expand_macros replaces            *)
(* invocations in up to max_passes passes over the text.                   *)
(*                                                                         *)
(* Text is a sequence of tokens: names, punctuation and "NL", a newline.   *)
(* Blanks stand between tokens and are left out, with comments and strings *)
(* (the expressions match inside both).  "','" is the escaped comma.       *)
(***************************************************************************)
EXTENDS Integers, SequencesExt, FiniteSetsExt

CONSTANTS
  Idents,      \* identifiers, those of macros and parameters among them
  Sources,     \* the texts to preprocess
  Imports,     \* what collect_defines_recursive may add: macro sequences
  MaxPasses    \* expand_macros's max_passes

Tokens == Idents \cup {"define", "=", "#", "(", ")", ",", "','", ";", "NL"}
Macro == [name : Idents, params : Seq(Idents), body : Seq(Tokens)]

ASSUME MacrosAssumption ==
  /\ Idents \cap {"define", "=", "#", "(", ")", ",", "','", ";", "NL", "end"} = {}
  /\ Sources \subseteq Seq(Tokens)
  /\ Imports \subseteq Seq(Macro)
  /\ MaxPasses \in Nat

VARIABLES
  phase,     \* "collect", "again" (collect once more), "expand" or "done"
  source,    \* the text this pass reads
  i,         \* the token it is at
  out,       \* the text it has written
  macros,    \* the macros collected
  entry,     \* collect: a DEFINE statement is being read
  passes,    \* expand_macros's passes so far
  records,   \* ExpansionRecords of this pass
  last,      \* the last substitution: body, params, arguments, result
  lines      \* reference: newlines of the original text

vars == <<phase, source, i, out, macros, entry, passes, records, last, lines>>

Count(t) == Cardinality({k \in DOMAIN t : t[k] = "NL"})
Blank(n) == [k \in 1 .. n |-> "NL"]
Rest(k) == SubSeq(source, k, Len(source))

Init ==
  /\ phase = "collect"
  /\ source \in Sources
  /\ i = 1 /\ out = <<>> /\ macros = <<>> /\ entry = FALSE
  /\ passes = 0 /\ records = <<>> /\ last = <<>>
  /\ lines = Count(source)

-----------------------------------------------------------------------------
(* Positions in the text.                                                  *)

(* The first token from k on that is no newline (\s* ), and the first "c". *)
Solid(k) ==
  Min({j \in k .. Len(source) : source[j] # "NL"} \cup {Len(source) + 1})
FirstOf(c, k) ==
  Min({j \in k .. Len(source) : source[j] = c} \cup {Len(source) + 1})
At(k) == IF k \in DOMAIN source THEN source[k] ELSE "end"

Stripped(t) ==
  LET solid == {k \in DOMAIN t : t[k] # "NL"}
  IN IF solid = {} THEN <<>> ELSE SubSeq(t, Min(solid), Max(solid))

Collecting == phase \in {"collect", "again"}

(* A DEFINE begins a line.                                                 *)
StartsDefine == At(i) = "define" /\ At(i - 1) \in {"end", "NL"}

Identifiers(t) ==
  FoldLeft(LAMBDA r, c : IF c \in Idents THEN Append(r, c) ELSE r, <<>>, t)

(* _DEFINE_ENTRY_RE at k: name, parameters, "=", body up to the first "#". *)
EntryAt(k) ==
  LET n == Solid(k)
      p == Solid(n + 1)
      close == FirstOf(")", p)
      e == IF At(p) = "(" /\ close <= Len(source) THEN Solid(close + 1) ELSE p
  IN [ok |-> At(n) \in Idents /\ At(e) = "=" /\ FirstOf("#", e) <= Len(source),
      macro |-> [name |-> At(n),
                 params |-> IF e = p THEN <<>>
                            ELSE Identifiers(SubSeq(source, p, close)),
                 body |-> Stripped(SubSeq(source, e + 1, FirstOf("#", e) - 1))],
      end |-> FirstOf("#", e) + 1]

(* A token outside the DEFINE statements.                                  *)
CollectCopy ==
  /\ Collecting /\ ~entry /\ i <= Len(source) /\ ~StartsDefine
  /\ out' = Append(out, source[i])
  /\ i' = i + 1
  /\ UNCHANGED <<phase, source, macros, entry, passes, records, last, lines>>

CollectStart ==
  /\ Collecting /\ ~entry /\ StartsDefine
  /\ entry' = TRUE /\ i' = i + 1
  /\ UNCHANGED <<phase, source, out, macros, passes, records, last, lines>>

(* The newlines of the removed text.                                       *)
Kept(from, to) == Blank(Count(SubSeq(source, from, to - 1)))

(* One "name = body#" and the "," or ";" after it.  The macros of the      *)
(* second time are dropped.                                                *)
CollectEntry ==
  /\ Collecting /\ entry /\ EntryAt(i).ok
  /\ LET end == EntryAt(i).end
         sep == Solid(end)
         to == IF At(sep) \in {",", ";"} THEN sep + 1 ELSE end
     IN /\ macros' = IF phase = "again" THEN macros
                      ELSE Append(macros, EntryAt(i).macro)
        /\ out' = out \o Kept(i, to)
        /\ i' = to
        /\ entry' = (At(sep) = ",")
  /\ UNCHANGED <<phase, source, passes, records, last, lines>>

(* What follows is no entry: the statement ends here.                      *)
CollectBreak ==
  /\ Collecting /\ entry /\ ~EntryAt(i).ok
  /\ entry' = FALSE
  /\ UNCHANGED <<phase, source, i, out, macros, passes, records, last, lines>>

(* The local macros come a second time with the recursive collection, and  *)
(* the imported ones after them.                                           *)
CollectDone(imported) ==
  /\ phase = "collect" /\ ~entry /\ i > Len(source)
  /\ macros' = macros \o macros \o imported
  /\ phase' = "again"
  /\ source' = out /\ i' = 1 /\ out' = <<>>
  /\ UNCHANGED <<entry, passes, records, last, lines>>

CollectedAgain ==
  /\ phase = "again" /\ ~entry /\ i > Len(source)
  /\ phase' = IF macros = <<>> THEN "done" ELSE "expand"
  /\ source' = out /\ i' = 1 /\ out' = <<>>
  /\ UNCHANGED <<macros, entry, passes, records, last, lines>>

-----------------------------------------------------------------------------
(* macro_map: the last macro of a name stays.                              *)
MacroNames == {macros[k].name : k \in DOMAIN macros}
MacroOf(n) ==
  macros[Max({k \in DOMAIN macros : macros[k].name = n})]

(* _find_balanced_parens from the "(" at k; 0 when it is never closed.     *)
Closing(k) ==
  LET ends == {j \in k .. Len(source) : source[j] = ")"
                 /\ Cardinality({m \in k .. j : source[m] = ")"})
                      = Cardinality({m \in k .. j : source[m] = "("})}
  IN IF ends = {} THEN 0 ELSE Min(ends)

(* _split_args, one token further: a comma outside parentheses ends an     *)
(* argument, an escaped comma becomes one.                                 *)
Split(s, c) ==
  CASE c = "','" -> [s EXCEPT !.current = Append(@, ",")]
    [] c = "(" -> [s EXCEPT !.current = Append(@, c), !.depth = @ + 1]
    [] c = ")" -> [s EXCEPT !.current = Append(@, c), !.depth = @ - 1]
    [] c = "," /\ s.depth = 0 ->
         [s EXCEPT !.args = Append(@, Stripped(s.current)), !.current = <<>>]
    [] OTHER -> [s EXCEPT !.current = Append(@, c)]

(* An empty last argument is dropped.                                      *)
SplitArgs(t) ==
  LET s == FoldLeft(Split, [args |-> <<>>, depth |-> 0, current |-> <<>>], t)
      rest == Stripped(s.current)
  IN IF rest = <<>> THEN s.args ELSE Append(s.args, rest)

Replace(t, p, a) ==
  FoldLeft(LAMBDA r, c : r \o (IF c = p THEN a ELSE <<c>>), <<>>, t)

Pairs(params, args) ==
  [k \in 1 .. Min({Len(params), Len(args)}) |-> <<params[k], args[k]>>]

(* Variant: the last parameter is substituted first.                       *)
SubstituteBackwards(body, params, args) ==
  FoldRight(LAMBDA pa, r : Replace(r, pa[1], pa[2]), Pairs(params, args), body)

(* _substitute_params: one parameter after the other.                      *)
Substitute(body, params, args) ==
  FoldLeft(LAMBDA r, pa : Replace(r, pa[1], pa[2]), body, Pairs(params, args))

(* Variant: missing newlines are added, surplus ones stay.                 *)
PadUp(t, n) == t \o Blank(IF Count(t) < n THEN n - Count(t) ELSE 0)

(* _pad_to_match_lines: a replacement has the newlines of the original.    *)
Pad(t, n) ==
  IF Count(t) > n THEN Replace(t, "NL", <<>>) \o Blank(n)
  ELSE t \o Blank(n - Count(t))

IsMacro(k) == At(k) \in MacroNames
Called(k) == At(Solid(k + 1)) = "("

(* name(...): a call of a macro with parameters.                           *)
Call(k) == /\ IsMacro(k) /\ MacroOf(source[k]).params # <<>>
           /\ Called(k) /\ Closing(Solid(k + 1)) # 0

(* A macro without parameters is found before ";" or a newline only.       *)
Plain(k) == /\ IsMacro(k) /\ MacroOf(source[k]).params = <<>>
            /\ ~Called(k) /\ At(k + 1) \in {";", "NL"}

Record(k, text) ==
  LET first == Count(out) + 1
  IN [line |-> Count(SubSeq(source, 1, k - 1)) + 1,
      first |-> first, end |-> first + Count(text)]

Replaced(k, to, text) ==
  LET padded == Pad(text, Count(SubSeq(source, k, to)))
  IN /\ out' = out \o padded
     /\ records' = Append(records, Record(k, padded))
     /\ i' = to + 1

ExpandCall ==
  /\ phase = "expand" /\ Call(i)
  /\ LET m == MacroOf(source[i])
         open == Solid(i + 1)
         args == SplitArgs(SubSeq(source, open + 1, Closing(open) - 1))
     IN /\ Replaced(i, Closing(open), Substitute(m.body, m.params, args))
        /\ last' = <<[body |-> m.body, params |-> m.params, args |-> args,
                      result |-> Substitute(m.body, m.params, args)]>>
  /\ UNCHANGED <<phase, source, macros, entry, passes, lines>>

ExpandPlain ==
  /\ phase = "expand" /\ Plain(i)
  /\ Replaced(i, i, MacroOf(source[i]).body)
  /\ UNCHANGED <<phase, source, macros, entry, passes, last, lines>>

Copy ==
  /\ phase = "expand" /\ i <= Len(source) /\ ~Call(i) /\ ~Plain(i)
  /\ out' = Append(out, source[i])
  /\ i' = i + 1
  /\ UNCHANGED <<phase, source, macros, entry, passes, records, last, lines>>

(* Variant: one pass and no other.                                         *)
MorePassesNever == FALSE

(* for _ in range(max_passes), until a pass changes nothing.               *)
MorePasses == out # source /\ passes + 1 < MaxPasses

EndPass ==
  /\ phase = "expand" /\ i > Len(source)
  /\ passes' = passes + 1
  /\ phase' = IF MorePasses THEN "expand" ELSE "done"
  /\ source' = out /\ i' = 1 /\ out' = <<>> /\ records' = <<>>
  /\ UNCHANGED <<macros, entry, last, lines>>

Next ==
  \/ CollectCopy \/ CollectStart \/ CollectEntry \/ CollectBreak
  \/ (\E m \in Imports : CollectDone(m)) \/ CollectedAgain
  \/ ExpandCall \/ ExpandPlain \/ Copy \/ EndPass

Spec == Init /\ [][Next]_vars

-----------------------------------------------------------------------------
(* Every line of the program stays on its line, through the removal of the *)
(* DEFINEs and every pass, and an expansion is recorded at the line of its *)
(* call: all positions of the report rest on it (collect_defines,          *)
(* _pad_to_match_lines, ExpansionRecord).                                  *)
LinesKept ==
  /\ Count(out) + Count(Rest(i)) = lines
  /\ \A k \in DOMAIN records :
       /\ records[k].first = records[k].line
       /\ records[k].end <= lines + 1

(* The parameters replaced at once.                                        *)
AtOnce(s) ==
  LET arg(c) == s.args[Min({k \in DOMAIN s.params : s.params[k] = c})]
      n == Min({Len(s.params), Len(s.args)})
      bound == {s.params[k] : k \in 1 .. n}
  IN FoldLeft(LAMBDA r, c : r \o (IF c \in bound THEN arg(c) ELSE <<c>>),
              <<>>, s.body)

(* Substituting one parameter after the other gives what substituting them *)
(* at once gives, unless an argument mentions a parameter that comes later *)
(* (_substitute_params).                                                   *)
SubstitutionExact ==
  \A k \in DOMAIN last :
     LET s == last[k]
     IN (\A a, b \in 1 .. Min({Len(s.params), Len(s.args)}) :
           a < b => s.params[b] \notin Range(s.args[a]))
        => s.result = AtOnce(s)

(* m uses n: a macro's body contains the name of another.                  *)
Uses(n) == Range(MacroOf(n).body) \cap MacroNames
Cyclic == \E S \in SUBSET MacroNames :
             S # {} /\ \A n \in S : Uses(n) \cap S # {}

(* Without a cycle in the table the passes come to their end by themselves *)
(* and leave no invocation of the forms they know (expand_macros).  Of the *)
(* texts of the instance, whose calls nest less deep than MaxPasses: one   *)
(* that nests deeper, or that names a macro in an argument and makes a     *)
(* call of it only by substitution, may meet the limit of passes.          *)
Settled ==
  phase = "done" /\ ~Cyclic =>
     \A k \in DOMAIN source : ~Call(k) /\ ~Plain(k)
==============================================================================

------------------------------- MODULE Storage -------------------------------
(***************************************************************************)
(* What declarations take in memory: the word accounting of scope.py, the  *)
(* overflow rules and the summary of checks/storage.py, and the layout and *)
(* reordering advice of checks/padding.py.  The size of one declaration is *)
(* a parameter: Sizes defines it.                                          *)
(*                                                                         *)
(* A program is its globals, one PROC's locals and one SUBPROC's           *)
(* sublocals, each a sequence of declarations as written:                  *)
(*   [name, type, ind, bounds, eq, marker, body]                           *)
(* with ind "no", "std" or "ext", marker the "*" or name in parentheses,   *)
(* and bounds and body sequences of at most one element; the number that   *)
(* is a name stands for its place among the names.                         *)
(***************************************************************************)
EXTENDS Integers, SequencesExt, FiniteSetsExt, Orders

CONSTANTS
  Programs,          \* [Scopes -> sequences of declarations]
  WordSize(_),       \* word_size of a declaration
  DataWordSize(_),   \* data_word_size
  ByteSize(_)        \* byte_size

Scopes == <<"GLOBAL", "LOCAL", "SUBLOCAL">>
Limit == [s \in ToSet(Scopes) |->
            CASE s = "GLOBAL" -> 256 [] s = "LOCAL" -> 127 [] s = "SUBLOCAL" -> 32]
COMBINED_LIMIT == 32768

Direct(d) == d.ind = "no"
Fields(d) == IF d.body = <<>> THEN <<>> ELSE d.body[1]

IsSequence(ds) == ds \in Seq(ToSet(ds))
Declaration(d) ==
  /\ d.name \in Int /\ d.eq \in BOOLEAN
  /\ WordSize(d) \in Int /\ DataWordSize(d) \in Int /\ ByteSize(d) \in Int

ASSUME StorageAssumption ==
  \A p \in Programs : \A s \in ToSet(Scopes) :
    /\ IsSequence(p[s])
    /\ \A d \in ToSet(p[s]) :
         /\ Declaration(d) /\ IsSequence(Fields(d))
         /\ \A f \in ToSet(Fields(d)) : Declaration(f)

VARIABLES
  program,
  rule,       \* "declare", "templates", "padding", "summary" or "done"
  scope,      \* the scope it is at, a number of Scopes
  position,   \* declare: the declaration it is at
  level,      \* ScopeLevel: primary_words, secondary_words, extended_words
  issued,     \* the warnings: [kind, scope, at]
  layouts,    \* _check_scope_padding: per scope, bytes and padding found
  advice,     \* _suggest_reorder: structure, order and the padding promised
  rows        \* format_storage_summary: one ScopeLevel per scope

storageVars ==
  <<program, rule, scope, position, level, issued, layouts, advice, rows>>

EmptyLevel == [primary |-> 0, secondary |-> 0, extended |-> 0]

StorageInit ==
  /\ program \in Programs
  /\ rule = "declare" /\ scope = 1 /\ position = 1
  /\ level = EmptyLevel
  /\ issued = <<>> /\ layouts = <<>> /\ advice = <<>> /\ rows = <<>>

Decls == program[Scopes[scope]]

IsTemplate(d) == d.body # <<>> /\ d.marker = "*"
Unresolved(d) ==
  d.type = "STRUCT" /\ d.body = <<>> /\ d.marker \notin {"", "*"}
PointerWords(d) == IF d.ind = "ext" THEN 2 ELSE 1

Alignment(d) == IF Direct(d) /\ d.type = "STRING" THEN 1 ELSE 2
AlignOffsetAlways(offset, n) == offset + (n - (offset % n))
AlignOffset(offset, n) ==
  IF offset % n = 0 THEN offset ELSE offset + (n - (offset % n))

-----------------------------------------------------------------------------
(* The overflow rules.                                                     *)

(* ScopeStack.declare                                                      *)
Declared(lv, d) ==
  LET pointer == IF IsTemplate(d) THEN 0 ELSE PointerWords(d)
      data == IF Direct(d) THEN 0 ELSE DataWordSize(d)
  IN  IF d.eq THEN lv
      ELSE [primary |-> lv.primary + (IF Direct(d) THEN WordSize(d) ELSE pointer),
            secondary |-> lv.secondary + (IF d.ind = "ext" THEN 0 ELSE data),
            extended |-> lv.extended + (IF d.ind = "ext" THEN data ELSE 0)]

Combined(lv) == lv.primary + lv.secondary

Overflow(s) ==
  CASE s = "GLOBAL" -> "GLOBAL_OVERFLOW" [] s = "LOCAL" -> "LOCAL_OVERFLOW"
    [] s = "SUBLOCAL" -> "SUBLOCAL_OVERFLOW"

Warn(kind, ok) ==
  IF ok THEN <<>> ELSE <<[kind |-> kind, scope |-> Scopes[scope], at |-> position]>>

(* The checks at one declaration; a SUBPROC has no secondary storage.      *)
OverflowsEarly(lv) ==
  Warn(Overflow(Scopes[scope]), level.primary <= Limit[Scopes[scope]])
  \o Warn("SECONDARY_OVERFLOW",
          Scopes[scope] = "SUBLOCAL" \/ Combined(level) <= COMBINED_LIMIT)

Overflows(lv) ==
  Warn(Overflow(Scopes[scope]), lv.primary <= Limit[Scopes[scope]])
  \o Warn("SECONDARY_OVERFLOW",
          Scopes[scope] = "SUBLOCAL" \/ Combined(lv) <= COMBINED_LIMIT)

Declare ==
  /\ rule = "declare" /\ position <= Len(Decls)
  /\ level' = Declared(level, Decls[position])
  /\ issued' = issued
       \o Warn("SUBLOCAL_INDIRECT", Scopes[scope] # "SUBLOCAL" \/ Direct(Decls[position]))
       \o Overflows(level')
  /\ position' = position + 1
  /\ UNCHANGED <<program, rule, scope, layouts, advice, rows>>

(* The end of a scope: arrays over 32K, but not those of a SUBPROC.        *)
Large(d) == Direct(d) /\ d.bounds # <<>> /\ WordSize(d) > 32767
UpperWarning(d) ==
  [kind |-> "UPPER_32K_WITHOUT_PTR", scope |-> Scopes[scope], at |-> d.name]
UpperWarnings ==
  LET large == Where(Decls, Large)
  IN  IF Scopes[scope] = "SUBLOCAL" THEN <<>>
      ELSE [k \in DOMAIN large |-> UpperWarning(large[k])]

LeaveScope ==
  /\ rule = "declare" /\ position > Len(Decls)
  /\ issued' = issued \o UpperWarnings
  /\ level' = EmptyLevel /\ position' = 1
  /\ IF scope < Len(Scopes)
     THEN scope' = scope + 1 /\ rule' = rule
     ELSE scope' = 1 /\ rule' = "templates"
  /\ UNCHANGED <<program, layouts, advice, rows>>

(* Templates nobody resolved: one warning for each name in the locals, one *)
(* for each declaration of the globals, none in a SUBPROC.                 *)
LocalTemplates == {d.marker : d \in {e \in ToSet(program["LOCAL"]) : Unresolved(e)}}
GlobalTemplates == Where(program["GLOBAL"], Unresolved)

CheckTemplates ==
  /\ rule = "templates"
  /\ issued' = issued
       \o [k \in 1 .. Cardinality(LocalTemplates) |->
             [kind |-> "UNRESOLVED_TEMPLATE", scope |-> "LOCAL", at |-> 0]]
       \o [k \in DOMAIN GlobalTemplates |->
             [kind |-> "UNRESOLVED_TEMPLATE", scope |-> "GLOBAL",
              at |-> GlobalTemplates[k].name]]
  /\ rule' = "padding"
  /\ UNCHANGED <<program, scope, position, level, layouts, advice, rows>>

-----------------------------------------------------------------------------
(* Padding.                                                                *)

(* _simulate_scope_layout; a pointer is put where the last item ended.     *)
Placed(l, d) ==
  LET at == IF Direct(d) THEN AlignOffset(l.bytes, Alignment(d)) ELSE l.bytes
  IN  [bytes |-> at + ByteSize(d), pad |-> l.pad + (at - l.bytes)]
Layout(ds) == FoldLeft(Placed, [bytes |-> 0, pad |-> 0], ds)

(* _suggest_reorder: by falling size, then by name; every item of more     *)
(* than one byte counts as word-aligned.                                   *)
Larger(d, e) ==
  \/ ByteSize(d) > ByteSize(e)
  \/ ByteSize(d) = ByteSize(e) /\ d.name < e.name
Alike(d, e) == ByteSize(d) = ByteSize(e) /\ d.name = e.name
Reordered(ds) ==
  Arranged(ds, DOMAIN ds,
    {p \in (DOMAIN ds) \X (DOMAIN ds) :
       \/ Larger(ds[p[1]], ds[p[2]])
       \/ Alike(ds[p[1]], ds[p[2]]) /\ p[1] < p[2]})

RepackedTight(l, d) ==
  [bytes |-> l.bytes + ByteSize(d), pad |-> l.pad]

Repacked(l, d) ==
  LET at == AlignOffset(l.bytes, IF ByteSize(d) > 1 THEN 2 ELSE 1)
  IN  [bytes |-> at + ByteSize(d), pad |-> l.pad + (at - l.bytes)]
PromisedPad(ds) == FoldLeft(Repacked, [bytes |-> 0, pad |-> 0], Reordered(ds)).pad

IsStructure(d) == d.type = "STRUCT" /\ Fields(d) # <<>>

(* struct_entries, a dictionary by name: the last structure of each name,  *)
(* in the place of the first.                                              *)
ByName(ds) ==
  LET Namesakes(n) == {m \in DOMAIN ds : ds[m].name = ds[n].name}
      firsts == {n \in DOMAIN ds : n = Min(Namesakes(n))}
  IN  Arranged([n \in DOMAIN ds |-> ds[Max(Namesakes(n))]], firsts, Ascending(firsts))

Advised(d) ==
  Layout(Fields(d)).pad > 0 /\ PromisedPad(Fields(d)) < Layout(Fields(d)).pad
Advice(d) ==
  [order |-> Reordered(Fields(d)), from |-> Layout(Fields(d)).pad,
   to |-> PromisedPad(Fields(d))]

(* _check_scope_padding                                                    *)
PaddingWaste(s) ==
  CASE s = "GLOBAL" -> "PADDING_WASTE_GLOBAL" [] s = "LOCAL" -> "PADDING_WASTE_LOCAL"
    [] s = "SUBLOCAL" -> "PADDING_WASTE_SUBLOCAL"

CheckPadding ==
  LET primary == Where(Decls, Direct)
      structures == ByName(Where(primary, IsStructure))
      advised == Where(structures, Advised)
      laid == Layout(primary)
      s == Scopes[scope]
  IN  /\ rule = "padding"
      /\ layouts' = Append(layouts, laid)
      /\ advice' = advice \o [k \in DOMAIN advised |-> Advice(advised[k])]
      /\ issued' = issued
           \o [k \in DOMAIN advised |->
                 [kind |-> "PADDING_WASTE_STRUCT", scope |-> s, at |-> advised[k].name]]
           \o (IF laid.pad = 0 /\ structures = <<>> THEN <<>>
               ELSE <<[kind |-> PaddingWaste(s), scope |-> s, at |-> primary[1].name]>>)
      /\ IF scope < Len(Scopes)
         THEN scope' = scope + 1 /\ rule' = rule
         ELSE scope' = 1 /\ rule' = "summary"
      /\ UNCHANGED <<program, position, level, rows>>

(* format_storage_summary counts each scope's words again.                 *)
Summarise ==
  /\ rule = "summary"
  /\ rows' = Append(rows, FoldLeft(Declared, EmptyLevel, Decls))
  /\ IF scope < Len(Scopes)
     THEN scope' = scope + 1 /\ rule' = rule
     ELSE scope' = scope /\ rule' = "done"
  /\ UNCHANGED <<program, position, level, issued, layouts, advice>>

StorageNext == Declare \/ LeaveScope \/ CheckTemplates \/ CheckPadding \/ Summarise

StorageSpec == StorageInit /\ [][StorageNext]_storageVars

-----------------------------------------------------------------------------
(* Safety.                                                                 *)

(* The report and the summary below it agree: a scope whose row is over    *)
(* its limit has an overflow warning, and a scope with an overflow warning *)
(* is over its limit in the summary, unless some declaration of less than  *)
(* no words took words away again.                                         *)
NoneTakesAway(ds) ==
  \A d \in ToSet(ds) : WordSize(d) >= 0 /\ DataWordSize(d) >= 0
OverWarned(kind, s) == \E w \in ToSet(issued) : w.kind = kind /\ w.scope = s
OverflowsAgree ==
  rule = "done" => \A n \in DOMAIN Scopes :
    LET s == Scopes[n]
        over == rows[n].primary > Limit[s]
        over32K == Combined(rows[n]) > COMBINED_LIMIT /\ s # "SUBLOCAL"
    IN  /\ over => OverWarned(Overflow(s), s)
        /\ over32K => OverWarned("SECONDARY_OVERFLOW", s)
        /\ NoneTakesAway(program[s]) =>
             /\ OverWarned(Overflow(s), s) => over
             /\ OverWarned("SECONDARY_OVERFLOW", s) => over32K

(* The two measures of memory fit: where no declaration has more bytes     *)
(* than its words hold, the direct ones of a scope, laid out byte by byte  *)
(* with the padding between them, have no more than the words counted for  *)
(* the scope hold.  Equivalenced variables and templates take no words in  *)
(* the storage rules and bytes in the layout, and are left aside.          *)
InItsWords(d) == Direct(d) => ByteSize(d) <= 2 * WordSize(d)
Laid(ds) == \A d \in ToSet(ds) : ~d.eq /\ ~IsTemplate(d) /\ InItsWords(d)
LayoutFits ==
  rule = "done" => \A n \in DOMAIN Scopes :
    Laid(program[Scopes[n]]) => layouts[n].bytes <= 2 * rows[n].primary

(* The saving is real: fields put in the order the report suggests waste   *)
(* no more than it promises, and less than before.  Word-aligned fields of *)
(* less than two bytes, a structure of one STRING or an array without      *)
(* elements, are taken for byte-aligned and left aside.                    *)
SavingsReal ==
  \A n \in DOMAIN advice :
    (\A k \in DOMAIN advice[n].order :
       LET d == advice[n].order[k]
       IN  Alignment(d) = 2 => ByteSize(d) > 1)
    => /\ Layout(advice[n].order).pad <= advice[n].to
       /\ advice[n].to < advice[n].from
===============================================================================

# Verification of SEGMSAN

SEGMSAN (`segmsan/`) is a static analyser for TAL programs.  It is a
sequential command-line program, so what is hard in it is not concurrency but
*judgement over many program shapes*: the analyser walks the statements of a
TAL procedure once, keeps a small abstract state, forks and merges it at
branches, and from it decides what to report.  A wrong order of two updates or
a wrong merge shows only on some statement sequences, far beyond what unit
tests enumerate.  The models here therefore let the *analysed program* be the
environment: TLC ranges over all TAL programs up to a bound, and each step is
one step of the analyser.

## 1. Inventory

The pipeline of `segmsan/__main__.py` is
read -> preprocess -> tokenise -> adapt the token stream -> parse and transform
-> resolve imports -> resolve templates -> run all checks -> filter -> report
-> exit status.  All parts share one mutable `Program` object; parts call each
other directly and keep no state between runs.

| Component | State | Operations | Hard behaviour | What makes it correct | Module |
|---|---|---|---|---|---|
| `dataflow.py` forward taint analysis | per variable: assigned, tainted, taint_sources, points_to; list of warnings | visit of each statement; fork, merge; propagate, transfer, clear | order of updates inside one statement; pairwise merge of three states; loops visited once; skipped statement forms; SUBPROC state without globals | every escaping address and wild dereference of the followed forms is reported; no exception | `Dataflow` |
| `backtrace.py` | call graph, reverse graph, BFS queue and visited set | downward search, upward extension, frame totals | cycles, greedy upward choice, joined paths | a result is a call path through the requested procedures, from a root unless callers form a cycle | `CallGraph`, `CallPath`, `Backtrace` |
| `interproc.py` summaries and walk | summaries by name, per-procedure taint | one pass over each body for the summary, one for the warnings | last summary of a name wins; loops walked once, forms passed by; omitted arguments | on what the passes look at: a parameter that reaches a global flags its procedure; every address passed there is reported | `Interproc` |
| `interproc.py` searches | visited set, recursion, order | recursion search, topological order | cycles cut short by a visited set | exactly the recursive procedures are marked; callees first; both end | `CallOrder` |
| `resolver.py` | visited set, program being merged, import tree | merge of one file, recursion, templates | import cycles, parse failures half-way, shadowed files | every file merged at most once; termination; first literal wins | `Resolver`, `Defines` |
| `preprocessor.py` | macro list, text, expansion records | collect, collect again, expand passes | nesting, limit of passes, line counts | lines kept; fixpoint unless the table is cyclic; the same files as the resolver | `Macros`, `Defines` |
| `lexer.py` | position, tokens, errors; stream adapters' pending token | tokenize; to_program_stream | end of text, nested comments, DEFINE, `; ELSE` | no code lost to a comment or string; the stream means what the text says | `Tokens` |
| `scope.py`, `checks/storage.py`, `checks/padding.py`, sizes of `ast_nodes.py` | words per scope level, layout offset | declare, limit tests, layout, reorder, summary | exact limits, alignment, negative counts | warnings, summary and layout agree; promised savings are real | `Storage`, `Sizes` |
| `checks/bounds.py`, `cc_clobber.py`, `control_flow.py`, `misc.py` ($COMP) | guard set, window of statements | statement walk | guards of branches, window edges | an index in a statement the rule looks at is reported exactly when a path leaves it unguarded | `Checks` |
| `checks/__init__.py`, `__main__.py`, `report.py` | warnings, groups shown, exit status | rules in order, deduplication, filters, report, every exit | collapsed warnings, filters before status, uncaught exceptions | nothing found is lost; the status does not depend on the options | `Main`, `Checks` |
| `scope.py` levels, `checks/ext_ptr.py`, `equivalence.py` | levels and name maps of a unit | declare, enter a unit, look up, judge | names declared again in other units, shared levels | a name is judged by the declaration it stands for | `Names` |
| `checks/fixed.py`, `readonly.py`, rest of `misc.py` | name maps | one statement or declaration at a time | - | - | as inputs of `Checks` |
| grammar, `transformers/` | none of their own | tree building | - | - | array bounds and types in `Sizes`, self calls in `Checks`, parameters in `Names` |

`PROJECT.json` lists every hazard at its line.

## 2. Plan

The order was that of importance to what SEGMSAN is for, and all modules of
the plan are written:

1. `Dataflow`: the taint analysis, with proofs.
2. `CallGraph`, `CallPath`, `Backtrace`: the backtrace as a state machine that
   implements an abstract specification, with proofs.
3. `Interproc`: summaries and the walk that uses them, with proofs;
   `CallOrder`: the two searches over the call graph, with proofs.
4. `Resolver`: the recursive merge over arbitrary import graphs, with proofs.
5. `Macros`: macro table and expansion passes, with proofs; `Tokens`: the
   lexer and the adapters of the parser's stream, with proofs of the lexer.
6. `Storage`: scope words and limits, layout and reordering, with proofs;
   `Sizes`: the sizes these are of.
7. `Main`: the run from the parsed source to the exit status, whatever the
   rules find, with proofs; `Checks`: the rules that walk over statements, in
   that run.
8. `Defines`: the search for DEFINEs in imported files, composed with the
   resolver that reads the same files afterwards, with proofs.
9. `Names`: scope levels and the two rules that judge a name by what it is,
   with proofs.

`CallGraph` is shared by `Backtrace` and `CallOrder`; `Defines` extends
`Resolver`; `Checks` extends `Main` and gives its parameter `Found` a value,
`Sizes` does the same for the sizes of `Storage`; `Main` and `Storage` take
sorting from `Orders`.
`Checks` takes what the other modules model (the warnings of
storage, padding, interproc and dataflow) as an input, so that the pipeline is
checked for whatever they report.  Each `MC` module holds the instances of one
module, and nothing else.  An operator commented "Variant" beside a definition
is a plausible mistake in the code it models; nothing uses it, and putting it
in the definition's place violates a property of the module's run.

What is left, in order: the totals of frame words in `Backtrace`, and the rules
of one statement one by one.

## 3. Dataflow

`Dataflow.tla` models `MemoryAnalyzer` (`dataflow.py:154-424`) over one PROC
or SUBPROC, with the methods of `DataflowState` (`dataflow.py:25-109`).

**State.** `vars` is `DataflowState.vars`; its domain `Tracked` is what the code
declares: globals, parameters and locals in a PROC, parameters and locals only
in a SUBPROC.  `warnings` is the list of warnings as a set, a warning being its
kind, the pointer it is about and the addresses its text names.  `crashed`
records an exception that leaves the analysis.  The recursion of
`_analyze_stmt` into IF, WHILE and FOR is `stack`: a frame holds the state at
the fork and, for an IF, the state after its THEN branch.  `size` counts
visited statements.

**The reference.** To say that something was *missed*, the model also tracks
what the analysed program really does: `path.may` (addresses a pointer may hold
here), `path.must` (pointers assigned on every path here), `path.dead` (nothing
reaches this point: a RETURN), `returned`.  `leaves` holds the assignments of
the current loop, so that `Iterate` can let the program execute the body again.
`blind` collects *why* the analyser may lag behind the program:

| Reason | Where it arises |
|---|---|
| `UNSEEN` | the store is where the walk does not look: in a form `_analyze_stmt` falls through on (BEGIN..END, DO, CASE, a label, a condition), the second target of `p := g := @x` (line 240 takes `targets[0]`), an initializer `INT .p := @x` (lines 193-197, 388-390), a procedure that is called |
| `ARITH` | the right-hand side is an expression over pointers, not a name |
| `ITERATE` | a further iteration of a loop whose body is visited once |
| `UNTRACKED` | the source is outside the state (in a SUBPROC: a global or a local of the PROC) |

**Actions.** One per statement form and outcome, each a whole visit: it updates
the analyser's state in the code's order, issues the warnings, and moves the
reference.

| Action | Code |
|---|---|
| `AddressAssign` | `t := @x`, lines 306-328 |
| `CopyAssign`, `CopyTaintToGlobal`, `CopyTaintKeyError` | `t := s` and `t := .s`, lines 330-361, by whether line 347 is reached and whether it finds its key |
| `ExprAssign` | any other right-hand side |
| `UnseenAssign` | a store where the walk does not look, lines 271-272, and the others of `UNSEEN` |
| `ReturnAddress`, `ReturnName` | `_check_return` |
| `EnterIf`, `EnterElse`, `LeaveIf` | lines 247-254 |
| `EnterLoop`, `LeaveLoop` | lines 256-265 |
| `Iterate` | the program only: one more iteration |

The walk is deterministic given the program; all nondeterminism is the choice
of the program's next statement and of the initial declarations (which locals
start assigned, which addresses the PROC's pointers hold on entry to a
SUBPROC).  There is no fairness: a program may simply end, so deadlock is not
checked and there is no liveness property in this module.

**Abstractions.**
`points_to` is left out because every operation updates it with, and exactly
like, `taint_sources`.  The branch of lines 320-323 repeats the unconditional
call of line 326 and is absorbed by it.  A dereference `.s` is read the way
`extract_var_name` reads it, as the name `s`, in the analyser and in the
reference alike.  A body (THEN, ELSE, WHILE, FOR) is one statement, which is
what the parser builds: a BEGIN..END block is a statement of its own that the
walk falls through on, and is `UnseenAssign`.  Dereferences in an assignment's
target (line 355) are left out: the target's base was marked assigned just
before.  CALL has no effect on the state and issues nothing, because
`build_proc_summaries` never sets `stores_refs_globally`.  GOTO, which makes the
order of the text another than that of execution, has no counterpart.

**Runs.**

| Run | Instance | Shows |
|---|---|---|
| `dataflow_proc` | 1 global, 2 locals, PROC, 4 statements, nesting 2 | `EscapesReported`, `ReturnsReported`, `UninitDerefReported`, `AnalysisCompletes` hold |
| `dataflow_subproc` | 1 global, 2 locals, 1 enclosing local, SUBPROC, 3 statements | the first two hold there too |
| `dataflow_sub_crash` | SUBPROC, 3 statements | violation: a tainted store to a global raises KeyError |

The violation contradicts the repository's README (a pointer stored in a global
is among what is detected) and is the finding in `PROJECT.json`: the exception
leaves `main` and no report is written at all.

**Bounds.** Three statements are enough for taint to be created, moved and used
(`p := @x`, `q := p`, `g := q`), a fourth to put one of them on a side of a
branch and use it after; nesting 2 lets a branch
sit in a loop.  The bounds are not what the result rests on: the proofs below
remove them.  `Symmetry` permutes names of one kind, which no action or property
tells apart.

## 4. Backtrace

`CallGraph.tla` has the dictionary of `build_call_graph` and its lookups, with
the two reference notions: call path and reachability (`Reaches`, stated as
membership in every set closed under calls, so that it needs no recursion).
`CallPath.tla` is the abstract specification: procedures are declared, a
request arrives, and one step replies with *some* call path from a root caller
through the requested procedures, or refuses when there is none.  It names one
exception (`CutShort`), where the code does not do what lines 5 and 10 promise:
procedures that call each other above the requested ones may end the climb
inside their cycle.  `Backtrace.tla` is the code.

| State | Code |
|---|---|
| `graph` | `graph` of `build_call_graph`, one entry a declared name |
| `parts`, `leg` | the split request and the loop index `i` |
| `down` | `down_path`; `current` is its last frame |
| `queue`, `visited` | the locals of `find_path_down`; a queued node is the last of its path |
| `up` | the path of `find_path_up`, already reversed; its `visited` is the same set |
| `answer` | the result, `<<>>` for `None` |

| Action | Code (`backtrace.py`) |
|---|---|
| `Declare` | one round of the loop of lines 28-35 with `_collect_calls` |
| `Ask`, `Reject`, `Start` | lines 150-177 |
| `DirectCall` | lines 181-183 |
| `SamePart` | lines 79-80 with 186-190 |
| `StartSearch`, `Found`, `Expand`, `Exhausted` | lines 81-93; a step takes one path off the queue |
| `GoUp`, `Climb`, `Stop` | lines 96-110 and 192-198 |

The environment is the program (`Declare`, in any order, a name possibly several
times) and the request (`Ask`).  Two choices of the code are left open on
purpose: the iteration order of Python sets of strings, which changes from run
to run, and the alphabetical order of names, since names are model values.  A
climb takes a name at most once, so any sequence of choices is the alphabetical
one under some naming.  Upper-casing is left out: names are upper-case
throughout.  The single-part branch of lines 164-167 returns the climb alone,
which is what `Stop` gives when `down` has one frame.

| Run | Instance | Shows |
|---|---|---|
| `backtrace_search` | 5 procedures with at most 5 calls between them, requests of up to 3 parts | `KeepsPromise` (implements `CallPath`), `ShortestLegs`, `Answered` |

**Bounds.** Five procedures and five calls are the least with which a search
that is not breadth-first returns a longer leg (`f` to `a` and `b`, `a` to `c`,
`b` and `c` to the target); five calls also give every cycle of callers below a
root; three parts give a searched leg after a searched leg.

**Termination.** `Answered` says it without fairness, so that names can be
permuted (`Symmetry`): after a request some step of the code is possible until
the answer, and each step makes `StepsLeft` smaller.  With weak fairness of
`Resolve`, which any call that runs to its return has, every request is
answered.  Nothing makes a program or a request appear, and a finished request
is the end of the command, so deadlock is not checked.

## 5. Interproc and CallOrder

`Interproc.tla` is `check_interproc` (`interproc.py:567-572`) in its two walks.
In phase "summary", `CallGraph.build` walks each body once and fills in its
`ProcSummary` (lines 73-188); in phase "analysis", `InterprocAnalyzer` walks a
body again and judges every CALL by the summary of the callee (lines 312-551).
The environment chooses the statements of both walks, so that any body meets
any summaries.

Both walks take each statement once, in the order of the text, and pass some
forms by.  The reference does neither: it is what the *program* may do, with
loops that run again and statements in every form, and it notes for each
summary (`missed`) and for the second walk (`blind`) where the code is known to
lag behind.  The properties claim nothing from there on, and everything up to
there.

| State | Code |
|---|---|
| `summaries`, `current`, `tainted` | `CallGraph.summaries`, the summary being computed, its `tainted_locals` |
| `taint`, `stack` | `taint_sources` of the analyser's state (its keys are `Keys`); the recursion of `_analyze_stmt` |
| `holds`, `leaks` | reference: which parameters' references a variable may hold, which a procedure hands to a global |
| `missed`, `said` | reference: why a summary may not tell; the assignments of the body, which a loop may execute again |
| `path`, `leaves`, `uses` | reference: the local addresses a variable may hold; the assignments and uses of names in the loop being walked |
| `blind` | reference: the walk may lag behind `path` |
| `last` | what the last statement stored, returned or passed, and what was reported |

| Actions | Code |
|---|---|
| `Declare` | lines 73-109; a later declaration of the name replaces the summary |
| `SummaryAddress`, `SummaryCopy`, `SummaryCall`, `SummaryReturn` | lines 119-188 |
| `SummaryUnseen` | a store in a form the pass has no case for, lines 122-145 |
| `SummaryAgain` | the program only: a loop executes an assignment again, lines 131-139 |
| `Analyze` | lines 312-341 |
| `AddressAssign`, `CopyAssign`, `ExprAssign` | lines 433-498 |
| `CallAddress`, `CallName` | lines 500-533, with the position an argument has once omitted ones are dropped (`i`) and the one it has in the program (`j`) |
| `ReturnAddress`, `ReturnName` | lines 405-431 |
| `UnseenAssign`, `UnseenUse` | a store, a CALL or a RETURN in a form the walk has no case for, lines 374-403; an argument of a function, lines 535-538 |
| `Enter`, `EnterElse`, `LeaveIf`, `LeaveLoop` | lines 384-400, 540-551 |
| `Iterate`, `UseAgain` | the program only: the loop runs again, lines 392-400 |

Where the code lags behind:

| Reason | Where it arises |
|---|---|
| `UNSEEN` | a store in BEGIN..END, DO, CASE, a labelled statement, a SUBPROC (which gets no summary), an initializer, a second target, an expression or a function |
| `ITERATE` | a later iteration of a loop brings a parameter where the text order does not |
| `PASSED` | the parameter is handed on by a CALL, and the callee stores it |
| `REDECLARED` | the name is declared again after a body that leaks |
| `ALIASED`, `SHADOWED` | the flag is right and the positions are not: a parameter is overwritten with a name; a local has the name of a global, and lines 161, 172 and 184 ask for the global first |
| `blind` | in the second walk: an address in a statement that is passed by, one that a later iteration is the first to bring, an expression over pointers, a name outside the state (a global, a name of the PROC around a SUBPROC) that holds one |

Every name can be assigned, copied, passed and returned in the second walk,
whether the state has it or not.  A target or source that is dereferenced,
indexed or a field is read as its base name, as `_extract_name` does, in the
code and in the reference alike.

The run `interproc_calls` has one procedure and one system procedure, two
parameters of which one is a reference, a local, a name of the PROC around, and
two globals of which one has the name of a parameter; two statements summarised
and three in all (IF, WHILE and FOR not counted), nesting of two.  It shows that
summaries say what the body does (`LeaksFlagged`, `SummaryExact`) and that the
walk reports what it should (`CallsReported`, `EscapesReported`).  Two
statements carry a parameter through a local to a global (`x := p`, `g := x`,
also in the wrong order, run again by a loop); two more, in an IF in a loop,
bring an address to a CALL or RETURN of the other branch in a second iteration.
States with `blind` set get no successors (`Seen`): it stays set and nothing is
claimed there.  Longer chains, deeper nesting and other name sets are covered
by the proofs.  The states in which a program may end have no obligation, so
deadlock is not checked and no fairness is stated.

`CallOrder.tla` is `_detect_recursion` and `topological_order` (lines 206-256),
both recursive functions over a visited set, on every call graph of three
declared names and one undeclared name with at most two calls in a body and
four in all.  `StartSearch`, `FoundTarget`, `Descend` and `NotFound` are a round
of `_reaches`; `Sort`, `Visit`, `Leave` and `Finish` of `visit`.  Run
`call_order`: exactly the procedures on a cycle are marked (`RecursionExact`,
against `Reaches` of `CallGraph`), every callee comes before its caller unless
they call each other (`CalleesFirst`), and both searches end (`SearchesEnd`,
with weak fairness of `Next`: sequential code goes on while it can).  Three
names are what it takes for a cycle that does not contain the root of a search,
and for a diamond with the undeclared one; `CallOrderProofs` has both
invariants for call graphs of any size.

## 6. Resolver and Defines

`Resolver.tla` is `resolve_imports`, `_merge_file` and `resolve_templates`
(`resolver.py:17-245`).  A file is a directory and a name; which files exist and
what they hold (imports, whether they declare the LITERAL and the template,
whether they can be opened, decoded and parsed) is chosen by the environment
when they are first read and stays.

| State | Code |
|---|---|
| `stack` | the recursion, a frame being a file, its next import and its `sub_dirs` |
| `visited`, `tree` | `visited` and the import tree |
| `merged`, `literal`, `template` | what `program` has got, by the file it came from |
| `dirsOf` | reference: the directories a merged file's imports were looked up in |

`Parse` is `_parse_program` on the main file; `SystemImport`, `Missing` and
`AlreadyVisited` pass an import by; `Drop` is a file that cannot be opened or
parsed; `Crash` one that cannot be decoded, for which nothing catches the
exception; `Merge` and `Return` are a call of `_merge_file` and its end;
`ResolveTemplates` is the last pass.

`Defines.tla` adds the run before it: `collect_defines_recursive`
(`preprocessor.py:304-353`), called by `_preprocess_recursive`
(`__main__.py:133-139`) unless `--no-preprocess` is given (`Skip`), reads the
same files with a visited set and a search path of its own (`Start`, `PassBy`,
`Collect`, `Unopened`, `Fail`, `Finish`); then `Resolver` runs.  `Fail` is an
exception, which `main` turns into exit status 2.  A file with a syntax error
has DEFINEs and imports all the same.  SOURCE inside a comment, which only this
search follows, is left out.

The run `imports` checks both on every file system of two directories (that of
the main file and one of `-I`) and three names, at most two imports in a file,
three in all and two declaring files:

| Property | Says |
|---|---|
| `MergedOnce` | no file but the main one is merged twice |
| `ImportsComplete` | the files looked at are exactly those that chains of imports lead to; the import tree's counts are right |
| `NamesResolved` | a template or LITERAL that any merged file declares is known, the first LITERAL winning |
| `NearestWins` | a file beside the importing one is never passed over |
| `CollectionComplete` | the DEFINEs of every file that SOURCE directives lead to are collected, twice each |
| `SearchesAgree` | if both look each name up alike, every merged file had its DEFINEs collected, and a file that cannot be decoded never reaches the resolver |
| `RunEnds` | both recursions end, with weak fairness of the next step |

Three imports make every cycle of two files, a file imported by two others and
a chain with a broken file in the middle; the two directories make each of
these shadowed.  All but `RunEnds` are proved for any number of files,
directories and imports.

## 7. Macros and Tokens

`Macros.tla` is `_preprocess_recursive` (`__main__.py:133-139`) with
`collect_defines` and `expand_macros` (`preprocessor.py:42-301`)
on sequences of tokens: names, punctuation and newlines.  The collecting
actions (`CollectCopy`, `CollectStart`, `CollectEntry`, `CollectBreak`) read the
text and take the DEFINEs out; `CollectDone` adds what `Defines` may find in
other files.  They read the text that is left a second time (phase "again", up
to `CollectedAgain`), as the code does, and the macros of that time are dropped.
The expanding actions (`ExpandCall`,
`ExpandPlain`, `Copy`, `EndPass`) are one pass, repeated while something changed
and the limit allows.  Run `macros`, all texts of a table of two macros (25
combinations of bodies, nested and cyclic ones among them, some malformed
tables, and two statements on one line) and two uses: `LinesKept`,
`SubstitutionExact` and `Settled`.  The limit is 6
instead of 20 passes: without cycles two macros settle in three, with the
arguments of the instance, which call a macro inside a call once.  `Settled` is
a claim about such texts only: calls nested deeper than the limit, or a call
that appears only when an argument is put in place, are left over in a text
with no cycle in its table.

`Tokens.tla` is `Lexer.tokenize` and `to_program_stream` (`lexer.py:75-1026`).
Text is a sequence of characters, except that a reserved word or a numeral is
one piece.  `Lex` reads one token, comment or error (one operator a method:
`SkipComment`, `LexString`, `LexPrime`, `LexNumber`, `LexWord`, `LexCaret`,
`LexPunctuation`, ...); `SkipDefine`, `Yield` and `EndOfStream` are the two
adapters, which hold one token back each.  Run `tokens`: on any three of 27
pieces and any five of the six that open or close something, no code is lost to
a comment or string (`NothingSwallowed`); on any three of 17 whole statements
the parser gets exactly what they mean (`StreamFaithful`).  What one piece can
do to its neighbours shows in three, and what a bracket can do to a bracket two
further on in five.

Both are functions of their text: nothing is scheduled, a finished run stops,
and there is no fairness.  The modules' final states were compared with the
Python functions' results on all texts of their runs (11,008 and 32,363): they
agree.

## 8. Storage

`Storage.tla` is `ScopeStack.declare` (`scope.py:81-98`), the rules of
`checks/storage.py` and the layout of `checks/padding.py`.  `Declare` is one
round of `_check_declarations` with its limit tests; `LeaveScope` the tests at
the end of a scope; `CheckTemplates`, `CheckPadding` and `Summarise` the passes
after it.  What one declaration measures is a parameter, `WordSize`,
`DataWordSize` and `ByteSize`, and `Sizes.tla` gives it its value: array bounds
to elements (`transformers/proc_body.py:706-763`), elements to words and to
bytes (`ast_nodes.py:67-149`), over structures in structures.  `Orders.tla` is
what `Storage` and `Main` share, sorting and the comprehensions of Python.

Run `storage` has all programs of two declarations out of 23 in any scope, of
three in a LOCAL scope, all structures of four fields out of seven, and three
structures two of which have one name, which the code keeps in a dictionary.
The declarations sit at the limits (32 and 127 words, 32768 in all) and at the
edges (pointers, negative bounds, templates, equivalences, nested structures).
`OverflowsAgree`: the warnings, added up declaration by declaration, and the
summary, added up scope by scope, agree about what is over its limit, unless a
declaration of negative size took words away again.
`LayoutFits`: the byte layout takes no more than the words counted, where that
is so of each declaration.
`SizesFit`: it is so of each, and none has a negative size, where no array has
less than no elements.
`SavingsReal`: the order that is suggested wastes no more than was promised.
Two declarations are enough for a limit to be passed by their sum, three for
words to be passed and taken away again; four fields alternate alignments twice.
The final states agree with the code on the 16,155 programs whose names differ,
and the advice on the 27 others.

## 9. Names

`Names.tla` is what `ext_ptr.py` and `equivalence.py` make of names: the levels
of `ScopeStack`, shared between a unit's stack and its parent's, and the
dictionaries that `check_equivalence` copies.

| State | Code |
|---|---|
| `unit`, `part` | where the walk over PROCs and their SUBPROCs is |
| `levels` | `ScopeStack.levels` of the unit |
| `maps` | the unit's `scope_vars` and those of the units around it |
| `warned`, `stored` | what the last step reported, and on which statement |
| `program` | reference: all declarations in order |

`DeclareVar` and `DeclareParam` are `ScopeStack.declare` and `declare_param`
(with what `proc_body.py:547-600` keeps of a parameter), `Enter` the new stack
and dictionary of a unit, `StartBody` the equivalence rule, `Store` the rule on
`.EXT` pointers for `t := @x`.  The rules are passes of their own in the code;
none reads what another writes, so one walk stands for both.

Run `names`: three declarations of two names in a program of two PROCs with two
SUBPROCs each.  `AddressesJudged`: the address of a large array is reported
exactly when it goes to a variable that is not `.EXT`, by the declarations in
force, except for a parameter whose `.EXT` stands behind the header.
`OverlaysJudged`: an overlay is judged by the declaration it names, except a
parameter (the rule has no parameters) and a name declared again after the
overlay.  Three declarations give a global hidden by a local and the local's
unit left again before the third; two PROCs and two SUBPROCs give every way to
leave one unit for the next.  Names can be permuted.  Both invariants are
proved for any number of names, declarations and units.

## 10. Checks

`Main.tla` is a run from the parsed source to the exit status:
`main` (`__main__.py:20-130`), `run_all_checks` (`checks/__init__.py:32-61`)
and `report.py`.  `Read` is everything up
to the program, with every way it can fail; `RunCheck` and `CheckFails` are one
rule, whose findings are a parameter (`Found`); `Deduplicate`, `Backtrace`,
`Filter`, `ReportJson`, `ReportText` and `Finish` are the rest.  `CheckFails`
exits with status 1, because nothing catches the exception.  The order of the
report is a set of pairs of positions, and `Arranged` puts the warnings in it:
that `Before` is a strict order of them, which the sort key's ties could spoil,
is proved (`SortedStrict`).

`Checks.tla` has the rules that walk over statements and gives `Found` its
value `RulesFound`: computed (recursion, SCAN, `$COMP`, bounds, condition
code) or given (`case.others`).

Run `checks` has all bodies of up to two statements, and of three of which the
last is compound, with the usual options; and two bodies with all options, all
inputs and five sets of given findings.  `NothingHidden`: every place that a
rule found something at and the options ask for is in the report, once, by
itself or in its group's count.  `ExitHonest`: the status depends on what was
found and not on what was asked for.  `IndexesChecked`: no index is reported
without need, and each that some path leaves unguarded is reported.  What needs
a check is said in terms of its own (`Within`, `Paths`, `GuardedOn`), over all
statements and expressions; that the rule looks at some of them only is an
exception the property names (`PassedBy`, `Ordinary`).  For the variable of a
FOR in its body it takes no side: `bounds.py:10` says that it is not reported,
and it is.  Statements, branches and expressions nest by two, which is where a
guard, a window or a call can be lost.  Final states agree with the code on all
24,545 bodies and inputs that reach the rules.

Storage, Names and Checks walk a given program to its end and stop, so deadlock
is not checked; nothing in them waits, and no liveness is stated.

## 11. Proofs

`DataflowProofs.tla` proves, for every finite or infinite set of names, either
unit, and every bound on size and nesting, from `DataflowAssumption` alone (the
three kinds of names are disjoint, the unit is PROC or SUBPROC, a PROC has no
enclosing locals, the bounds are naturals):

| Theorem | States |
|---|---|
| `TypeCorrect` | `Spec => []TypeOK` |
| `EscapesAlwaysReported` | `Spec => []EscapesReported` |
| `ReturnsAlwaysReported` | `Spec => []ReturnsReported` |
| `WildDereferencesReported` | `Spec => []UninitDerefReported` |
| `ProcAnalysisCompletes` | `Unit = "PROC"` implies `Spec => []AnalysisCompletes` |

The properties are not inductive: what the analyser must know about a pointer
before it escapes is not visible in the warnings, and LeaveIf and LeaveLoop
bring back states saved in frames.  The strengthening `TaintInv` says of *every*
state held, current or saved, that an address a tracked pointer may hold is
among its taint sources and that the pointer is still tainted *unless a warning
already named that address* (`Covered`), and that addresses in globals have been
named (`NoSilentEscape`).  The exception in `Covered` is what makes line 347
(clearing taint on a reported global) sound.  `AssignedInv` likewise says that
a pointer the analyser takes for assigned is assigned on every path, for every
saved state; it holds although the join is too pessimistic.  Both were checked
with TLC before they were proved.  The step proofs go by action, over lemmas
stating what each method returns (`CopiedFacts`, `MergeFacts`, ...), that a
store and a join keep a state sound (`SoundStore`, `SoundJoin`), and that
frames are pushed and popped soundly (`SavedPush`, `SavedPop`).

`BacktraceProofs.tla` proves, for every finite set of names and any bounds
(`BacktraceAssumption`):

| Theorem | States |
|---|---|
| `PromiseKept` | `Spec => KeepsPromise`, that is, `Backtrace` implements `CallPath` |
| `LegsAreShortest` | `Spec => ShortestLegs`, an action property |
| `TypeCorrect` | `Spec => []TypeOK` |

The mapping keeps `graph`, `parts` and `answer` and makes `stage` of `phase`.
The invariant `BacktraceInv` has one part per phase: `DownInv` (down is a call
path that meets the parts reached so far, each leg of which exists),
`SearchInv` (queued paths are call paths from `current`; whatever a visited
procedure calls is visited or waits in the queue; the target is not visited) and
`ClimbInv` (distinct frames that call each other).  The middle clause of
`SearchInv` is what makes an exhausted queue mean "unreachable".  The step
lemmas go by action; every step of the code maps to a step of `CallPath` or
leaves its variables alone.

`LegsAreShortest` needs a second invariant, `BreadthInv`: the queue is in the
order of its paths' lengths, which differ by one at most; every procedure as
near to `current` as the oldest path is long is visited; and no queued path
could be shorter.  The middle clause is the argument: when the oldest path is
expanded a target as near as its last frame would have been visited, which
`SearchInv` excludes, so the leg that is one longer is shortest.  It is not
enough alone, because a new oldest path may be one longer: `NearLast` takes the
last call off a path of that length; its caller, being nearer, is visited, and
by the last clause it no longer waits in the queue, so what it calls is visited
too.

`InterprocProofs.tla` proves, for every choice of names, parameters, references
and bounds, from `InterprocAssumption` alone (parameters are distinct and no
locals, the names of a SUBPROC are not those of the PROC around it, the bounds
are naturals; a local or parameter may have the name of a global):

| Theorem | States |
|---|---|
| `TypeCorrect` | `Spec => []TypeOK` |
| `LeaksAlwaysFlagged` | `Spec => []LeaksFlagged` |
| `SummaryAlwaysExact` | `Spec => []SummaryExact` |
| `CallsAlwaysReported` | `Spec => []CallsReported` |
| `EscapesAlwaysReported` | `Spec => []EscapesReported` |

The reference of each follows the program through later iterations and forms
that are passed by, so they say that the listed reasons are *all* the reasons
why an address can go unreported.  The summary properties need `CarriedInv`:
whatever a global holds has leaked; nothing is tainted with more than it holds;
while nothing of `Lost` has happened and the flag is down, a local that holds
something is tainted; and while nothing was missed at all, a name holds nothing
but its taint and what has leaked.  The reports need `TaintFollows`, of the
current state and of every state saved in `stack`: until the walk is blind, the
sources known of a name include the addresses it may hold.  `UsesJudged` says
that the uses a loop may repeat were judged right when the walk was there.  All
were checked with TLC before they were proved.

`DefinesProofs.tla` proves of `Resolver`, for any files, contents, directories
and bounds, from `ResolverAssumption` alone (the search path is a finite sequence, the main
file has a name, the system's names are no files):

| Theorem | States |
|---|---|
| `NeverMergedTwice` | `Spec => []MergedOnce` |
| `ResolverTypes` | `Spec => []TypeOK` |
| `ImportsAreComplete` | `Spec => []ImportsComplete` |
| `NamesAreResolved` | `Spec => []NamesResolved` |
| `NearestDirectoryWins` | `Spec => NearestWins` |

`MergedOnce` does not say why it holds; `MarkedWhenMerged` does: what was merged
after the main file is in `visited`.  Of the code that proof uses only that a
visited file is turned back and that another is marked before it is read.  The
others rest on `WalkInv`.  Its `LookedInv` is what a depth-first walk with one
visited set knows half-way: the imports a frame is past, and all imports of a
merged file that is on no frame, have been looked at.  A file on the stack is
the exception, and when the stack is empty there is none left, so `visited` is
closed under imports.  `LedInv` is the other half: every set that is closed
holds `visited`, at all times.  That the import tree has a node for every
directive (`CountInv`) is a count of pairs, the place of a file in `merged` and
of a directive in the file: nodes and pairs still ahead of some frame are
together as many as the pairs of all merged files, each step moves one pair
from "ahead" to a node, and a merge brings the pairs of the new file.
`LiteralInv` says that nothing before the file of the first literal declares
it.  `NearestWins` needs that a frame's first directory is that of its file
(`OwnDirFirst`).  Which directory a search finds is a least position, which
one template wins a greatest one: `LeastNat` proves that both exist by
induction on a set of numbers (`WFMin`), the form of induction the provers can
use.

It proves of the composed run, with both searches over any files:

| Theorem | States |
|---|---|
| `RunTypes` | `DSpec => []DTypeOK` |
| `CollectionIsComplete` | `DSpec => []CollectionComplete` |
| `SearchesDoAgree` | `DSpec => []SearchesAgree` |
| `RunImportsComplete`, `RunNamesResolved`, `RunNeverMergedTwice`, `RunNearestWins` | the properties of `Resolver`, of `DSpec` |

The run shares with `Resolver` what a file holds, which the search for DEFINEs
now fixes first; the proofs about `Resolver` are used again for its steps, and
the steps before it are shown to keep `WalkInv` and `CountInv`.  The search has
a visited set of its own and the invariants of such a walk (`CallsInv`,
`CalledInv`, `SeenLed`); `TableInv` counts two entries for every file.
`SearchesAgree` needs `AgreeInv`: while both look names up alike, whatever the
resolver visits the search has seen.  It is inductive because what the search
has seen is closed under imports when the resolver starts, so the next file the
resolver finds is one of them; and what was seen is not garbled, so the
resolver cannot crash.

`CallOrderProofs.tla` proves `RecursionIsExact`, `Spec => []RecursionExact`, and
`CalleesAreFirst`, `Spec => []CalleesFirst`, for any finite set of names and any
call graph over it (`CallOrderAssumption`).  The invariant is again that of a
walk with one visited set (`StackInv`, `ScannedInv`), with the root of a
recursion search as its one exception: it is in `visited`, but has not been
answered for, or no cycle would be found (`Answered`).  A search that ends with
an empty stack therefore leaves a closed set without the root, so no chain of
calls leads back (`NotFoundIInv`).  `OrderInv` says that a callee which is not
listed when its caller is reaches the caller: it was entered earlier and is on
the stack.

`NamesProofs.tla` proves `AddressesAlwaysJudged`, `Spec => []AddressesJudged`,
and `OverlaysAlwaysJudged`, `Spec => []OverlaysJudged`, from `NamesAssumption`
alone.  Neither is inductive, since each compares a report with the program and
the rules never see the program.  `NamesInv` (`NamesHeld`) ties the two: level l
holds exactly the declarations of the l-th enclosing unit, each as the program
made it (`LevelsInv`); the dictionary of that unit holds for a name the
innermost declaration that is no parameter (`MapsInv`).  Entering a unit keeps
both because no declaration of the unit exists before it is entered
(`EnteredInv`).  `Innermost` then says that the innermost level that knows a
name has the declaration the name stands for, and `OverlaidFacts` the same of a
dictionary, unless that declaration is a parameter.

`TokensProofs.tla` proves `TextNeverSwallowed`, `Spec => []NothingSwallowed`,
for every text, from `TokensAssumption` alone (a text is a finite sequence of
pieces).  `LexInv` (`TextAccounted`) adds to the property that tokens and errors
end where the lexer stands (`SpansInv`): nothing therefore spans the first piece
of a comment, so its mark stays one, whatever is read later.  All that the
thirteen actions do comes down to four lemmas: a token is emitted, text is
rejected, text is skipped, a name is continued (`EmitKeeps`, `RejectKeeps`,
`SkipKeeps`, `ContinueKeeps`).  What is left for each action is that its span is
on one line (`FindFacts`, `PastFacts`, `MatchFacts`), and two of them show why
the property names exceptions: the end of a sized type is looked for over line
ends, and `'=:` takes any piece.

`MainProofs.tla` proves, of the two halves of a run:

| Theorem | States |
|---|---|
| `LinesAreKept` | `Spec => []LinesKept`, of `Macros` |
| `SubstitutionIsExact` | `Spec => []SubstitutionExact`, of `Macros` |
| `NothingIsHidden` | `MainSpec => []NothingHidden` |
| `ExitIsHonest` | `MainSpec => []ExitHonest` |

The first two hold for any identifiers, texts, imported macros and limit
(`MacrosAssumption`: "define" and the punctuation are no names).  `MacrosInv`
(`MacrosTypes`) says that the newlines written and those still to be read are
together those of the program, at every token of every pass (`LinesMet`), that a
pass over the expanded text starts with all of them, that a record's line is the
line it is written to (`RecordsMet`), and that the last substitution was made by
`Substitute` from some macro and arguments (`LastMet`).  `LinesMet` is the
argument for `RecordsMet`: what is written when a call at line n is met has
n - 1 newlines, because what it replaces has kept its own.  The steps come down
to one lemma on text that is replaced by text with as many newlines
(`PassedLines`), one on a pass that begins (`AgainLines`), and what `Pad`
returns (`PadFacts`).  For the substitution, what is put in one place is a
function of the token there, so a text with parameters replaced is a
concatenation over its tokens (`JoinsRuns`, `ReplaceJoins`), and replacing a
parameter in such a text replaces it in each piece (`JoinsTwice`); an argument
without the parameter is left alone (`JoinsFree`).  `SubstituteLoop` goes
through the parameters with this, by a least counterexample rather than by
induction; so do the folds that the definitions are written with (`FoldRuns`).

The other two hold for any options and inputs and whatever the rules find,
from `MainAssumption` (findings are sequences of warnings).  `MainInv`
(`MainTypes`) follows the warnings from rule to report: after `Deduplicate`, no
two have the same kind and place and no place is missing; after `Filter`, they
are the ones asked for, and in the text those of one kind are in the order of
their lines (`Listed`); and the entries printed are those of the rows so far,
none twice (`Told`).  A row has an entry unless an earlier row of its groupable
kind has one (`Speaks`).  That an order of the positions of a finite set gives
each a rank of its own, so that sorting loses nothing, is `RankFacts` and
`ArrangedFacts`; that the sort by severity, kind and line is such an order, if
no two warnings are alike, is `SortedStrict`.  The exit status looks at what is
left after the filters, and that is enough because no option leaves out a
critical kind (`CriticalWanted`); with --padding off this rests on the two
tables of kinds being disjoint.

And it proves of the storage and padding rules:

| Theorem | States |
|---|---|
| `OverflowsAgreeHolds` | `StorageSpec => []OverflowsAgree` |
| `LayoutFitsHolds` | `StorageSpec => []LayoutFits` |
| `SavingsRealHolds` | `StorageSpec => []SavingsReal` |

They hold for any programs and whatever the sizes are, from `StorageAssumption`:
scopes and fields are sequences, sizes are integers, possibly negative.
`StorageInv` names, for each scope, the levels it goes through (`Levels`, one
after each declaration): the current level is one of them (`LevelRight`), an
overflow has been told exactly if one of those passed so far exceeds the limit
(`OverflowsTold`), a row of the summary is the last of them (`RowsRight`), a
layout is that of the scope (`LayoutsRight`), and advice is what a structure of
the program gives (`AdviceRight`).  The warnings of other kinds do not disturb
this (`QuietKeeps`).  Where no size is negative the levels rise (`LevelsRise`),
so one that exceeds the limit makes the last exceed it.  `DirectFit` goes through
a scope and its direct declarations side by side: aligning to two bytes does not
go past the words counted so far (`AlignFacts`).  `RepackedIsWorse` follows the
two layouts of one order: the one that guesses alignments never has less padding
behind it.  That a fold is the last of its steps is proved with the least
counterexample (`LevelsFacts`, `LaidOutExists`, `PackedOutExists`), once for each
fold, since a lemma about every fold would take an operator as its parameter.

Every invariant above was checked with TLC, on the instance of the module's
run, before it was proved.

**Only model-checked.** The violation of `AnalysisCompletes` in a SUBPROC;
`Answered`; `StreamFaithful`, which compares with what whole
statements are given to mean; `Settled`, which holds of the texts of its
instance and not of all; `SizesFit` and `IndexesChecked`, whose definitions
follow the nesting of declarations and of statements.  Liveness (`SearchesEnd`,
`RunEnds`) and `ENABLED` (`Answered`) are outside the prover's reach, and so are
the RECURSIVE operators of `Sizes` and `Checks`.

## 12. Divergences

Where the code does something else than its documentation says or than a reader
expects.  Only the first is a finding in `PROJECT.json`, with a run that shows
it; for the others the models follow the code, and the properties name the case
as an exception where it is one.

**The finding.** A SUBPROC that copies a tainted local to a global raises
KeyError at `dataflow.py:347`, and no report is written.  `README.md:12` lists
such stores among what is detected.

**Dataflow.** The address of a global taints like that of a local
(`dataflow.py:326`, against line 4).  Stores inside BEGIN..END, DO, CASE and
labelled statements are not seen (`:271`, against line 7), nor is what a second
iteration of a loop stores (`:256`, against line 5), nor the second target of
`p := g := @x` (`:240`), nor an address in an initializer, which only marks its
variable assigned (`:388-390`).  Taint stays after an
overwrite by an expression (`:349`).  A pointer assigned on both branches of an
IF is still taken for unassigned (`:253`).

**Interproc.** The header (`interproc.py:4-5`) says that it "propagates taints
across procedure boundaries".  Against that:
- A body is summarised in one pass in the order of its text, and walked once
  (`interproc.py:113-139`, `:392-400`): `WHILE c DO IF d THEN g := x ELSE x := p`
  raises no flag, `WHILE c DO IF d THEN q := @x ELSE CALL f(q)` no warning.
- A store that goes through the callee's own call is not followed
  (`propagates_taint_to_global`, `:258`, is never called, against lines 4 and 10).
- BEGIN..END, DO, CASE and labelled statements are passed by in both walks
  (`:122-145`, `:376-403`), second targets (`:124`, `:378`), initializers,
  expressions over pointers and arguments of functions (`:535-538`) too.
- SUBPROCs get no summary (`:75-78`), so no CALL of one is judged.
- A declaration of a name after its body replaces the summary (`:78`).
- A parameter overwritten with a reference by a copy is not tainted (`:176`,
  `:187`), and a local with the name of a global counts as the global (`:161`,
  `:172`, `:184`).
- RETURN or CALL of a name outside the state (a global, a local of the PROC
  around) that holds a local's address is not reported (`:422`, `:522`).

**Backtrace.** The climb may end inside a cycle of callers although a root is
reachable (`backtrace.py:105`, against lines 5 and 10).  Calls in nested blocks are no
edges (`:47`, against line 3).  The last declaration of a name wins (`:35`).
A part `...`, which the help text shows, and a request `f:f` are refused.

**Storage and padding.** An array bound that names a LITERAL counts as 0
(`proc_body.py:750-763`), and so do the width of UNSIGNED and the scale of FIXED
(`:661-670`).  Variables with an equivalence and templates take room in the
layout and none in the words.  The layout does not align pointers.  FILLER
fields have no size.  `_suggest_reorder` (`padding.py:172-198`) sees a saving
that is not there for one-byte structures and empty arrays, and is not minimal,
although line 197 says so.  Unresolved templates in a SUBPROC are not reported
(`storage.py:11-44`).

**Names and parameters.** A parameter typed behind the header
(`PROC f(p); INT .p;`) stays an INT by value for every rule
(`proc_body.py:333`, `:547-551`): a STRING by value is not reported, an `.EXT`
parameter is taken for one that cannot hold an extended address, and a
reference gets no summary.  The equivalence rule does not know parameters
(`equivalence.py:22-27`) and resolves a name after all locals are known.

**Rules that cannot warn.** No transformer sets `is_readonly`, and the scale of
FIXED is always 0, so `readonly.py` and `fixed.py` find nothing, though the
repository's README lists both (`README.md:15`).  `cc_clobber.py` goes on only
over statements that exclude what it looks for.

**Bounds and windows.** A FOR loop guards nothing: its variable is reported in
its body (`bounds.py:93-94`, against line 10).  An index inside an index, under
`@` or a sign (`:100-144`), in a RETURN value, a SCAN or MOVE, or in the bounds
of a FOR (`:80-97`) is not looked at; a guard outlives an assignment to the name
(`:86`).  The rules do not look into DO, CASE, labelled and compound statements.

**Deduplication.** Warnings of one kind at one place are one, whatever their
texts say: all structures with padding waste have the place of the file.

**Lexer.** `'=:` at the end of the text raises IndexError and elsewhere takes
the next character (`lexer.py:275-282`).  Errors are collected and never
reported.  An unclosed `INT (` takes the rest of the text.  `^name` continues a
name of an earlier line.  A DEFINE is skipped up to the first `;` after the
first `#` (`:849`): if a later macro of the same DEFINE has a `;` in its body,
what follows is code.

**Preprocessor.** Of two DEFINE statements on one line the second is removed
with its macros (`__main__.py:138`, against `preprocessor.py:3`): it begins the
line only when the first is gone, so the second collection finds it, and what
that collects is dropped.  A macro without parameters is expanded before some tokens
only (`preprocessor.py:224`, against line 15).  A cyclic macro grows for 20
passes.  Imported DEFINEs override the file's own (`:202`).  SOURCE in a comment
is followed.  Imported files are merged unexpanded.  Nested imports are looked up beside
their file and in `-I` only, where the resolver also looks beside all importing
files: a file found only there is merged without its DEFINEs.

**Resolver.** A file that cannot be decoded ends the preprocessor with status 2,
but the resolver with an exception and status 1 (`resolver.py:81`), which
happens with `--no-preprocess` or if only the resolver finds the file.  The main
file is merged a second time if it is imported.

**Exit status.** 1 means a critical finding or an uncaught exception.
`--backtrace` exits with 0 whatever was found.

**Never called.** `topological_order`, `propagates_taint_to_global`,
`find_main`, `print_graph` and `preprocess()` outside tests; `is_recursive` and
`frame_size_words` of a summary are written and not read.

## 13. Not modelled

- The frame totals and the table of `backtrace.py`: sums over the answer.
- The grammar and the transformers, but for what they compute from bounds,
  types, templates and parameters: they build a tree, keep no state, and what
  they get wrong is a matter of text.
- `report.py`'s wording, colours, source excerpts and help texts.
- `fixed.py` and `readonly.py`, which cannot warn; the STRING parameters and
  the debug directives of `misc.py`, a test of one declaration and a search
  for four words.  `Checks` has their findings as inputs.
- The class of a NUMBER token, and the stream adapters and functions that only
  tests call.

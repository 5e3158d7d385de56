------------------------------ MODULE Resolver ------------------------------
(***************************************************************************)
(* segmsan/resolver.py: resolve_imports merges the files named by ?SOURCE  *)
(* directives, and the files these name, into the main program;            *)
(* resolve_templates then gives structures the fields of their template.   *)
(*                                                                         *)
(* A file is a directory and a name.  What a file holds is chosen by the   *)
(* environment when the file is first read and is the same ever after.     *)
(* The four spellings _find_local_file tries in a directory are one name.  *)
(* A step is one round of a loop over source_imports; the recursion of     *)
(* _merge_file is the explicit "stack".                                    *)
(***************************************************************************)
EXTENDS Naturals, SequencesExt, FiniteSetsExt

CONSTANTS
  Base,        \* directory of the main file
  SearchDirs,  \* the -I directories, in order
  OtherDirs,   \* directories files may be found in by no option
  FileNames,
  MainName,
  System,      \* an import of $SYSTEM
  MaxImports,  \* bound: imports of one file
  MaxTotal,    \* bound: imports of all files
  MaxDecls     \* bound: files that declare the LITERAL and the template

Dirs == {Base} \cup Range(SearchDirs) \cup OtherDirs
Files == Dirs \X FileNames
Main == <<Base, MainName>>
SearchPath == <<Base>> \o SearchDirs      \* all_dirs

ASSUME ResolverAssumption ==
  /\ SearchDirs \in Seq(Dirs)
  /\ MainName \in FileNames
  /\ System \notin FileNames
  /\ MaxImports \in Nat /\ MaxTotal \in Nat /\ MaxDecls \in Nat

(* "bad" has a syntax error, "lost" cannot be opened, "garbled" is no      *)
(* UTF-8, which open().read() raises a UnicodeDecodeError for.             *)
Status == {"ok", "bad", "lost", "garbled"}

(* Whether a file declares a LITERAL and a template structure of one fixed *)
(* name each; every file declares a structure with that template.          *)
Content == [status : Status, declares : BOOLEAN,
            imports : Seq(FileNames \cup {System})]

VARIABLES
  exists,     \* the files on disk
  content,    \* what the files read so far hold
  phase,      \* "main" (being parsed), "imports", "templates", "done", "crashed"
  stack,      \* resolve_imports and its _merge_file calls, innermost last
  visited,
  merged,     \* files whose declarations are in the program, in order
  literal,    \* the file program.literals has the LITERAL's value from
  template,   \* the file each use has its fields from
  tree,       \* nodes of the import tree
  dirsOf      \* reference: the search path a merged file was walked with

vars == <<exists, content, phase, stack, visited, merged, literal,
          template, tree, dirsOf>>

Frame == [file : Files, next : Nat, dirs : Seq(Dirs)]
Node == [kind : {"system", "resolved", "missing"}, counted : BOOLEAN]

TypeOK ==
  /\ exists \subseteq Files
  /\ DOMAIN content \subseteq Files
  /\ \A f \in DOMAIN content : content[f] \in Content
  /\ phase \in {"main", "imports", "templates", "done", "crashed"}
  /\ stack \in Seq(Frame)
  /\ visited \subseteq exists
  /\ merged \in Seq(visited \cup {Main})
  /\ literal \in {<<>>} \cup {<<f>> : f \in Files}
  /\ DOMAIN template \subseteq Files
  /\ tree \in Seq(Node)
  /\ DOMAIN dirsOf \subseteq Files

Init ==
  /\ exists \in {E \in SUBSET Files : Main \in E}
  /\ content = <<>> /\ phase = "main"
  /\ stack = <<>> /\ visited = {} /\ merged = <<>>
  /\ literal = <<>> /\ template = <<>> /\ tree = <<>> /\ dirsOf = <<>>

-----------------------------------------------------------------------------
With(f, x, e) == [y \in DOMAIN f \cup {x} |-> IF y = x THEN e ELSE f[y]]

ImportsRead == MapThenFoldSet(+, 0, LAMBDA g : Len(content[g].imports),
                              LAMBDA S : CHOOSE g \in S : TRUE,
                              DOMAIN content)
Declarers == {g \in DOMAIN content : content[g].declares}

Unusable(s) == [status |-> s, declares |-> FALSE, imports |-> <<>>]

(* What reading f may give: a file read before has not changed.            *)
Contents(f) ==
  IF f \in DOMAIN content THEN {content[f]}
  ELSE [status : {"ok"},
        declares : IF Cardinality(Declarers) < MaxDecls THEN BOOLEAN ELSE {FALSE},
        imports : {s \in SeqOf(FileNames \cup {System}, MaxImports) :
                     ImportsRead + Len(s) <= MaxTotal}]
       \cup (IF f = Main THEN {} ELSE {Unusable(s) : s \in Status \ {"ok"}})

(* The first LITERAL of a name wins.                                       *)
LiteralAfter(f, c) ==
  IF literal = <<>> /\ c.declares THEN <<f>> ELSE literal

(* parse_program_src of the main file; its directives are then walked with *)
(* all_dirs.                                                               *)
Parse(c) ==
  /\ phase = "main"
  /\ phase' = "imports"
  /\ content' = With(content, Main, c)
  /\ merged' = <<Main>>
  /\ literal' = LiteralAfter(Main, c)
  /\ stack' = <<[file |-> Main, next |-> 1, dirs |-> SearchPath]>>
  /\ UNCHANGED <<exists, visited, template, tree, dirsOf>>

Top == Last(stack)
Imports == content[Top.file].imports
More == phase = "imports" /\ stack # <<>> /\ Top.next <= Len(Imports)
Import == Imports[Top.next]
Advanced == Append(Front(stack), [Top EXCEPT !.next = @ + 1])
Add(kind, counted) == Append(tree, [kind |-> kind, counted |-> counted])

(* The first of the directories that has the file; <<>> is None.           *)
Find(name, dirs) ==
  LET hits == {k \in DOMAIN dirs : <<dirs[k], name>> \in exists}
  IN IF hits = {} THEN <<>> ELSE <<<<dirs[Min(hits)], name>>>>

SystemImport ==
  /\ More /\ Import = System
  /\ tree' = Add("system", FALSE)
  /\ stack' = Advanced
  /\ UNCHANGED <<exists, content, phase, visited, merged, literal,
                 template, dirsOf>>

Missing ==
  /\ More /\ Import # System
  /\ Find(Import, Top.dirs) = <<>>
  /\ tree' = Add("missing", FALSE)
  /\ stack' = Advanced
  /\ UNCHANGED <<exists, content, phase, visited, merged, literal,
                 template, dirsOf>>

Target == Find(Import, Top.dirs)[1]
Found == /\ More /\ Import # System
         /\ Find(Import, Top.dirs) # <<>>

(* The file was imported before: a node without declarations.              *)
AlreadyVisited ==
  /\ Found /\ Target \in visited
  /\ tree' = Add("resolved", FALSE)
  /\ stack' = Advanced
  /\ UNCHANGED <<exists, content, phase, visited, merged, literal,
                 template, dirsOf>>

(* Unreadable or with a syntax error: visited, and nothing of it is kept.  *)
Drop(c) ==
  /\ Found /\ Target \notin visited /\ c.status \in {"bad", "lost"}
  /\ content' = With(content, Target, c)
  /\ visited' = visited \cup {Target}
  /\ tree' = Add("resolved", FALSE)
  /\ stack' = Advanced
  /\ UNCHANGED <<exists, phase, merged, literal, template, dirsOf>>

(* Only OSError is caught around open().read(): the decoding error of      *)
(* another encoding leaves resolve_imports and main().                     *)
Crash(c) ==
  /\ Found /\ Target \notin visited /\ c.status = "garbled"
  /\ content' = With(content, Target, c)
  /\ visited' = visited \cup {Target}
  /\ phase' = "crashed"
  /\ UNCHANGED <<exists, stack, merged, literal, template, tree, dirsOf>>

(* Variant: a file is marked when its own imports are done.                *)
EnteredLater(f) == visited

(* visited.add before the file is read.                                    *)
Entered(f) == visited \cup {f}

(* Variant: the importing file's directory is searched last.               *)
SubDirsLast(f) == Append(Top.dirs, f[1])

(* [file_dir] + search_dirs: the directories of all importing files.       *)
SubDirs(f) == <<f[1]>> \o Top.dirs

(* _merge_file: the declarations are appended and its imports come next.   *)
Merge(c) ==
  /\ Found /\ Target \notin visited /\ c.status = "ok"
  /\ content' = With(content, Target, c)
  /\ visited' = Entered(Target)
  /\ merged' = Append(merged, Target)
  /\ literal' = LiteralAfter(Target, c)
  /\ tree' = Add("resolved", TRUE)
  /\ stack' = Append(Advanced, [file |-> Target, next |-> 1,
                                dirs |-> SubDirs(Target)])
  /\ dirsOf' = With(dirsOf, Target, SubDirs(Target))
  /\ UNCHANGED <<exists, phase, template>>

(* Variant: the end of a file ends the whole resolution.                   *)
ReturnAtOnce ==
  /\ phase = "imports" /\ stack # <<>> /\ Top.next > Len(Imports)
  /\ stack' = <<>>
  /\ phase' = "templates"
  /\ UNCHANGED <<exists, content, visited, merged, literal, template,
                 tree, dirsOf>>

Return ==
  /\ phase = "imports" /\ stack # <<>> /\ Top.next > Len(Imports)
  /\ stack' = Front(stack)
  /\ phase' = IF Len(stack) = 1 THEN "templates" ELSE phase
  /\ UNCHANGED <<exists, content, visited, merged, literal, template,
                 tree, dirsOf>>

(* Variant: only the templates of the main file are known.                 *)
TemplateMapOfMain ==
  {k \in DOMAIN merged : merged[k] = Main /\ content[merged[k]].declares}

(* template_map: where the template is declared; the last one stays.       *)
TemplateMap == {k \in DOMAIN merged : content[merged[k]].declares}

ResolveTemplates ==
  /\ phase = "templates"
  /\ phase' = "done"
  /\ template' = IF TemplateMap = {} THEN <<>>
                 ELSE [f \in Range(merged) |-> merged[Max(TemplateMap)]]
  /\ UNCHANGED <<exists, content, stack, visited, merged, literal, tree, dirsOf>>

Next ==
  \/ \E c \in Contents(Main) : Parse(c)
  \/ SystemImport
  \/ Missing
  \/ AlreadyVisited
  \/ \E c \in (IF Found THEN Contents(Target) ELSE {}) :
        Drop(c) \/ Crash(c) \/ Merge(c)
  \/ Return
  \/ ResolveTemplates

Spec == Init /\ [][Next]_vars /\ WF_vars(Next)

-----------------------------------------------------------------------------
(* No file is merged twice, whatever the cycles and the paths it is        *)
(* imported by; only the main file, which was not itself imported, may     *)
(* come a second time (_merge_file's visited set).                         *)
MergedOnce ==
  \A i, j \in DOMAIN merged :
     i < j /\ merged[i] = merged[j] => i = 1

(* The sets that hold whatever the main file or a merged member imports.   *)
Closed(S) ==
  \A w \in {<<Main, SearchPath>>}
             \cup {<<f, dirsOf[f]>> : f \in S \cap DOMAIN dirsOf} :
    \A i \in DOMAIN content[w[1]].imports :
       LET n == content[w[1]].imports[i]
       IN n # System => Range(Find(n, w[2])) \subseteq S

(* The counts of format_import_tree.                                       *)
NodesOf(P(_)) == Cardinality({i \in DOMAIN tree : P(tree[i])})
ImportSummary ==
  [resolved |-> NodesOf(LAMBDA n : n.kind = "resolved"),
   unresolved |-> NodesOf(LAMBDA n : n.kind = "missing"),
   system |-> NodesOf(LAMBDA n : n.kind = "system"),
   imported |-> NodesOf(LAMBDA n : n.counted)]

(* The directives of a file, once for every time it was merged.            *)
Directives ==
  Cardinality(UNION {{k} \X DOMAIN content[merged[k]].imports : k \in DOMAIN merged})

(* When the imports are resolved, the files that were looked at are those  *)
(* that some chain of imports through good files leads to, and no other:   *)
(* a file that fails hides what only it imports and nothing else.  The     *)
(* import tree has one node for every directive and counts every file.     *)
ImportsComplete ==
  phase \in {"templates", "done"} =>
    /\ Closed(visited)
    /\ \A S \in SUBSET visited : Closed(S) => S = visited
    /\ ImportSummary.imported = Len(merged) - 1
    /\ ImportSummary.resolved + ImportSummary.unresolved
         + ImportSummary.system = Directives

(* A name that any merged file declares is known when the imports are     *)
(* done: every structure gets the fields of its template, and the LITERAL  *)
(* its first value, which is the main file's own if it has one             *)
(* (resolve_templates after resolve_imports, _merge_file).                 *)
NamesResolved ==
  phase = "done" =>
    \A f, g \in Range(merged) :
       content[g].declares =>
          /\ f \in DOMAIN template /\ content[template[f]].declares
          /\ \E i, j \in DOMAIN merged :
               merged[i] = g /\ merged[j] = literal[1] /\ j <= i

(* A directory nearer to the importing file hides the ones further off: a  *)
(* file of the same directory is never passed over (_find_local_file with  *)
(* sub_dirs).                                                              *)
NearestWins ==
  [][\A f \in visited' \ visited :
       <<Top.file[1], f[2]>> \in exists => f[1] = Top.file[1]]_vars
=============================================================================

------------------------------- MODULE Defines -------------------------------
(***************************************************************************)
(* The two searches of one run for imported files: before the main file is *)
(* parsed, collect_defines_recursive of segmsan/preprocessor.py looks for  *)
(* their DEFINEs (_preprocess_recursive of __main__.py); afterwards        *)
(* Resolver merges their declarations.  Both read the same files.          *)
(*                                                                         *)
(* The DEFINEs of a file stand for one name that every file defines, so    *)
(* that "macros" is the list of the files in the order their DEFINEs come  *)
(* in.  SOURCE in a comment, which only this search follows, is left out.  *)
(***************************************************************************)
EXTENDS Resolver

VARIABLES
  pass,     \* "start", "collect", "over", or "failed": exit with status 2
  calls,    \* collect_defines_recursive, innermost call last
  seen,     \* _visited
  macros

dvars == <<pass, calls, seen, macros>>

DTypeOK ==
  /\ TypeOK
  /\ pass \in {"start", "collect", "over", "failed"}
  /\ calls \in Seq(Frame)
  /\ seen \subseteq exists
  /\ macros \in Seq(seen \cup {Main})
  /\ pass \in {"start", "collect"} => phase = "main"

DInit == Init /\ pass = "start" /\ calls = <<>> /\ seen = {} /\ macros = <<>>

ResolverUnchanged ==
  UNCHANGED <<exists, phase, stack, visited, merged, literal, template, tree, dirsOf>>

(* A file with a syntax error has DEFINEs and imports all the same.        *)
Texts(f) ==
  Contents(f) \cup
    (IF f \in DOMAIN content \cup {Main} THEN {}
     ELSE {[c EXCEPT !.status = "bad"] :
             c \in {d \in Contents(f) : d.status = "ok" /\ ~d.declares}})

-----------------------------------------------------------------------------
(* Variant: all directories the importing files were looked up in.         *)
CallDirsAll(f, dirs) == <<f[1]>> \o dirs

(* Variant: the directory of the main file throughout.                     *)
CallDirsBase(f, dirs) == SearchPath

(* all_dirs of a call: the directory of the file and the -I directories.   *)
CallDirs(f, dirs) == <<f[1]>> \o SearchDirs

(* --no-preprocess.                                                        *)
Skip ==
  /\ pass = "start" /\ pass' = "over"
  /\ ResolverUnchanged /\ UNCHANGED <<content, calls, seen, macros>>

(* The DEFINEs of the main file, collected here and again by the call.     *)
Start(c) ==
  /\ pass = "start" /\ pass' = "collect"
  /\ content' = With(content, Main, c)
  /\ macros' = <<Main, Main>>
  /\ calls' = <<[file |-> Main, next |-> 1, dirs |-> CallDirs(Main, <<>>)]>>
  /\ ResolverUnchanged /\ UNCHANGED seen

Call == Last(calls)
Source == content[Call.file].imports[Call.next]
Reading == pass = "collect" /\ calls # <<>>
Match == Reading /\ Call.next <= Len(content[Call.file].imports)
CallAdvanced == Append(Front(calls), [Call EXCEPT !.next = @ + 1])

(* A SOURCE of the system, one that no directory has, or one seen before.  *)
PassBy ==
  /\ Match
  /\ Source = System \/ Range(Find(Source, Call.dirs)) \subseteq seen
  /\ calls' = CallAdvanced
  /\ ResolverUnchanged /\ UNCHANGED <<content, pass, seen, macros>>

SourceFile == Find(Source, Call.dirs)[1]
NewFile == /\ Match /\ Source # System
           /\ Find(Source, Call.dirs) # <<>> /\ SourceFile \notin seen

(* Variant: a file is marked only after the calls it makes itself.         *)
SeenLater(f) == seen

(* _visited.add before the file is read.                                   *)
SeenWith(f) == seen \cup {f}

(* collect_defines_from_file, whose macros the call for its source         *)
(* collects once more; an empty source is not searched.                    *)
Collect(c) ==
  /\ NewFile /\ c.status \in {"ok", "bad"}
  /\ content' = With(content, SourceFile, c)
  /\ seen' = SeenWith(SourceFile)
  /\ macros' = macros \o <<SourceFile, SourceFile>>
  /\ calls' = Append(CallAdvanced,
                [file |-> SourceFile, next |-> 1,
                 dirs |-> CallDirs(SourceFile, Call.dirs)])
  /\ ResolverUnchanged /\ UNCHANGED pass

(* OSError: no macros and no source.                                       *)
Unopened(c) ==
  /\ NewFile /\ c.status = "lost"
  /\ content' = With(content, SourceFile, c)
  /\ seen' = SeenWith(SourceFile)
  /\ calls' = CallAdvanced
  /\ ResolverUnchanged /\ UNCHANGED <<pass, macros>>

(* A decoding error is caught in main().                                   *)
Fail(c) ==
  /\ NewFile /\ c.status = "garbled"
  /\ content' = With(content, SourceFile, c)
  /\ seen' = SeenWith(SourceFile)
  /\ pass' = "failed"
  /\ ResolverUnchanged /\ UNCHANGED <<calls, macros>>

(* Variant: a file without imports is not finished.                        *)
FinishIfAny ==
  /\ Reading /\ Call.next > Len(content[Call.file].imports)
  /\ calls' = Front(calls)
  /\ pass' = IF Len(calls) = 1 /\ seen # {} THEN "over" ELSE pass
  /\ ResolverUnchanged /\ UNCHANGED <<content, seen, macros>>

Finish ==
  /\ Reading /\ Call.next > Len(content[Call.file].imports)
  /\ calls' = Front(calls)
  /\ pass' = IF Len(calls) = 1 THEN "over" ELSE pass
  /\ ResolverUnchanged /\ UNCHANGED <<content, seen, macros>>

DNext ==
  \/ Skip
  \/ \E c \in Contents(Main) : Start(c)
  \/ PassBy
  \/ \E c \in (IF NewFile THEN Texts(SourceFile) ELSE {}) :
        Collect(c) \/ Unopened(c) \/ Fail(c)
  \/ Finish
  \/ pass = "over" /\ Next /\ UNCHANGED dvars

DSpec == DInit /\ [][DNext]_<<vars, dvars>> /\ WF_<<vars, dvars>>(DNext)

-----------------------------------------------------------------------------
Collected == {f \in seen : content[f].status \in {"ok", "bad"}}

(* What a file leads this search to, by its own directory and -I only.     *)
Nearest(n, f) == Find(n, <<f[1]>> \o SearchDirs)
LedTo(f) == UNION {Range(Nearest(n, f)) : n \in Range(content[f].imports) \ {System}}

(* When the search is over it has looked at the files that chains of       *)
(* SOURCE directives lead to, those with syntax errors included, and at no *)
(* other; and the DEFINEs of each are in the table twice, none a third     *)
(* time, whatever the cycles.                                              *)
CollectionComplete ==
  pass = "over" /\ macros # <<>> =>
    LET IsClosed(S) == \A f \in {Main} \cup (S \cap Collected) : LedTo(f) \subseteq S
    IN /\ IsClosed(seen)
       /\ \A S \in SUBSET seen : IsClosed(S) => S = seen
       /\ Len(macros) = 2 * (1 + Cardinality(Collected))

(* The resolver looks a name up in the directories of all importing files, *)
(* this search only in the nearest one's and -I.                           *)
LookedUpAlike ==
  \A f \in DOMAIN dirsOf : \A n \in Range(content[f].imports) \ {System} :
     Find(n, dirsOf[f]) = Nearest(n, f)

(* As long as both searches find the same files, a file whose declarations *)
(* are merged has had its DEFINEs collected, and a file that cannot be     *)
(* decoded ends the run in the preprocessor, with a message and status 2,  *)
(* and never in the resolver, which does not catch the error.              *)
SearchesAgree ==
  macros # <<>> /\ LookedUpAlike =>
    /\ Range(merged) \subseteq {Main} \cup Collected
    /\ phase # "crashed"

(* Cyclic SOURCE directives come to an end in both searches.               *)
RunEnds == <>(pass = "failed" \/ phase \in {"done", "crashed"})
=============================================================================

--------------------------- MODULE DefinesProofs ---------------------------
(***************************************************************************)
(* Proofs about Resolver and Defines, for any files, imports and           *)
(* directories.  Of the resolver: that no file is merged twice, that the   *)
(* walk looks at exactly the files chains of imports lead to, that names   *)
(* are resolved, and that the nearest directory wins.  Of the collection   *)
(* of DEFINEs before it: that it looks at exactly the files chains of      *)
(* SOURCE directives lead to, that it agrees with the merging of           *)
(* declarations where both find the same files, and that the results about *)
(* the resolver hold of it inside the run, whose files were read before.   *)
(***************************************************************************)
EXTENDS Defines, SequenceTheorems, FiniteSetTheorems, WellFoundedInduction, TLAPS

-----------------------------------------------------------------------------
(***************************************************************************)
(* No file is merged twice.  Nothing is used of how a file is found or of  *)
(* what it holds: only that _merge_file turns back at a visited file and   *)
(* marks the others before it reads them.                                  *)
(***************************************************************************)

(* Nothing is merged before the main file, which comes first; all that     *)
(* follows was imported, and what was imported is marked.                  *)
MarkedWhenMerged ==
  /\ merged \in Seq(visited \cup {Main})
  /\ phase = "main" => merged = <<>>
  /\ \A i \in 2..Len(merged) : merged[i] \in visited

IInv == MarkedWhenMerged /\ MergedOnce

LEMMA InitIInv == Init => IInv
<1> SUFFICES ASSUME Init PROVE IInv
  OBVIOUS
<1>1. merged = <<>> /\ phase = "main"
  BY DEF Init
<1> QED
  BY <1>1 DEF IInv, MarkedWhenMerged, MergedOnce

(* A file that is marked from now on may be appended.                      *)
LEMMA AppendNew ==
  ASSUME IInv, NEW f, f \notin visited, phase # "main",
         visited' = visited \cup {f}, merged' = Append(merged, f),
         phase' # "main"
  PROVE  IInv'
<1> DEFINE n == Len(merged)
<1>1. n \in Nat /\ merged \in Seq(visited \cup {Main})
  BY LenProperties DEF IInv, MarkedWhenMerged
<1>2. merged' \in Seq(visited' \cup {Main})
  <2>1. merged \in Seq(visited' \cup {Main}) /\ f \in visited' \cup {Main}
    BY <1>1
  <2> QED
    BY <2>1, AppendProperties
<1>3. /\ Len(merged') = n + 1
      /\ merged'[n + 1] = f
      /\ \A i \in 1..n : merged'[i] = merged[i]
  BY <1>1, AppendProperties
<1>4. DOMAIN merged = 1..n /\ DOMAIN merged' = 1..(n + 1)
  BY <1>1, <1>2, <1>3, LenProperties
<1> HIDE DEF n
<1>5. \A i \in 2..(n + 1) : merged'[i] \in visited'
  BY <1>1, <1>3 DEF IInv, MarkedWhenMerged, n
<1>6. MergedOnce'
  <2> SUFFICES ASSUME NEW i \in 1..(n + 1), NEW j \in 1..(n + 1),
                      i < j, merged'[i] = merged'[j]
               PROVE  i = 1
    BY <1>4 DEF MergedOnce
  <2>1. CASE j = n + 1
    <3>1. merged[i] = f
      BY <1>1, <1>3, <2>1
    <3>2. i \notin 2..n
      BY <3>1 DEF IInv, MarkedWhenMerged, n
    <3> QED
      BY <1>1, <2>1, <3>2
  <2>2. CASE j # n + 1
    <3>1. i \in DOMAIN merged /\ j \in DOMAIN merged /\ merged[i] = merged[j]
      BY <1>1, <1>3, <1>4, <2>2
    <3> QED
      BY <3>1 DEF IInv, MergedOnce
  <2> QED
    BY <2>1, <2>2
<1> QED
  BY <1>2, <1>3, <1>5, <1>6 DEF IInv, MarkedWhenMerged

(* A step that merges nothing may mark one more file.                      *)
LEMMA NothingMerged ==
  ASSUME IInv, visited \subseteq visited', UNCHANGED merged,
         phase' = "main" => phase = "main"
  PROVE  IInv'
<1>1. merged \in Seq(visited \cup {Main}) /\ Len(merged) \in Nat
  BY LenProperties DEF IInv, MarkedWhenMerged
<1>2. merged \in Seq(visited' \cup {Main})
  BY <1>1
<1> QED
  BY <1>1, <1>2 DEF IInv, MarkedWhenMerged, MergedOnce

LEMMA StepIInv == IInv /\ [Next]_vars => IInv'
<1> SUFFICES ASSUME IInv, [Next]_vars PROVE IInv'
  OBVIOUS
<1>1. ASSUME NEW c, Parse(c) PROVE IInv'
  <2>1. merged' = <<Main>> /\ phase' = "imports"
    BY <1>1 DEF Parse
  <2> HIDE DEF Main
  <2>2. Len(merged') = 1 /\ DOMAIN merged' = 1..1 /\ merged' \in Seq(visited' \cup {Main})
    BY <2>1
  <2> QED
    BY <2>1, <2>2 DEF IInv, MarkedWhenMerged, MergedOnce
<1>2. CASE SystemImport
  BY <1>2, NothingMerged DEF SystemImport
<1>3. CASE Missing
  BY <1>3, NothingMerged DEF Missing
<1>4. CASE AlreadyVisited
  BY <1>4, NothingMerged DEF AlreadyVisited
<1>5. ASSUME NEW c, Drop(c) PROVE IInv'
  BY <1>5, NothingMerged DEF Drop
<1>6. ASSUME NEW c, Crash(c) PROVE IInv'
  <2>1. visited' = visited \cup {Target} /\ UNCHANGED merged /\ phase' = "crashed"
    BY <1>6 DEF Crash
  <2> QED
    BY <2>1, NothingMerged
<1>7. ASSUME NEW c, Merge(c) PROVE IInv'
  <2>1. /\ Target \notin visited /\ phase = "imports" /\ phase' = phase
        /\ visited' = visited \cup {Target}
        /\ merged' = Append(merged, Target)
    BY <1>7 DEF Merge, Found, More, Entered
  <2> QED
    BY <2>1, AppendNew
<1>8. CASE Return
  BY <1>8, NothingMerged DEF Return
<1>9. CASE ResolveTemplates
  <2>1. UNCHANGED <<visited, merged>> /\ phase' = "done"
    BY <1>9 DEF ResolveTemplates
  <2> QED
    BY <2>1, NothingMerged
<1>10. CASE UNCHANGED vars
  BY <1>10, NothingMerged DEF vars
<1> QED
  BY <1>1, <1>2, <1>3, <1>4, <1>5, <1>6, <1>7, <1>8, <1>9, <1>10 DEF Next

(* No file is merged twice, whatever the import graph, the directories and *)
(* the order the imports come in; only the main file may be merged once    *)
(* more by an import that leads back to it (_merge_file).                  *)
THEOREM NeverMergedTwice == Spec => []MergedOnce
<1>1. IInv => MergedOnce
  BY DEF IInv
<1> QED
  BY InitIInv, StepIInv, <1>1, PTL DEF Spec

-----------------------------------------------------------------------------
(***************************************************************************)
(* Least and greatest members.                                             *)
(***************************************************************************)

LEMMA LeastNat ==
  ASSUME NEW S \in SUBSET Nat, S # {}
  PROVE  \E x \in S : \A y \in S : x <= y
<1>1. PICK x \in S : \A y \in S : <<y, x>> \notin OpToRel(<, Nat)
  <2> DEFINE R == OpToRel(<, Nat)
  <2>1. IsWellFoundedOn(R, Nat)
    BY NatLessThanWellFounded
  <2> HIDE DEF R
  <2>2. \E x \in S : \A y \in S : <<y, x>> \notin R
    BY <2>1, WFMin
  <2> QED
    BY <2>2 DEF R
<1>2. \A y \in S : ~(y < x)
  BY <1>1 DEF OpToRel
<1> QED
  BY <1>2

LEMMA MinFacts ==
  ASSUME NEW S \in SUBSET Nat, S # {}
  PROVE  Min(S) \in S /\ \A y \in S : Min(S) <= y
BY LeastNat DEF Min

LEMMA MaxFacts ==
  ASSUME NEW n \in Nat, NEW S \in SUBSET (1 .. n), S # {}
  PROVE  Max(S) \in S /\ \A y \in S : Max(S) >= y
<1> DEFINE T == {k \in Nat : \A y \in S : y <= k}
<1>1. T # {} /\ T \subseteq Nat
  <2>1. n \in T
    OBVIOUS
  <2> QED
    BY <2>1
<1>2. PICK m \in T : \A k \in T : m <= k
  <2> HIDE DEF T
  <2> QED
    BY <1>1, LeastNat
<1>3. m \in S
  <2> SUFFICES ASSUME m \notin S PROVE FALSE
    OBVIOUS
  <2>1. PICK y \in S : TRUE
    OBVIOUS
  <2>2. m \in Nat /\ y \in 1 .. n /\ y <= m /\ y # m
    BY <1>2, <2>1
  <2>3. m - 1 \in Nat /\ ~(m <= m - 1)
    BY <2>2
  <2>4. \A z \in S : z <= m - 1
    BY <1>2, <2>2
  <2> QED
    BY <1>2, <2>3, <2>4
<1>4. \E x \in S : \A y \in S : x >= y
  BY <1>2, <1>3
<1> QED
  BY <1>4 DEF Max

-----------------------------------------------------------------------------
(***************************************************************************)
(* What the walk of the imports keeps true.                                *)
(***************************************************************************)

(* The result of Find as a set, of the files on disk E.                    *)
FoundIn(E, n, dirs) ==
  LET hits == {k \in DOMAIN dirs : <<dirs[k], n>> \in E}
  IN IF hits = {} THEN {} ELSE {<<dirs[Min(hits)], n>>}

(* The directive n has been followed.                                      *)
Looked(E, V, n, dirs) == n # System => FoundIn(E, n, dirs) \subseteq V

ContentInv ==
  /\ visited \subseteq DOMAIN content
  /\ Main \in DOMAIN content => content[Main].status = "ok"
  /\ phase # "main" => Main \in DOMAIN content
  /\ DOMAIN dirsOf = {f \in visited : content[f].status = "ok"}
  /\ \A f \in DOMAIN dirsOf : dirsOf[f] \in Seq(Dirs)

StartInv ==
  phase = "main" => /\ merged = <<>> /\ stack = <<>> /\ visited = {}
                    /\ literal = <<>> /\ tree = <<>>

MergedInv ==
  /\ merged \in Seq(DOMAIN dirsOf \cup {Main})
  /\ phase # "main" => Len(merged) > 0
  /\ DOMAIN dirsOf \subseteq {merged[i] : i \in 1 .. Len(merged)}

StackInv ==
  /\ \A k \in 1 .. Len(stack) :
       /\ stack[k].next \in 1 .. Len(content[stack[k].file].imports) + 1
       /\ k = 1 => stack[k].file = Main /\ stack[k].dirs = SearchPath
       /\ k > 1 => /\ stack[k].file \in DOMAIN dirsOf
                   /\ stack[k].dirs = dirsOf[stack[k].file]
  /\ phase = "imports" => stack # <<>>
  /\ phase \in {"templates", "done"} => stack = <<>>

(* The files whose imports a _merge_file call is still walking.            *)
Inner == {stack[k].file : k \in 2 .. Len(stack)}

LookedInv ==
  /\ \A k \in 1 .. Len(stack) : \A j \in 1 .. stack[k].next - 1 :
       Looked(exists, visited, content[stack[k].file].imports[j], stack[k].dirs)
  /\ \A f \in DOMAIN dirsOf \ Inner : \A j \in DOMAIN content[f].imports :
       Looked(exists, visited, content[f].imports[j], dirsOf[f])
  /\ phase \in {"templates", "done"} =>
       \A j \in DOMAIN content[Main].imports :
          Looked(exists, visited, content[Main].imports[j], SearchPath)

(* A set that holds what the main file and its merged members import holds *)
(* every file that was looked at.                                          *)
LedInv == phase # "main" => \A S \in SUBSET Files : Closed(S) => visited \subseteq S

LiteralInv ==
  /\ literal = <<>> => \A i \in 1 .. Len(merged) : ~content[merged[i]].declares
  /\ literal # <<>> => \E j \in 1 .. Len(merged) :
        /\ merged[j] = literal[1]
        /\ \A i \in 1 .. j - 1 : ~content[merged[i]].declares

TemplateInv ==
  phase = "done" =>
    \A i, j \in 1 .. Len(merged) : content[merged[j]].declares =>
      /\ merged[i] \in DOMAIN template
      /\ content[template[merged[i]]].declares

WalkInv ==
  /\ TypeOK /\ ContentInv /\ StartInv /\ MergedInv /\ StackInv /\ LookedInv
  /\ LedInv /\ LiteralInv /\ TemplateInv

-----------------------------------------------------------------------------
(***************************************************************************)
(* Reading and finding files.                                              *)
(***************************************************************************)

LEMMA PathFacts ==
  /\ Base \in Dirs /\ Main \in Files /\ MainName \in FileNames
  /\ SearchDirs \in Seq(Dirs) /\ SearchPath \in Seq(Dirs)
  /\ SearchPath[1] = Base
<1>1. Base \in Dirs /\ MainName \in FileNames /\ SearchDirs \in Seq(Dirs)
  BY ResolverAssumption DEF Dirs
<1>2. <<Base>> \in Seq(Dirs) /\ Len(<<Base>>) = 1 /\ <<Base>>[1] = Base
  BY <1>1
<1>3. SearchPath \in Seq(Dirs) /\ SearchPath[1] = Base
  BY <1>1, <1>2, ConcatProperties, LenProperties DEF SearchPath
<1> QED
  BY <1>1, <1>3 DEF Main, Files

LEMMA FindFacts ==
  ASSUME NEW n, NEW dirs
  PROVE  /\ Range(Find(n, dirs)) = FoundIn(exists, n, dirs)
         /\ Find(n, dirs) = <<>> <=> FoundIn(exists, n, dirs) = {}
         /\ Find(n, dirs) # <<>> => FoundIn(exists, n, dirs) = {Find(n, dirs)[1]}
<1> DEFINE hits == {k \in DOMAIN dirs : <<dirs[k], n>> \in exists}
           f == <<dirs[Min(hits)], n>>
<1>1. CASE hits = {}
  <2>1. Find(n, dirs) = <<>> /\ FoundIn(exists, n, dirs) = {}
    BY <1>1 DEF Find, FoundIn
  <2>2. Range(<<>>) = {}
    BY DEF Range
  <2> QED
    BY <2>1, <2>2
<1>2. CASE hits # {}
  <2>1. Find(n, dirs) = <<f>> /\ FoundIn(exists, n, dirs) = {f}
    BY <1>2 DEF Find, FoundIn
  <2> HIDE DEF f, hits
  <2>2. Range(<<f>>) = {f} /\ <<f>>[1] = f /\ <<f>> # <<>>
    BY DEF Range
  <2> QED
    BY <2>1, <2>2
<1> QED
  BY <1>1, <1>2

LEMMA FoundFacts ==
  ASSUME NEW E, NEW n \in FileNames, NEW dirs \in Seq(Dirs),
         NEW f \in FoundIn(E, n, dirs)
  PROVE  f \in E /\ f \in Files /\ f[2] = n
<1> DEFINE hits == {k \in DOMAIN dirs : <<dirs[k], n>> \in E}
<1>1. hits # {} /\ f = <<dirs[Min(hits)], n>>
  BY DEF FoundIn
<1>2. hits \subseteq 1 .. Len(dirs) /\ Len(dirs) \in Nat
  BY LenProperties
<1>3. Min(hits) \in hits
  <2> HIDE DEF hits
  <2>1. hits \in SUBSET Nat
    BY <1>2
  <2> QED
    BY <1>1, <2>1, MinFacts
<1>4. dirs[Min(hits)] \in Dirs
  <2> HIDE DEF hits
  <2> QED
    BY <1>2, <1>3, ElementOfSeq
<1> QED
  BY <1>1, <1>3, <1>4 DEF Files

LEMMA ContentsFacts ==
  ASSUME TypeOK, ContentInv, NEW f \in Files, NEW c \in Contents(f)
  PROVE  /\ c \in Content
         /\ f \in DOMAIN content => c = content[f]
         /\ f = Main => c.status = "ok"
<1>1. CASE f \in DOMAIN content
  <2>1. c = content[f]
    BY <1>1 DEF Contents
  <2> QED
    BY <1>1, <2>1 DEF TypeOK, ContentInv
<1>2. CASE f \notin DOMAIN content
  <2> DEFINE I == {s \in SeqOf(FileNames \cup {System}, MaxImports) :
                     ImportsRead + Len(s) <= MaxTotal}
             D == IF Cardinality(Declarers) < MaxDecls THEN BOOLEAN ELSE {FALSE}
  <2>1. \/ c \in [status : {"ok"}, declares : D, imports : I]
        \/ f # Main /\ c \in {Unusable(s) : s \in Status \ {"ok"}}
    <3>1. Contents(f) = [status : {"ok"}, declares : D, imports : I]
                          \cup (IF f = Main THEN {}
                                ELSE {Unusable(s) : s \in Status \ {"ok"}})
      BY <1>2 DEF Contents
    <3> HIDE DEF I, D, Main
    <3> QED
      BY <3>1
  <2>2. I \subseteq Seq(FileNames \cup {System}) /\ D \subseteq BOOLEAN
    <3>1. SeqOf(FileNames \cup {System}, MaxImports) \subseteq Seq(FileNames \cup {System})
      BY ResolverAssumption DEF SeqOf
    <3> QED
      BY <3>1
  <2> HIDE DEF I, D
  <2>3. CASE c \in [status : {"ok"}, declares : D, imports : I]
    <3>1. "ok" \in Status
      BY DEF Status
    <3> QED
      BY <1>2, <2>2, <2>3, <3>1 DEF Content
  <2>4. CASE f # Main /\ c \in {Unusable(s) : s \in Status \ {"ok"}}
    <3>1. <<>> \in Seq(FileNames \cup {System})
      OBVIOUS
    <3>2. PICK s \in Status : c = Unusable(s)
      BY <2>4
    <3>3. c = [status |-> s, declares |-> FALSE, imports |-> <<>>]
      BY <3>2 DEF Unusable
    <3> QED
      BY <1>2, <2>4, <3>1, <3>3 DEF Content
  <2> QED
    BY <2>1, <2>3, <2>4
<1> QED
  BY <1>1, <1>2

(* A file that was read stays as it was.                                   *)
LEMMA ContentKept ==
  ASSUME TypeOK, NEW f \in Files, NEW c \in Content,
         f \in DOMAIN content => c = content[f],
         content' = With(content, f, c)
  PROVE  /\ DOMAIN content' = DOMAIN content \cup {f}
         /\ content'[f] = c
         /\ \A g \in DOMAIN content : content'[g] = content[g]
         /\ DOMAIN content' \subseteq Files
         /\ \A g \in DOMAIN content' : content'[g] \in Content
BY DEF With, TypeOK

(* Both merged and stack hold files that were read.                        *)
LEMMA ReadFacts ==
  ASSUME WalkInv
  PROVE  /\ Len(merged) \in Nat /\ DOMAIN merged = 1 .. Len(merged)
         /\ \A i \in 1 .. Len(merged) : merged[i] \in DOMAIN content
         /\ Len(stack) \in Nat
         /\ stack # <<>> <=> Len(stack) > 0
         /\ \A k \in 1 .. Len(stack) : /\ stack[k] \in Frame
                                       /\ stack[k].file \in DOMAIN content
                                       /\ stack[k].dirs \in Seq(Dirs)
         /\ \A f \in DOMAIN content :
              /\ content[f].imports \in Seq(FileNames \cup {System})
              /\ Len(content[f].imports) \in Nat
              /\ DOMAIN content[f].imports = 1 .. Len(content[f].imports)
<1> USE DEF WalkInv
<1>1. merged \in Seq(DOMAIN dirsOf \cup {Main}) /\ stack \in Seq(Frame)
  BY DEF MergedInv, TypeOK
<1>2. Len(merged) \in Nat /\ DOMAIN merged = 1 .. Len(merged) /\ Len(stack) \in Nat
  BY <1>1, LenProperties
<1>3. (stack # <<>> <=> Len(stack) > 0) /\ (merged # <<>> <=> Len(merged) > 0)
  BY <1>1, EmptySeq
<1>4. phase # "main" => DOMAIN dirsOf \cup {Main} \subseteq DOMAIN content
  BY DEF ContentInv
<1>5. \A i \in 1 .. Len(merged) : merged[i] \in DOMAIN content
  <2>1. \A i \in 1 .. Len(merged) : merged[i] \in DOMAIN dirsOf \cup {Main}
    BY <1>1, ElementOfSeq
  <2>2. phase = "main" => Len(merged) = 0
    BY DEF StartInv
  <2> QED
    BY <1>4, <2>1, <2>2
<1>6. \A k \in 1 .. Len(stack) : /\ stack[k] \in Frame
                                 /\ stack[k].file \in DOMAIN content
                                 /\ stack[k].dirs \in Seq(Dirs)
  <2>1. \A k \in 1 .. Len(stack) : stack[k] \in Frame
    BY <1>1, ElementOfSeq
  <2>2. phase = "main" => Len(stack) = 0
    BY DEF StartInv
  <2>3. \A k \in 1 .. Len(stack) : stack[k].file \in DOMAIN dirsOf \cup {Main}
    BY <1>2 DEF StackInv
  <2> QED
    BY <1>4, <2>1, <2>2, <2>3 DEF Frame
<1>7. \A f \in DOMAIN content : content[f].imports \in Seq(FileNames \cup {System})
  BY DEF TypeOK, Content
<1> QED
  BY <1>2, <1>3, <1>5, <1>6, <1>7, LenProperties

-----------------------------------------------------------------------------
(***************************************************************************)
(* The stack.                                                              *)
(***************************************************************************)

LEMMA TopFacts ==
  ASSUME WalkInv, stack # <<>>
  PROVE  /\ Len(stack) \in Nat \ {0}
         /\ Top = stack[Len(stack)] /\ Top \in Frame
         /\ Top.file \in DOMAIN content /\ Top.dirs \in Seq(Dirs)
         /\ Top.next \in 1 .. Len(Imports) + 1
         /\ Len(Imports) \in Nat /\ Imports = content[Top.file].imports
         /\ DOMAIN Imports = 1 .. Len(Imports)
<1>1. Len(stack) \in Nat \ {0} /\ Top = stack[Len(stack)]
  BY ReadFacts DEF Top, Last
<1>2. Len(stack) \in 1 .. Len(stack)
  BY <1>1
<1>3. Top \in Frame /\ Top.file \in DOMAIN content /\ Top.dirs \in Seq(Dirs)
  BY <1>1, <1>2, ReadFacts
<1>4. Top.next \in 1 .. Len(content[Top.file].imports) + 1
  BY <1>1, <1>2 DEF WalkInv, StackInv
<1> QED
  BY <1>1, <1>3, <1>4, ReadFacts DEF Imports

LEMMA FrontFacts ==
  ASSUME WalkInv, stack # <<>>
  PROVE  /\ Front(stack) \in Seq(Frame)
         /\ Len(Front(stack)) = Len(stack) - 1
         /\ \A k \in 1 .. Len(stack) - 1 : Front(stack)[k] = stack[k]
<1> DEFINE n == Len(stack)
           s == SubSeq(stack, 1, n - 1)
<1>1. n \in Nat \ {0} /\ 1 \in Int /\ n - 1 \in Int
  BY TopFacts
<1>2. \A k \in 1 .. n - 1 : stack[k] \in Frame
  BY <1>1, ReadFacts
<1>3. Front(stack) = s
  BY DEF Front
<1>4. /\ s \in Seq(Frame)
      /\ Len(s) = IF 1 <= n - 1 THEN n - 1 - 1 + 1 ELSE 0
      /\ \A i \in 1 .. n - 1 - 1 + 1 : s[i] = stack[1 + i - 1]
  <2> HIDE DEF n
  <2> QED
    BY <1>1, <1>2, SubSeqProperties
<1> HIDE DEF n, s
<1>5. Len(s) = n - 1 /\ \A k \in 1 .. n - 1 : s[k] = stack[k]
  BY <1>1, <1>4
<1> QED
  BY <1>3, <1>4, <1>5 DEF n

(* The loop of the innermost call has gone on by one directive.            *)
LEMMA AdvancedFacts ==
  ASSUME WalkInv, stack # <<>>
  PROVE  /\ Advanced \in Seq(Frame)
         /\ Len(Advanced) = Len(stack)
         /\ \A k \in 1 .. Len(stack) : /\ Advanced[k].file = stack[k].file
                                       /\ Advanced[k].dirs = stack[k].dirs
         /\ \A k \in 1 .. Len(stack) - 1 : Advanced[k] = stack[k]
         /\ Advanced[Len(stack)].next = Top.next + 1
<1> DEFINE n == Len(stack)
           f == [Top EXCEPT !.next = Top.next + 1]
<1>1. n \in Nat \ {0} /\ Top = stack[n] /\ Top \in Frame /\ Top.next \in Nat
  BY TopFacts DEF Frame
<1>2. /\ f \in Frame /\ f.file = Top.file /\ f.dirs = Top.dirs
      /\ f.next = Top.next + 1
  BY <1>1 DEF Frame
<1>3. Advanced = Append(Front(stack), f)
  BY DEF Advanced
<1> HIDE DEF f, n
<1>4. /\ Advanced \in Seq(Frame) /\ Len(Advanced) = n
      /\ \A k \in 1 .. n - 1 : Advanced[k] = stack[k]
      /\ Advanced[n] = f
  <2>1. Front(stack) \in Seq(Frame) /\ Len(Front(stack)) = n - 1
        /\ \A k \in 1 .. n - 1 : Front(stack)[k] = stack[k]
    BY FrontFacts DEF n
  <2> QED
    BY <1>1, <1>2, <1>3, <2>1, AppendProperties
<1>5. \A k \in 1 .. n : Advanced[k].file = stack[k].file /\ Advanced[k].dirs = stack[k].dirs
  BY <1>1, <1>2, <1>4
<1> QED
  BY <1>2, <1>4, <1>5 DEF n

(* A directive to follow, and what it names.                               *)
LEMMA ImportFacts ==
  ASSUME WalkInv, More
  PROVE  /\ stack # <<>> /\ phase = "imports"
         /\ Top.next \in 1 .. Len(Imports)
         /\ Import = content[Top.file].imports[Top.next]
         /\ Import # System => Import \in FileNames
<1>1. stack # <<>> /\ phase = "imports" /\ Top.next <= Len(Imports)
  BY DEF More
<1>2. Top.next \in 1 .. Len(Imports)
  BY <1>1, TopFacts
<1>3. Imports \in Seq(FileNames \cup {System})
  BY <1>1, TopFacts, ReadFacts
<1>4. Imports[Top.next] \in FileNames \cup {System}
  BY <1>2, <1>3, ElementOfSeq
<1> QED
  BY <1>1, <1>2, <1>4, TopFacts DEF Import

LEMMA TargetFacts ==
  ASSUME WalkInv, Found
  PROVE  /\ Target \in exists /\ Target \in Files /\ Target[2] = Import
         /\ FoundIn(exists, Import, Top.dirs) = {Target}
<1>1. More /\ Import # System /\ Find(Import, Top.dirs) # <<>>
  BY DEF Found
<1>2. Import \in FileNames /\ Top.dirs \in Seq(Dirs)
  BY <1>1, ImportFacts, TopFacts DEF Found
<1>3. FoundIn(exists, Import, Top.dirs) = {Target}
  BY <1>1, FindFacts DEF Target
<1>4. Target \in FoundIn(exists, Import, Top.dirs)
  BY <1>3
<1> QED
  BY <1>2, <1>3, <1>4, FoundFacts

-----------------------------------------------------------------------------
(***************************************************************************)
(* What all steps have in common: a file that was read stays as it was.    *)
(***************************************************************************)

Keeps == /\ \A f \in DOMAIN content : f \in DOMAIN content' /\ content'[f] = content[f]
         /\ visited \subseteq visited' /\ exists' = exists

LEMMA LookedMore ==
  ASSUME NEW E, NEW V, NEW W, V \subseteq W, NEW n, NEW dirs, Looked(E, V, n, dirs)
  PROVE  Looked(E, W, n, dirs)
BY DEF Looked

(* Closed, of the variables it depends on.                                 *)
ClosedIn(E, C, D, S) ==
  /\ \A j \in DOMAIN C[Main].imports : Looked(E, S, C[Main].imports[j], SearchPath)
  /\ \A f \in S \cap DOMAIN D : \A j \in DOMAIN C[f].imports :
       Looked(E, S, C[f].imports[j], D[f])

ClosedForm == \A S : Closed(S) <=> ClosedIn(exists, content, dirsOf, S)

LEMMA ClosedAs == ClosedForm
<1> SUFFICES ASSUME NEW S PROVE Closed(S) <=> ClosedIn(exists, content, dirsOf, S)
  BY DEF ClosedForm
<1> DEFINE Works == {<<Main, SearchPath>>} \cup {<<f, dirsOf[f]>> : f \in S \cap DOMAIN dirsOf}
           Follows(w) == \A i \in DOMAIN content[w[1]].imports :
                           Looked(exists, S, content[w[1]].imports[i], w[2])
<1>1. Closed(S) <=> \A w \in Works : Follows(w)
  <2>1. Closed(S) <=> \A w \in Works : \A i \in DOMAIN content[w[1]].imports :
                        content[w[1]].imports[i] # System =>
                          Range(Find(content[w[1]].imports[i], w[2])) \subseteq S
    BY DEF Closed
  <2>2. \A n, dirs : Range(Find(n, dirs)) = FoundIn(exists, n, dirs)
    BY FindFacts
  <2> QED
    BY <2>1, <2>2 DEF Looked
<1>2. (\A w \in Works : Follows(w))
        <=> /\ Follows(<<Main, SearchPath>>)
            /\ \A f \in S \cap DOMAIN dirsOf : Follows(<<f, dirsOf[f]>>)
  <2> HIDE DEF Follows, Main, SearchPath
  <2> QED
    OBVIOUS
<1>3. Follows(<<Main, SearchPath>>) <=>
        \A j \in DOMAIN content[Main].imports :
           Looked(exists, S, content[Main].imports[j], SearchPath)
  OBVIOUS
<1>4. \A f : Follows(<<f, dirsOf[f]>>) <=>
        \A j \in DOMAIN content[f].imports :
           Looked(exists, S, content[f].imports[j], dirsOf[f])
  OBVIOUS
<1> HIDE DEF Works, Follows
<1> QED
  BY <1>1, <1>2, <1>3, <1>4 DEF ClosedIn

LEMMA ClosedNext == ClosedForm'
BY ClosedAs, PTL

(* More merged files make a set harder to close.                           *)
LEMMA ClosedBefore ==
  ASSUME WalkInv, phase # "main", Keeps,
         \A f \in DOMAIN dirsOf : f \in DOMAIN dirsOf' /\ dirsOf'[f] = dirsOf[f],
         NEW S, Closed(S)'
  PROVE  Closed(S)
<1>1. ClosedIn(exists', content', dirsOf', S)
  BY ClosedNext DEF ClosedForm
<1>2. Main \in DOMAIN content /\ DOMAIN dirsOf \subseteq DOMAIN content
  BY DEF WalkInv, ContentInv
<1>3. content'[Main] = content[Main] /\ exists' = exists
  BY <1>2 DEF Keeps
<1>4. \A f \in S \cap DOMAIN dirsOf :
        f \in S \cap DOMAIN dirsOf' /\ dirsOf'[f] = dirsOf[f] /\ content'[f] = content[f]
  BY <1>2 DEF Keeps
<1>5. ClosedIn(exists, content, dirsOf, S)
  <2> HIDE DEF Main, SearchPath
  <2> QED
    BY <1>1, <1>3, <1>4 DEF ClosedIn
<1> QED
  BY <1>5, ClosedAs DEF ClosedForm

(* What is known of a file that comes to be looked at: a closed set holds  *)
(* it.                                                                     *)
LEMMA LedToTarget ==
  ASSUME WalkInv, Found, NEW S \in SUBSET Files, Closed(S)
  PROVE  Target \in S
<1>1. More /\ Import # System
  BY DEF Found
<1>2. /\ stack # <<>> /\ phase = "imports" /\ Top.next \in DOMAIN content[Top.file].imports
      /\ Import = content[Top.file].imports[Top.next]
  BY <1>1, ImportFacts, TopFacts
<1>3. Len(stack) \in Nat \ {0} /\ Top = stack[Len(stack)]
  BY <1>2, TopFacts
<1>4. ClosedIn(exists, content, dirsOf, S) /\ visited \subseteq S
  BY <1>2, ClosedAs DEF ClosedForm, WalkInv, LedInv
<1>5. Looked(exists, S, Import, Top.dirs)
  <2>1. CASE Len(stack) = 1
    <3>1. Top.file = Main /\ Top.dirs = SearchPath
      BY <1>3, <2>1 DEF WalkInv, StackInv
    <3> QED
      BY <1>2, <1>4, <3>1 DEF ClosedIn
  <2>2. CASE Len(stack) # 1
    <3>1. Len(stack) \in 1 .. Len(stack) /\ Len(stack) > 1
      BY <1>3, <2>2
    <3>2. Top.file \in DOMAIN dirsOf /\ Top.dirs = dirsOf[Top.file]
      BY <1>3, <3>1 DEF WalkInv, StackInv
    <3>3. Top.file \in S \cap DOMAIN dirsOf
      BY <1>4, <3>2 DEF WalkInv, ContentInv
    <3> QED
      BY <1>2, <1>4, <3>2, <3>3 DEF ClosedIn
  <2> QED
    BY <2>1, <2>2
<1> QED
  BY <1>1, <1>5, TargetFacts DEF Looked

(* The loop has moved past a directive that is followed now.               *)
LEMMA AdvanceWalk ==
  ASSUME WalkInv, More, Keeps, stack' = Advanced,
         Looked(exists, visited', Import, Top.dirs),
         UNCHANGED <<phase, dirsOf>>
  PROVE  StackInv' /\ LookedInv'
<1> DEFINE n == Len(stack)
<1>1. /\ stack # <<>> /\ phase = "imports" /\ Top.next \in 1 .. Len(Imports)
      /\ Import = content[Top.file].imports[Top.next]
  BY ImportFacts
<1>2. /\ n \in Nat \ {0} /\ Top = stack[n] /\ Len(Imports) \in Nat
      /\ Imports = content[Top.file].imports
  BY <1>1, TopFacts
<1>3. /\ Len(stack') = n
      /\ \A k \in 1 .. n : stack'[k].file = stack[k].file /\ stack'[k].dirs = stack[k].dirs
      /\ \A k \in 1 .. n - 1 : stack'[k] = stack[k]
      /\ stack'[n].next = Top.next + 1
  BY <1>1, AdvancedFacts
<1>4. \A k \in 1 .. n : content'[stack'[k].file] = content[stack[k].file]
  BY <1>3, ReadFacts DEF Keeps
<1> HIDE DEF n
<1>5. stack' # <<>>
  BY <1>2, <1>3
<1>6. StackInv'
  <2>1. \A k \in 1 .. n : stack'[k].next \in 1 .. Len(content'[stack'[k].file].imports) + 1
    <3>1. \A k \in 1 .. n - 1 : stack'[k].next = stack[k].next /\ k \in 1 .. n
      BY <1>2, <1>3
    <3>2. \A k \in 1 .. n : stack[k].next \in 1 .. Len(content[stack[k].file].imports) + 1
      BY DEF WalkInv, StackInv, n
    <3>3. stack'[n].next \in 1 .. Len(content[stack[n].file].imports) + 1
      <4>1. Imports = content[stack[n].file].imports
        BY ONLY <1>2
      <4>2. Top.next + 1 \in 1 .. Len(Imports) + 1
        BY ONLY <1>1, <1>2
      <4> QED
        BY ONLY <1>3, <4>1, <4>2
    <3>4. \A k \in 1 .. n : stack'[k].next \in 1 .. Len(content[stack[k].file].imports) + 1
      <4> TAKE k \in 1 .. n
      <4>1. k \in 1 .. n - 1 \/ k = n
        BY <1>2
      <4>2. ASSUME k \in 1 .. n - 1
            PROVE  stack'[k].next \in 1 .. Len(content[stack[k].file].imports) + 1
        BY <3>1, <3>2, <4>2
      <4> QED
        BY <3>3, <4>1, <4>2
    <3> QED
      BY <1>4, <3>4
  <2>2. /\ \A k \in 1 .. n : k = 1 => stack'[k].file = Main /\ stack'[k].dirs = SearchPath
        /\ \A k \in 1 .. n : k > 1 => /\ stack'[k].file \in DOMAIN dirsOf
                                      /\ stack'[k].dirs = dirsOf[stack'[k].file]
    BY <1>3 DEF WalkInv, StackInv, n
  <2> QED
    BY <1>1, <1>3, <1>5, <2>1, <2>2 DEF StackInv
<1>7. ASSUME NEW k \in 1 .. n, NEW j \in 1 .. stack'[k].next - 1
      PROVE  Looked(exists, visited', content'[stack'[k].file].imports[j], stack'[k].dirs)
  <2>1. CASE k = n /\ j = Top.next
    BY <1>1, <1>2, <1>3, <1>4, <2>1
  <2>2. CASE ~(k = n /\ j = Top.next)
    <3>1. j \in 1 .. stack[k].next - 1
      <4>1. CASE k = n
        BY <1>1, <1>2, <1>3, <2>2, <4>1
      <4>2. CASE k # n
        BY <1>2, <1>3, <4>2
      <4> QED
        BY <4>1, <4>2
    <3>2. Looked(exists, visited, content[stack[k].file].imports[j], stack[k].dirs)
      BY <3>1 DEF WalkInv, LookedInv, n
    <3>3. Looked(exists, visited', content[stack[k].file].imports[j], stack[k].dirs)
      BY <3>2, LookedMore DEF Keeps
    <3> QED
      BY <1>3, <1>4, <3>3
  <2> QED
    BY <2>1, <2>2
<1>8. ASSUME NEW f \in DOMAIN dirsOf \ Inner', NEW j \in DOMAIN content'[f].imports
      PROVE  Looked(exists, visited', content'[f].imports[j], dirsOf[f])
  <2>1. Inner' = Inner
    BY <1>2, <1>3 DEF Inner, n
  <2>2. f \in DOMAIN content /\ content'[f] = content[f]
    BY DEF WalkInv, ContentInv, Keeps
  <2>3. Looked(exists, visited, content[f].imports[j], dirsOf[f])
    BY <2>1, <2>2 DEF WalkInv, LookedInv
  <2> QED
    BY <2>2, <2>3, LookedMore DEF Keeps
<1>9. LookedInv'
  BY <1>1, <1>3, <1>7, <1>8 DEF LookedInv, Keeps
<1> QED
  BY <1>6, <1>9

LEMMA LiteralKept ==
  ASSUME WalkInv, Keeps, UNCHANGED <<merged, literal>>
  PROVE  LiteralInv'
<1>1. \A i \in 1 .. Len(merged) : content'[merged[i]] = content[merged[i]]
  BY ReadFacts DEF Keeps
<1>2. \A j \in 1 .. Len(merged) : \A i \in 1 .. j - 1 : i \in 1 .. Len(merged)
  BY ReadFacts
<1> QED
  BY <1>1, <1>2 DEF LiteralInv, WalkInv

-----------------------------------------------------------------------------
(***************************************************************************)
(* The steps.                                                              *)
(***************************************************************************)

LEMMA InitWalkInv == Init => WalkInv
<1> SUFFICES ASSUME Init PROVE WalkInv
  OBVIOUS
<1>1. /\ exists \in SUBSET Files /\ content = <<>> /\ phase = "main"
      /\ stack = <<>> /\ visited = {} /\ merged = <<>>
      /\ literal = <<>> /\ template = <<>> /\ tree = <<>> /\ dirsOf = <<>>
  BY DEF Init
<1>2. Len(stack) = 0 /\ Len(merged) = 0 /\ DOMAIN content = {} /\ DOMAIN dirsOf = {}
      /\ DOMAIN template = {}
  BY <1>1
<1>3. TypeOK
  BY <1>1, <1>2 DEF TypeOK
<1>4. ContentInv /\ StartInv /\ MergedInv /\ StackInv /\ LedInv /\ TemplateInv
  BY <1>1, <1>2 DEF ContentInv, StartInv, MergedInv, StackInv, LedInv, TemplateInv
<1>5. LookedInv /\ LiteralInv
  BY <1>1, <1>2 DEF LookedInv, LiteralInv
<1> QED
  BY <1>3, <1>4, <1>5 DEF WalkInv

(* A directive that changes nothing but the tree.                          *)
LEMMA PassOverWalk ==
  ASSUME WalkInv, More, stack' = Advanced, NEW e \in Node, tree' = Append(tree, e),
         Looked(exists, visited, Import, Top.dirs),
         UNCHANGED <<exists, content, phase, visited, merged, literal, template, dirsOf>>
  PROVE  WalkInv'
<1>1. Keeps
  BY DEF Keeps
<1>2. stack # <<>> /\ phase = "imports"
  BY ImportFacts
<1>3. StackInv' /\ LookedInv'
  BY <1>1, AdvanceWalk
<1>4. LiteralInv'
  BY <1>1, LiteralKept
<1>5. TypeOK'
  <2>1. tree' \in Seq(Node)
    BY AppendProperties DEF WalkInv, TypeOK
  <2>2. stack' \in Seq(Frame)
    BY <1>2, AdvancedFacts
  <2> QED
    BY <2>1, <2>2 DEF WalkInv, TypeOK
<1>6. ContentInv' /\ MergedInv' /\ StartInv' /\ TemplateInv'
  BY <1>2 DEF WalkInv, ContentInv, MergedInv, StartInv, TemplateInv
<1>7. LedInv'
  <2>1. \A S : Closed(S)' => Closed(S)
    BY <1>1, <1>2, ClosedBefore
  <2> QED
    BY <1>2, <2>1 DEF LedInv, WalkInv
<1> QED
  BY <1>3, <1>4, <1>5, <1>6, <1>7 DEF WalkInv

LEMMA SystemImportWalk == WalkInv /\ SystemImport => WalkInv'
<1> SUFFICES ASSUME WalkInv, SystemImport PROVE WalkInv'
  OBVIOUS
<1>1. Looked(exists, visited, Import, Top.dirs)
  BY DEF SystemImport, Looked
<1>2. [kind |-> "system", counted |-> FALSE] \in Node
  BY DEF Node
<1> QED
  BY <1>1, <1>2, PassOverWalk DEF SystemImport, Add

LEMMA MissingWalk == WalkInv /\ Missing => WalkInv'
<1> SUFFICES ASSUME WalkInv, Missing PROVE WalkInv'
  OBVIOUS
<1>1. Looked(exists, visited, Import, Top.dirs)
  <2>1. FoundIn(exists, Import, Top.dirs) = {}
    BY FindFacts DEF Missing
  <2> QED
    BY <2>1 DEF Looked
<1>2. [kind |-> "missing", counted |-> FALSE] \in Node
  BY DEF Node
<1> QED
  BY <1>1, <1>2, PassOverWalk DEF Missing, Add

LEMMA AlreadyVisitedWalk == WalkInv /\ AlreadyVisited => WalkInv'
<1> SUFFICES ASSUME WalkInv, AlreadyVisited PROVE WalkInv'
  OBVIOUS
<1>1. Found /\ Target \in visited /\ More
  BY DEF AlreadyVisited, Found
<1>2. Looked(exists, visited, Import, Top.dirs)
  BY <1>1, TargetFacts DEF Looked
<1>3. [kind |-> "resolved", counted |-> FALSE] \in Node
  BY DEF Node
<1> QED
  BY <1>1, <1>2, <1>3, PassOverWalk DEF AlreadyVisited, Add

(* What reading the file found means for content and visited.              *)
LEMMA ReadTarget ==
  ASSUME WalkInv, Found, Target \notin visited, NEW c \in Contents(Target),
         content' = With(content, Target, c), visited' = visited \cup {Target},
         UNCHANGED exists
  PROVE  /\ More /\ stack # <<>> /\ phase = "imports"
         /\ c \in Content
         /\ Keeps
         /\ DOMAIN content' = DOMAIN content \cup {Target} /\ content'[Target] = c
         /\ DOMAIN content' \subseteq Files
         /\ \A g \in DOMAIN content' : content'[g] \in Content
         /\ visited' \subseteq DOMAIN content' /\ visited' \subseteq exists
         /\ Main \in DOMAIN content' /\ content'[Main].status = "ok"
         /\ Looked(exists, visited', Import, Top.dirs)
<1>1. More /\ stack # <<>> /\ phase = "imports"
  BY ImportFacts DEF Found
<1>2. Target \in exists /\ Target \in Files /\ FoundIn(exists, Import, Top.dirs) = {Target}
  BY TargetFacts
<1>3. c \in Content /\ (Target \in DOMAIN content => c = content[Target])
  BY <1>2, ContentsFacts DEF WalkInv
<1>4. /\ DOMAIN content' = DOMAIN content \cup {Target}
      /\ content'[Target] = c
      /\ \A g \in DOMAIN content : content'[g] = content[g]
      /\ DOMAIN content' \subseteq Files
      /\ \A g \in DOMAIN content' : content'[g] \in Content
  BY <1>2, <1>3, ContentKept DEF WalkInv
<1>5. Keeps
  BY <1>4 DEF Keeps
<1>6. Main \in DOMAIN content' /\ content'[Main].status = "ok"
  BY <1>1, <1>4 DEF WalkInv, ContentInv
<1>7. visited' \subseteq DOMAIN content' /\ visited' \subseteq exists
  BY <1>2, <1>4 DEF WalkInv, ContentInv, TypeOK
<1> QED
  BY <1>1, <1>2, <1>3, <1>4, <1>5, <1>6, <1>7 DEF Looked

(* A file that was marked is in every closed set.                          *)
LEMMA LedKept ==
  ASSUME WalkInv, Found, Keeps, visited' = visited \cup {Target},
         \A f \in DOMAIN dirsOf : f \in DOMAIN dirsOf' /\ dirsOf'[f] = dirsOf[f]
  PROVE  LedInv'
<1> SUFFICES ASSUME NEW S \in SUBSET Files, Closed(S)' PROVE visited' \subseteq S
  BY DEF LedInv
<1>1. phase # "main"
  BY DEF Found, More
<1>2. Closed(S)
  BY <1>1, ClosedBefore
<1>3. Target \in S
  BY <1>2, LedToTarget
<1> QED
  BY <1>1, <1>2, <1>3 DEF WalkInv, LedInv

LEMMA DropWalk ==
  ASSUME WalkInv, NEW c \in Contents(Target), Drop(c)
  PROVE  WalkInv'
<1>1. /\ Found /\ Target \notin visited /\ c.status \in {"bad", "lost"}
      /\ content' = With(content, Target, c) /\ visited' = visited \cup {Target}
      /\ tree' = Append(tree, [kind |-> "resolved", counted |-> FALSE])
      /\ stack' = Advanced
      /\ UNCHANGED <<exists, phase, merged, literal, template, dirsOf>>
  BY DEF Drop, Add
<1>2. /\ More /\ stack # <<>> /\ phase = "imports"
      /\ Keeps
      /\ DOMAIN content' = DOMAIN content \cup {Target} /\ content'[Target] = c
      /\ DOMAIN content' \subseteq Files
      /\ \A g \in DOMAIN content' : content'[g] \in Content
      /\ visited' \subseteq DOMAIN content' /\ visited' \subseteq exists
      /\ Main \in DOMAIN content' /\ content'[Main].status = "ok"
      /\ Looked(exists, visited', Import, Top.dirs)
  BY <1>1, ReadTarget
<1>3. StackInv' /\ LookedInv'
  BY <1>1, <1>2, AdvanceWalk
<1>4. LiteralInv'
  BY <1>1, <1>2, LiteralKept
<1>5. LedInv'
  BY <1>1, <1>2, LedKept
<1>6. ContentInv'
  <2>1. DOMAIN dirsOf = {f \in visited' : content'[f].status = "ok"}
    <3>1. \A f \in visited : content'[f] = content[f]
      BY <1>2 DEF WalkInv, ContentInv, Keeps
    <3> QED
      BY <1>1, <1>2, <3>1 DEF WalkInv, ContentInv
  <2> QED
    BY <1>1, <1>2, <2>1 DEF WalkInv, ContentInv
<1>7. TypeOK'
  <2>1. [kind |-> "resolved", counted |-> FALSE] \in Node
    BY DEF Node
  <2>2. tree' \in Seq(Node)
    BY <1>1, <2>1, AppendProperties DEF WalkInv, TypeOK
  <2>3. stack' \in Seq(Frame)
    BY <1>1, <1>2, AdvancedFacts
  <2>4. merged' \in Seq(visited' \cup {Main})
    BY <1>1 DEF WalkInv, TypeOK
  <2> QED
    BY <1>1, <1>2, <2>2, <2>3, <2>4 DEF WalkInv, TypeOK
<1>8. MergedInv' /\ StartInv' /\ TemplateInv'
  BY <1>1, <1>2 DEF WalkInv, MergedInv, StartInv, TemplateInv
<1> QED
  BY <1>3, <1>4, <1>5, <1>6, <1>7, <1>8 DEF WalkInv

LEMMA CrashWalk ==
  ASSUME WalkInv, NEW c \in Contents(Target), Crash(c)
  PROVE  WalkInv'
<1>1. /\ Found /\ Target \notin visited /\ c.status = "garbled"
      /\ content' = With(content, Target, c) /\ visited' = visited \cup {Target}
      /\ phase' = "crashed"
      /\ UNCHANGED <<exists, stack, merged, literal, template, tree, dirsOf>>
  BY DEF Crash
<1>2. /\ stack # <<>> /\ phase = "imports"
      /\ Keeps
      /\ DOMAIN content' = DOMAIN content \cup {Target} /\ content'[Target] = c
      /\ DOMAIN content' \subseteq Files
      /\ \A g \in DOMAIN content' : content'[g] \in Content
      /\ visited' \subseteq DOMAIN content' /\ visited' \subseteq exists
      /\ Main \in DOMAIN content' /\ content'[Main].status = "ok"
  BY <1>1, ReadTarget
<1>3. \A k \in 1 .. Len(stack) : content'[stack[k].file] = content[stack[k].file]
  BY <1>2, ReadFacts DEF Keeps
<1>4. \A f \in DOMAIN dirsOf : content'[f] = content[f]
  BY <1>2 DEF Keeps, WalkInv, ContentInv
<1>5. StackInv'
  BY <1>1, <1>2, <1>3 DEF StackInv, WalkInv
<1>6. LookedInv'
  <2>1. Inner' = Inner
    BY <1>1 DEF Inner
  <2>2. \A k \in 1 .. Len(stack) : \A j \in 1 .. stack[k].next - 1 :
          Looked(exists, visited', content[stack[k].file].imports[j], stack[k].dirs)
    BY <1>2, LookedMore DEF WalkInv, LookedInv, Keeps
  <2>3. \A f \in DOMAIN dirsOf \ Inner : \A j \in DOMAIN content[f].imports :
          Looked(exists, visited', content[f].imports[j], dirsOf[f])
    BY <1>2, LookedMore DEF WalkInv, LookedInv, Keeps
  <2> QED
    BY <1>1, <1>3, <1>4, <2>1, <2>2, <2>3 DEF LookedInv
<1>7. LiteralInv'
  BY <1>1, <1>2, LiteralKept
<1>8. LedInv'
  BY <1>1, <1>2, LedKept
<1>9. ContentInv'
  <2>1. DOMAIN dirsOf = {f \in visited' : content'[f].status = "ok"}
    <3>1. \A f \in visited : content'[f] = content[f]
      BY <1>2 DEF WalkInv, ContentInv, Keeps
    <3> QED
      BY <1>1, <1>2, <3>1 DEF WalkInv, ContentInv
  <2> QED
    BY <1>1, <1>2, <2>1 DEF WalkInv, ContentInv
<1>10. TypeOK'
  <2>1. merged' \in Seq(visited' \cup {Main})
    BY <1>1 DEF WalkInv, TypeOK
  <2> QED
    BY <1>1, <1>2, <2>1 DEF WalkInv, TypeOK
<1>11. MergedInv' /\ StartInv' /\ TemplateInv'
  BY <1>1, <1>2 DEF WalkInv, MergedInv, StartInv, TemplateInv
<1> QED
  BY <1>5, <1>6, <1>7, <1>8, <1>9, <1>10, <1>11 DEF WalkInv

(* A frame on top of the stack: the call for a file that is merged.        *)
LEMMA EnteredFacts ==
  ASSUME WalkInv, Found, Target \notin visited,
         stack' = Append(Advanced, [file |-> Target, next |-> 1, dirs |-> SubDirs(Target)])
  PROVE  /\ SubDirs(Target) \in Seq(Dirs)
         /\ stack' \in Seq(Frame)
         /\ Len(stack') = Len(stack) + 1 /\ stack' # <<>>
         /\ \A k \in 1 .. Len(stack) : stack'[k] = Advanced[k]
         /\ stack'[Len(stack) + 1] =
              [file |-> Target, next |-> 1, dirs |-> SubDirs(Target)]
<1> DEFINE n == Len(stack)
           f == [file |-> Target, next |-> 1, dirs |-> SubDirs(Target)]
<1>1. stack # <<>>
  BY ImportFacts DEF Found
<1>2. n \in Nat \ {0} /\ Top.dirs \in Seq(Dirs)
  BY <1>1, TopFacts
<1>3. Advanced \in Seq(Frame) /\ Len(Advanced) = n
  BY <1>1, AdvancedFacts
<1>4. Target \in Files /\ Target[1] \in Dirs
  BY TargetFacts DEF Files
<1>5. SubDirs(Target) \in Seq(Dirs)
  <2>1. <<Target[1]>> \in Seq(Dirs)
    BY <1>4
  <2> QED
    BY <1>2, <2>1, ConcatProperties DEF SubDirs
<1>6. f \in Frame
  BY <1>4, <1>5 DEF Frame
<1> HIDE DEF f, n
<1>7. stack' = Append(Advanced, f)
  BY DEF f
<1>8. /\ stack' \in Seq(Frame) /\ Len(stack') = n + 1
      /\ \A k \in 1 .. n : stack'[k] = Advanced[k] /\ stack'[n + 1] = f
  BY <1>2, <1>3, <1>6, <1>7, AppendProperties
<1>9. stack'[n + 1] = f /\ stack' # <<>>
  BY <1>2, <1>3, <1>6, <1>7, <1>8, AppendProperties
<1> QED
  BY <1>5, <1>8, <1>9 DEF f, n

(* How far the loops are after one more directive.                         *)
LEMMA AdvancedNext ==
  ASSUME WalkInv, More, NEW k \in 1 .. Len(stack)
  PROVE  /\ Advanced[k].next \in 1 .. Len(content[stack[k].file].imports) + 1
         /\ \A j \in 1 .. Advanced[k].next - 1 :
              j \in 1 .. stack[k].next - 1 \/ (k = Len(stack) /\ j = Top.next)
<1> DEFINE n == Len(stack)
<1>1. stack # <<>> /\ Top.next \in 1 .. Len(Imports)
  BY ImportFacts
<1>2. /\ n \in Nat \ {0} /\ Top = stack[n] /\ Len(Imports) \in Nat
      /\ Imports = content[Top.file].imports
  BY <1>1, TopFacts
<1>3. /\ k # n => Advanced[k] = stack[k]
      /\ Advanced[n].next = Top.next + 1
  BY <1>1, <1>2, AdvancedFacts
<1>4. stack[k].next \in 1 .. Len(content[stack[k].file].imports) + 1
  BY DEF WalkInv, StackInv
<1> HIDE DEF n
<1>5. CASE k = n
  BY <1>1, <1>2, <1>3, <1>5 DEF n
<1>6. CASE k # n
  BY <1>3, <1>4, <1>6
<1> QED
  BY <1>5, <1>6

LEMMA MergeStack ==
  ASSUME WalkInv, Found, Target \notin visited, NEW c \in Content,
         Keeps, content'[Target] = c, visited' = visited \cup {Target},
         Looked(exists, visited', Import, Top.dirs),
         stack' = Append(Advanced, [file |-> Target, next |-> 1, dirs |-> SubDirs(Target)]),
         dirsOf' = With(dirsOf, Target, SubDirs(Target)), UNCHANGED phase
  PROVE  StackInv' /\ LookedInv'
<1> DEFINE n == Len(stack)
<1>1. More /\ stack # <<>> /\ phase = "imports"
  BY ImportFacts DEF Found
<1>2. n \in Nat \ {0} /\ Top = stack[n]
  BY <1>1, TopFacts
<1>3. /\ Len(stack') = n + 1 /\ stack' # <<>>
      /\ \A k \in 1 .. n : stack'[k] = Advanced[k]
      /\ stack'[n + 1] = [file |-> Target, next |-> 1, dirs |-> SubDirs(Target)]
  BY EnteredFacts
<1>4. \A k \in 1 .. n : stack'[k].file = stack[k].file /\ stack'[k].dirs = stack[k].dirs
  BY <1>1, <1>3, AdvancedFacts
<1>5. /\ stack'[n + 1].file = Target /\ stack'[n + 1].next = 1
      /\ stack'[n + 1].dirs = SubDirs(Target)
  BY <1>3
<1>6. \A k \in 1 .. n : content'[stack'[k].file] = content[stack[k].file]
  BY <1>4, ReadFacts DEF Keeps
<1>7. Target \notin DOMAIN dirsOf
  BY DEF WalkInv, ContentInv
<1>8. /\ DOMAIN dirsOf' = DOMAIN dirsOf \cup {Target}
      /\ dirsOf'[Target] = SubDirs(Target)
      /\ \A f \in DOMAIN dirsOf : dirsOf'[f] = dirsOf[f]
  BY <1>7 DEF With
<1>9. Len(c.imports) \in Nat
  BY LenProperties DEF Content
<1> HIDE DEF n
<1>10. StackInv'
  <2>1. \A k \in 1 .. n : stack'[k].next \in 1 .. Len(content'[stack'[k].file].imports) + 1
    BY <1>1, <1>3, <1>6, AdvancedNext DEF n
  <2>2. \A k \in 1 .. n : k = 1 => stack'[k].file = Main /\ stack'[k].dirs = SearchPath
    BY <1>4 DEF WalkInv, StackInv, n
  <2>3. \A k \in 1 .. n : k > 1 => /\ stack'[k].file \in DOMAIN dirsOf'
                                   /\ stack'[k].dirs = dirsOf'[stack'[k].file]
    <3>1. \A k \in 1 .. n : k > 1 => /\ stack[k].file \in DOMAIN dirsOf
                                     /\ stack[k].dirs = dirsOf[stack[k].file]
      BY DEF WalkInv, StackInv, n
    <3> QED
      BY ONLY <1>4, <1>8, <3>1
  <2>4. stack'[n + 1].next \in 1 .. Len(content'[stack'[n + 1].file].imports) + 1
    <3>1. content'[stack'[n + 1].file] = c
      BY <1>5
    <3>2. 1 \in 1 .. Len(c.imports) + 1
      BY <1>9
    <3> QED
      BY <1>5, <3>1, <3>2
  <2>5. n + 1 > 1 /\ n + 1 # 1 /\ \A k \in 1 .. n + 1 : k \in 1 .. n \/ k = n + 1
    BY <1>2
  <2>6. ASSUME NEW k \in 1 .. n + 1
        PROVE  /\ stack'[k].next \in 1 .. Len(content'[stack'[k].file].imports) + 1
               /\ k = 1 => stack'[k].file = Main /\ stack'[k].dirs = SearchPath
               /\ k > 1 => /\ stack'[k].file \in DOMAIN dirsOf'
                           /\ stack'[k].dirs = dirsOf'[stack'[k].file]
    <3>1. CASE k \in 1 .. n
      BY <2>1, <2>2, <2>3, <3>1
    <3>2. CASE k = n + 1
      BY <1>5, <1>8, <2>4, <2>5, <3>2
    <3> QED
      BY <2>5, <3>1, <3>2
  <2> QED
    BY <1>1, <1>3, <2>6 DEF StackInv
<1>11. ASSUME NEW k \in 1 .. n + 1, NEW j \in 1 .. stack'[k].next - 1
       PROVE  Looked(exists, visited', content'[stack'[k].file].imports[j], stack'[k].dirs)
  <2>1. k \in 1 .. n
    <3>1. k = n + 1 => j \in 1 .. 1 - 1
      BY <1>5
    <3>2. k # n + 1
      BY <3>1
    <3> QED
      BY <1>2, <3>2
  <2>2. j \in 1 .. stack[k].next - 1 \/ (k = n /\ j = Top.next)
    BY <1>1, <1>3, <2>1, AdvancedNext DEF n
  <2>3. CASE k = n /\ j = Top.next
    BY <1>1, <1>2, <1>4, <1>6, <2>1, <2>3, ImportFacts
  <2>4. CASE j \in 1 .. stack[k].next - 1
    <3>1. Looked(exists, visited, content[stack[k].file].imports[j], stack[k].dirs)
      BY <2>1, <2>4 DEF WalkInv, LookedInv, n
    <3>2. /\ stack'[k].dirs = stack[k].dirs
          /\ content'[stack'[k].file] = content[stack[k].file]
      BY <1>4, <1>6, <2>1
    <3>3. visited \subseteq visited'
      BY DEF Keeps
    <3>4. Looked(exists, visited', content[stack[k].file].imports[j], stack[k].dirs)
      BY ONLY <3>1, <3>3, LookedMore, Zenon
    <3> QED
      BY ONLY <3>2, <3>4
  <2> QED
    BY <2>2, <2>3, <2>4
<1>12. Inner' = Inner \cup {Target}
  <2>1. \A k : k \in 2 .. n + 1 <=> (k \in 2 .. n \/ k = n + 1)
    BY <1>2
  <2>2. \A k \in 2 .. n : k \in 1 .. n
    BY <1>2
  <2>3. Inner' = {stack'[k].file : k \in 2 .. n + 1}
    BY <1>3 DEF Inner
  <2>4. Inner = {stack[k].file : k \in 2 .. n}
    BY DEF Inner, n
  <2> QED
    <3>1. \A k \in 2 .. n : stack'[k].file = stack[k].file
      BY <1>4, <2>2
    <3>2. stack'[n + 1].file = Target
      BY <1>5
    <3>3. \A x : x \in Inner' <=> x \in Inner \/ x = Target
      BY ONLY <2>1, <2>3, <2>4, <3>1, <3>2
    <3> QED
      BY ONLY <3>3
<1>13. ASSUME NEW f \in DOMAIN dirsOf' \ Inner', NEW j \in DOMAIN content'[f].imports
       PROVE  Looked(exists, visited', content'[f].imports[j], dirsOf'[f])
  <2>1. f \in DOMAIN dirsOf \ Inner /\ dirsOf'[f] = dirsOf[f]
    BY <1>8, <1>12
  <2>2. f \in DOMAIN content /\ content'[f] = content[f]
    BY <2>1 DEF WalkInv, ContentInv, Keeps
  <2>3. Looked(exists, visited, content[f].imports[j], dirsOf[f])
    BY <2>1, <2>2 DEF WalkInv, LookedInv
  <2> QED
    BY <2>1, <2>2, <2>3, LookedMore DEF Keeps
<1>14. LookedInv'
  BY <1>1, <1>3, <1>11, <1>13 DEF LookedInv, Keeps
<1> QED
  BY <1>10, <1>14

(* The LITERAL is that of the first file merged that declares it.          *)
LEMMA MergeLiteral ==
  ASSUME WalkInv, Keeps, NEW f, NEW c, content'[f] = c, phase' # "done",
         merged' = Append(merged, f), literal' = LiteralAfter(f, c),
         c.declares \in BOOLEAN
  PROVE  /\ Len(merged') = Len(merged) + 1
         /\ \A i \in 1 .. Len(merged) : merged'[i] = merged[i]
         /\ merged'[Len(merged) + 1] = f
         /\ LiteralInv'
<1> DEFINE n == Len(merged)
<1>1. n \in Nat
  BY ReadFacts
<1>2. merged \in Seq(DOMAIN dirsOf \cup {Main} \cup {f})
  BY DEF WalkInv, MergedInv
<1>3. /\ Len(merged') = n + 1
      /\ \A i \in 1 .. n : merged'[i] = merged[i]
      /\ merged'[n + 1] = f
  BY <1>1, <1>2, AppendProperties
<1>4. \A i \in 1 .. n : content'[merged'[i]] = content[merged[i]]
  BY <1>3, ReadFacts DEF Keeps
<1> HIDE DEF n
<1>5. LiteralInv'
  <2>1. CASE literal # <<>>
    <3>1. literal' = literal
      BY <2>1 DEF LiteralAfter
    <3>2. PICK j \in 1 .. n : /\ merged[j] = literal[1]
                              /\ \A i \in 1 .. j - 1 : ~content[merged[i]].declares
      BY <2>1 DEF WalkInv, LiteralInv, n
    <3>3. j \in 1 .. n + 1 /\ \A i \in 1 .. j - 1 : i \in 1 .. n
      BY <1>1
    <3>4. merged'[j] = literal[1] /\ \A i \in 1 .. j - 1 : ~content'[merged'[i]].declares
      BY <1>3, <1>4, <3>2, <3>3
    <3> QED
      BY <1>3, <2>1, <3>1, <3>3, <3>4 DEF LiteralInv
  <2>2. CASE literal = <<>> /\ c.declares
    <3>1. literal' = <<f>>
      BY <2>2 DEF LiteralAfter
    <3>2. literal' # <<>> /\ literal'[1] = f
      BY <3>1
    <3>3. \A i \in 1 .. n : ~content'[merged'[i]].declares
      BY <1>4, <2>2 DEF WalkInv, LiteralInv, n
    <3>4. n + 1 \in 1 .. n + 1 /\ n + 1 - 1 = n
      BY <1>1
    <3>5. \E j \in 1 .. n + 1 : /\ merged'[j] = f
                                /\ \A i \in 1 .. j - 1 : ~content'[merged'[i]].declares
      <4>1. PICK m : m = n + 1
        OBVIOUS
      <4>2. m \in 1 .. n + 1 /\ \A i \in 1 .. m - 1 : i \in 1 .. n
        BY <1>1, <4>1
      <4>3. merged'[m] = f /\ \A i \in 1 .. m - 1 : ~content'[merged'[i]].declares
        BY <1>3, <3>3, <4>1, <4>2
      <4> QED
        BY <4>2, <4>3
    <3> QED
      BY <1>3, <3>2, <3>5 DEF LiteralInv
  <2>3. CASE literal = <<>> /\ ~c.declares
    <3>1. literal' = <<>>
      BY <2>3 DEF LiteralAfter
    <3>2. \A i \in 1 .. n : ~content'[merged'[i]].declares
      BY <1>4, <2>3 DEF WalkInv, LiteralInv, n
    <3>3. \A i \in 1 .. n + 1 : i \in 1 .. n \/ i = n + 1
      BY <1>1
    <3>4. \A i \in 1 .. n + 1 : ~content'[merged'[i]].declares
      BY <1>3, <2>3, <3>2, <3>3
    <3> QED
      BY <1>3, <3>1, <3>4 DEF LiteralInv
  <2> QED
    BY <2>1, <2>2, <2>3
<1> QED
  BY <1>3, <1>5 DEF n

LEMMA MergeWalk ==
  ASSUME WalkInv, NEW c \in Contents(Target), Merge(c)
  PROVE  WalkInv'
<1>1. /\ Found /\ Target \notin visited /\ c.status = "ok"
      /\ content' = With(content, Target, c) /\ visited' = visited \cup {Target}
      /\ merged' = Append(merged, Target) /\ literal' = LiteralAfter(Target, c)
      /\ tree' = Append(tree, [kind |-> "resolved", counted |-> TRUE])
      /\ stack' = Append(Advanced, [file |-> Target, next |-> 1, dirs |-> SubDirs(Target)])
      /\ dirsOf' = With(dirsOf, Target, SubDirs(Target))
      /\ UNCHANGED <<exists, phase, template>>
  BY DEF Merge, Add, Entered
<1>2. /\ More /\ stack # <<>> /\ phase = "imports" /\ c \in Content
      /\ Keeps
      /\ DOMAIN content' = DOMAIN content \cup {Target} /\ content'[Target] = c
      /\ DOMAIN content' \subseteq Files
      /\ \A g \in DOMAIN content' : content'[g] \in Content
      /\ visited' \subseteq DOMAIN content' /\ visited' \subseteq exists
      /\ Main \in DOMAIN content' /\ content'[Main].status = "ok"
      /\ Looked(exists, visited', Import, Top.dirs)
  BY <1>1, ReadTarget
<1>3. StackInv' /\ LookedInv'
  BY <1>1, <1>2, MergeStack
<1>4. /\ Len(merged') = Len(merged) + 1
      /\ \A i \in 1 .. Len(merged) : merged'[i] = merged[i]
      /\ merged'[Len(merged) + 1] = Target
      /\ LiteralInv'
  BY <1>1, <1>2, MergeLiteral DEF Content
<1>5. SubDirs(Target) \in Seq(Dirs) /\ stack' \in Seq(Frame) /\ Target \in Files
  BY <1>1, EnteredFacts, TargetFacts
<1>6. /\ DOMAIN dirsOf' = DOMAIN dirsOf \cup {Target}
      /\ dirsOf'[Target] = SubDirs(Target)
      /\ \A f \in DOMAIN dirsOf : dirsOf'[f] = dirsOf[f]
  BY <1>1 DEF With, WalkInv, ContentInv
<1>7. LedInv'
  BY <1>1, <1>2, <1>6, LedKept
<1>8. ContentInv'
  <2>1. DOMAIN dirsOf' = {f \in visited' : content'[f].status = "ok"}
    <3>1. \A f \in visited : content'[f] = content[f]
      BY <1>2 DEF WalkInv, ContentInv, Keeps
    <3> QED
      BY <1>1, <1>2, <1>6, <3>1 DEF WalkInv, ContentInv
  <2>2. \A f \in DOMAIN dirsOf' : dirsOf'[f] \in Seq(Dirs)
    BY <1>5, <1>6 DEF WalkInv, ContentInv
  <2> QED
    BY <1>2, <2>1, <2>2 DEF ContentInv
<1>9. TypeOK'
  <2>1. [kind |-> "resolved", counted |-> TRUE] \in Node
    BY DEF Node
  <2>2. tree' \in Seq(Node)
    BY <1>1, <2>1, AppendProperties DEF WalkInv, TypeOK
  <2>3. merged' \in Seq(visited' \cup {Main})
    <3>1. merged \in Seq(visited' \cup {Main}) /\ Target \in visited' \cup {Main}
      BY <1>1 DEF WalkInv, TypeOK
    <3> QED
      BY <1>1, <3>1, AppendProperties
  <2>4. literal' \in {<<>>} \cup {<<f>> : f \in Files}
    BY <1>1, <1>5 DEF WalkInv, TypeOK, LiteralAfter
  <2>5. DOMAIN dirsOf' \subseteq Files
    BY <1>5, <1>6 DEF WalkInv, TypeOK
  <2> QED
    BY <1>1, <1>2, <1>5, <2>2, <2>3, <2>4, <2>5 DEF WalkInv, TypeOK
<1>10. MergedInv'
  <2>1. merged' \in Seq(DOMAIN dirsOf' \cup {Main})
    <3>1. merged \in Seq(DOMAIN dirsOf' \cup {Main}) /\ Target \in DOMAIN dirsOf' \cup {Main}
      BY <1>6 DEF WalkInv, MergedInv
    <3> QED
      BY <1>1, <3>1, AppendProperties
  <2>2. Len(merged) \in Nat
    BY ReadFacts
  <2>3. DOMAIN dirsOf' \subseteq {merged'[i] : i \in 1 .. Len(merged')}
    <3> SUFFICES ASSUME NEW f \in DOMAIN dirsOf'
                 PROVE  \E i \in 1 .. Len(merged) + 1 : merged'[i] = f
      BY <1>4
    <3>1. CASE f = Target
      BY <1>4, <2>2, <3>1
    <3>2. CASE f # Target
      <4>1. PICK i \in 1 .. Len(merged) : merged[i] = f
        BY <1>6, <3>2 DEF WalkInv, MergedInv
      <4> QED
        BY <1>4, <2>2, <4>1
    <3> QED
      BY <3>1, <3>2
  <2> QED
    BY <1>4, <2>1, <2>2, <2>3 DEF MergedInv
<1>11. StartInv' /\ TemplateInv'
  BY <1>1, <1>2 DEF StartInv, TemplateInv
<1> QED
  BY <1>3, <1>4, <1>7, <1>8, <1>9, <1>10, <1>11 DEF WalkInv

(* A file is left when all its imports have been followed.                 *)
LEMMA ReturnWalk == WalkInv /\ Return => WalkInv'
<1> SUFFICES ASSUME WalkInv, Return PROVE WalkInv'
  OBVIOUS
<1> DEFINE n == Len(stack)
<1>1. /\ phase = "imports" /\ stack # <<>> /\ Top.next > Len(Imports)
      /\ stack' = Front(stack)
      /\ phase' = IF n = 1 THEN "templates" ELSE phase
      /\ UNCHANGED <<exists, content, visited, merged, literal, template, tree, dirsOf>>
  BY DEF Return
<1>2. /\ n \in Nat \ {0} /\ Top = stack[n] /\ Len(Imports) \in Nat
      /\ Top.next \in 1 .. Len(Imports) + 1
      /\ Imports = content[Top.file].imports /\ DOMAIN Imports = 1 .. Len(Imports)
  BY <1>1, TopFacts
<1>3. /\ stack' \in Seq(Frame) /\ Len(stack') = n - 1
      /\ \A k \in 1 .. n - 1 : stack'[k] = stack[k]
  BY <1>1, FrontFacts
<1>4. stack' = <<>> <=> n = 1
  BY <1>2, <1>3, EmptySeq
<1>5. \A j \in DOMAIN content[Top.file].imports :
        Looked(exists, visited, content[Top.file].imports[j], Top.dirs)
  <2>1. Top.next - 1 = Len(Imports) /\ n \in 1 .. n
    BY <1>1, <1>2
  <2>2. \A j \in 1 .. stack[n].next - 1 :
          Looked(exists, visited, content[stack[n].file].imports[j], stack[n].dirs)
    BY <2>1 DEF WalkInv, LookedInv
  <2> QED
    BY <1>2, <2>1, <2>2
<1>6. phase' \in {"imports", "templates"}
  BY <1>1
<1>7. StackInv'
  <2>1. \A k \in 1 .. n - 1 :
          /\ stack[k].next \in 1 .. Len(content[stack[k].file].imports) + 1
          /\ k = 1 => stack[k].file = Main /\ stack[k].dirs = SearchPath
          /\ k > 1 => /\ stack[k].file \in DOMAIN dirsOf
                      /\ stack[k].dirs = dirsOf[stack[k].file]
    BY <1>2 DEF WalkInv, StackInv
  <2> HIDE DEF n
  <2>2. \A k \in 1 .. Len(stack') :
          /\ stack'[k].next \in 1 .. Len(content'[stack'[k].file].imports) + 1
          /\ k = 1 => stack'[k].file = Main /\ stack'[k].dirs = SearchPath
          /\ k > 1 => /\ stack'[k].file \in DOMAIN dirsOf'
                      /\ stack'[k].dirs = dirsOf'[stack'[k].file]
    BY <1>1, <1>3, <2>1
  <2>3. (phase' = "imports" => stack' # <<>>) /\ (phase' = "templates" => stack' = <<>>)
    BY <1>1, <1>4
  <2> QED
    BY <1>6, <2>2, <2>3 DEF StackInv
<1>8. LookedInv'
  <2>1. \A k \in 1 .. Len(stack') : \A j \in 1 .. stack'[k].next - 1 :
          Looked(exists', visited', content'[stack'[k].file].imports[j], stack'[k].dirs)
    BY <1>1, <1>2, <1>3 DEF WalkInv, LookedInv
  <2>2. ASSUME NEW f \in DOMAIN dirsOf \ Inner', NEW j \in DOMAIN content[f].imports
        PROVE  Looked(exists, visited, content[f].imports[j], dirsOf[f])
    <3>1. CASE f \in Inner
      <4>1. PICK k \in 2 .. n : f = stack[k].file
        BY <3>1 DEF Inner
      <4>2. k = n
        <5>1. Inner' = {stack'[m].file : m \in 2 .. n - 1}
          BY <1>3 DEF Inner
        <5>2. k \notin 2 .. n - 1
          <6> HIDE DEF n
          <6>1. ASSUME k \in 2 .. n - 1 PROVE stack'[k].file = f
            BY <1>3, <4>1, <6>1
          <6> QED
            BY <5>1, <6>1
        <5> QED
          BY <1>2, <5>2
      <4>3. n \in 1 .. n /\ n > 1
        BY <1>2, <4>1, <4>2
      <4>4. Top.file = f /\ Top.dirs = dirsOf[f]
        BY <1>2, <4>1, <4>2, <4>3 DEF WalkInv, StackInv
      <4> QED
        BY <1>5, <4>4
    <3>2. CASE f \notin Inner
      BY <3>2 DEF WalkInv, LookedInv
    <3> QED
      BY <3>1, <3>2
  <2>3. ASSUME phase' \in {"templates", "done"}, NEW j \in DOMAIN content[Main].imports
        PROVE  Looked(exists, visited, content[Main].imports[j], SearchPath)
    <3>1. n = 1
      BY <1>1, <2>3
    <3>2. 1 \in 1 .. n
      BY <3>1
    <3>3. Top.file = Main /\ Top.dirs = SearchPath
      BY <1>2, <3>1, <3>2 DEF WalkInv, StackInv
    <3> QED
      BY <1>5, <3>3
  <2> QED
    BY <1>1, <2>1, <2>2, <2>3 DEF LookedInv
<1>9. Keeps
  BY <1>1 DEF Keeps
<1>10. LiteralInv'
  BY <1>1, <1>9, LiteralKept
<1>11. LedInv'
  <2>1. \A S : Closed(S)' => Closed(S)
    BY <1>1, <1>9, ClosedBefore
  <2> QED
    BY <1>1, <2>1 DEF LedInv, WalkInv
<1>12. TypeOK'
  BY <1>1, <1>3, <1>6 DEF WalkInv, TypeOK
<1>13. ContentInv' /\ StartInv' /\ MergedInv' /\ TemplateInv'
  BY <1>1, <1>6 DEF WalkInv, ContentInv, StartInv, MergedInv, TemplateInv
<1> QED
  BY <1>7, <1>8, <1>10, <1>11, <1>12, <1>13 DEF WalkInv

(* Every structure has the fields of the last template there is.           *)
LEMMA ResolveTemplatesWalk == WalkInv /\ ResolveTemplates => WalkInv'
<1> SUFFICES ASSUME WalkInv, ResolveTemplates PROVE WalkInv'
  OBVIOUS
<1> DEFINE n == Len(merged)
<1>1. /\ phase = "templates" /\ phase' = "done"
      /\ template' = IF TemplateMap = {} THEN <<>>
                     ELSE [f \in Range(merged) |-> merged[Max(TemplateMap)]]
      /\ UNCHANGED <<exists, content, stack, visited, merged, literal, tree, dirsOf>>
  BY DEF ResolveTemplates
<1>2. n \in Nat /\ DOMAIN merged = 1 .. n /\ \A i \in 1 .. n : merged[i] \in DOMAIN content
  BY ReadFacts
<1> HIDE DEF n
<1>3. TemplateMap = {k \in 1 .. n : content[merged[k]].declares}
  BY <1>2 DEF TemplateMap
<1>4. Range(merged) = {merged[i] : i \in 1 .. n}
  BY <1>2 DEF Range
<1>5. DOMAIN template' \subseteq Files
  <2>1. Range(merged) \subseteq Files
    BY <1>2, <1>4 DEF WalkInv, TypeOK
  <2> QED
    BY <1>1, <2>1
<1>6. TypeOK'
  BY <1>1, <1>5 DEF WalkInv, TypeOK
<1>7. TemplateInv'
  <2> SUFFICES ASSUME NEW i \in 1 .. n, NEW j \in 1 .. n, content[merged[j]].declares
               PROVE  merged[i] \in DOMAIN template' /\ content[template'[merged[i]]].declares
    BY <1>1 DEF TemplateInv, n
  <2>1. TemplateMap # {} /\ TemplateMap \in SUBSET (1 .. n)
    BY <1>3
  <2>2. Max(TemplateMap) \in TemplateMap
    BY <1>2, <2>1, MaxFacts
  <2>3. template' = [f \in Range(merged) |-> merged[Max(TemplateMap)]]
    BY <1>1, <2>1
  <2>4. merged[i] \in Range(merged)
    BY <1>4
  <2>5. content[merged[Max(TemplateMap)]].declares
    BY <1>3, <2>2
  <2> QED
    BY <2>3, <2>4, <2>5
<1>8. Keeps
  BY <1>1 DEF Keeps
<1>9. LiteralInv'
  BY <1>1, <1>8, LiteralKept
<1>10. LedInv'
  <2>1. \A S : Closed(S)' => Closed(S)
    BY <1>1, <1>8, ClosedBefore
  <2> QED
    BY <1>1, <2>1 DEF LedInv, WalkInv
<1>11. LookedInv'
  <2>1. Inner' = Inner
    BY <1>1 DEF Inner
  <2> QED
    BY <1>1, <2>1 DEF WalkInv, LookedInv
<1>12. ContentInv' /\ StartInv' /\ MergedInv' /\ StackInv'
  BY <1>1 DEF WalkInv, ContentInv, StartInv, MergedInv, StackInv
<1> QED
  BY <1>6, <1>7, <1>9, <1>10, <1>11, <1>12 DEF WalkInv

LEMMA ParseWalk ==
  ASSUME WalkInv, NEW c \in Contents(Main), Parse(c)
  PROVE  WalkInv'
<1> DEFINE f == [file |-> Main, next |-> 1, dirs |-> SearchPath]
<1>1. /\ phase = "main" /\ phase' = "imports"
      /\ content' = With(content, Main, c)
      /\ merged' = <<Main>> /\ literal' = LiteralAfter(Main, c)
      /\ stack' = <<f>>
      /\ UNCHANGED <<exists, visited, template, tree, dirsOf>>
  BY DEF Parse
<1>2. Main \in Files /\ SearchPath \in Seq(Dirs)
  BY PathFacts
<1>3. c \in Content /\ c.status = "ok" /\ (Main \in DOMAIN content => c = content[Main])
  BY <1>2, ContentsFacts DEF WalkInv
<1>4. /\ DOMAIN content' = DOMAIN content \cup {Main}
      /\ content'[Main] = c
      /\ DOMAIN content' \subseteq Files
      /\ \A g \in DOMAIN content' : content'[g] \in Content
  BY <1>1, <1>2, <1>3, ContentKept DEF WalkInv
<1>5. visited = {} /\ literal = <<>> /\ DOMAIN dirsOf = {}
  BY <1>1 DEF WalkInv, StartInv, ContentInv
<1>6. f \in Frame /\ f.next = 1 /\ f.file = Main /\ f.dirs = SearchPath
  BY <1>2 DEF Frame
<1> HIDE DEF f, Main, SearchPath
<1>7. /\ Len(stack') = 1 /\ stack'[1] = f /\ stack' \in Seq(Frame) /\ stack' # <<>>
      /\ Len(merged') = 1 /\ merged'[1] = Main
  BY <1>1, <1>6
<1>8. Len(c.imports) \in Nat
  BY <1>3, LenProperties DEF Content
<1>9. TypeOK'
  <2>1. literal' \in {<<>>} \cup {<<g>> : g \in Files}
    BY <1>1, <1>2, <1>5 DEF LiteralAfter
  <2>2. merged' \in Seq(visited' \cup {Main})
    BY <1>1
  <2> QED
    BY <1>1, <1>4, <1>7, <2>1, <2>2 DEF WalkInv, TypeOK
<1>10. ContentInv'
  BY <1>1, <1>3, <1>4, <1>5 DEF ContentInv
<1>11. StartInv' /\ TemplateInv'
  BY <1>1 DEF StartInv, TemplateInv
<1>12. MergedInv'
  <2>1. merged' \in Seq(DOMAIN dirsOf' \cup {Main})
    BY <1>1
  <2> QED
    BY <1>1, <1>5, <1>7, <2>1 DEF MergedInv
<1>13. StackInv'
  <2>1. 1 \in 1 .. Len(c.imports) + 1 /\ \A k \in 1 .. 1 : k = 1
    BY <1>8
  <2> QED
    BY <1>1, <1>4, <1>6, <1>7, <2>1 DEF StackInv
<1>14. LookedInv'
  <2>1. \A k \in 1 .. Len(stack') : stack'[k].next = 1
    BY <1>6, <1>7
  <2>2. \A k \in 1 .. Len(stack') : \A j \in 1 .. stack'[k].next - 1 : FALSE
    BY <2>1
  <2> QED
    BY <1>1, <1>5, <2>2 DEF LookedInv
<1>15. LedInv'
  BY <1>1, <1>5 DEF LedInv
<1>16. LiteralInv'
  <2>1. \A i \in 1 .. 1 : i = 1 /\ \A m \in 1 .. i - 1 : FALSE
    OBVIOUS
  <2>2. CASE c.declares
    <3>1. literal' = <<Main>>
      BY <1>1, <1>5, <2>2 DEF LiteralAfter
    <3>2. literal' # <<>> /\ literal'[1] = Main
      BY <3>1
    <3> QED
      BY <1>7, <2>1, <3>2 DEF LiteralInv
  <2>3. CASE ~c.declares
    <3>1. literal' = <<>>
      BY <1>1, <1>5, <2>3 DEF LiteralAfter
    <3> QED
      BY <1>4, <1>7, <2>1, <2>3, <3>1 DEF LiteralInv
  <2> QED
    BY <2>2, <2>3
<1> QED
  BY <1>9, <1>10, <1>11, <1>12, <1>13, <1>14, <1>15, <1>16 DEF WalkInv

(* Before the walk begins, other parts of the program may read files.      *)
LEMMA ReadAheadWalk ==
  ASSUME WalkInv, phase = "main", NEW f \in Files, NEW c \in Content,
         f \in DOMAIN content => c = content[f], f = Main => c.status = "ok",
         content' = With(content, f, c),
         UNCHANGED <<exists, phase, stack, visited, merged, literal,
                     template, tree, dirsOf>>
  PROVE  WalkInv'
<1>1. /\ DOMAIN content' = DOMAIN content \cup {f}
      /\ content'[f] = c
      /\ \A g \in DOMAIN content : content'[g] = content[g]
      /\ DOMAIN content' \subseteq Files
      /\ \A g \in DOMAIN content' : content'[g] \in Content
  BY ContentKept DEF WalkInv
<1>2. /\ visited = {} /\ literal = <<>> /\ DOMAIN dirsOf = {}
      /\ merged = <<>> /\ stack = <<>>
  BY DEF WalkInv, StartInv, ContentInv
<1>3. Len(merged) = 0 /\ Len(stack) = 0 /\ \A k \in 1 .. 0 : FALSE
  BY <1>2
<1>4. TypeOK'
  BY <1>1 DEF WalkInv, TypeOK
<1>5. ContentInv'
  BY <1>1, <1>2 DEF WalkInv, ContentInv
<1>6. StartInv' /\ MergedInv' /\ LedInv' /\ TemplateInv'
  BY DEF WalkInv, StartInv, MergedInv, LedInv, TemplateInv
<1>7. StackInv'
  BY <1>2, <1>3 DEF StackInv
<1>8. LookedInv'
  BY <1>2, <1>3 DEF LookedInv
<1>9. LiteralInv'
  BY <1>2, <1>3 DEF LiteralInv
<1> QED
  BY <1>4, <1>5, <1>6, <1>7, <1>8, <1>9 DEF WalkInv

LEMMA StutterWalk == WalkInv /\ UNCHANGED vars => WalkInv'
<1> SUFFICES ASSUME WalkInv, UNCHANGED vars PROVE WalkInv'
  OBVIOUS
<1>1. UNCHANGED <<exists, content, phase, stack, visited, merged, literal,
                  template, tree, dirsOf>>
  BY DEF vars
<1>2. Keeps
  BY <1>1 DEF Keeps
<1>3. LiteralInv'
  BY <1>1, <1>2, LiteralKept
<1>4. LedInv'
  <2>1. phase # "main" => \A S : Closed(S)' => Closed(S)
    BY <1>1, <1>2, ClosedBefore
  <2> QED
    BY <1>1, <2>1 DEF LedInv, WalkInv
<1>5. Inner' = Inner
  BY <1>1 DEF Inner
<1>6. TypeOK' /\ ContentInv' /\ StartInv' /\ MergedInv' /\ TemplateInv'
  BY <1>1 DEF WalkInv, TypeOK, ContentInv, StartInv, MergedInv, TemplateInv
<1>7. StackInv' /\ LookedInv'
  BY <1>1, <1>5 DEF WalkInv, StackInv, LookedInv
<1> QED
  BY <1>3, <1>4, <1>6, <1>7 DEF WalkInv

LEMMA StepWalkInv == WalkInv /\ [Next]_vars => WalkInv'
<1> SUFFICES ASSUME WalkInv, [Next]_vars PROVE WalkInv'
  OBVIOUS
<1>1. ASSUME NEW c \in Contents(Main), Parse(c) PROVE WalkInv'
  BY <1>1, ParseWalk
<1>2. CASE SystemImport
  BY <1>2, SystemImportWalk
<1>3. CASE Missing
  BY <1>3, MissingWalk
<1>4. CASE AlreadyVisited
  BY <1>4, AlreadyVisitedWalk
<1>5. ASSUME NEW c \in (IF Found THEN Contents(Target) ELSE {}),
             Drop(c) \/ Crash(c) \/ Merge(c)
      PROVE  WalkInv'
  <2>1. c \in Contents(Target)
    BY <1>5
  <2> QED
    BY <1>5, <2>1, DropWalk, CrashWalk, MergeWalk
<1>6. CASE Return
  BY <1>6, ReturnWalk
<1>7. CASE ResolveTemplates
  BY <1>7, ResolveTemplatesWalk
<1>8. CASE UNCHANGED vars
  BY <1>8, StutterWalk
<1> QED
  BY <1>1, <1>2, <1>3, <1>4, <1>5, <1>6, <1>7, <1>8 DEF Next

-----------------------------------------------------------------------------
(***************************************************************************)
(* The results.                                                            *)
(***************************************************************************)

(* Every name that a merged file declares is known when the imports are    *)
(* done: structures have the fields of their template, and the LITERAL is  *)
(* that of the first file that has it (resolve_templates, _merge_file).    *)
LEMMA NamesFromWalk == WalkInv => NamesResolved
<1> SUFFICES ASSUME WalkInv, phase = "done",
                    NEW f \in Range(merged), NEW g \in Range(merged),
                    content[g].declares
             PROVE  /\ f \in DOMAIN template /\ content[template[f]].declares
                    /\ \E i, j \in DOMAIN merged :
                         merged[i] = g /\ merged[j] = literal[1] /\ j <= i
  BY DEF NamesResolved
<1>1. Len(merged) \in Nat /\ DOMAIN merged = 1 .. Len(merged)
  BY ReadFacts
<1>2. PICK a \in 1 .. Len(merged) : merged[a] = f
  BY <1>1 DEF Range
<1>3. PICK i \in 1 .. Len(merged) : merged[i] = g
  BY <1>1 DEF Range
<1>4. f \in DOMAIN template /\ content[template[f]].declares
  BY <1>2, <1>3 DEF WalkInv, TemplateInv
<1>5. literal # <<>>
  BY <1>3 DEF WalkInv, LiteralInv
<1>6. PICK j \in 1 .. Len(merged) :
        merged[j] = literal[1] /\ \A k \in 1 .. j - 1 : ~content[merged[k]].declares
  BY <1>5 DEF WalkInv, LiteralInv
<1>7. i \notin 1 .. j - 1
  BY <1>3, <1>6
<1>8. j <= i
  BY <1>1, <1>7
<1> QED
  BY <1>1, <1>3, <1>4, <1>6, <1>8

THEOREM NamesAreResolved == Spec => []NamesResolved
<1> QED
  BY InitWalkInv, StepWalkInv, NamesFromWalk, PTL DEF Spec

(* The state keeps its types: what was visited is on disk, and what was    *)
(* merged was visited or is the main file.                                 *)
THEOREM ResolverTypes == Spec => []TypeOK
<1>1. WalkInv => TypeOK
  BY DEF WalkInv
<1> QED
  BY InitWalkInv, StepWalkInv, <1>1, PTL DEF Spec

-----------------------------------------------------------------------------
(***************************************************************************)
(* The nearest directory wins.                                             *)
(***************************************************************************)

(* A merged file is walked with its own directory first.                   *)
OwnDirFirst ==
  \A f \in DOMAIN dirsOf : 1 \in DOMAIN dirsOf[f] /\ dirsOf[f][1] = f[1]

LEMMA InitOwnDirFirst == Init => OwnDirFirst
<1> SUFFICES ASSUME Init PROVE OwnDirFirst
  OBVIOUS
<1>1. DOMAIN dirsOf = {}
  BY DEF Init
<1> QED
  BY <1>1 DEF OwnDirFirst

LEMMA MergeOwnDirFirst ==
  ASSUME WalkInv, OwnDirFirst, NEW c, Merge(c)
  PROVE  OwnDirFirst'
<1>1. /\ Found /\ Target \notin visited
      /\ dirsOf' = With(dirsOf, Target, SubDirs(Target))
  BY DEF Merge
<1>2. stack # <<>>
  BY <1>1, ImportFacts DEF Found
<1>3. Top.dirs \in Seq(Dirs) /\ Target[1] \in Dirs
  BY <1>1, <1>2, TopFacts, TargetFacts DEF Files
<1>4. /\ <<Target[1]>> \in Seq(Dirs) /\ Len(<<Target[1]>>) = 1
      /\ <<Target[1]>>[1] = Target[1]
  BY <1>3
<1>5. SubDirs(Target) \in Seq(Dirs) /\ SubDirs(Target)[1] = Target[1]
      /\ Len(SubDirs(Target)) = 1 + Len(Top.dirs)
  BY <1>3, <1>4, ConcatProperties, LenProperties DEF SubDirs
<1>6. 1 \in DOMAIN SubDirs(Target)
  BY <1>3, <1>5, LenProperties
<1> QED
  BY <1>1, <1>5, <1>6 DEF OwnDirFirst, With, WalkInv, ContentInv

LEMMA StepOwnDirFirst == WalkInv /\ OwnDirFirst /\ [Next]_vars => OwnDirFirst'
<1> SUFFICES ASSUME WalkInv, OwnDirFirst, [Next]_vars PROVE OwnDirFirst'
  OBVIOUS
<1>1. UNCHANGED dirsOf \/ \E c : Merge(c)
  BY DEF Next, Parse, SystemImport, Missing, AlreadyVisited, Drop, Crash,
         Return, ResolveTemplates, vars
<1> QED
  BY <1>1, MergeOwnDirFirst DEF OwnDirFirst

(* The file found is in the first directory if that has one of its name.   *)
LEMMA FirstDirWins ==
  ASSUME NEW n, NEW dirs \in Seq(Dirs), 1 \in DOMAIN dirs,
         <<dirs[1], n>> \in exists
  PROVE  Find(n, dirs) = <<<<dirs[1], n>>>>
<1> DEFINE hits == {k \in DOMAIN dirs : <<dirs[k], n>> \in exists}
<1>1. 1 \in hits /\ hits # {} /\ hits \in SUBSET Nat
  <2>1. DOMAIN dirs = 1 .. Len(dirs) /\ Len(dirs) \in Nat
    BY LenProperties
  <2>2. hits \subseteq DOMAIN dirs
    OBVIOUS
  <2>3. hits \in SUBSET Nat
    BY <2>1, <2>2
  <2>4. 1 \in hits
    OBVIOUS
  <2> HIDE DEF hits
  <2> QED
    BY <2>3, <2>4
<1>2. \A k \in hits : k >= 1
  BY LenProperties
<1>3. Find(n, dirs) = <<<<dirs[Min(hits)], n>>>>
  BY <1>1 DEF Find
<1>4. Min(hits) = 1
  <2> HIDE DEF hits
  <2>1. Min(hits) \in hits /\ Min(hits) <= 1
    BY <1>1, MinFacts
  <2>2. Min(hits) \in Nat /\ Min(hits) >= 1
    BY <1>1, <1>2, <2>1
  <2> QED
    BY <2>1, <2>2
<1> QED
  BY <1>3, <1>4

(* What is newly visited is the file found for the directive followed.     *)
NearestStep ==
  \A f \in visited' \ visited :
    <<Top.file[1], f[2]>> \in exists => f[1] = Top.file[1]

LEMMA StepNearest == WalkInv /\ OwnDirFirst /\ [Next]_vars => NearestStep
<1> SUFFICES ASSUME WalkInv, OwnDirFirst, [Next]_vars,
                    NEW f \in visited' \ visited,
                    <<Top.file[1], f[2]>> \in exists
             PROVE  f[1] = Top.file[1]
  BY DEF NearestStep
<1>1. Found /\ f = Target
  BY DEF Next, Parse, SystemImport, Missing, AlreadyVisited, Drop, Crash, Merge,
         Entered, Return, ResolveTemplates, vars
<1>2. stack # <<>> /\ f[2] = Import
  BY <1>1, ImportFacts, TargetFacts DEF Found
<1>3. Top = stack[Len(stack)] /\ Top.dirs \in Seq(Dirs)
  BY <1>2, TopFacts
<1>4. 1 \in DOMAIN Top.dirs /\ Top.dirs[1] = Top.file[1]
  <2>1. CASE Len(stack) = 1
    <3>1. 1 \in 1 .. Len(stack)
      BY <2>1
    <3>2. Top.file = Main /\ Top.dirs = SearchPath
      BY <1>3, <2>1, <3>1 DEF WalkInv, StackInv
    <3>3. Len(SearchPath) = 1 + Len(SearchDirs) /\ SearchPath \in Seq(Dirs)
      <4>1. <<Base>> \in Seq(Dirs) /\ Len(<<Base>>) = 1
        BY PathFacts
      <4> QED
        BY <4>1, PathFacts, ConcatProperties DEF SearchPath
    <3>4. 1 \in DOMAIN SearchPath
      BY <3>3, PathFacts, LenProperties
    <3>5. Main[1] = Base
      BY DEF Main
    <3> QED
      BY <3>2, <3>4, <3>5, PathFacts
  <2>2. CASE Len(stack) # 1
    <3>1. Len(stack) \in 1 .. Len(stack) /\ Len(stack) > 1
      <4>1. Len(stack) \in Nat \ {0}
        BY <1>2, TopFacts
      <4>2. \A n \in Nat \ {0} : n # 1 => n \in 1 .. n /\ n > 1
        OBVIOUS
      <4> QED
        BY <2>2, <4>1, <4>2
    <3>2. Top.file \in DOMAIN dirsOf /\ Top.dirs = dirsOf[Top.file]
      BY <1>3, <3>1 DEF WalkInv, StackInv
    <3> QED
      BY <3>2 DEF OwnDirFirst
  <2> QED
    BY <2>1, <2>2
<1>5. Find(Import, Top.dirs) = <<<<Top.dirs[1], Import>>>>
  BY <1>2, <1>3, <1>4, FirstDirWins
<1>6. Target = <<Top.dirs[1], Import>>
  BY <1>5 DEF Target
<1> QED
  BY <1>1, <1>4, <1>6

(* A file in the directory of the importing file is never passed over for  *)
(* one of the same name further off (_find_local_file with sub_dirs).      *)
THEOREM NearestDirectoryWins == Spec => NearestWins
<1>1. Init => WalkInv /\ OwnDirFirst
  BY InitWalkInv, InitOwnDirFirst
<1>2. WalkInv /\ OwnDirFirst /\ [Next]_vars => (WalkInv /\ OwnDirFirst)'
  BY StepWalkInv, StepOwnDirFirst
<1>3. WalkInv /\ OwnDirFirst /\ [Next]_vars => [NearestStep]_vars
  BY StepNearest
<1>4. Spec => [][NearestStep]_vars
  BY <1>1, <1>2, <1>3, PTL DEF Spec
<1> QED
  BY <1>4 DEF NearestWins, NearestStep

-----------------------------------------------------------------------------
(***************************************************************************)
(* The import tree has a node for every directive.  A directive is a pair: *)
(* the place of its file in merged and its own in the file.  The ones the  *)
(* calls on the stack have not reached are pairs of a frame and a place.   *)
(***************************************************************************)

Written == UNION {{k} \X (1 .. Len(content[merged[k]].imports)) : k \in 1 .. Len(merged)}

Ahead ==
  UNION {{k} \X (stack[k].next .. Len(content[stack[k].file].imports)) :
           k \in 1 .. Len(stack)}

CountedNodes == {i \in 1 .. Len(tree) : tree[i].counted}

CountInv ==
  phase \in {"imports", "templates", "done"} =>
    /\ IsFiniteSet(Written) /\ IsFiniteSet(Ahead)
    /\ Len(tree) + Cardinality(Ahead) = Cardinality(Written)
    /\ Cardinality(CountedNodes) = Len(merged) - 1

(* One file's directives.                                                  *)
LEMMA RowFacts ==
  ASSUME NEW k, NEW l \in Nat
  PROVE  IsFiniteSet({k} \X (1 .. l)) /\ Cardinality({k} \X (1 .. l)) = l
<1> DEFINE R == {k} \X (1 .. l)
           g == [j \in 1 .. l |-> <<k, j>>]
<1>1. g \in Bijection(1 .. l, R)
  <2>1. g \in [1 .. l -> R]
    OBVIOUS
  <2>2. \A a, b \in 1 .. l : g[a] = g[b] => a = b
    OBVIOUS
  <2>3. \A r \in R : \E j \in 1 .. l : g[j] = r
    OBVIOUS
  <2> HIDE DEF R, g
  <2> QED
    BY <2>1, <2>2, <2>3 DEF Bijection, Injection, Surjection, IsInjective
<1>2. ExistsBijection(1 .. l, R)
  BY <1>1 DEF ExistsBijection
<1>3. IsFiniteSet(1 .. l) /\ Cardinality(1 .. l) = l
  BY FS_Interval
<1> QED
  BY <1>2, <1>3, FS_Bijection

(* A row more, of a place not counted so far.                              *)
LEMMA RowAdded ==
  ASSUME NEW S, IsFiniteSet(S), NEW k, NEW l \in Nat, \A j : <<k, j>> \notin S
  PROVE  /\ IsFiniteSet(S \cup ({k} \X (1 .. l)))
         /\ Cardinality(S \cup ({k} \X (1 .. l))) = Cardinality(S) + l
<1> DEFINE R == {k} \X (1 .. l)
<1>1. IsFiniteSet(R) /\ Cardinality(R) = l
  BY RowFacts
<1>2. S \cap R = {}
  OBVIOUS
<1> HIDE DEF R
<1>3. Cardinality(S \cap R) = 0 /\ Cardinality(S) \in Nat
  BY <1>2, FS_EmptySet, FS_CardinalityType
<1>4. IsFiniteSet(S \cup R) /\ Cardinality(S \cup R) = Cardinality(S) + l - 0
  BY <1>1, <1>3, FS_Union
<1> QED
  BY <1>3, <1>4 DEF R

(* The pairs one by one; the primed form of each holds as well.            *)
WrittenForm ==
  \A x : x \in Written <=>
    \E k \in 1 .. Len(merged) : \E j \in 1 .. Len(content[merged[k]].imports) : x = <<k, j>>

AheadForm ==
  \A x : x \in Ahead <=>
    \E k \in 1 .. Len(stack) :
      \E j \in stack[k].next .. Len(content[stack[k].file].imports) : x = <<k, j>>

LEMMA PairsAre == WrittenForm /\ AheadForm
BY DEF WrittenForm, AheadForm, Written, Ahead

LEMMA PairsAreNext == WrittenForm' /\ AheadForm'
BY PairsAre, PTL

(* A step that reads no merged file anew changes no directive written.     *)
LEMMA WrittenKept ==
  ASSUME WalkInv, Keeps, UNCHANGED merged
  PROVE  Written' = Written
<1>1. \A k \in 1 .. Len(merged) : content'[merged[k]] = content[merged[k]]
  BY ReadFacts DEF Keeps
<1>2. \A x : x \in Written' <=> x \in Written
  <2>1. WrittenForm /\ WrittenForm'
    BY PairsAre, PairsAreNext
  <2>2. \A x : (\E k \in 1 .. Len(merged) :
                 \E j \in 1 .. Len(content'[merged[k]].imports) : x = <<k, j>>)
          <=> \E k \in 1 .. Len(merged) :
                 \E j \in 1 .. Len(content[merged[k]].imports) : x = <<k, j>>
    BY ONLY <1>1
  <2>3. /\ \A x : x \in Written <=>
              \E k \in 1 .. Len(merged) :
                \E j \in 1 .. Len(content[merged[k]].imports) : x = <<k, j>>
        /\ \A x : x \in Written' <=>
              \E k \in 1 .. Len(merged) :
                \E j \in 1 .. Len(content'[merged[k]].imports) : x = <<k, j>>
    BY <2>1 DEF WrittenForm
  <2> QED
    BY ONLY <2>2, <2>3
<1> QED
  BY <1>2

(* The directive followed is ahead no more.                                *)
AheadOfStack(s) ==
  UNION {{k} \X (s[k].next .. Len(content[s[k].file].imports)) : k \in 1 .. Len(s)}

LEMMA AdvancedAhead ==
  ASSUME WalkInv, More
  PROVE  /\ AheadOfStack(Advanced) = Ahead \ {<<Len(stack), Top.next>>}
         /\ <<Len(stack), Top.next>> \in Ahead
<1> DEFINE n == Len(stack)
<1>1. stack # <<>> /\ Top.next \in 1 .. Len(Imports)
  BY ImportFacts
<1>2. /\ n \in Nat \ {0} /\ Top = stack[n] /\ Len(Imports) \in Nat
      /\ Imports = content[Top.file].imports
  BY <1>1, TopFacts
<1>3. /\ Len(Advanced) = n
      /\ \A k \in 1 .. n : Advanced[k].file = stack[k].file
      /\ \A k \in 1 .. n - 1 : Advanced[k] = stack[k]
      /\ Advanced[n].next = Top.next + 1
  BY <1>1, AdvancedFacts
<1> HIDE DEF n
<1>4. \A k \in 1 .. n : k # n => Advanced[k].next = stack[k].next
  BY <1>2, <1>3
<1>5. ASSUME NEW x
      PROVE  x \in AheadOfStack(Advanced) <=> x \in Ahead \ {<<n, Top.next>>}
  <2>1. x \in AheadOfStack(Advanced) <=>
          \E k \in 1 .. n :
            \E j \in Advanced[k].next .. Len(content[stack[k].file].imports) : x = <<k, j>>
    BY <1>3 DEF AheadOfStack
  <2>2. x \in Ahead <=>
          \E k \in 1 .. n :
            \E j \in stack[k].next .. Len(content[stack[k].file].imports) : x = <<k, j>>
    BY PairsAre DEF AheadForm, n
  <2>3. ASSUME NEW k \in 1 .. n, NEW j
        PROVE  j \in Advanced[k].next .. Len(content[stack[k].file].imports)
                 <=> /\ j \in stack[k].next .. Len(content[stack[k].file].imports)
                     /\ ~(k = n /\ j = Top.next)
    <3>1. CASE k = n
      BY <1>1, <1>2, <1>3, <3>1
    <3>2. CASE k # n
      BY <1>4, <3>2
    <3> QED
      BY <3>1, <3>2
  <2> QED
    BY <2>1, <2>2, <2>3
<1>6. <<n, Top.next>> \in Ahead
  <2>1. n \in 1 .. n /\ Top.next \in stack[n].next .. Len(content[stack[n].file].imports)
    BY <1>1, <1>2
  <2> QED
    BY <2>1, PairsAre DEF AheadForm, n
<1> QED
  BY <1>5, <1>6 DEF n

(* A node more.                                                            *)
LEMMA NodeAdded ==
  ASSUME WalkInv, NEW e \in Node, tree' = Append(tree, e)
  PROVE  /\ Len(tree) \in Nat /\ Len(tree') = Len(tree) + 1
         /\ IsFiniteSet(CountedNodes)
         /\ Cardinality(CountedNodes') =
              Cardinality(CountedNodes) + IF e.counted THEN 1 ELSE 0
<1> DEFINE n == Len(tree)
<1>1. tree \in Seq(Node) /\ n \in Nat
  BY LenProperties DEF WalkInv, TypeOK
<1>2. /\ Len(tree') = n + 1
      /\ \A i \in 1 .. n : tree'[i] = tree[i]
      /\ tree'[n + 1] = e
  BY <1>1, AppendProperties
<1>3. CountedNodes = {i \in 1 .. n : tree[i].counted}
  BY DEF CountedNodes
<1>4. CountedNodes' = {i \in 1 .. n + 1 : tree'[i].counted}
  BY <1>2 DEF CountedNodes
<1> HIDE DEF n
<1>5. IsFiniteSet(CountedNodes) /\ n + 1 \notin CountedNodes
  <2>1. IsFiniteSet(1 .. n)
    BY <1>1, FS_Interval
  <2>2. CountedNodes \in SUBSET (1 .. n)
    BY <1>3
  <2>3. n + 1 \notin 1 .. n
    BY <1>1
  <2>4. IsFiniteSet(CountedNodes)
    BY <2>1, <2>2, FS_Subset
  <2> QED
    BY <2>2, <2>3, <2>4
<1>6. Cardinality(CountedNodes) \in Nat
  BY <1>5, FS_CardinalityType
<1>7. CASE e.counted
  <2>1. \A i : i \in CountedNodes' <=> i \in CountedNodes \/ i = n + 1
    <3>1. \A i : i \in 1 .. n + 1 <=> i \in 1 .. n \/ i = n + 1
      BY <1>1
    <3> QED
      BY <1>2, <1>3, <1>4, <1>7, <3>1
  <2>2. CountedNodes' = CountedNodes \cup {n + 1}
    BY <2>1
  <2> QED
    BY <1>1, <1>2, <1>5, <1>7, <2>2, FS_AddElement DEF n
<1>8. CASE ~e.counted
  <2>1. \A i : i \in CountedNodes' <=> i \in CountedNodes
    <3>1. \A i : i \in 1 .. n + 1 <=> i \in 1 .. n \/ i = n + 1
      BY <1>1
    <3>2. n + 1 \notin 1 .. n
      BY <1>1
    <3> QED
      BY <1>2, <1>3, <1>4, <1>8, <3>1, <3>2
  <2>2. CountedNodes' = CountedNodes
    BY <2>1
  <2> QED
    BY <1>1, <1>2, <1>5, <1>6, <1>8, <2>2 DEF n
<1> QED
  BY <1>7, <1>8

(* A directive that merges no file.                                        *)
LEMMA AdvanceCount ==
  ASSUME WalkInv, CountInv, More, Keeps, stack' = Advanced,
         NEW e \in Node, ~e.counted, tree' = Append(tree, e),
         UNCHANGED <<phase, merged>>
  PROVE  CountInv'
<1>1. phase = "imports"
  BY ImportFacts
<1>2. /\ IsFiniteSet(Written) /\ IsFiniteSet(Ahead)
      /\ Len(tree) + Cardinality(Ahead) = Cardinality(Written)
      /\ Cardinality(CountedNodes) = Len(merged) - 1
  BY <1>1 DEF CountInv
<1>3. Written' = Written
  BY WrittenKept
<1>4. Ahead' = Ahead \ {<<Len(stack), Top.next>>}
  <2>1. \A k \in 1 .. Len(Advanced) : content'[Advanced[k].file] = content[Advanced[k].file]
    BY ImportFacts, AdvancedFacts, ReadFacts DEF Keeps
  <2>2. \A x : x \in Ahead' <=> x \in AheadOfStack(Advanced)
    BY <2>1, PairsAreNext DEF AheadForm, AheadOfStack
  <2>3. Ahead' = AheadOfStack(Advanced)
    BY <2>2
  <2> QED
    BY <2>3, AdvancedAhead
<1>5. /\ IsFiniteSet(Ahead') /\ Cardinality(Ahead') = Cardinality(Ahead) - 1
  BY <1>2, <1>4, AdvancedAhead, FS_RemoveElement
<1>6. Cardinality(Ahead) \in Nat /\ Cardinality(Written) \in Nat
  BY <1>2, FS_CardinalityType
<1>7. /\ Len(tree) \in Nat /\ Len(tree') = Len(tree) + 1
      /\ Cardinality(CountedNodes') = Cardinality(CountedNodes) + 0
      /\ IsFiniteSet(CountedNodes)
  BY NodeAdded
<1>8. Cardinality(CountedNodes') = Cardinality(CountedNodes)
  BY <1>7, FS_CardinalityType
<1>9. Len(tree') + Cardinality(Ahead') = Cardinality(Written')
  BY <1>2, <1>3, <1>5, <1>6, <1>7
<1> QED
  BY <1>2, <1>3, <1>5, <1>8, <1>9 DEF CountInv

LEMMA MergeCount ==
  ASSUME WalkInv, CountInv, NEW c \in Contents(Target), Merge(c)
  PROVE  CountInv'
<1> DEFINE n == Len(stack)
           m == Len(merged)
           l == Len(c.imports)
<1>1. /\ Found /\ Target \notin visited
      /\ content' = With(content, Target, c) /\ visited' = visited \cup {Target}
      /\ merged' = Append(merged, Target) /\ literal' = LiteralAfter(Target, c)
      /\ tree' = Append(tree, [kind |-> "resolved", counted |-> TRUE])
      /\ stack' = Append(Advanced, [file |-> Target, next |-> 1, dirs |-> SubDirs(Target)])
      /\ UNCHANGED <<exists, phase>>
  BY DEF Merge, Add, Entered
<1>2. /\ More /\ stack # <<>> /\ phase = "imports" /\ c \in Content
      /\ Keeps /\ content'[Target] = c
  BY <1>1, ReadTarget
<1>3. /\ IsFiniteSet(Written) /\ IsFiniteSet(Ahead)
      /\ Len(tree) + Cardinality(Ahead) = Cardinality(Written)
      /\ Cardinality(CountedNodes) = m - 1
  BY <1>2 DEF CountInv
<1>4. l \in Nat /\ c.declares \in BOOLEAN
  BY <1>2, LenProperties DEF Content
<1>5. n \in Nat /\ m \in Nat
  BY ReadFacts
<1>6. /\ Len(merged') = m + 1 /\ merged'[m + 1] = Target
      /\ \A i \in 1 .. m : merged'[i] = merged[i]
  BY <1>1, <1>2, <1>4, MergeLiteral
<1>7. /\ Len(stack') = n + 1
      /\ \A k \in 1 .. n : stack'[k] = Advanced[k]
      /\ stack'[n + 1] = [file |-> Target, next |-> 1, dirs |-> SubDirs(Target)]
  BY <1>1, EnteredFacts
<1> HIDE DEF n, m, l
<1>8. Written' = Written \cup ({m + 1} \X (1 .. l))
  <2>1. \A k : k \in 1 .. m + 1 <=> k \in 1 .. m \/ k = m + 1
    BY <1>5
  <2>2. \A k \in 1 .. m : content'[merged'[k]] = content[merged[k]]
    BY <1>2, <1>6, ReadFacts DEF Keeps, m
  <2>3. content'[merged'[m + 1]].imports = c.imports
    BY <1>2, <1>6
  <2>4. \A x : x \in Written' <=> x \in Written \/ \E j \in 1 .. l : x = <<m + 1, j>>
    <3>1. \A x : x \in Written' <=>
            \E k \in 1 .. m + 1 :
              \E j \in 1 .. Len(content'[merged'[k]].imports) : x = <<k, j>>
      BY <1>6, PairsAreNext DEF WrittenForm
    <3>2. \A x : x \in Written <=>
            \E k \in 1 .. m : \E j \in 1 .. Len(content[merged[k]].imports) : x = <<k, j>>
      BY PairsAre DEF WrittenForm, m
    <3> QED
      BY <2>1, <2>2, <2>3, <3>1, <3>2 DEF l
  <2>5. \A x : x \in {m + 1} \X (1 .. l) <=> \E j \in 1 .. l : x = <<m + 1, j>>
    OBVIOUS
  <2> QED
    BY <2>4, <2>5
<1>9. Ahead' = (Ahead \ {<<n, Top.next>>}) \cup ({n + 1} \X (1 .. l))
  <2>1. \A k : k \in 1 .. n + 1 <=> k \in 1 .. n \/ k = n + 1
    BY <1>5
  <2>2. /\ Len(Advanced) = n
        /\ \A k \in 1 .. n : content'[stack'[k].file] = content[Advanced[k].file]
    BY <1>2, <1>7, AdvancedFacts, ReadFacts DEF Keeps, n
  <2>3. /\ content'[stack'[n + 1].file].imports = c.imports
        /\ stack'[n + 1].next = 1
    BY <1>2, <1>7
  <2>4. \A x : x \in Ahead' <=>
          x \in AheadOfStack(Advanced) \/ \E j \in 1 .. l : x = <<n + 1, j>>
    <3>1. \A x : x \in Ahead' <=>
            \E k \in 1 .. n + 1 :
              \E j \in stack'[k].next .. Len(content'[stack'[k].file].imports) : x = <<k, j>>
      BY <1>7, PairsAreNext DEF AheadForm
    <3>2. \A x : x \in AheadOfStack(Advanced) <=>
            \E k \in 1 .. n :
              \E j \in Advanced[k].next .. Len(content[Advanced[k].file].imports) : x = <<k, j>>
      BY <2>2 DEF AheadOfStack
    <3>3. \A x : (\E j \in stack'[n + 1].next .. Len(content'[stack'[n + 1].file].imports) :
                      x = <<n + 1, j>>)
                  <=> \E j \in 1 .. l : x = <<n + 1, j>>
      BY <2>3 DEF l
    <3>4. \A k \in 1 .. n : stack'[k].next = Advanced[k].next
                           /\ content'[stack'[k].file] = content[Advanced[k].file]
      BY <1>7, <2>2
    <3>5. \A x : (\E k \in 1 .. n :
                     \E j \in stack'[k].next .. Len(content'[stack'[k].file].imports) :
                       x = <<k, j>>)
                  <=> x \in AheadOfStack(Advanced)
      BY <3>2, <3>4
    <3> QED
      BY <2>1, <3>1, <3>3, <3>5
  <2>5. \A x : x \in {n + 1} \X (1 .. l) <=> \E j \in 1 .. l : x = <<n + 1, j>>
    OBVIOUS
  <2>6. Ahead' = AheadOfStack(Advanced) \cup ({n + 1} \X (1 .. l))
    BY <2>4, <2>5
  <2> QED
    BY <1>2, <2>6, AdvancedAhead DEF n
<1>10. IsFiniteSet(Written') /\ Cardinality(Written') = Cardinality(Written) + l
  <2>1. \A j : <<m + 1, j>> \notin Written
    <3>1. m + 1 \notin 1 .. m
      BY <1>5
    <3>2. \A x : x \in Written => \E k \in 1 .. m : \E j : x = <<k, j>>
      BY PairsAre DEF WrittenForm, m
    <3> QED
      BY <3>1, <3>2
  <2>2. IsFiniteSet(Written) /\ l \in Nat
    BY <1>3, <1>4
  <2>3. /\ IsFiniteSet(Written \cup ({m + 1} \X (1 .. l)))
        /\ Cardinality(Written \cup ({m + 1} \X (1 .. l))) = Cardinality(Written) + l
    BY ONLY <2>1, <2>2, RowAdded
  <2> QED
    BY <1>8, <2>3
<1>11. IsFiniteSet(Ahead') /\ Cardinality(Ahead') = Cardinality(Ahead) - 1 + l
  <2> DEFINE A == Ahead \ {<<n, Top.next>>}
  <2>1. IsFiniteSet(A) /\ Cardinality(A) = Cardinality(Ahead) - 1
    BY <1>2, <1>3, AdvancedAhead, FS_RemoveElement DEF n
  <2>2. \A j : <<n + 1, j>> \notin A
    <3>1. n + 1 \notin 1 .. n
      BY <1>5
    <3>2. \A x : x \in Ahead => \E k \in 1 .. n : \E j : x = <<k, j>>
      BY PairsAre DEF AheadForm, n
    <3> QED
      BY <3>1, <3>2
  <2> HIDE DEF A
  <2>3. IsFiniteSet(A \cup ({n + 1} \X (1 .. l)))
        /\ Cardinality(A \cup ({n + 1} \X (1 .. l))) = Cardinality(A) + l
    BY <1>4, <2>1, <2>2, RowAdded
  <2> QED
    BY <1>9, <2>1, <2>3 DEF A
<1>12. /\ Len(tree) \in Nat /\ Len(tree') = Len(tree) + 1
       /\ Cardinality(CountedNodes') = Cardinality(CountedNodes) + 1
  <2>1. [kind |-> "resolved", counted |-> TRUE] \in Node
    BY DEF Node
  <2> QED
    BY <1>1, <2>1, NodeAdded
<1>13. Cardinality(Ahead) \in Nat /\ Cardinality(Written) \in Nat
  BY <1>3, FS_CardinalityType
<1>14. Len(tree') + Cardinality(Ahead') = Cardinality(Written')
  BY <1>3, <1>4, <1>10, <1>11, <1>12, <1>13
<1>15. Cardinality(CountedNodes') = Len(merged') - 1
  BY <1>3, <1>5, <1>6, <1>12
<1> QED
  BY <1>10, <1>11, <1>14, <1>15 DEF CountInv

LEMMA ReturnCount == WalkInv /\ CountInv /\ Return => CountInv'
<1> SUFFICES ASSUME WalkInv, CountInv, Return PROVE CountInv'
  OBVIOUS
<1> DEFINE n == Len(stack)
<1>1. /\ phase = "imports" /\ stack # <<>> /\ Top.next > Len(Imports)
      /\ stack' = Front(stack)
      /\ UNCHANGED <<exists, content, visited, merged, tree>>
  BY DEF Return
<1>2. /\ n \in Nat \ {0} /\ Top = stack[n] /\ Len(Imports) \in Nat
      /\ Top.next \in 1 .. Len(Imports) + 1
      /\ Imports = content[Top.file].imports
  BY <1>1, TopFacts
<1>3. Len(stack') = n - 1 /\ \A k \in 1 .. n - 1 : stack'[k] = stack[k]
  BY <1>1, FrontFacts
<1>4. Keeps
  BY <1>1 DEF Keeps
<1>5. Written' = Written
  BY <1>1, <1>4, WrittenKept
<1> HIDE DEF n
<1>6. \A x : x \in Ahead' <=> x \in Ahead
  <2>1. \A j : j \notin stack[n].next .. Len(content[stack[n].file].imports)
    BY <1>1, <1>2
  <2>2. \A k : k \in 1 .. n <=> k \in 1 .. n - 1 \/ k = n
    BY <1>2
  <2>3. \A x : x \in Ahead <=>
          \E k \in 1 .. n :
            \E j \in stack[k].next .. Len(content[stack[k].file].imports) : x = <<k, j>>
    BY PairsAre DEF AheadForm, n
  <2>4. \A x : x \in Ahead' <=>
          \E k \in 1 .. n - 1 :
            \E j \in stack'[k].next .. Len(content'[stack'[k].file].imports) : x = <<k, j>>
    BY <1>3, PairsAreNext DEF AheadForm
  <2>5. \A x : x \in Ahead' <=>
          \E k \in 1 .. n - 1 :
            \E j \in stack[k].next .. Len(content[stack[k].file].imports) : x = <<k, j>>
    BY <1>1, <1>3, <2>4
  <2> QED
    BY <2>1, <2>2, <2>3, <2>5
<1>7. Ahead' = Ahead
  BY <1>6
<1>8. CountedNodes' = CountedNodes
  BY <1>1 DEF CountedNodes
<1> QED
  BY <1>1, <1>5, <1>7, <1>8 DEF CountInv

LEMMA ParseCount ==
  ASSUME WalkInv, NEW c \in Contents(Main), Parse(c)
  PROVE  CountInv'
<1> DEFINE l == Len(c.imports)
<1>1. /\ phase = "main" /\ content' = With(content, Main, c)
      /\ merged' = <<Main>>
      /\ stack' = <<[file |-> Main, next |-> 1, dirs |-> SearchPath]>>
      /\ UNCHANGED tree
  BY DEF Parse
<1>2. c \in Content
  BY PathFacts, ContentsFacts DEF WalkInv
<1>3. content'[Main] = c /\ tree = <<>>
  BY <1>1 DEF With, WalkInv, StartInv
<1>4. l \in Nat
  BY <1>2, LenProperties DEF Content
<1> HIDE DEF Main, SearchPath, l
<1>5. /\ Len(stack') = 1 /\ stack'[1].file = Main /\ stack'[1].next = 1
      /\ Len(merged') = 1 /\ merged'[1] = Main
  BY <1>1
<1>6. \A k : k \in 1 .. 1 <=> k = 1
  OBVIOUS
<1>7. \A x : x \in Written' <=> \E j \in 1 .. l : x = <<1, j>>
  BY <1>3, <1>5, <1>6, PairsAreNext DEF WrittenForm, l
<1>8. \A x : x \in Ahead' <=> \E j \in 1 .. l : x = <<1, j>>
  BY <1>3, <1>5, <1>6, PairsAreNext DEF AheadForm, l
<1>9. Written' = {1} \X (1 .. l) /\ Ahead' = {1} \X (1 .. l)
  <2>1. \A x : x \in {1} \X (1 .. l) <=> \E j \in 1 .. l : x = <<1, j>>
    OBVIOUS
  <2> QED
    BY <1>7, <1>8, <2>1
<1>10. /\ IsFiniteSet(Written') /\ IsFiniteSet(Ahead')
       /\ Cardinality(Written') = l /\ Cardinality(Ahead') = l
  BY <1>4, <1>9, RowFacts
<1>11. Len(tree') = 0
  BY <1>1, <1>3
<1>12. CountedNodes' = {}
  BY <1>11 DEF CountedNodes
<1>13. Cardinality(CountedNodes') = 0
  BY <1>12, FS_EmptySet
<1>14. Len(tree') + Cardinality(Ahead') = Cardinality(Written')
  BY <1>4, <1>10, <1>11
<1> QED
  BY <1>5, <1>10, <1>13, <1>14 DEF CountInv

(* Steps that neither follow a directive nor merge a file.                 *)
LEMMA IdleCount ==
  ASSUME WalkInv, CountInv, UNCHANGED <<content, stack, merged, tree>>,
         phase' \in {"imports", "templates", "done"} =>
            phase \in {"imports", "templates", "done"}
  PROVE  CountInv'
<1>1. Written' = Written /\ Ahead' = Ahead /\ CountedNodes' = CountedNodes
  BY DEF Written, Ahead, CountedNodes
<1> QED
  BY <1>1 DEF CountInv

LEMMA StepCount == WalkInv /\ CountInv /\ [Next]_vars => CountInv'
<1> SUFFICES ASSUME WalkInv, CountInv, [Next]_vars PROVE CountInv'
  OBVIOUS
<1> DEFINE system == [kind |-> "system", counted |-> FALSE]
           missing == [kind |-> "missing", counted |-> FALSE]
           resolved == [kind |-> "resolved", counted |-> FALSE]
<1>1. /\ system \in Node /\ ~system.counted
      /\ missing \in Node /\ ~missing.counted
      /\ resolved \in Node /\ ~resolved.counted
  BY DEF Node
<1> HIDE DEF system, missing, resolved
<1>2. ASSUME NEW c \in Contents(Main), Parse(c) PROVE CountInv'
  BY <1>2, ParseCount
<1>3. CASE SystemImport
  <2>1. More /\ Keeps /\ stack' = Advanced /\ tree' = Append(tree, system)
        /\ UNCHANGED <<phase, merged>>
    BY <1>3 DEF SystemImport, Add, Keeps, system
  <2> QED
    BY <1>1, <2>1, AdvanceCount
<1>4. CASE Missing
  <2>1. More /\ Keeps /\ stack' = Advanced /\ tree' = Append(tree, missing)
        /\ UNCHANGED <<phase, merged>>
    BY <1>4 DEF Missing, Add, Keeps, missing
  <2> QED
    BY <1>1, <2>1, AdvanceCount
<1>5. CASE AlreadyVisited
  <2>1. More /\ Keeps /\ stack' = Advanced /\ tree' = Append(tree, resolved)
        /\ UNCHANGED <<phase, merged>>
    BY <1>5 DEF AlreadyVisited, Found, Add, Keeps, resolved
  <2> QED
    BY <1>1, <2>1, AdvanceCount
<1>6. ASSUME NEW c \in (IF Found THEN Contents(Target) ELSE {}),
             Drop(c) \/ Crash(c) \/ Merge(c)
      PROVE  CountInv'
  <2>1. c \in Contents(Target)
    BY <1>6
  <2>2. CASE Drop(c)
    <3>1. /\ Found /\ Target \notin visited
          /\ content' = With(content, Target, c) /\ visited' = visited \cup {Target}
          /\ stack' = Advanced /\ tree' = Append(tree, resolved)
          /\ UNCHANGED <<exists, phase, merged>>
      BY <2>2 DEF Drop, Add, resolved
    <3>2. More /\ Keeps
      BY <2>1, <3>1, ReadTarget
    <3> QED
      BY <1>1, <3>1, <3>2, AdvanceCount
  <2>3. CASE Crash(c)
    BY <2>3 DEF Crash, CountInv
  <2>4. CASE Merge(c)
    BY <2>1, <2>4, MergeCount
  <2> QED
    BY <1>6, <2>2, <2>3, <2>4
<1>7. CASE Return
  BY <1>7, ReturnCount
<1>8. CASE ResolveTemplates
  BY <1>8, IdleCount DEF ResolveTemplates
<1>9. CASE UNCHANGED vars
  BY <1>9, IdleCount DEF vars
<1> QED
  BY <1>2, <1>3, <1>4, <1>5, <1>6, <1>7, <1>8, <1>9 DEF Next

LEMMA InitCount == Init => CountInv
BY DEF Init, CountInv

(* The numbers printed under the tree add up.                              *)
LEMMA SummaryAddsUp ==
  ASSUME WalkInv
  PROVE  /\ ImportSummary.imported = Cardinality(CountedNodes)
         /\ ImportSummary.resolved + ImportSummary.unresolved
              + ImportSummary.system = Len(tree)
<1> DEFINE n == Len(tree)
           R == {i \in 1 .. n : tree[i].kind = "resolved"}
           U == {i \in 1 .. n : tree[i].kind = "missing"}
           S == {i \in 1 .. n : tree[i].kind = "system"}
<1>1. tree \in Seq(Node) /\ n \in Nat /\ DOMAIN tree = 1 .. n
  BY LenProperties DEF WalkInv, TypeOK
<1>2. /\ ImportSummary.resolved = Cardinality(R)
      /\ ImportSummary.unresolved = Cardinality(U)
      /\ ImportSummary.system = Cardinality(S)
      /\ ImportSummary.imported = Cardinality(CountedNodes)
  BY <1>1 DEF ImportSummary, NodesOf, CountedNodes
<1>3. IsFiniteSet(1 .. n) /\ Cardinality(1 .. n) = n
  BY <1>1, FS_Interval
<1>4. \A i \in 1 .. n : tree[i].kind \in {"system", "resolved", "missing"}
  <2>1. \A i \in 1 .. n : tree[i] \in Node
    BY <1>1, ElementOfSeq
  <2> QED
    BY <2>1 DEF Node
<1>5. /\ R \subseteq 1 .. n /\ U \subseteq 1 .. n /\ S \subseteq 1 .. n
      /\ R \cap U = {} /\ (R \cup U) \cap S = {} /\ (R \cup U) \cup S = 1 .. n
  BY <1>4
<1> HIDE DEF n, R, U, S
<1>6. IsFiniteSet(R) /\ IsFiniteSet(U) /\ IsFiniteSet(S)
  BY <1>3, <1>5, FS_Subset
<1>7. /\ Cardinality(R) \in Nat /\ Cardinality(U) \in Nat /\ Cardinality(S) \in Nat
      /\ Cardinality({}) = 0
  BY <1>6, FS_CardinalityType, FS_EmptySet
<1>8. /\ IsFiniteSet(R \cup U)
      /\ Cardinality(R \cup U) = Cardinality(R) + Cardinality(U) - 0
  BY <1>5, <1>6, <1>7, FS_Union
<1>9. Cardinality((R \cup U) \cup S) = Cardinality(R \cup U) + Cardinality(S) - 0
  <2>1. \A T : IsFiniteSet(T) /\ T \cap S = {}
               => Cardinality(T \cup S) = Cardinality(T) + Cardinality(S) - 0
    BY <1>6, <1>7, FS_Union
  <2> QED
    BY <1>5, <1>8, <2>1
<1>10. Cardinality(R) + Cardinality(U) + Cardinality(S) = n
  <2>1. Cardinality((R \cup U) \cup S) = n
    BY <1>3, <1>5
  <2> QED
    BY <1>7, <1>8, <1>9, <2>1
<1> QED
  BY <1>2, <1>10 DEF n

LEMMA CompleteFromWalk == WalkInv /\ CountInv => ImportsComplete
<1> SUFFICES ASSUME WalkInv, CountInv, phase \in {"templates", "done"}
             PROVE  /\ Closed(visited)
                    /\ \A S \in SUBSET visited : Closed(S) => S = visited
                    /\ ImportSummary.imported = Len(merged) - 1
                    /\ ImportSummary.resolved + ImportSummary.unresolved
                         + ImportSummary.system = Directives
  BY DEF ImportsComplete
<1>1. Closed(visited)
  <2>1. Inner = {}
    <3>1. Len(stack) = 0
      BY DEF WalkInv, StackInv
    <3> QED
      BY <3>1 DEF Inner
  <2>2. ClosedIn(exists, content, dirsOf, visited)
    BY <2>1 DEF ClosedIn, WalkInv, LookedInv
  <2> QED
    BY <2>2, ClosedAs DEF ClosedForm
<1>2. ASSUME NEW S \in SUBSET visited, Closed(S) PROVE S = visited
  <2>1. S \in SUBSET Files
    BY DEF WalkInv, TypeOK
  <2> QED
    BY <1>2, <2>1 DEF WalkInv, LedInv
<1>3. /\ IsFiniteSet(Written)
      /\ Len(tree) + Cardinality(Ahead) = Cardinality(Written)
      /\ Cardinality(CountedNodes) = Len(merged) - 1
  BY DEF CountInv
<1>4. Cardinality(Ahead) = 0
  <2>1. Len(stack) = 0
    BY DEF WalkInv, StackInv
  <2>2. Ahead = {}
    BY <2>1 DEF Ahead
  <2> QED
    BY <2>2, FS_EmptySet
<1>5. Directives = Cardinality(Written)
  <2>1. /\ DOMAIN merged = 1 .. Len(merged)
        /\ \A k \in 1 .. Len(merged) :
             DOMAIN content[merged[k]].imports = 1 .. Len(content[merged[k]].imports)
    BY ReadFacts
  <2>2. UNION {{k} \X DOMAIN content[merged[k]].imports : k \in DOMAIN merged} = Written
    BY <2>1 DEF Written
  <2> QED
    BY <2>2 DEF Directives
<1>6. Len(tree) = Cardinality(Written)
  <2>1. Len(tree) \in Nat
    BY LenProperties DEF WalkInv, TypeOK
  <2> QED
    BY <1>3, <1>4, <2>1
<1> QED
  BY <1>1, <1>2, <1>3, <1>5, <1>6, SummaryAddsUp

(* Whatever the import graph, with its cycles and its files that fail,     *)
(* the files looked at are exactly those the directives of merged files    *)
(* lead to, the tree has one node for each directive, and the node counts  *)
(* agree with the files merged (resolve_imports, _merge_file,              *)
(* format_import_tree).                                                    *)
THEOREM ImportsAreComplete == Spec => []ImportsComplete
<1>1. Init => WalkInv /\ CountInv
  BY InitWalkInv, InitCount
<1>2. WalkInv /\ CountInv /\ [Next]_vars => (WalkInv /\ CountInv)'
  BY StepWalkInv, StepCount
<1> QED
  BY <1>1, <1>2, CompleteFromWalk, PTL DEF Spec

-----------------------------------------------------------------------------
(***************************************************************************)
(* What the collection keeps true.                                         *)
(***************************************************************************)

(* The search of one file is Resolver's Looked with its own directory and  *)
(* the -I ones, of what was seen.                                          *)
Own(f) == <<f[1]>> \o SearchDirs

LookedFor(E, V, C, f, j) == Looked(E, V, C[f].imports[j], Own(f))

SeenInv ==
  /\ seen \subseteq DOMAIN content
  /\ macros = <<>> => seen = {}
  /\ macros # <<>> => Main \in DOMAIN content
  /\ pass \in {"collect", "over"} => \A f \in seen : content[f].status # "garbled"

CallsInv ==
  /\ \A k \in 1 .. Len(calls) :
       /\ calls[k].file \in Collected \cup {Main}
       /\ calls[k].next \in 1 .. Len(content[calls[k].file].imports) + 1
       /\ calls[k].dirs = Own(calls[k].file)
       /\ k = 1 => calls[k].file = Main
  /\ pass = "start" => macros = <<>>
  /\ pass = "collect" => calls # <<>>
  /\ pass \in {"start", "over"} => calls = <<>>
  /\ calls # <<>> => macros # <<>>

(* The files whose calls, but for the first, are not over.                 *)
InCalls == {calls[k].file : k \in 2 .. Len(calls)}

CalledInv ==
  /\ \A k \in 1 .. Len(calls) : \A j \in 1 .. calls[k].next - 1 :
       LookedFor(exists, seen, content, calls[k].file, j)
  /\ \A f \in Collected \ InCalls : \A j \in DOMAIN content[f].imports :
       LookedFor(exists, seen, content, f, j)
  /\ pass = "over" /\ macros # <<>> => \A j \in DOMAIN content[Main].imports :
       LookedFor(exists, seen, content, Main, j)

SearchClosed(S) == \A f \in {Main} \cup (S \cap Collected) : LedTo(f) \subseteq S

(* A set closed under the SOURCE directives holds what was seen.           *)
SeenLed == macros # <<>> => \A S \in SUBSET Files : SearchClosed(S) => seen \subseteq S

(* Two entries for the main file and for each file collected.              *)
TableInv ==
  /\ IsFiniteSet(Collected)
  /\ macros # <<>> => Len(macros) = 2 * (1 + Cardinality(Collected))

AgreeInv ==
  macros # <<>> /\ LookedUpAlike => visited \subseteq seen /\ phase # "crashed"

DInv ==
  /\ DTypeOK /\ WalkInv /\ OwnDirFirst /\ CountInv
  /\ SeenInv /\ CallsInv /\ CalledInv /\ SeenLed /\ TableInv

-----------------------------------------------------------------------------
(***************************************************************************)
(* Sequences of frames.                                                    *)
(***************************************************************************)

LEMMA FrontOf ==
  ASSUME NEW S, NEW s \in Seq(S), s # <<>>
  PROVE  /\ Len(s) \in Nat \ {0} /\ Len(s) \in 1 .. Len(s)
         /\ Last(s) = s[Len(s)] /\ Last(s) \in S
         /\ Front(s) \in Seq(S) /\ Len(Front(s)) = Len(s) - 1
         /\ \A k \in 1 .. Len(s) - 1 : Front(s)[k] = s[k]
<1> DEFINE n == Len(s)
           t == SubSeq(s, 1, n - 1)
<1>1. n \in Nat \ {0}
  BY LenProperties, EmptySeq
<1>2. n \in 1 .. n /\ n - 1 \in Int /\ 1 \in Int
  BY <1>1
<1>3. \A k \in 1 .. n : s[k] \in S
  BY ElementOfSeq
<1>4. Last(s) = s[n] /\ Front(s) = t
  BY DEF Last, Front
<1>5. /\ t \in Seq(S)
      /\ Len(t) = IF 1 <= n - 1 THEN n - 1 - 1 + 1 ELSE 0
      /\ \A i \in 1 .. n - 1 - 1 + 1 : t[i] = s[1 + i - 1]
  <2> HIDE DEF n
  <2>1. \A k \in 1 .. n - 1 : s[k] \in S
    BY <1>1, <1>3
  <2> QED
    BY <1>1, <1>2, <2>1, SubSeqProperties
<1> HIDE DEF n, t
<1>6. Len(t) = n - 1 /\ \A k \in 1 .. n - 1 : t[k] = s[k]
  BY <1>1, <1>5
<1> QED
  BY <1>1, <1>2, <1>3, <1>4, <1>5, <1>6 DEF n

LEMMA FrameNext ==
  ASSUME NEW r \in Frame
  PROVE  LET f == [r EXCEPT !.next = r.next + 1]
         IN f \in Frame /\ f.file = r.file /\ f.dirs = r.dirs /\ f.next = r.next + 1
BY DEF Frame

(* The innermost call goes on by one directive.                            *)
LEMMA CallAdvancedFacts ==
  ASSUME calls \in Seq(Frame), calls # <<>>
  PROVE  /\ Len(calls) \in Nat \ {0}
         /\ Call = calls[Len(calls)] /\ Call \in Frame
         /\ CallAdvanced \in Seq(Frame) /\ Len(CallAdvanced) = Len(calls)
         /\ \A k \in 1 .. Len(calls) : /\ CallAdvanced[k].file = calls[k].file
                                       /\ CallAdvanced[k].dirs = calls[k].dirs
                                       /\ k # Len(calls) =>
                                            CallAdvanced[k].next = calls[k].next
         /\ CallAdvanced[Len(calls)].next = Call.next + 1
<1> DEFINE n == Len(calls)
           f == [Call EXCEPT !.next = Call.next + 1]
<1>1. n \in Nat \ {0} /\ Call = calls[n] /\ Call \in Frame /\ n \in 1 .. n
  BY FrontOf DEF Call
<1> HIDE DEF n
<1>2. f \in Frame /\ f.file = Call.file /\ f.dirs = Call.dirs /\ f.next = Call.next + 1
  <2>1. Call \in Frame
    BY <1>1
  <2> QED
    BY <2>1, FrameNext
<1>3. CallAdvanced = Append(Front(calls), f)
  BY DEF CallAdvanced
<1> HIDE DEF n, f
<1>4. /\ CallAdvanced \in Seq(Frame) /\ Len(CallAdvanced) = n
      /\ \A k \in 1 .. n - 1 : CallAdvanced[k] = calls[k]
      /\ CallAdvanced[n] = f
  <2>1. /\ Front(calls) \in Seq(Frame) /\ Len(Front(calls)) = n - 1
        /\ \A k \in 1 .. n - 1 : Front(calls)[k] = calls[k]
    BY FrontOf DEF n
  <2> QED
    BY <1>1, <1>2, <1>3, <2>1, AppendProperties
<1>5. \A k \in 1 .. n : k = n \/ k \in 1 .. n - 1
  BY <1>1
<1>6. \A k \in 1 .. n : /\ CallAdvanced[k].file = calls[k].file
                        /\ CallAdvanced[k].dirs = calls[k].dirs
                        /\ k # n => CallAdvanced[k].next = calls[k].next
  BY <1>1, <1>2, <1>4, <1>5
<1> QED
  BY <1>1, <1>2, <1>4, <1>6 DEF n

-----------------------------------------------------------------------------
(***************************************************************************)
(* Closed sets of the collection, and steps that read one file more.       *)
(***************************************************************************)

SearchClosedIn(E, C, K, S) ==
  \A f \in {Main} \cup (S \cap K) : \A j \in DOMAIN C[f].imports : LookedFor(E, S, C, f, j)

SearchForm == \A S : SearchClosed(S) <=> SearchClosedIn(exists, content, Collected, S)

LEMMA SearchClosedAs == SearchForm
<1> SUFFICES ASSUME NEW S, NEW f \in {Main} \cup (S \cap Collected)
             PROVE  LedTo(f) \subseteq S <=>
                      \A j \in DOMAIN content[f].imports :
                         LookedFor(exists, S, content, f, j)
  BY DEF SearchForm, SearchClosed, SearchClosedIn
<1> DEFINE I == content[f].imports
<1>1. \A n : Range(Nearest(n, f)) = FoundIn(exists, n, Own(f))
  BY FindFacts DEF Nearest, Own
<1>2. LedTo(f) \subseteq S <=>
        \A n \in Range(I) \ {System} : FoundIn(exists, n, Own(f)) \subseteq S
  BY <1>1 DEF LedTo
<1>3. Range(I) = {I[j] : j \in DOMAIN I}
  BY DEF Range
<1> HIDE DEF I
<1>4. LedTo(f) \subseteq S <=>
        \A j \in DOMAIN I : I[j] # System => FoundIn(exists, I[j], Own(f)) \subseteq S
  BY <1>2, <1>3
<1> QED
  BY <1>4 DEF LookedFor, Looked, I

LEMMA SearchClosedNext == SearchForm'
BY SearchClosedAs, PTL

(* Files stay as they were read, and no file is unseen.                    *)
SearchKeeps ==
  /\ \A f \in DOMAIN content : f \in DOMAIN content' /\ content'[f] = content[f]
  /\ seen \subseteq seen' /\ exists' = exists

LEMMA CollectedKept ==
  ASSUME SeenInv, SearchKeeps
  PROVE  /\ \A f \in seen : content'[f] = content[f]
         /\ Collected \subseteq Collected'
         /\ \A f \in Collected' : f \in seen => f \in Collected
BY DEF SeenInv, SearchKeeps, Collected

LEMMA SearchClosedBefore ==
  ASSUME SeenInv, macros # <<>>, SearchKeeps, NEW S, SearchClosed(S)'
  PROVE  SearchClosed(S)
<1>1. SearchClosedIn(exists', content', Collected', S)
  BY SearchClosedNext DEF SearchForm
<1>2. Collected \subseteq Collected' /\ Collected \subseteq DOMAIN content
  BY CollectedKept DEF SeenInv, Collected
<1>3. \A f \in {Main} \cup (S \cap Collected) :
        content'[f] = content[f] /\ f \in {Main} \cup (S \cap Collected')
  BY <1>2 DEF SeenInv, SearchKeeps
<1>4. SearchClosedIn(exists, content, Collected, S)
  <2> HIDE DEF Main
  <2> QED
    BY <1>1, <1>3 DEF SearchClosedIn, LookedFor, SearchKeeps
<1> QED
  BY <1>4, SearchClosedAs DEF SearchForm

(* The directories of the two searches agree on fewer files before.        *)
LEMMA AlikeBefore ==
  ASSUME WalkInv, Keeps, LookedUpAlike',
         \A f \in DOMAIN dirsOf : f \in DOMAIN dirsOf' /\ dirsOf'[f] = dirsOf[f]
  PROVE  LookedUpAlike
<1> SUFFICES ASSUME NEW f \in DOMAIN dirsOf, NEW n \in Range(content[f].imports) \ {System}
             PROVE  Find(n, dirsOf[f]) = Nearest(n, f)
  BY DEF LookedUpAlike
<1>1. f \in DOMAIN content /\ content'[f] = content[f]
  BY DEF WalkInv, ContentInv, Keeps
<1>2. (Find(n, dirsOf[f]) = Nearest(n, f))'
  BY <1>1 DEF LookedUpAlike
<1>3. Find(n, dirsOf[f])' = Find(n, dirsOf'[f]) /\ Nearest(n, f)' = Nearest(n, f)
  BY DEF Find, Nearest, Keeps
<1> QED
  BY <1>2, <1>3

-----------------------------------------------------------------------------
(***************************************************************************)
(* A directive of the innermost call.                                      *)
(***************************************************************************)

LEMMA CallFacts ==
  ASSUME DInv, Reading
  PROVE  /\ calls \in Seq(Frame) /\ calls # <<>> /\ macros # <<>>
         /\ pass = "collect" /\ phase = "main"
         /\ Call.file \in Collected \cup {Main} /\ Call.file \in DOMAIN content
         /\ Call.dirs = Own(Call.file) /\ Call.dirs \in Seq(Dirs)
         /\ Call.next \in 1 .. Len(content[Call.file].imports) + 1
         /\ content[Call.file].imports \in Seq(FileNames \cup {System})
         /\ Len(content[Call.file].imports) \in Nat
         /\ DOMAIN content[Call.file].imports = 1 .. Len(content[Call.file].imports)
<1>1. calls \in Seq(Frame) /\ calls # <<>> /\ pass = "collect" /\ phase = "main"
  BY DEF Reading, DInv, DTypeOK
<1>2. macros # <<>>
  BY <1>1 DEF DInv, CallsInv
<1>3. Len(calls) \in 1 .. Len(calls) /\ Call = calls[Len(calls)] /\ Call \in Frame
  BY <1>1, FrontOf DEF Call
<1>4. /\ Call.file \in Collected \cup {Main} /\ Call.dirs = Own(Call.file)
      /\ Call.next \in 1 .. Len(content[Call.file].imports) + 1
  BY <1>3 DEF DInv, CallsInv
<1>5. Call.dirs \in Seq(Dirs)
  BY <1>3 DEF Frame
<1>6. Call.file \in DOMAIN content
  BY <1>2, <1>4 DEF DInv, SeenInv, Collected
<1>7. content[Call.file].imports \in Seq(FileNames \cup {System})
  BY <1>6 DEF DInv, DTypeOK, TypeOK, Content
<1> QED
  BY <1>1, <1>2, <1>4, <1>5, <1>6, <1>7, LenProperties

LEMMA SourceFacts ==
  ASSUME DInv, Match
  PROVE  /\ Reading
         /\ Call.next \in 1 .. Len(content[Call.file].imports)
         /\ Source = content[Call.file].imports[Call.next]
         /\ Source # System => Source \in FileNames
<1>1. Reading /\ Call.next <= Len(content[Call.file].imports)
  BY DEF Match
<1>2. Call.next \in 1 .. Len(content[Call.file].imports)
  BY <1>1, CallFacts
<1>3. content[Call.file].imports[Call.next] \in FileNames \cup {System}
  BY <1>1, <1>2, CallFacts, ElementOfSeq
<1> QED
  BY <1>1, <1>2, <1>3 DEF Source

(* What a new file is, and that a closed set holds it.                     *)
LEMMA NewFileFacts ==
  ASSUME DInv, NewFile
  PROVE  /\ Match /\ Reading /\ SourceFile \notin seen
         /\ SourceFile \in exists /\ SourceFile \in Files
         /\ FoundIn(exists, Source, Own(Call.file)) = {SourceFile}
         /\ \A S \in SUBSET Files : SearchClosed(S) => SourceFile \in S
<1>1. Match /\ Source # System /\ Find(Source, Call.dirs) # <<>> /\ SourceFile \notin seen
  BY DEF NewFile
<1>2. Reading /\ Source \in FileNames /\ Call.dirs \in Seq(Dirs)
      /\ Call.dirs = Own(Call.file)
  BY <1>1, SourceFacts, CallFacts
<1>3. FoundIn(exists, Source, Call.dirs) = {SourceFile}
  BY <1>1, FindFacts DEF SourceFile
<1>4. SourceFile \in exists /\ SourceFile \in Files
  BY <1>2, <1>3, FoundFacts
<1>5. ASSUME NEW S \in SUBSET Files, SearchClosed(S) PROVE SourceFile \in S
  <2>1. SearchClosedIn(exists, content, Collected, S)
    BY <1>5, SearchClosedAs DEF SearchForm
  <2>2. seen \subseteq S
    BY <1>2, <1>5, CallFacts DEF DInv, SeenLed
  <2>3. Call.file \in {Main} \cup (S \cap Collected)
    BY <1>2, <2>2, CallFacts DEF Collected
  <2>4. LookedFor(exists, S, content, Call.file, Call.next)
    BY <1>1, <1>2, <2>1, <2>3, SourceFacts, CallFacts DEF SearchClosedIn
  <2> QED
    BY <1>1, <1>2, <1>3, <2>4, SourceFacts DEF LookedFor, Looked
<1> QED
  BY <1>1, <1>2, <1>3, <1>4, <1>5

LEMMA TextsFacts ==
  ASSUME DInv, NEW f \in Files, NEW c \in Texts(f)
  PROVE  /\ c \in Content
         /\ f \in DOMAIN content => c = content[f]
         /\ f = Main => c.status = "ok"
<1>1. CASE c \in Contents(f)
  BY <1>1, ContentsFacts DEF DInv, WalkInv
<1>2. CASE c \notin Contents(f)
  <2> HIDE DEF Main
  <2>1. /\ f \notin DOMAIN content \cup {Main}
        /\ \E d \in Contents(f) : c = [d EXCEPT !.status = "bad"]
    BY <1>2 DEF Texts
  <2>2. PICK d \in Contents(f) : c = [d EXCEPT !.status = "bad"]
    BY <2>1
  <2>3. d \in Content
    BY ContentsFacts DEF DInv, WalkInv
  <2>4. c \in Content
    BY <2>2, <2>3 DEF Content, Status
  <2> QED
    BY <2>1, <2>4
<1> QED
  BY <1>1, <1>2

(* The resolver's own invariants while it waits for the collection.        *)
LEMMA WaitingResolver ==
  ASSUME DInv, ResolverUnchanged, phase = "main",
         \/ UNCHANGED content
         \/ \E f \in Files : \E c \in Content :
              /\ f \in DOMAIN content => c = content[f]
              /\ f = Main => c.status = "ok"
              /\ content' = With(content, f, c)
  PROVE  WalkInv' /\ OwnDirFirst' /\ CountInv'
<1>1. /\ UNCHANGED <<exists, phase, stack, visited, merged, literal, template,
                     tree, dirsOf>>
      /\ WalkInv
  BY DEF ResolverUnchanged, DInv
<1>2. WalkInv'
  <2>1. CASE UNCHANGED content
    BY <1>1, <2>1, StutterWalk DEF vars
  <2>2. CASE ~UNCHANGED content
    BY <1>1, <2>2, ReadAheadWalk
  <2> QED
    BY <2>1, <2>2
<1>3. OwnDirFirst' /\ CountInv'
  BY <1>1 DEF DInv, OwnDirFirst, CountInv
<1> QED
  BY <1>2, <1>3

(* A file that the collection reads stays as it was read.                  *)
LEMMA SearchReads ==
  ASSUME DInv, NewFile, NEW c \in Texts(SourceFile),
         content' = With(content, SourceFile, c), seen' = seen \cup {SourceFile},
         ResolverUnchanged
  PROVE  /\ c \in Content /\ SearchKeeps
         /\ DOMAIN content' = DOMAIN content \cup {SourceFile}
         /\ content'[SourceFile] = c
         /\ seen' \subseteq DOMAIN content' /\ seen' \subseteq exists
         /\ LookedFor(exists, seen', content, Call.file, Call.next)
         /\ Collected' = Collected \cup (IF c.status \in {"ok", "bad"}
                                         THEN {SourceFile} ELSE {})
         /\ WalkInv' /\ OwnDirFirst' /\ CountInv'
<1>1. /\ Match /\ Reading /\ SourceFile \notin seen
      /\ SourceFile \in exists /\ SourceFile \in Files
      /\ FoundIn(exists, Source, Own(Call.file)) = {SourceFile}
  BY NewFileFacts
<1>2. /\ c \in Content /\ (SourceFile \in DOMAIN content => c = content[SourceFile])
      /\ (SourceFile = Main => c.status = "ok")
  BY <1>1, TextsFacts
<1>3. /\ DOMAIN content' = DOMAIN content \cup {SourceFile}
      /\ content'[SourceFile] = c
      /\ \A g \in DOMAIN content : content'[g] = content[g]
  BY <1>1, <1>2, ContentKept DEF DInv, WalkInv
<1>4. exists' = exists /\ phase = "main"
  BY <1>1, CallFacts DEF ResolverUnchanged
<1>5. SearchKeeps
  BY <1>3, <1>4 DEF SearchKeeps
<1>6. seen \subseteq DOMAIN content /\ seen \subseteq exists
  BY DEF DInv, SeenInv, DTypeOK
<1>7. seen' \subseteq DOMAIN content' /\ seen' \subseteq exists
  BY <1>1, <1>3, <1>6
<1>8. LookedFor(exists, seen', content, Call.file, Call.next)
  BY <1>1, SourceFacts DEF LookedFor, Looked
<1>9. Collected' = Collected \cup (IF c.status \in {"ok", "bad"} THEN {SourceFile} ELSE {})
  <2>1. \A f \in seen : content'[f] = content[f]
    BY <1>3, <1>6
  <2>2. Collected' = {f \in seen \cup {SourceFile} : content'[f].status \in {"ok", "bad"}}
    BY DEF Collected
  <2>3. \A f : f \in Collected' <=> f \in Collected \/ (f = SourceFile /\ c.status \in {"ok", "bad"})
    BY <1>1, <1>3, <2>1, <2>2 DEF Collected
  <2> QED
    BY <2>3
<1>10. WalkInv' /\ OwnDirFirst' /\ CountInv'
  BY <1>1, <1>2, <1>4, WaitingResolver
<1> QED
  BY <1>2, <1>3, <1>5, <1>7, <1>8, <1>9, <1>10

-----------------------------------------------------------------------------
(***************************************************************************)
(* The steps of the collection.                                            *)
(***************************************************************************)

LEMMA LookedForMore ==
  ASSUME DInv, SearchKeeps, NEW f \in DOMAIN content, NEW j,
         LookedFor(exists, seen, content, f, j)
  PROVE  LookedFor(exists', seen', content', f, j)
BY DEF LookedFor, Looked, SearchKeeps

(* The calls when the innermost has followed one directive more.           *)
LEMMA AdvancedCalls ==
  ASSUME DInv, Match, SearchKeeps,
         LookedFor(exists, seen', content, Call.file, Call.next)
  PROVE  \A k \in 1 .. Len(calls) :
           /\ CallAdvanced[k].file \in Collected' \cup {Main}
           /\ CallAdvanced[k].next \in 1 .. Len(content'[CallAdvanced[k].file].imports) + 1
           /\ CallAdvanced[k].dirs = Own(CallAdvanced[k].file)
           /\ k = 1 => CallAdvanced[k].file = Main
           /\ \A j \in 1 .. CallAdvanced[k].next - 1 :
                LookedFor(exists', seen', content', CallAdvanced[k].file, j)
<1> DEFINE n == Len(calls)
<1>1. /\ Reading /\ Call.next \in 1 .. Len(content[Call.file].imports)
      /\ Len(content[Call.file].imports) \in Nat
      /\ calls \in Seq(Frame) /\ calls # <<>> /\ macros # <<>>
  BY SourceFacts, CallFacts
<1>2. /\ n \in Nat \ {0} /\ Call = calls[n]
      /\ \A k \in 1 .. n : /\ CallAdvanced[k].file = calls[k].file
                           /\ CallAdvanced[k].dirs = calls[k].dirs
                           /\ k # n => CallAdvanced[k].next = calls[k].next
      /\ CallAdvanced[n].next = Call.next + 1
  BY <1>1, CallAdvancedFacts
<1> SUFFICES ASSUME NEW k \in 1 .. n
             PROVE  /\ CallAdvanced[k].file \in Collected' \cup {Main}
                    /\ CallAdvanced[k].next \in
                         1 .. Len(content'[CallAdvanced[k].file].imports) + 1
                    /\ CallAdvanced[k].dirs = Own(CallAdvanced[k].file)
                    /\ k = 1 => CallAdvanced[k].file = Main
                    /\ \A j \in 1 .. CallAdvanced[k].next - 1 :
                         LookedFor(exists', seen', content', CallAdvanced[k].file, j)
  OBVIOUS
<1> DEFINE f == calls[k].file
<1>3. /\ f \in Collected \cup {Main}
      /\ calls[k].next \in 1 .. Len(content[f].imports) + 1
      /\ calls[k].dirs = Own(f) /\ (k = 1 => f = Main)
      /\ \A j \in 1 .. calls[k].next - 1 : LookedFor(exists, seen, content, f, j)
  BY DEF DInv, CallsInv, CalledInv
<1>4. CallAdvanced[k].file = f /\ CallAdvanced[k].dirs = calls[k].dirs
  BY <1>2
<1>5. f \in DOMAIN content /\ content'[f] = content[f] /\ f \in Collected' \cup {Main}
  <2>1. Collected \subseteq Collected'
    BY CollectedKept DEF DInv
  <2>2. f \in DOMAIN content
    BY <1>1, <1>3 DEF DInv, SeenInv, Collected
  <2> QED
    BY <1>3, <2>1, <2>2 DEF SearchKeeps
<1> HIDE DEF n, f
<1>6. CASE k = n
  <2>1. CallAdvanced[k].next = Call.next + 1 /\ Call.next = calls[k].next /\ Call.file = f
    BY <1>2, <1>6 DEF f
  <2>2. CallAdvanced[k].next \in 1 .. Len(content[f].imports) + 1
    BY <1>1, <2>1
  <2>3. ASSUME NEW j \in 1 .. CallAdvanced[k].next - 1
        PROVE  LookedFor(exists', seen', content', f, j)
    <3>1. CASE j = Call.next
      BY <1>5, <2>1, <3>1 DEF LookedFor, SearchKeeps
    <3>2. CASE j # Call.next
      <4>1. j \in 1 .. calls[k].next - 1
        BY <1>1, <2>1, <3>2
      <4> QED
        BY <1>3, <1>5, <4>1, LookedForMore
    <3> QED
      BY <3>1, <3>2
  <2> QED
    BY <1>3, <1>4, <1>5, <2>2, <2>3
<1>7. CASE k # n
  <2>1. CallAdvanced[k].next = calls[k].next
    BY <1>2, <1>7
  <2>2. ASSUME NEW j \in 1 .. CallAdvanced[k].next - 1
        PROVE  LookedFor(exists', seen', content', f, j)
    BY <1>3, <1>5, <2>1, LookedForMore
  <2> QED
    BY <1>3, <1>4, <1>5, <2>1, <2>2
<1> QED
  BY <1>6, <1>7

(* Steps that leave the files collected as they are.                       *)
LEMMA AdvanceSearch ==
  ASSUME DInv, Match, SearchKeeps, calls' = CallAdvanced, Collected' = Collected,
         LookedFor(exists, seen', content, Call.file, Call.next),
         UNCHANGED <<pass, macros>>
  PROVE  CallsInv' /\ CalledInv' /\ TableInv' /\ calls' \in Seq(Frame)
<1> DEFINE n == Len(calls)
<1>1. /\ Reading /\ calls \in Seq(Frame) /\ calls # <<>> /\ macros # <<>>
      /\ pass = "collect"
  BY SourceFacts, CallFacts
<1>2. /\ n \in Nat \ {0} /\ calls' \in Seq(Frame) /\ Len(calls') = n
      /\ \A k \in 1 .. n : calls'[k].file = calls[k].file
  BY <1>1, CallAdvancedFacts
<1> HIDE DEF n
<1>3. \A k \in 1 .. n :
        /\ calls'[k].file \in Collected' \cup {Main}
        /\ calls'[k].next \in 1 .. Len(content'[calls'[k].file].imports) + 1
        /\ calls'[k].dirs = Own(calls'[k].file)
        /\ k = 1 => calls'[k].file = Main
        /\ \A j \in 1 .. calls'[k].next - 1 :
             LookedFor(exists', seen', content', calls'[k].file, j)
  BY AdvancedCalls DEF n
<1>4. calls' # <<>>
  BY <1>2
<1>5. CallsInv'
  BY <1>1, <1>2, <1>3, <1>4 DEF CallsInv
<1>6. InCalls' = InCalls
  BY <1>2 DEF InCalls, n
<1>7. ASSUME NEW f \in Collected \ InCalls, NEW j \in DOMAIN content'[f].imports
      PROVE  LookedFor(exists', seen', content', f, j)
  <2>1. f \in DOMAIN content /\ content'[f] = content[f]
    BY DEF DInv, SeenInv, Collected, SearchKeeps
  <2>2. LookedFor(exists, seen, content, f, j)
    BY <2>1 DEF DInv, CalledInv
  <2> QED
    BY <2>1, <2>2, LookedForMore
<1>8. CalledInv'
  BY <1>1, <1>2, <1>3, <1>6, <1>7 DEF CalledInv
<1>9. TableInv'
  BY DEF DInv, TableInv
<1> QED
  BY <1>2, <1>5, <1>8, <1>9

LEMMA PassByStep == DInv /\ PassBy => DInv'
<1> SUFFICES ASSUME DInv, PassBy PROVE DInv'
  OBVIOUS
<1>1. /\ Match /\ calls' = CallAdvanced /\ ResolverUnchanged
      /\ UNCHANGED <<content, pass, seen, macros>>
      /\ Source = System \/ Range(Find(Source, Call.dirs)) \subseteq seen
  BY DEF PassBy
<1>2. /\ Reading /\ phase = "main" /\ pass = "collect" /\ macros # <<>>
      /\ Call.dirs = Own(Call.file)
      /\ Source = content[Call.file].imports[Call.next]
  BY <1>1, SourceFacts, CallFacts
<1>3. SearchKeeps /\ exists' = exists /\ phase' = phase
  BY <1>1 DEF SearchKeeps, ResolverUnchanged
<1>4. Collected' = Collected
  BY <1>1 DEF Collected
<1>5. LookedFor(exists, seen', content, Call.file, Call.next)
  <2>1. Source # System => FoundIn(exists, Source, Own(Call.file)) \subseteq seen
    BY <1>1, <1>2, FindFacts
  <2> QED
    BY <1>1, <1>2, <2>1 DEF LookedFor, Looked
<1>6. CallsInv' /\ CalledInv' /\ TableInv' /\ calls' \in Seq(Frame)
  BY <1>1, <1>3, <1>4, <1>5, AdvanceSearch
<1>7. WalkInv' /\ OwnDirFirst' /\ CountInv'
  BY <1>1, <1>2, WaitingResolver
<1>8. SeenInv'
  BY <1>1 DEF DInv, SeenInv
<1>9. SeenLed'
  <2>1. \A S : SearchClosed(S)' => SearchClosed(S)
    BY <1>2, <1>3, SearchClosedBefore DEF DInv
  <2> QED
    BY <1>1, <2>1 DEF DInv, SeenLed
<1>10. DTypeOK'
  BY <1>1, <1>2, <1>3, <1>6, <1>7 DEF DInv, DTypeOK, WalkInv
<1> QED
  BY <1>6, <1>7, <1>8, <1>9, <1>10 DEF DInv

(* A new file is in every closed set.                                      *)
LEMMA SeenLedKept ==
  ASSUME DInv, NewFile, SearchKeeps, seen' = seen \cup {SourceFile}
  PROVE  SeenLed'
<1>1. macros # <<>> /\ SeenInv
  BY NewFileFacts, CallFacts DEF DInv
<1>2. ASSUME NEW S \in SUBSET Files, SearchClosed(S)' PROVE seen' \subseteq S
  <2>1. SearchClosed(S)
    BY <1>1, <1>2, SearchClosedBefore
  <2> QED
    BY <1>1, <2>1, NewFileFacts DEF DInv, SeenLed
<1> QED
  BY <1>2 DEF SeenLed

LEMMA UnopenedStep ==
  ASSUME DInv, NEW c \in Texts(SourceFile), Unopened(c)
  PROVE  DInv'
<1>1. /\ NewFile /\ c.status = "lost"
      /\ content' = With(content, SourceFile, c) /\ seen' = seen \cup {SourceFile}
      /\ calls' = CallAdvanced /\ ResolverUnchanged /\ UNCHANGED <<pass, macros>>
  BY DEF Unopened, SeenWith
<1>2. Match /\ Reading /\ phase = "main" /\ pass = "collect" /\ macros # <<>>
  BY <1>1, NewFileFacts, CallFacts
<1>3. /\ c \in Content /\ SearchKeeps
      /\ DOMAIN content' = DOMAIN content \cup {SourceFile} /\ content'[SourceFile] = c
      /\ seen' \subseteq DOMAIN content' /\ seen' \subseteq exists
      /\ LookedFor(exists, seen', content, Call.file, Call.next)
      /\ Collected' = Collected \cup {}
      /\ WalkInv' /\ OwnDirFirst' /\ CountInv'
  BY <1>1, SearchReads
<1>4. CallsInv' /\ CalledInv' /\ TableInv' /\ calls' \in Seq(Frame)
  BY <1>1, <1>2, <1>3, AdvanceSearch
<1>5. SeenInv'
  BY <1>1, <1>2, <1>3 DEF DInv, SeenInv, SearchKeeps
<1>6. SeenLed'
  BY <1>1, <1>3, SeenLedKept
<1>7. DTypeOK'
  <2>1. macros' \in Seq(seen' \cup {Main})
    BY <1>1 DEF DInv, DTypeOK
  <2> QED
    BY <1>1, <1>2, <1>3, <1>4, <2>1 DEF DInv, DTypeOK, WalkInv, ResolverUnchanged
<1> QED
  BY <1>3, <1>4, <1>5, <1>6, <1>7 DEF DInv

LEMMA FailStep ==
  ASSUME DInv, NEW c \in Texts(SourceFile), Fail(c)
  PROVE  DInv'
<1>1. /\ NewFile /\ c.status = "garbled"
      /\ content' = With(content, SourceFile, c) /\ seen' = seen \cup {SourceFile}
      /\ pass' = "failed" /\ ResolverUnchanged /\ UNCHANGED <<calls, macros>>
  BY DEF Fail, SeenWith
<1>2. Match /\ Reading /\ phase = "main" /\ pass = "collect" /\ macros # <<>>
  BY <1>1, NewFileFacts, CallFacts
<1>3. /\ c \in Content /\ SearchKeeps
      /\ DOMAIN content' = DOMAIN content \cup {SourceFile} /\ content'[SourceFile] = c
      /\ seen' \subseteq DOMAIN content' /\ seen' \subseteq exists
      /\ Collected' = Collected \cup {}
      /\ WalkInv' /\ OwnDirFirst' /\ CountInv'
  BY <1>1, SearchReads
<1>4. \A f \in Collected \cup {Main} : f \in DOMAIN content /\ content'[f] = content[f]
  BY <1>2, <1>3 DEF DInv, SeenInv, Collected, SearchKeeps
<1>5. CallsInv'
  <2>1. \A k \in 1 .. Len(calls) :
          /\ calls[k].file \in Collected \cup {Main}
          /\ calls[k].next \in 1 .. Len(content'[calls[k].file].imports) + 1
          /\ calls[k].dirs = Own(calls[k].file)
          /\ k = 1 => calls[k].file = Main
    BY <1>4 DEF DInv, CallsInv
  <2> QED
    BY <1>1, <1>2, <1>3, <2>1 DEF CallsInv
<1>6. CalledInv'
  <2>1. \A k \in 1 .. Len(calls) : \A j \in 1 .. calls[k].next - 1 :
          LookedFor(exists', seen', content', calls[k].file, j)
    BY <1>3, <1>4, LookedForMore DEF DInv, CalledInv, CallsInv
  <2>2. ASSUME NEW f \in Collected \ InCalls, NEW j \in DOMAIN content'[f].imports
        PROVE  LookedFor(exists', seen', content', f, j)
    <3>1. f \in DOMAIN content /\ content'[f] = content[f]
      BY <1>4
    <3>2. LookedFor(exists, seen, content, f, j)
      BY <3>1 DEF DInv, CalledInv
    <3> QED
      BY <1>3, <3>1, <3>2, LookedForMore
  <2>3. InCalls' = InCalls
    BY <1>1 DEF InCalls
  <2> QED
    BY <1>1, <1>3, <2>1, <2>2, <2>3 DEF CalledInv
<1>7. TableInv'
  BY <1>1, <1>3 DEF DInv, TableInv
<1>8. SeenInv'
  BY <1>1, <1>2, <1>3 DEF DInv, SeenInv, SearchKeeps
<1>9. SeenLed'
  BY <1>1, <1>3, SeenLedKept
<1>10. DTypeOK'
  <2>1. macros' \in Seq(seen' \cup {Main})
    BY <1>1 DEF DInv, DTypeOK
  <2> QED
    BY <1>1, <1>2, <1>3, <2>1 DEF DInv, DTypeOK, WalkInv, ResolverUnchanged
<1> QED
  BY <1>3, <1>5, <1>6, <1>7, <1>8, <1>9, <1>10 DEF DInv

LEMMA CollectStep ==
  ASSUME DInv, NEW c \in Texts(SourceFile), Collect(c)
  PROVE  DInv'
<1> DEFINE n == Len(calls)
           g == [file |-> SourceFile, next |-> 1, dirs |-> CallDirs(SourceFile, Call.dirs)]
<1>1. /\ NewFile /\ c.status \in {"ok", "bad"}
      /\ content' = With(content, SourceFile, c) /\ seen' = seen \cup {SourceFile}
      /\ macros' = macros \o <<SourceFile, SourceFile>>
      /\ calls' = Append(CallAdvanced, g)
      /\ ResolverUnchanged /\ UNCHANGED pass
  BY DEF Collect, SeenWith
<1>2. /\ Match /\ Reading /\ phase = "main" /\ pass = "collect" /\ macros # <<>>
      /\ calls \in Seq(Frame) /\ calls # <<>>
  BY <1>1, NewFileFacts, CallFacts
<1>3. /\ c \in Content /\ SearchKeeps
      /\ DOMAIN content' = DOMAIN content \cup {SourceFile} /\ content'[SourceFile] = c
      /\ seen' \subseteq DOMAIN content' /\ seen' \subseteq exists
      /\ LookedFor(exists, seen', content, Call.file, Call.next)
      /\ Collected' = Collected \cup {SourceFile}
      /\ WalkInv' /\ OwnDirFirst' /\ CountInv'
  BY <1>1, SearchReads
<1>4. SourceFile \in Files /\ SourceFile[1] \in Dirs /\ SourceFile \notin seen
  BY <1>1, NewFileFacts DEF Files
<1>5. /\ g \in Frame /\ g.file = SourceFile /\ g.next = 1 /\ g.dirs = Own(SourceFile)
  <2>1. <<SourceFile[1]>> \in Seq(Dirs) /\ SearchDirs \in Seq(Dirs)
    BY <1>4, PathFacts
  <2>2. CallDirs(SourceFile, Call.dirs) \in Seq(Dirs)
        /\ CallDirs(SourceFile, Call.dirs) = Own(SourceFile)
    BY <2>1, ConcatProperties DEF CallDirs, Own
  <2> QED
    BY <1>4, <2>2 DEF Frame
<1> HIDE DEF n, g
<1>6. /\ n \in Nat \ {0} /\ CallAdvanced \in Seq(Frame) /\ Len(CallAdvanced) = n
      /\ \A k \in 1 .. n : CallAdvanced[k].file = calls[k].file
  BY <1>2, CallAdvancedFacts DEF n
<1>7. /\ calls' \in Seq(Frame) /\ Len(calls') = n + 1
      /\ \A k \in 1 .. n : calls'[k] = CallAdvanced[k]
      /\ calls'[n + 1] = g
  BY <1>1, <1>5, <1>6, AppendProperties
<1>8. \A k \in 1 .. n + 1 : k \in 1 .. n \/ (k = n + 1 /\ k # 1 /\ k \notin 1 .. n)
  BY <1>6
<1>9. \A k \in 1 .. n :
        /\ calls'[k].file \in Collected' \cup {Main}
        /\ calls'[k].next \in 1 .. Len(content'[calls'[k].file].imports) + 1
        /\ calls'[k].dirs = Own(calls'[k].file)
        /\ k = 1 => calls'[k].file = Main
        /\ \A j \in 1 .. calls'[k].next - 1 :
             LookedFor(exists', seen', content', calls'[k].file, j)
  BY <1>2, <1>3, <1>7, AdvancedCalls DEF n
<1>10. /\ calls'[n + 1].file = SourceFile /\ SourceFile \in Collected' \cup {Main}
       /\ calls'[n + 1].next = 1 /\ calls'[n + 1].dirs = Own(SourceFile)
       /\ 1 \in 1 .. Len(content'[SourceFile].imports) + 1
  <2>1. Len(c.imports) \in Nat
    BY <1>3, LenProperties DEF Content
  <2>2. 1 \in 1 .. Len(c.imports) + 1
    BY <2>1
  <2> QED
    BY <1>3, <1>5, <1>7, <2>2
<1>11. ASSUME NEW k \in 1 .. n + 1
       PROVE  /\ calls'[k].file \in Collected' \cup {Main}
              /\ calls'[k].next \in 1 .. Len(content'[calls'[k].file].imports) + 1
              /\ calls'[k].dirs = Own(calls'[k].file)
              /\ k = 1 => calls'[k].file = Main
              /\ \A j \in 1 .. calls'[k].next - 1 :
                   LookedFor(exists', seen', content', calls'[k].file, j)
  <2>1. CASE k \in 1 .. n
    BY <1>9, <2>1
  <2>2. CASE k = n + 1 /\ k # 1
    <3>1. \A j \in 1 .. calls'[k].next - 1 : FALSE
      BY <1>10, <2>2
    <3> QED
      BY <1>10, <2>2, <3>1
  <2> QED
    BY <1>8, <2>1, <2>2
<1>12. calls' # <<>> /\ macros' # <<>>
  <2>1. macros' \in Seq(seen' \cup {Main}) /\ Len(macros') = Len(macros) + 2
        /\ Len(macros) \in Nat
    <3>1. macros \in Seq(seen' \cup {Main})
          /\ <<SourceFile, SourceFile>> \in Seq(seen' \cup {Main})
          /\ Len(<<SourceFile, SourceFile>>) = 2
      BY <1>1 DEF DInv, DTypeOK
    <3> QED
      BY <1>1, <3>1, ConcatProperties, LenProperties
  <2> QED
    BY <1>6, <1>7, <2>1
<1>13. CallsInv'
  BY <1>1, <1>2, <1>7, <1>11, <1>12 DEF CallsInv
<1>14. InCalls' = InCalls \cup {SourceFile}
  <2>1. \A k : k \in 2 .. n + 1 <=> k \in 2 .. n \/ k = n + 1
    BY <1>6
  <2>2. \A k \in 2 .. n : calls'[k].file = calls[k].file
    BY <1>6, <1>7
  <2>3. InCalls' = {calls'[k].file : k \in 2 .. n + 1}
    BY <1>7 DEF InCalls
  <2>4. InCalls = {calls[k].file : k \in 2 .. n}
    BY DEF InCalls, n
  <2> QED
    BY <1>10, <2>1, <2>2, <2>3, <2>4
<1>15. ASSUME NEW f \in Collected' \ InCalls', NEW j \in DOMAIN content'[f].imports
       PROVE  LookedFor(exists', seen', content', f, j)
  <2>1. f \in Collected \ InCalls
    BY <1>3, <1>14
  <2>2. f \in DOMAIN content /\ content'[f] = content[f]
    BY <1>3, <2>1 DEF DInv, SeenInv, Collected, SearchKeeps
  <2>3. LookedFor(exists, seen, content, f, j)
    BY <2>1, <2>2 DEF DInv, CalledInv
  <2> QED
    BY <1>3, <2>2, <2>3, LookedForMore
<1>16. CalledInv'
  BY <1>1, <1>2, <1>7, <1>11, <1>15 DEF CalledInv
<1>17. macros' \in Seq(seen' \cup {Main}) /\ TableInv'
  <2>1. macros \in Seq(seen' \cup {Main})
        /\ <<SourceFile, SourceFile>> \in Seq(seen' \cup {Main})
        /\ Len(<<SourceFile, SourceFile>>) = 2
    BY <1>1 DEF DInv, DTypeOK
  <2>2. macros' \in Seq(seen' \cup {Main}) /\ Len(macros') = Len(macros) + 2
    BY <1>1, <2>1, ConcatProperties
  <2>3. IsFiniteSet(Collected) /\ Len(macros) = 2 * (1 + Cardinality(Collected))
    BY <1>2 DEF DInv, TableInv
  <2>4. SourceFile \notin Collected
    BY <1>4 DEF Collected
  <2>5. /\ IsFiniteSet(Collected') /\ Cardinality(Collected') = Cardinality(Collected) + 1
        /\ Cardinality(Collected) \in Nat
    BY <1>3, <2>3, <2>4, FS_AddElement, FS_CardinalityType
  <2>6. Len(macros') = 2 * (1 + Cardinality(Collected'))
    BY <2>2, <2>3, <2>5
  <2> QED
    BY <2>2, <2>5, <2>6 DEF TableInv
<1>18. SeenInv'
  BY <1>1, <1>2, <1>3, <1>12 DEF DInv, SeenInv, SearchKeeps
<1>19. SeenLed'
  BY <1>1, <1>3, SeenLedKept
<1>20. DTypeOK'
  BY <1>1, <1>2, <1>3, <1>7, <1>17 DEF DInv, DTypeOK, WalkInv, ResolverUnchanged
<1> QED
  BY <1>3, <1>13, <1>16, <1>17, <1>18, <1>19, <1>20 DEF DInv

LEMMA SkipStep == DInv /\ Skip => DInv'
<1> SUFFICES ASSUME DInv, Skip PROVE DInv'
  OBVIOUS
<1>1. /\ pass = "start" /\ pass' = "over" /\ ResolverUnchanged
      /\ UNCHANGED <<content, calls, seen, macros>>
  BY DEF Skip
<1>2. phase = "main" /\ macros = <<>> /\ seen = {} /\ calls = <<>>
  BY <1>1 DEF DInv, DTypeOK, CallsInv, SeenInv
<1>3. WalkInv' /\ OwnDirFirst' /\ CountInv'
  BY <1>1, <1>2, WaitingResolver
<1>4. Collected' = Collected /\ Collected = {} /\ Len(calls) = 0
  BY <1>1, <1>2 DEF Collected
<1>5. SeenInv' /\ CallsInv' /\ TableInv' /\ SeenLed'
  BY <1>1, <1>2, <1>4 DEF DInv, SeenInv, CallsInv, TableInv, SeenLed
<1>6. CalledInv'
  BY <1>1, <1>2, <1>4 DEF CalledInv
<1>7. DTypeOK'
  BY <1>1, <1>2, <1>3 DEF DInv, DTypeOK, WalkInv, ResolverUnchanged
<1> QED
  BY <1>3, <1>5, <1>6, <1>7 DEF DInv

LEMMA StartStep ==
  ASSUME DInv, NEW c \in Contents(Main), Start(c)
  PROVE  DInv'
<1> DEFINE g == [file |-> Main, next |-> 1, dirs |-> CallDirs(Main, <<>>)]
<1>1. /\ pass = "start" /\ pass' = "collect"
      /\ content' = With(content, Main, c)
      /\ macros' = <<Main, Main>> /\ calls' = <<g>>
      /\ ResolverUnchanged /\ UNCHANGED seen
  BY DEF Start
<1>2. phase = "main" /\ macros = <<>> /\ seen = {}
  BY <1>1 DEF DInv, DTypeOK, CallsInv, SeenInv
<1>3. Main \in Files
  BY PathFacts
<1>4. c \in Content /\ c.status = "ok" /\ (Main \in DOMAIN content => c = content[Main])
  BY <1>3, ContentsFacts DEF DInv, WalkInv
<1>5. WalkInv' /\ OwnDirFirst' /\ CountInv'
  BY <1>1, <1>2, <1>3, <1>4, WaitingResolver
<1>6. Main \in DOMAIN content' /\ content'[Main] = c
  BY <1>1 DEF With
<1>7. /\ g \in Frame /\ g.file = Main /\ g.next = 1 /\ g.dirs = Own(Main)
  <2>1. <<Main[1]>> \in Seq(Dirs) /\ SearchDirs \in Seq(Dirs)
    BY PathFacts DEF Main
  <2>2. CallDirs(Main, <<>>) \in Seq(Dirs) /\ CallDirs(Main, <<>>) = Own(Main)
    BY <2>1, ConcatProperties DEF CallDirs, Own
  <2> HIDE DEF Main
  <2> QED
    BY <1>3, <2>2 DEF Frame
<1> HIDE DEF Main, g
<1>8. /\ Len(calls') = 1 /\ calls'[1] = g /\ calls' # <<>> /\ calls' \in Seq(Frame)
      /\ Len(macros') = 2 /\ macros' # <<>> /\ macros' \in Seq(seen' \cup {Main})
  BY <1>1, <1>7
<1>9. \A k : k \in 1 .. 1 <=> k = 1
  OBVIOUS
<1>10. Collected' = {} /\ seen' = {}
  BY <1>1, <1>2 DEF Collected
<1>11. CallsInv'
  <2>1. Len(c.imports) \in Nat
    BY <1>4, LenProperties DEF Content
  <2>2. 1 \in 1 .. Len(c.imports) + 1
    BY <2>1
  <2>3. \A k \in 1 .. 1 :
          /\ calls'[k].file \in Collected' \cup {Main}
          /\ calls'[k].next \in 1 .. Len(content'[calls'[k].file].imports) + 1
          /\ calls'[k].dirs = Own(calls'[k].file)
          /\ k = 1 => calls'[k].file = Main
    BY <1>6, <1>7, <1>8, <1>9, <2>2
  <2> QED
    BY <1>1, <1>8, <2>3 DEF CallsInv
<1>12. CalledInv'
  <2>1. \A k \in 1 .. Len(calls') : \A j \in 1 .. calls'[k].next - 1 : FALSE
    BY <1>7, <1>8, <1>9
  <2> QED
    BY <1>1, <1>10, <2>1 DEF CalledInv
<1>13. TableInv'
  <2>1. IsFiniteSet({}) /\ Cardinality({}) = 0
    BY FS_EmptySet
  <2> QED
    BY <1>8, <1>10, <2>1 DEF TableInv
<1>14. SeenInv' /\ SeenLed'
  BY <1>6, <1>8, <1>10 DEF SeenInv, SeenLed
<1>15. DTypeOK'
  BY <1>1, <1>2, <1>5, <1>8, <1>10 DEF DInv, DTypeOK, WalkInv, ResolverUnchanged
<1> QED
  BY <1>5, <1>11, <1>12, <1>13, <1>14, <1>15 DEF DInv

(* A call ends when all directives of its file have been followed.         *)
LEMMA FinishStep == DInv /\ Finish => DInv'
<1> SUFFICES ASSUME DInv, Finish PROVE DInv'
  OBVIOUS
<1> DEFINE n == Len(calls)
<1>1. /\ Reading /\ Call.next > Len(content[Call.file].imports)
      /\ calls' = Front(calls)
      /\ pass' = IF n = 1 THEN "over" ELSE pass
      /\ ResolverUnchanged /\ UNCHANGED <<content, seen, macros>>
  BY DEF Finish
<1>2. /\ phase = "main" /\ pass = "collect" /\ macros # <<>>
      /\ calls \in Seq(Frame) /\ calls # <<>>
      /\ Call.next \in 1 .. Len(content[Call.file].imports) + 1
      /\ Len(content[Call.file].imports) \in Nat
      /\ DOMAIN content[Call.file].imports = 1 .. Len(content[Call.file].imports)
  BY <1>1, CallFacts
<1>3. /\ n \in Nat \ {0} /\ n \in 1 .. n /\ Call = calls[n]
      /\ calls' \in Seq(Frame) /\ Len(calls') = n - 1
      /\ \A k \in 1 .. n - 1 : calls'[k] = calls[k]
  BY <1>1, <1>2, FrontOf DEF Call
<1>4. calls' = <<>> <=> n = 1
  BY <1>3, EmptySeq
<1>5. \A j \in DOMAIN content[Call.file].imports :
        LookedFor(exists, seen, content, Call.file, j)
  <2>1. \A j \in 1 .. calls[n].next - 1 :
          LookedFor(exists, seen, content, calls[n].file, j)
    BY <1>3 DEF DInv, CalledInv
  <2>2. Call.next - 1 = Len(content[Call.file].imports)
    BY <1>1, <1>2
  <2> QED
    BY <1>2, <1>3, <2>1, <2>2
<1>6. exists' = exists /\ phase' = phase /\ Collected' = Collected
  BY <1>1 DEF ResolverUnchanged, Collected
<1>7. WalkInv' /\ OwnDirFirst' /\ CountInv'
  BY <1>1, <1>2, WaitingResolver
<1>8. pass' \in {"collect", "over"}
  BY <1>1, <1>2
<1>9. CallsInv'
  <2>1. \A k \in 1 .. n - 1 :
          /\ calls[k].file \in Collected \cup {Main}
          /\ calls[k].next \in 1 .. Len(content[calls[k].file].imports) + 1
          /\ calls[k].dirs = Own(calls[k].file)
          /\ k = 1 => calls[k].file = Main
    BY <1>3 DEF DInv, CallsInv
  <2>2. \A k \in 1 .. Len(calls') :
          /\ calls'[k].file \in Collected' \cup {Main}
          /\ calls'[k].next \in 1 .. Len(content'[calls'[k].file].imports) + 1
          /\ calls'[k].dirs = Own(calls'[k].file)
          /\ k = 1 => calls'[k].file = Main
    <3> HIDE DEF n
    <3> QED
      BY <1>1, <1>3, <1>6, <2>1
  <2> QED
    BY <1>1, <1>2, <1>4, <1>8, <2>2 DEF CallsInv
<1>10. CalledInv'
  <2>1. \A k \in 1 .. Len(calls') : \A j \in 1 .. calls'[k].next - 1 :
          LookedFor(exists', seen', content', calls'[k].file, j)
    BY <1>1, <1>3, <1>6 DEF DInv, CalledInv
  <2>2. ASSUME NEW f \in Collected \ InCalls', NEW j \in DOMAIN content[f].imports
        PROVE  LookedFor(exists, seen, content, f, j)
    <3>1. CASE f \in InCalls
      <4>1. PICK k \in 2 .. n : f = calls[k].file
        BY <3>1 DEF InCalls
      <4>2. k = n
        <5>1. InCalls' = {calls'[m].file : m \in 2 .. n - 1}
          BY <1>3 DEF InCalls
        <5>2. k \notin 2 .. n - 1
          <6> HIDE DEF n
          <6>1. ASSUME k \in 2 .. n - 1 PROVE calls'[k].file = f
            BY <1>3, <4>1, <6>1
          <6> QED
            BY <5>1, <6>1
        <5> QED
          BY <1>3, <5>2
      <4> QED
        BY <1>3, <1>5, <4>1, <4>2
    <3>2. CASE f \notin InCalls
      BY <3>2 DEF DInv, CalledInv
    <3> QED
      BY <3>1, <3>2
  <2>3. ASSUME pass' = "over", NEW j \in DOMAIN content[Main].imports
        PROVE  LookedFor(exists, seen, content, Main, j)
    <3>1. n = 1
      BY <1>1, <1>2, <2>3
    <3>2. Call.file = Main
      BY <1>3, <3>1 DEF DInv, CallsInv
    <3> QED
      BY <1>5, <3>2
  <2> QED
    BY <1>1, <1>6, <2>1, <2>2, <2>3 DEF CalledInv
<1>11. SeenInv' /\ TableInv'
  BY <1>1, <1>2, <1>6, <1>8 DEF DInv, SeenInv, TableInv
<1>12. SeenLed'
  <2>1. SearchKeeps
    BY <1>1, <1>6 DEF SearchKeeps
  <2>2. \A S : SearchClosed(S)' => SearchClosed(S)
    BY <1>2, <2>1, SearchClosedBefore DEF DInv
  <2> QED
    BY <1>1, <2>2 DEF DInv, SeenLed
<1>13. DTypeOK'
  BY <1>1, <1>2, <1>3, <1>6, <1>7, <1>8 DEF DInv, DTypeOK, WalkInv
<1> QED
  BY <1>7, <1>9, <1>10, <1>11, <1>12, <1>13 DEF DInv

-----------------------------------------------------------------------------
(***************************************************************************)
(* The steps of the resolver, which runs when the collection is over.      *)
(***************************************************************************)

LEMMA ResolverKeeps ==
  ASSUME WalkInv, Next
  PROVE  /\ Keeps
         /\ \A f \in DOMAIN dirsOf : f \in DOMAIN dirsOf' /\ dirsOf'[f] = dirsOf[f]
<1>1. ASSUME NEW c \in Contents(Main), Parse(c)
      PROVE  Keeps /\ UNCHANGED dirsOf
  <2>1. Main \in Files /\ content' = With(content, Main, c)
        /\ UNCHANGED <<exists, visited, dirsOf>>
    BY <1>1, PathFacts DEF Parse
  <2>2. c \in Content /\ (Main \in DOMAIN content => c = content[Main])
    BY <2>1, ContentsFacts DEF WalkInv
  <2> QED
    BY <2>1, <2>2, ContentKept DEF WalkInv, Keeps
<1>2. CASE SystemImport \/ Missing \/ AlreadyVisited \/ Return \/ ResolveTemplates
  BY <1>2 DEF SystemImport, Missing, AlreadyVisited, Return, ResolveTemplates, Keeps
<1>3. ASSUME NEW c \in (IF Found THEN Contents(Target) ELSE {}),
             Drop(c) \/ Crash(c) \/ Merge(c)
      PROVE  /\ Keeps
             /\ UNCHANGED dirsOf \/ dirsOf' = With(dirsOf, Target, SubDirs(Target))
             /\ Target \notin DOMAIN dirsOf
  <2>1. /\ c \in Contents(Target) /\ Found /\ Target \notin visited
        /\ content' = With(content, Target, c) /\ visited' = visited \cup {Target}
        /\ UNCHANGED exists
        /\ UNCHANGED dirsOf \/ dirsOf' = With(dirsOf, Target, SubDirs(Target))
    BY <1>3 DEF Drop, Crash, Merge, Entered
  <2> QED
    BY <2>1, ReadTarget DEF WalkInv, ContentInv
<1>4. CASE \E c \in (IF Found THEN Contents(Target) ELSE {}) :
             Drop(c) \/ Crash(c) \/ Merge(c)
  BY <1>3, <1>4 DEF With
<1> QED
  BY <1>1, <1>2, <1>4 DEF Next

(* The collection's state is not touched.                                  *)
LEMMA SearchIdle ==
  ASSUME DInv, Keeps, UNCHANGED dvars
  PROVE  SeenInv' /\ CallsInv' /\ CalledInv' /\ SeenLed' /\ TableInv'
<1>1. UNCHANGED <<pass, calls, seen, macros>> /\ exists' = exists
  BY DEF dvars, Keeps
<1>2. SearchKeeps
  BY <1>1 DEF SearchKeeps, Keeps
<1>3. /\ \A f \in seen : f \in DOMAIN content /\ content'[f] = content[f]
      /\ seen \subseteq DOMAIN content'
  BY <1>2 DEF DInv, SeenInv, SearchKeeps
<1>4. Collected' = Collected
  BY <1>1, <1>3 DEF Collected
<1>5. macros # <<>> => Main \in DOMAIN content /\ content'[Main] = content[Main]
                       /\ Main \in DOMAIN content'
  BY <1>2 DEF DInv, SeenInv, SearchKeeps
<1>6. SeenInv'
  BY <1>1, <1>3, <1>5 DEF DInv, SeenInv
<1>7. \A k \in 1 .. Len(calls) : /\ calls[k].file \in DOMAIN content
                                 /\ content'[calls[k].file] = content[calls[k].file]
  <2>1. Len(calls) # 0 => macros # <<>>
    BY DEF DInv, CallsInv
  <2>2. \A k \in 1 .. Len(calls) : Len(calls) # 0
    BY LenProperties DEF DInv, DTypeOK
  <2>3. \A k \in 1 .. Len(calls) : calls[k].file \in Collected \cup {Main}
    BY DEF DInv, CallsInv
  <2> QED
    BY <1>3, <1>5, <2>1, <2>2, <2>3 DEF Collected
<1>8. CallsInv'
  BY <1>1, <1>4, <1>7 DEF DInv, CallsInv
<1>9. CalledInv'
  <2>1. InCalls' = InCalls
    BY <1>1 DEF InCalls
  <2>2. \A k \in 1 .. Len(calls) : \A j \in 1 .. calls[k].next - 1 :
          LookedFor(exists', seen', content', calls[k].file, j)
    BY <1>2, <1>7, LookedForMore DEF DInv, CalledInv
  <2>3. \A f \in Collected \ InCalls : \A j \in DOMAIN content'[f].imports :
          LookedFor(exists', seen', content', f, j)
    BY <1>2, <1>3, LookedForMore DEF DInv, CalledInv, Collected
  <2>4. pass = "over" /\ macros # <<>> => \A j \in DOMAIN content'[Main].imports :
          LookedFor(exists', seen', content', Main, j)
    BY <1>2, <1>5, LookedForMore DEF DInv, CalledInv
  <2> QED
    BY <1>1, <1>4, <2>1, <2>2, <2>3, <2>4 DEF CalledInv
<1>10. TableInv'
  BY <1>1, <1>4 DEF DInv, TableInv
<1>11. SeenLed'
  <2>1. macros # <<>> => \A S : SearchClosed(S)' => SearchClosed(S)
    BY <1>2, SearchClosedBefore DEF DInv
  <2> QED
    BY <1>1, <2>1 DEF DInv, SeenLed
<1> QED
  BY <1>6, <1>8, <1>9, <1>10, <1>11

LEMMA ResolverStep ==
  ASSUME DInv, pass = "over", Next, UNCHANGED dvars
  PROVE  DInv'
<1>1. Keeps
  BY ResolverKeeps DEF DInv
<1>2. WalkInv' /\ OwnDirFirst' /\ CountInv'
  BY StepWalkInv, StepOwnDirFirst, StepCount DEF DInv
<1>3. SeenInv' /\ CallsInv' /\ CalledInv' /\ SeenLed' /\ TableInv'
  BY <1>1, SearchIdle
<1>4. DTypeOK'
  BY <1>1, <1>2 DEF DInv, DTypeOK, WalkInv, dvars, Keeps
<1> QED
  BY <1>2, <1>3, <1>4 DEF DInv

LEMMA InitDInv == DInit => DInv
<1> SUFFICES ASSUME DInit PROVE DInv
  OBVIOUS
<1>1. /\ Init /\ pass = "start" /\ calls = <<>> /\ seen = {} /\ macros = <<>>
      /\ phase = "main" /\ content = <<>>
  BY DEF DInit, Init
<1>2. WalkInv /\ OwnDirFirst /\ CountInv
  BY <1>1, InitWalkInv, InitOwnDirFirst, InitCount
<1>3. Collected = {} /\ Len(calls) = 0 /\ IsFiniteSet({})
  BY <1>1, FS_EmptySet DEF Collected
<1>4. SeenInv /\ CallsInv /\ TableInv /\ SeenLed
  BY <1>1, <1>3 DEF SeenInv, CallsInv, TableInv, SeenLed
<1>5. CalledInv
  BY <1>1, <1>3 DEF CalledInv
<1>6. DTypeOK
  BY <1>1, <1>2 DEF DTypeOK, WalkInv
<1> QED
  BY <1>2, <1>4, <1>5, <1>6 DEF DInv

LEMMA StepDInv == DInv /\ [DNext]_<<vars, dvars>> => DInv'
<1> SUFFICES ASSUME DInv, [DNext]_<<vars, dvars>> PROVE DInv'
  OBVIOUS
<1>1. CASE Skip
  BY <1>1, SkipStep
<1>2. ASSUME NEW c \in Contents(Main), Start(c) PROVE DInv'
  BY <1>2, StartStep
<1>3. CASE PassBy
  BY <1>3, PassByStep
<1>4. ASSUME NEW c \in (IF NewFile THEN Texts(SourceFile) ELSE {}),
             Collect(c) \/ Unopened(c) \/ Fail(c)
      PROVE  DInv'
  <2>1. c \in Texts(SourceFile)
    BY <1>4
  <2> QED
    BY <1>4, <2>1, CollectStep, UnopenedStep, FailStep
<1>5. CASE Finish
  BY <1>5, FinishStep
<1>6. CASE pass = "over" /\ Next /\ UNCHANGED dvars
  BY <1>6, ResolverStep
<1>7. CASE UNCHANGED <<vars, dvars>>
  <2>1. UNCHANGED vars /\ UNCHANGED dvars
    BY <1>7
  <2>2. /\ UNCHANGED <<exists, content, phase, visited, dirsOf>>
        /\ UNCHANGED <<pass, calls, seen, macros>>
    BY <2>1 DEF vars, dvars
  <2>3. Keeps
    BY <2>2 DEF Keeps
  <2>4. WalkInv' /\ OwnDirFirst' /\ CountInv'
    BY <2>1, StepWalkInv, StepOwnDirFirst, StepCount DEF DInv
  <2>5. SeenInv' /\ CallsInv' /\ CalledInv' /\ SeenLed' /\ TableInv'
    BY <2>1, <2>3, SearchIdle
  <2>6. DTypeOK'
    BY <2>2, <2>4 DEF DInv, DTypeOK, WalkInv
  <2> QED
    BY <2>4, <2>5, <2>6 DEF DInv
<1> QED
  BY <1>1, <1>2, <1>3, <1>4, <1>5, <1>6, <1>7 DEF DNext

-----------------------------------------------------------------------------
(***************************************************************************)
(* The two searches agree.                                                 *)
(***************************************************************************)

(* What the resolver finds was seen by the collection before.              *)
LEMMA TargetSeen ==
  ASSUME DInv, pass = "over", macros # <<>>, LookedUpAlike, visited \subseteq seen, Found
  PROVE  Target \in seen
<1>1. More /\ Import # System
  BY DEF Found
<1>2. /\ stack # <<>> /\ Top.next \in DOMAIN content[Top.file].imports
      /\ Import = content[Top.file].imports[Top.next]
  BY <1>1, ImportFacts, TopFacts DEF DInv
<1>3. Len(stack) \in Nat \ {0} /\ Top = stack[Len(stack)]
      /\ FoundIn(exists, Import, Top.dirs) = {Target}
  BY <1>2, TopFacts, TargetFacts DEF DInv
<1>4. InCalls = {}
  <2>1. Len(calls) = 0
    BY DEF DInv, CallsInv
  <2> QED
    BY <2>1 DEF InCalls
<1>5. CASE Len(stack) = 1
  <2>1. Top.file = Main /\ Top.dirs = SearchPath
    BY <1>3, <1>5 DEF DInv, WalkInv, StackInv
  <2>2. Own(Main) = SearchPath
    BY DEF Own, SearchPath, Main
  <2>3. LookedFor(exists, seen, content, Main, Top.next)
    BY <1>2, <2>1 DEF DInv, CalledInv
  <2> QED
    BY <1>1, <1>2, <1>3, <2>1, <2>2, <2>3 DEF LookedFor, Looked
<1>6. CASE Len(stack) # 1
  <2>1. Len(stack) \in 1 .. Len(stack) /\ Len(stack) > 1
    BY <1>3, <1>6
  <2>2. Top.file \in DOMAIN dirsOf /\ Top.dirs = dirsOf[Top.file]
    BY <1>3, <2>1 DEF DInv, WalkInv, StackInv
  <2>3. Top.file \in Collected
    BY <2>2 DEF DInv, WalkInv, ContentInv, Collected
  <2>4. LookedFor(exists, seen, content, Top.file, Top.next)
    BY <1>2, <1>4, <2>3 DEF DInv, CalledInv
  <2>5. Import \in Range(content[Top.file].imports) \ {System}
    BY <1>1, <1>2 DEF Range
  <2>6. Find(Import, Top.dirs) = Find(Import, Own(Top.file))
    BY <2>2, <2>5 DEF LookedUpAlike, Nearest, Own
  <2>7. FoundIn(exists, Import, Own(Top.file)) = {Target}
    BY <1>3, <2>6, FindFacts
  <2> QED
    BY <1>1, <1>2, <2>4, <2>7 DEF LookedFor, Looked
<1> QED
  BY <1>5, <1>6

(* As long as both searches find the same files, the resolver visits only  *)
(* files the collection has seen, so it reads none that is not UTF-8.      *)
LEMMA ResolverAgrees ==
  ASSUME DInv, AgreeInv, pass = "over", Next, UNCHANGED dvars
  PROVE  AgreeInv'
<1> SUFFICES ASSUME macros # <<>>, LookedUpAlike'
             PROVE  visited' \subseteq seen /\ phase' # "crashed"
  BY DEF AgreeInv, dvars
<1>1. LookedUpAlike
  BY ResolverKeeps, AlikeBefore DEF DInv
<1>2. visited \subseteq seen /\ phase # "crashed"
  BY <1>1 DEF AgreeInv
<1>3. ASSUME NEW c \in Contents(Main), Parse(c)
      PROVE  UNCHANGED visited /\ phase' # "crashed"
  BY <1>3 DEF Parse
<1>4. CASE SystemImport \/ Missing \/ AlreadyVisited \/ Return \/ ResolveTemplates
  BY <1>2, <1>4 DEF SystemImport, Missing, AlreadyVisited, Return, ResolveTemplates
<1>5. ASSUME NEW c \in (IF Found THEN Contents(Target) ELSE {}),
             Drop(c) \/ Crash(c) \/ Merge(c)
      PROVE  visited' = visited \cup {Target} /\ Target \in seen /\ phase' # "crashed"
  <2>1. Found /\ c \in Contents(Target) /\ visited' = visited \cup {Target}
    BY <1>5 DEF Drop, Crash, Merge, Entered
  <2>2. Target \in seen
    BY <1>1, <1>2, <2>1, TargetSeen
  <2>3. Target \in DOMAIN content /\ content[Target].status # "garbled"
    BY <2>2 DEF DInv, SeenInv
  <2>4. c = content[Target]
    BY <2>1, <2>3 DEF Contents
  <2>5. ~Crash(c)
    BY <2>3, <2>4 DEF Crash
  <2> QED
    BY <1>2, <1>5, <2>1, <2>2, <2>5 DEF Drop, Merge
<1>6. CASE \E c \in (IF Found THEN Contents(Target) ELSE {}) :
             Drop(c) \/ Crash(c) \/ Merge(c)
  BY <1>2, <1>5, <1>6
<1> QED
  BY <1>2, <1>3, <1>4, <1>6 DEF Next

(* A step of the run is one of the collection, which leaves the resolver   *)
(* where it is, at its start, or one of the resolver.                      *)
CollectionStep ==
  phase = "main" /\ ResolverUnchanged

LEMMA StepKinds ==
  ASSUME DInv, DNext
  PROVE  CollectionStep \/ (pass = "over" /\ Next /\ UNCHANGED dvars)
<1>1. Skip \/ (\E c : Start(c)) => pass = "start" /\ ResolverUnchanged
  BY DEF Skip, Start
<1>2. PassBy \/ Finish \/ (\E c : Collect(c) \/ Unopened(c) \/ Fail(c))
        => pass = "collect" /\ ResolverUnchanged
  BY DEF PassBy, Finish, Collect, Unopened, Fail, NewFile, Match, Reading
<1>3. pass \in {"start", "collect"} => phase = "main"
  BY DEF DInv, DTypeOK
<1> QED
  BY <1>1, <1>2, <1>3 DEF DNext, CollectionStep

LEMMA StepAgrees == DInv /\ AgreeInv /\ [DNext]_<<vars, dvars>> => AgreeInv'
<1> SUFFICES ASSUME DInv, AgreeInv, [DNext]_<<vars, dvars>> PROVE AgreeInv'
  OBVIOUS
<1>1. CASE CollectionStep
  <2>1. visited' = {} /\ phase' = "main"
    BY <1>1 DEF CollectionStep, ResolverUnchanged, DInv, WalkInv, StartInv
  <2> QED
    BY <2>1 DEF AgreeInv
<1>2. CASE pass = "over" /\ Next /\ UNCHANGED dvars
  BY <1>2, ResolverAgrees
<1>3. CASE UNCHANGED <<vars, dvars>>
  <2>1. UNCHANGED <<exists, content, phase, visited, dirsOf, seen, macros>>
    BY <1>3 DEF vars, dvars
  <2>2. LookedUpAlike' = LookedUpAlike
    BY <2>1 DEF LookedUpAlike, Find, Nearest
  <2> QED
    BY <2>1, <2>2 DEF AgreeInv
<1> QED
  BY <1>1, <1>2, <1>3, StepKinds

-----------------------------------------------------------------------------
(***************************************************************************)
(* The results.                                                            *)
(***************************************************************************)

(* The state of both searches keeps its types; in particular the resolver  *)
(* does not begin before the collection is over.                           *)
THEOREM RunTypes == DSpec => []DTypeOK
<1>1. DInv => DTypeOK
  BY DEF DInv
<1> QED
  BY InitDInv, StepDInv, <1>1, PTL DEF DSpec

LEMMA CollectionFromInv == DInv => CollectionComplete
<1> SUFFICES ASSUME DInv, pass = "over", macros # <<>>
             PROVE  /\ SearchClosed(seen)
                    /\ \A S \in SUBSET seen : SearchClosed(S) => S = seen
                    /\ Len(macros) = 2 * (1 + Cardinality(Collected))
  BY DEF CollectionComplete, SearchClosed
<1>1. InCalls = {}
  <2>1. Len(calls) = 0
    BY DEF DInv, CallsInv
  <2> QED
    BY <2>1 DEF InCalls
<1>2. SearchClosedIn(exists, content, Collected, seen)
  BY <1>1 DEF SearchClosedIn, DInv, CalledInv
<1>3. SearchClosed(seen)
  BY <1>2, SearchClosedAs DEF SearchForm
<1>4. ASSUME NEW S \in SUBSET seen, SearchClosed(S) PROVE S = seen
  <2>1. S \in SUBSET Files
    BY DEF DInv, DTypeOK, TypeOK
  <2> QED
    BY <1>4, <2>1 DEF DInv, SeenLed
<1> QED
  BY <1>3, <1>4 DEF DInv, TableInv

(* When the collection is over it has looked at the files that chains of   *)
(* SOURCE directives lead to and at no other, and the DEFINEs of each are  *)
(* in the table twice, whatever the cycles (collect_defines_recursive).    *)
THEOREM CollectionIsComplete == DSpec => []CollectionComplete
<1> QED
  BY InitDInv, StepDInv, CollectionFromInv, PTL DEF DSpec

LEMMA AgreeFromInv == DInv /\ AgreeInv => SearchesAgree
<1> SUFFICES ASSUME DInv, AgreeInv, macros # <<>>, LookedUpAlike
             PROVE  Range(merged) \subseteq {Main} \cup Collected /\ phase # "crashed"
  BY DEF SearchesAgree
<1>1. visited \subseteq seen /\ phase # "crashed"
  BY DEF AgreeInv
<1>2. DOMAIN dirsOf \subseteq Collected
  BY <1>1 DEF DInv, WalkInv, ContentInv, Collected
<1>3. merged \in Seq(DOMAIN dirsOf \cup {Main})
  BY DEF DInv, WalkInv, MergedInv
<1>4. \A k \in DOMAIN merged : merged[k] \in DOMAIN dirsOf \cup {Main}
  BY <1>3, LenProperties, ElementOfSeq
<1> QED
  BY <1>1, <1>2, <1>4 DEF Range

(* As long as the two searches find the same files, a file whose           *)
(* declarations are merged has had its DEFINEs collected, and a file that  *)
(* cannot be decoded never reaches the resolver.                           *)
THEOREM SearchesDoAgree == DSpec => []SearchesAgree
<1>1. DInit => DInv /\ AgreeInv
  BY InitDInv DEF DInit, AgreeInv
<1>2. DInv /\ AgreeInv /\ [DNext]_<<vars, dvars>> => (DInv /\ AgreeInv)'
  BY StepDInv, StepAgrees
<1> QED
  BY <1>1, <1>2, AgreeFromInv, PTL DEF DSpec

(* What was proved of the resolver alone holds of it after the collection. *)
THEOREM RunImportsComplete == DSpec => []ImportsComplete
<1>1. DInv => ImportsComplete
  BY CompleteFromWalk DEF DInv
<1> QED
  BY InitDInv, StepDInv, <1>1, PTL DEF DSpec

(* The same of names: the templates and the LITERAL of a run with its      *)
(* preprocessor.                                                           *)
THEOREM RunNamesResolved == DSpec => []NamesResolved
<1>1. DInv => NamesResolved
  BY NamesFromWalk DEF DInv
<1> QED
  BY InitDInv, StepDInv, <1>1, PTL DEF DSpec

LEMMA RunStepIInv == DInv /\ IInv /\ [DNext]_<<vars, dvars>> => IInv'
<1> SUFFICES ASSUME DInv, IInv, [DNext]_<<vars, dvars>> PROVE IInv'
  OBVIOUS
<1>1. CASE CollectionStep
  BY <1>1, NothingMerged DEF CollectionStep, ResolverUnchanged
<1>2. CASE pass = "over" /\ Next
  BY <1>2, StepIInv
<1>3. CASE UNCHANGED <<vars, dvars>>
  BY <1>3, StepIInv
<1> QED
  BY <1>1, <1>2, <1>3, StepKinds

(* No file is merged twice in a run with its preprocessor.                 *)
THEOREM RunNeverMergedTwice == DSpec => []MergedOnce
<1>1. DInit => DInv /\ IInv
  BY InitDInv, InitIInv DEF DInit
<1>2. DInv /\ IInv /\ [DNext]_<<vars, dvars>> => (DInv /\ IInv)'
  BY StepDInv, RunStepIInv
<1>3. IInv => MergedOnce
  BY DEF IInv
<1> QED
  BY <1>1, <1>2, <1>3, PTL DEF DSpec

(* The nearest directory wins in a run with its preprocessor.              *)
THEOREM RunNearestWins == DSpec => NearestWins
<1>1. ASSUME DInv, [DNext]_<<vars, dvars>> PROVE [NearestStep]_vars
  <2>1. CASE CollectionStep
    <3>1. visited' = visited
      BY <2>1 DEF CollectionStep, ResolverUnchanged
    <3>2. NearestStep
      BY <3>1 DEF NearestStep
    <3> QED
      BY <3>2
  <2>2. CASE pass = "over" /\ Next
    BY <1>1, <2>2, StepNearest DEF DInv
  <2>3. CASE UNCHANGED <<vars, dvars>>
    <3>1. UNCHANGED vars
      BY <2>3
    <3> QED
      BY <3>1
  <2> QED
    BY <1>1, <2>1, <2>2, <2>3, StepKinds
<1>2. DSpec => [][NearestStep]_vars
  BY <1>1, InitDInv, StepDInv, PTL DEF DSpec
<1> QED
  BY <1>2 DEF NearestWins, NearestStep
=============================================================================

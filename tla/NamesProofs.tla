----------------------------- MODULE NamesProofs -----------------------------
(***************************************************************************)
(* Proofs about Names: for every set of names and every program of any     *)
(* length, PROC and SUBPROC count, the two rules judge a name by the       *)
(* declaration it stands for.                                              *)
(*                                                                         *)
(* Neither property is inductive: it compares warnings with the reference  *)
(* program, and warnings come from levels and dictionaries.  NamesInv says *)
(* what these hold in terms of the program: level l the declarations of    *)
(* the l-th enclosing unit, dictionary l the innermost declaration, other  *)
(* than a parameter, of the units down to it.                              *)
(***************************************************************************)
EXTENDS Names, SequenceTheorems, TLAPS

Units == {u \in Seq(Nat) : Len(u) <= 2}

Kinds == VarKinds \cup ParamKinds
Entry == [param : BOOLEAN, kind : Kinds, written : Kinds,
          overlays : Idents \cup {Nobody}]
Decl == [unit : Units, name : Idents, entry : Entry]

(* A level, or a dictionary.                                              *)
Env == UNION {[S -> Entry] : S \in SUBSET Idents}

(* Types, and one level and one dictionary for each enclosing unit.        *)
NamesType ==
  /\ unit \in Units
  /\ part \in {"decls", "body"}
  /\ program \in Seq(Decl)
  /\ levels \in Seq(Env)
  /\ maps \in Seq(Env)
  /\ Len(levels) = Len(unit) + 1 /\ Len(maps) = Len(unit) + 1

(* What is kept of a declaration is what it says, but for a parameter      *)
(* typed behind the header.                                                *)
Honest(e) ==
  /\ ~e.param => e.kind = e.written /\ e.kind \in VarKinds
  /\ e.param => e.written \in ParamKinds /\ e.kind \in {e.written, "value"}
  /\ e.kind = "overlay" => e.overlays # Nobody
  /\ e.kind # "overlay" => e.overlays = Nobody

EntriesInv == \A i \in DOMAIN program : Honest(program[i].entry)

(* No unit declares a name twice.                                          *)
DeclaredOnce ==
  \A i, j \in DOMAIN program :
    program[i].unit = program[j].unit /\ program[i].name = program[j].name => i = j

(* Unit u was entered no later than unit v.                                *)
NoLater(u, v) ==
  \/ u = <<>>
  \/ v # <<>> /\ u[1] < v[1]
  \/ v # <<>> /\ u[1] = v[1] /\ Len(u) = 1
  \/ Len(v) = 2 /\ Len(u) = 2 /\ u[1] = v[1] /\ u[2] <= v[2]

(* Declarations come from units entered so far.                            *)
EnteredInv == \A i \in DOMAIN program : NoLater(program[i].unit, unit)

(* Declaration d belongs to the l-th of the units around u, u the last.    *)
At(d, u, l) == Len(d.unit) = l - 1 /\ IsPrefix(d.unit, u)

LevelsInv ==
  \A l \in 1..(Len(unit) + 1) :
    /\ \A i \in DOMAIN program :
         At(program[i], unit, l) => /\ program[i].name \in DOMAIN levels[l]
                                    /\ levels[l][program[i].name] = program[i].entry
    /\ \A n \in DOMAIN levels[l] :
         \E i \in DOMAIN program : At(program[i], unit, l) /\ program[i].name = n

(* A declaration that a dictionary of the first l units may hold for n.    *)
Held(d, n, u, l) ==
  d.name = n /\ ~d.entry.param /\ Len(d.unit) < l /\ IsPrefix(d.unit, u)

MapsInv ==
  \A l \in 1..(Len(unit) + 1) :
    /\ \A i \in DOMAIN program :
         Held(program[i], program[i].name, unit, l) =>
           program[i].name \in DOMAIN maps[l]
    /\ \A n \in DOMAIN maps[l] :
         \E i \in DOMAIN program :
           /\ Held(program[i], n, unit, l)
           /\ maps[l][n] = program[i].entry
           /\ \A j \in DOMAIN program :
                Held(program[j], n, unit, l) =>
                  Len(program[j].unit) <= Len(program[i].unit)

NamesInv ==
  /\ NamesType /\ EntriesInv /\ DeclaredOnce /\ EnteredInv
  /\ LevelsInv /\ MapsInv

-----------------------------------------------------------------------------
(***************************************************************************)
(* Operators                                                               *)
(***************************************************************************)

(* A unit is a prefix of another if they agree as far as it goes.          *)
LEMMA UnitPrefix ==
  ASSUME NEW u \in Units, NEW v \in Units
  PROVE  IsPrefix(u, v) <=> /\ Len(u) <= Len(v)
                            /\ \A k \in 1..Len(u) : u[k] = v[k]
<1>1. u \in Seq(Nat) /\ v \in Seq(Nat) /\ Len(u) \in Nat /\ Len(v) \in Nat
  BY LenProperties DEF Units
<1>2. CASE Len(u) <= Len(v)
  <2> DEFINE a == SubSeq(u, 1, Len(u))
             b == SubSeq(v, 1, Len(u))
  <2>1. /\ a \in Seq(Nat) /\ Len(a) = Len(u)
        /\ \A k \in 1..Len(u) : a[k] = u[k]
    BY <1>1, SubSeqProperties
  <2>2. /\ b \in Seq(Nat) /\ Len(b) = Len(u)
        /\ \A k \in 1..Len(u) : b[k] = v[k]
    BY <1>1, <1>2, SubSeqProperties
  <2>3. a = b <=> \A k \in 1..Len(u) : u[k] = v[k]
    <3>1. ASSUME a = b PROVE \A k \in 1..Len(u) : u[k] = v[k]
      BY <2>1, <2>2, <3>1
    <3>2. ASSUME \A k \in 1..Len(u) : u[k] = v[k] PROVE a = b
      <4> HIDE DEF a, b
      <4>1. \A k \in 1..Len(a) : a[k] = b[k]
        BY <2>1, <2>2, <3>2
      <4> QED
        BY <2>1, <2>2, <4>1, SeqEqual
    <3> QED
      BY <3>1, <3>2
  <2> QED
    BY <1>2, <2>3 DEF IsPrefix
<1>3. CASE ~(Len(u) <= Len(v))
  BY <1>3 DEF IsPrefix
<1> QED
  BY <1>2, <1>3

(* A unit has one prefix of each length, itself one of them.               *)
LEMMA OnePrefix ==
  ASSUME NEW u \in Units, NEW v \in Units, NEW w \in Units
  PROVE  /\ IsPrefix(w, w)
         /\ IsPrefix(u, w) => Len(u) <= Len(w)
         /\ IsPrefix(u, w) /\ IsPrefix(v, w) /\ Len(u) = Len(v) => u = v
<1>1. u \in Seq(Nat) /\ v \in Seq(Nat) /\ Len(u) \in Nat /\ Len(v) \in Nat /\ Len(w) \in Nat
  BY LenProperties DEF Units
<1>2. ASSUME IsPrefix(u, w), IsPrefix(v, w), Len(u) = Len(v) PROVE u = v
  <2>1. \A k \in 1..Len(u) : u[k] = v[k]
    BY <1>2, UnitPrefix
  <2> QED
    BY <1>1, <1>2, <2>1, SeqEqual
<1> QED
  BY <1>1, <1>2, UnitPrefix

(* The greatest of a few levels.                                           *)
LEMMA MaxLevel ==
  ASSUME NEW S \in SUBSET (1..3), S # {}
  PROVE  Max(S) \in S /\ \A l \in S : l <= Max(S)
<1>1. \E m \in S : \A l \in S : m >= l
  <2>0. \A l \in S : l \in Nat /\ (l = 1 \/ l = 2 \/ l = 3)
    OBVIOUS
  <2>1. CASE 3 \in S
    BY <2>0, <2>1
  <2>2. CASE 3 \notin S /\ 2 \in S
    BY <2>0, <2>2
  <2>3. CASE 3 \notin S /\ 2 \notin S
    <3>1. \A l \in S : l = 1
      BY <2>0, <2>3
    <3>2. 1 \in S
      BY <3>1
    <3>3. \A l \in S : 1 >= l
      BY <3>1
    <3> QED
      BY <3>2, <3>3
  <2> QED
    BY <2>1, <2>2, <2>3
<1>2. Max(S) \in S /\ \A l \in S : Max(S) >= l
  BY <1>1 DEF Max
<1> QED
  BY <1>2

(* One more name in a level or a dictionary.                               *)
LEMMA WithFacts ==
  ASSUME NEW f \in Env, NEW x \in Idents, NEW e \in Entry
  PROVE  /\ With(f, x, e) \in Env
         /\ DOMAIN With(f, x, e) = DOMAIN f \cup {x}
         /\ With(f, x, e)[x] = e
         /\ \A y \in DOMAIN f : y # x => With(f, x, e)[y] = f[y]
<1>1. PICK S \in SUBSET Idents : f \in [S -> Entry]
  BY DEF Env
<1>2. With(f, x, e) \in [S \cup {x} -> Entry]
  BY <1>1 DEF With
<1>3. S \cup {x} \in SUBSET Idents
  OBVIOUS
<1>4. With(f, x, e) \in Env
  BY <1>2, <1>3 DEF Env
<1> QED
  BY <1>1, <1>4 DEF With

LEMMA EmptyEnv == <<>> \in Env /\ DOMAIN <<>> = {}
<1>1. DOMAIN <<>> = {}
  OBVIOUS
<1>2. <<>> = [x \in {} |-> Nobody]
  BY <1>1
<1>3. [x \in {} |-> Nobody] \in [{} -> Entry]
  OBVIOUS
<1> QED
  BY <1>1, <1>2, <1>3 DEF Env

(* The last element of a sequence is replaced.                             *)
LEMMA ReplaceLast ==
  ASSUME NEW T, NEW s \in Seq(T), NEW x \in T, Len(s) >= 1
  PROVE  /\ Append(Front(s), x) \in Seq(T)
         /\ Len(Append(Front(s), x)) = Len(s)
         /\ Append(Front(s), x)[Len(s)] = x
         /\ \A l \in 1..Len(s) : l # Len(s) => Append(Front(s), x)[l] = s[l]
<1> DEFINE n == Len(s)
           a == SubSeq(s, 1, n - 1)
<1>1. n \in Nat /\ n >= 1
  BY LenProperties
<1>2. a \in Seq(T) /\ Len(a) = n - 1 /\ \A l \in 1..(n - 1) : a[l] = s[l]
  <2>1. n - 1 \in Int /\ 1 \in 1..(n + 1) /\ 1 - 1 <= n - 1 /\ n - 1 <= n
    BY <1>1
  <2>2. n - 1 \in 0..n
    BY <1>1
  <2> HIDE DEF n
  <2>3. a \in Seq(T) /\ Len(a) = n - 1
    <3>1. \A i \in 1..(n - 1) : s[i] \in T
      BY <2>1, ElementOfSeq DEF n
    <3> DEFINE m == n - 1
    <3>2. m \in Int /\ m >= 0
      BY <1>1
    <3>3. a = SubSeq(s, 1, m)
      BY DEF a
    <3> HIDE DEF m, a
    <3>4. /\ SubSeq(s, 1, m) \in Seq(T)
          /\ Len(SubSeq(s, 1, m)) = IF 1 <= m THEN m - 1 + 1 ELSE 0
      BY <3>1, <3>2, SubSeqProperties DEF m
    <3>5. (IF 1 <= m THEN m - 1 + 1 ELSE 0) = m
      BY <3>2
    <3>6. Len(a) = m
      BY <3>3, <3>4, <3>5
    <3> QED
      BY <3>3, <3>4, <3>6 DEF m
  <2>4. \A l \in 1..(n - 1) : a[l] = s[1 + l - 1]
    BY <2>1, <2>2, <2>3, SubSeqProperties DEF n
  <2>5. \A l \in 1..(n - 1) : 1 + l - 1 = l
    OBVIOUS
  <2> QED
    BY <1>1, <2>3, <2>4, <2>5
<1> HIDE DEF a
<1>3. /\ Append(a, x) \in Seq(T)
      /\ Len(Append(a, x)) = Len(a) + 1
      /\ Append(a, x)[Len(a) + 1] = x
      /\ \A l \in 1..Len(a) : Append(a, x)[l] = a[l]
  BY <1>2, AppendProperties
<1>4. Front(s) = a
  BY DEF Front, a, n
<1>5. \A l \in 1..n : l # n => l \in 1..(n - 1)
  BY <1>1
<1>6. Len(a) + 1 = n
  BY <1>1, <1>2
<1> QED
  BY <1>2, <1>3, <1>4, <1>5, <1>6 DEF n

(* The levels of a new unit: those around it and one more.                 *)
LEMMA OneLevelMore ==
  ASSUME NEW T, NEW s \in Seq(T), NEW x \in T, NEW n \in Nat, n <= Len(s)
  PROVE  /\ Append(SubSeq(s, 1, n), x) \in Seq(T)
         /\ Len(Append(SubSeq(s, 1, n), x)) = n + 1
         /\ Append(SubSeq(s, 1, n), x)[n + 1] = x
         /\ \A l \in 1..n : Append(SubSeq(s, 1, n), x)[l] = s[l]
<1> DEFINE a == SubSeq(s, 1, n)
<1>1. a \in Seq(T) /\ Len(a) = n /\ \A l \in 1..n : a[l] = s[l]
  BY LenProperties, SubSeqProperties
<1> HIDE DEF a
<1>2. /\ Append(a, x) \in Seq(T)
      /\ Len(Append(a, x)) = Len(a) + 1
      /\ Append(a, x)[Len(a) + 1] = x
      /\ \A l \in 1..Len(a) : Append(a, x)[l] = a[l]
  BY <1>1, AppendProperties
<1> QED
  BY <1>1, <1>2 DEF a

-----------------------------------------------------------------------------
(***************************************************************************)
(* Declarations                                                            *)
(***************************************************************************)

LEMMA TypeFacts ==
  ASSUME NamesType
  PROVE  /\ unit \in Units /\ Len(unit) \in 0..2
         /\ program \in Seq(Decl) /\ Len(program) \in Nat
         /\ DOMAIN program = 1..Len(program)
         /\ \A i \in DOMAIN program :
              /\ program[i] \in Decl /\ program[i].unit \in Units
              /\ Len(program[i].unit) \in 0..2
              /\ program[i].name \in Idents /\ program[i].entry \in Entry
         /\ levels \in Seq(Env) /\ maps \in Seq(Env)
         /\ Len(levels) = Len(unit) + 1 /\ Len(maps) = Len(unit) + 1
         /\ DOMAIN levels = 1..(Len(unit) + 1)
         /\ \A l \in 1..(Len(unit) + 1) : levels[l] \in Env /\ maps[l] \in Env
<1>1. /\ unit \in Units /\ program \in Seq(Decl)
      /\ levels \in Seq(Env) /\ maps \in Seq(Env)
      /\ Len(levels) = Len(unit) + 1 /\ Len(maps) = Len(unit) + 1
  BY DEF NamesType
<1>2. \A u \in Units : Len(u) \in 0..2
  <2>1. \A u \in Units : Len(u) \in Nat /\ Len(u) <= 2
    BY LenProperties DEF Units
  <2>2. \A m \in Nat : m <= 2 => m \in 0..2
    OBVIOUS
  <2> QED
    BY <2>1, <2>2, Zenon
<1>3. Len(program) \in Nat /\ DOMAIN program = 1..Len(program)
  BY <1>1, LenProperties
<1>4. \A i \in DOMAIN program : program[i] \in Decl
  BY <1>1, <1>3, ElementOfSeq
<1>5. \A d \in Decl : d.unit \in Units /\ d.name \in Idents /\ d.entry \in Entry
  BY DEF Decl
<1>6. DOMAIN levels = 1..(Len(unit) + 1)
  BY <1>1, LenProperties
<1>7. \A l \in 1..(Len(unit) + 1) : levels[l] \in Env /\ maps[l] \in Env
  BY <1>1, <1>2, ElementOfSeq
<1> QED
  BY <1>1, <1>2, <1>3, <1>4, <1>5, <1>6, <1>7

(* What a new declaration adds to the program.                             *)
LEMMA DeclaredFacts ==
  ASSUME NamesType, NEW n \in Idents, NEW e \in Entry, Declared(n, e)
  PROVE  /\ program' \in Seq(Decl)
         /\ DOMAIN program' = DOMAIN program \cup {Len(program) + 1}
         /\ Len(program) + 1 \notin DOMAIN program
         /\ \A i \in DOMAIN program : program'[i] = program[i]
         /\ program'[Len(program) + 1].unit = unit
         /\ program'[Len(program) + 1].name = n
         /\ program'[Len(program) + 1].entry = e
<1> DEFINE d == [unit |-> unit, name |-> n, entry |-> e]
<1>1. d \in Decl /\ d.unit = unit /\ d.name = n /\ d.entry = e
  BY TypeFacts DEF Decl
<1> HIDE DEF d
<1>2. program' = Append(program, d)
  BY DEF Declared, d
<1>3. /\ program' \in Seq(Decl)
      /\ Len(program') = Len(program) + 1
      /\ program'[Len(program) + 1] = d
      /\ \A i \in 1..Len(program) : program'[i] = program[i]
  BY <1>1, <1>2, TypeFacts, AppendProperties
<1>4. DOMAIN program' = 1..(Len(program) + 1)
  BY <1>3, LenProperties
<1>5. 1..(Len(program) + 1) = 1..Len(program) \cup {Len(program) + 1}
  BY TypeFacts
<1>6. Len(program) + 1 \notin 1..Len(program)
  BY TypeFacts
<1> QED
  BY <1>1, <1>3, <1>4, <1>5, <1>6, TypeFacts

(* A fresh name was not declared in the unit.                              *)
LEMMA FreshFacts ==
  ASSUME NamesInv, NEW n, Fresh(n)
  PROVE  /\ part = "decls"
         /\ \A i \in DOMAIN program :
              At(program[i], unit, Len(unit) + 1) =>
                program[i].unit = unit /\ program[i].name # n
<1>1. ASSUME NEW i \in DOMAIN program, At(program[i], unit, Len(unit) + 1)
      PROVE  program[i].unit = unit
  <2>1. Len(program[i].unit) = Len(unit) /\ IsPrefix(program[i].unit, unit)
    BY <1>1, TypeFacts DEF At, NamesInv
  <2> QED
    BY <2>1, TypeFacts, OnePrefix DEF NamesInv
<1> QED
  BY <1>1 DEF Fresh

LEMMA NoLaterSelf ==
  ASSUME NEW u \in Units
  PROVE  NoLater(u, u)
<1>1. u \in Seq(Nat) /\ Len(u) \in Nat /\ Len(u) <= 2
  BY LenProperties DEF Units
<1>2. CASE Len(u) = 0
  BY <1>1, <1>2, EmptySeq DEF NoLater
<1>3. CASE Len(u) = 1
  BY <1>1, <1>3 DEF NoLater
<1>4. CASE Len(u) = 2
  <2>1. 2 \in 1..Len(u)
    BY <1>4
  <2>2. u[2] \in Nat
    BY <1>1, <2>1, ElementOfSeq
  <2> QED
    BY <1>4, <2>2 DEF NoLater
<1>5. \A m \in Nat : m <= 2 => m = 0 \/ m = 1 \/ m = 2
  OBVIOUS
<1> QED
  BY <1>1, <1>2, <1>3, <1>4, <1>5

(* What a declaration does to the program.                                 *)
LEMMA DeclareReference ==
  ASSUME NamesInv, NEW n \in Idents, NEW e \in Entry, Fresh(n), Declared(n, e),
         Honest(e), UNCHANGED unit
  PROVE  EntriesInv' /\ DeclaredOnce' /\ EnteredInv'
<1>0. NamesType
  BY DEF NamesInv
<1> USE <1>0, DeclaredFacts, TypeFacts
<1>1. EntriesInv'
  BY DEF EntriesInv, NamesInv
<1>2. DeclaredOnce'
  BY DEF DeclaredOnce, NamesInv, Fresh
<1>3. EnteredInv'
  <2>2. \A i \in DOMAIN program : NoLater(program[i].unit, unit)
    BY DEF EnteredInv, NamesInv
  <2>3. NoLater(unit, unit)
    BY NoLaterSelf
  <2>4. \A i \in DOMAIN program' : NoLater(program'[i].unit, unit)
    BY <2>2, <2>3
  <2> QED
    BY <2>4 DEF EnteredInv
<1> QED
  BY <1>1, <1>2, <1>3

(* The new declaration in the last level: it hides no other of the unit.   *)
LEMMA DeclareLevel ==
  ASSUME NamesInv, NEW n \in Idents, NEW e \in Entry, Fresh(n), Declared(n, e),
         UNCHANGED unit,
         levels' = Append(Front(levels), With(Last(levels), n, e))
  PROVE  /\ levels' \in Seq(Env) /\ Len(levels') = Len(unit) + 1
         /\ LevelsInv'
<1> DEFINE top == Len(unit) + 1
           new == Len(program) + 1
<1>0. NamesType /\ LevelsInv
  BY DEF NamesInv
<1>1. top \in Nat /\ top >= 1 /\ top \in 1..top
  BY <1>0, TypeFacts
<1>2. levels \in Seq(Env) /\ Len(levels) = top /\ levels[top] \in Env
      /\ Last(levels) = levels[top]
  BY <1>0, <1>1, TypeFacts DEF Last
<1> HIDE DEF top, new
<1> DEFINE f == With(levels[top], n, e)
<1>3. /\ f \in Env /\ DOMAIN f = DOMAIN levels[top] \cup {n} /\ f[n] = e
      /\ \A y \in DOMAIN levels[top] : y # n => f[y] = levels[top][y]
  <2>1. \A g \in Env :
          /\ With(g, n, e) \in Env /\ DOMAIN With(g, n, e) = DOMAIN g \cup {n}
          /\ With(g, n, e)[n] = e
          /\ \A y \in DOMAIN g : y # n => With(g, n, e)[y] = g[y]
    BY WithFacts
  <2> QED
    BY <1>2, <2>1, Zenon DEF f
<1>3a. levels' = Append(Front(levels), f)
  BY <1>2
<1> HIDE DEF f
<1>4. /\ levels' \in Seq(Env) /\ Len(levels') = top
      /\ levels'[top] = f
      /\ \A l \in 1..top : l # top => levels'[l] = levels[l]
  BY <1>1, <1>2, <1>3, <1>3a, ReplaceLast
<1>5. /\ DOMAIN program' = DOMAIN program \cup {new}
      /\ \A i \in DOMAIN program : program'[i] = program[i]
      /\ program'[new].unit = unit /\ program'[new].name = n
      /\ program'[new].entry = e
  BY <1>0, DeclaredFacts DEF new
<1>6. \A l \in 1..top : At(program'[new], unit, l) <=> l = top
  <2>1. IsPrefix(unit, unit)
    BY <1>0, TypeFacts, OnePrefix
  <2>2. \A l \in 1..top : Len(unit) = l - 1 <=> l = top
    BY <1>0, TypeFacts DEF top
  <2> QED
    BY <1>5, <2>1, <2>2 DEF At
<1>7. \A i \in DOMAIN program : At(program[i], unit, top) => program[i].name # n
  BY FreshFacts DEF top
<1>8. ASSUME NEW l \in 1..top
      PROVE  /\ \A i \in DOMAIN program' :
                  At(program'[i], unit, l) =>
                    /\ program'[i].name \in DOMAIN levels'[l]
                    /\ levels'[l][program'[i].name] = program'[i].entry
             /\ \A m \in DOMAIN levels'[l] :
                  \E i \in DOMAIN program' :
                    At(program'[i], unit, l) /\ program'[i].name = m
  <2>1. /\ \A i \in DOMAIN program :
             At(program[i], unit, l) =>
               /\ program[i].name \in DOMAIN levels[l]
               /\ levels[l][program[i].name] = program[i].entry
        /\ \A m \in DOMAIN levels[l] :
             \E i \in DOMAIN program :
               At(program[i], unit, l) /\ program[i].name = m
    BY <1>0 DEF LevelsInv, top
  <2>2. CASE l # top
    BY <1>4, <1>5, <1>6, <2>1, <2>2
  <2>3. CASE l = top
    BY <1>3, <1>4, <1>5, <1>6, <1>7, <2>1, <2>3
  <2> QED
    BY <2>2, <2>3
<1>9. LevelsInv'
  <2>1. 1..(Len(unit') + 1) = 1..top /\ unit' = unit
    BY DEF top
  <2> QED
    BY <1>8, <2>1 DEF LevelsInv
<1> QED
  BY <1>4, <1>9 DEF top

(* A parameter changes no dictionary.                                      *)
LEMMA DeclareNoMap ==
  ASSUME NamesInv, NEW n \in Idents, NEW e \in Entry, Declared(n, e), e.param,
         UNCHANGED <<unit, maps>>
  PROVE  MapsInv'
<1>0. NamesType /\ MapsInv
  BY DEF NamesInv
<1> DEFINE new == Len(program) + 1
<1>1. /\ DOMAIN program' = DOMAIN program \cup {new}
      /\ \A i \in DOMAIN program : program'[i] = program[i]
      /\ program'[new].entry.param
  BY <1>0, DeclaredFacts
<1> HIDE DEF new
<1>2. \A m, l : ~Held(program'[new], m, unit, l)
  BY <1>1 DEF Held
<1> QED
  BY <1>0, <1>1, <1>2 DEF MapsInv

(* The new declaration in the last dictionary: no unit is further in.      *)
LEMMA DeclareMap ==
  ASSUME NamesInv, NEW n \in Idents, NEW e \in Entry, Fresh(n), Declared(n, e),
         ~e.param, UNCHANGED unit,
         maps' = Append(Front(maps), With(Last(maps), n, e))
  PROVE  /\ maps' \in Seq(Env) /\ Len(maps') = Len(unit) + 1
         /\ MapsInv'
<1> DEFINE top == Len(unit) + 1
           new == Len(program) + 1
<1>0. NamesType /\ MapsInv
  BY DEF NamesInv
<1>1. top \in Nat /\ top >= 1 /\ top \in 1..top
  BY <1>0, TypeFacts
<1>2. maps \in Seq(Env) /\ Len(maps) = top /\ maps[top] \in Env
      /\ Last(maps) = maps[top]
  BY <1>0, <1>1, TypeFacts DEF Last
<1> HIDE DEF top, new
<1> DEFINE f == With(maps[top], n, e)
<1>3. /\ f \in Env /\ DOMAIN f = DOMAIN maps[top] \cup {n} /\ f[n] = e
      /\ \A y \in DOMAIN maps[top] : y # n => f[y] = maps[top][y]
  <2>1. ASSUME NEW g \in Env
        PROVE  /\ With(g, n, e) \in Env /\ DOMAIN With(g, n, e) = DOMAIN g \cup {n}
               /\ With(g, n, e)[n] = e
               /\ \A y \in DOMAIN g : y # n => With(g, n, e)[y] = g[y]
    BY ONLY g \in Env, n \in Idents, e \in Entry, WithFacts, Zenon
  <2> QED
    BY ONLY <1>2, <2>1, Zenon DEF f
<1>3a. maps' = Append(Front(maps), f)
  BY <1>2
<1> HIDE DEF f
<1>4. /\ maps' \in Seq(Env) /\ Len(maps') = top
      /\ maps'[top] = f
      /\ \A l \in 1..top : l # top => maps'[l] = maps[l]
  BY <1>1, <1>2, <1>3, <1>3a, ReplaceLast
<1>5. /\ DOMAIN program' = DOMAIN program \cup {new}
      /\ \A i \in DOMAIN program : program'[i] = program[i]
      /\ program'[new].unit = unit /\ program'[new].name = n
      /\ program'[new].entry = e
  BY <1>0, DeclaredFacts DEF new
<1>6. \A l \in 1..top : \A m : Held(program'[new], m, unit, l) <=> m = n /\ l = top
  <2>1. IsPrefix(unit, unit)
    BY <1>0, TypeFacts, OnePrefix
  <2>2. \A l \in 1..top : Len(unit) < l <=> l = top
    BY <1>0, TypeFacts DEF top
  <2> QED
    BY <1>5, <2>1, <2>2 DEF Held
<1>7. \A i \in DOMAIN program : \A m, l :
        Held(program[i], m, unit, l) => Len(program[i].unit) <= Len(unit)
  BY <1>0, TypeFacts, OnePrefix DEF Held
<1>7a. Len(unit) <= Len(unit)
  BY <1>0, TypeFacts
<1>8. ASSUME NEW l \in 1..top
      PROVE  /\ \A i \in DOMAIN program' :
                  Held(program'[i], program'[i].name, unit, l) =>
                    program'[i].name \in DOMAIN maps'[l]
             /\ \A m \in DOMAIN maps'[l] :
                  \E i \in DOMAIN program' :
                    /\ Held(program'[i], m, unit, l)
                    /\ maps'[l][m] = program'[i].entry
                    /\ \A j \in DOMAIN program' :
                         Held(program'[j], m, unit, l) =>
                           Len(program'[j].unit) <= Len(program'[i].unit)
  <2>1. /\ \A i \in DOMAIN program :
             Held(program[i], program[i].name, unit, l) =>
               program[i].name \in DOMAIN maps[l]
        /\ \A m \in DOMAIN maps[l] :
             \E i \in DOMAIN program :
               /\ Held(program[i], m, unit, l)
               /\ maps[l][m] = program[i].entry
               /\ \A j \in DOMAIN program :
                    Held(program[j], m, unit, l) =>
                      Len(program[j].unit) <= Len(program[i].unit)
    BY <1>0 DEF MapsInv, top
  <2>2. CASE l # top
    BY <1>4, <1>5, <1>6, <2>1, <2>2
  <2>3. CASE l = top
    <3>1. \A i \in DOMAIN program' :
            Held(program'[i], program'[i].name, unit, l) =>
              program'[i].name \in DOMAIN maps'[l]
      BY <1>3, <1>4, <1>5, <2>1, <2>3
    <3>2. ASSUME NEW m \in DOMAIN maps'[l]
          PROVE  \E i \in DOMAIN program' :
                   /\ Held(program'[i], m, unit, l)
                   /\ maps'[l][m] = program'[i].entry
                   /\ \A j \in DOMAIN program' :
                        Held(program'[j], m, unit, l) =>
                          Len(program'[j].unit) <= Len(program'[i].unit)
      <4>1. CASE m = n
        <5>1. /\ new \in DOMAIN program' /\ Held(program'[new], m, unit, l)
              /\ maps'[l][m] = program'[new].entry
          BY <1>3, <1>4, <1>5, <1>6, <2>3, <4>1
        <5>2. \A j \in DOMAIN program' :
                Held(program'[j], m, unit, l) =>
                  Len(program'[j].unit) <= Len(program'[new].unit)
          BY <1>5, <1>7, <1>7a
        <5> QED
          BY <5>1, <5>2
      <4>2. CASE m # n
        BY <1>3, <1>4, <1>5, <1>6, <2>1, <2>3, <3>2, <4>2
      <4> QED
        BY <4>1, <4>2
    <3> QED
      BY <3>1, <3>2
  <2> QED
    BY <2>2, <2>3
<1>9. MapsInv'
  BY <1>8 DEF MapsInv, top
<1> QED
  BY <1>4, <1>9 DEF top

LEMMA VarStep ==
  ASSUME NamesInv, NEW n \in Idents, NEW k \in VarKinds,
         NEW o \in Idents \cup {Nobody}, DeclareVar(n, k, o)
  PROVE  NamesInv'
<1> DEFINE e == [param |-> FALSE, kind |-> k, written |-> k, overlays |-> o]
<1>1. e \in Entry /\ ~e.param
  BY DEF Entry, Kinds
<1>2. Honest(e)
  BY NamesAssumption DEF DeclareVar, Honest
<1>3. /\ Fresh(n) /\ Declared(n, e) /\ unit' = unit /\ part' = part
      /\ levels' = Append(Front(levels), With(Last(levels), n, e))
      /\ maps' = Append(Front(maps), With(Last(maps), n, e))
  BY DEF DeclareVar
<1> HIDE DEF e
<1>4. EntriesInv' /\ DeclaredOnce' /\ EnteredInv'
  BY <1>1, <1>2, <1>3, DeclareReference
<1>5. levels' \in Seq(Env) /\ Len(levels') = Len(unit) + 1 /\ LevelsInv'
  BY <1>1, <1>3, DeclareLevel
<1>6. maps' \in Seq(Env) /\ Len(maps') = Len(unit) + 1 /\ MapsInv'
  BY <1>1, <1>3, DeclareMap
<1>7. program' \in Seq(Decl)
  BY <1>1, <1>3, DeclaredFacts DEF NamesInv
<1>8. NamesType'
  BY <1>3, <1>5, <1>6, <1>7 DEF NamesInv, NamesType
<1> QED
  BY <1>4, <1>5, <1>6, <1>8 DEF NamesInv

LEMMA ParamStep ==
  ASSUME NamesInv, NEW n \in Idents, NEW k \in ParamKinds,
         NEW inList \in BOOLEAN, DeclareParam(n, k, inList)
  PROVE  NamesInv'
<1> DEFINE e == [param |-> TRUE, kind |-> Read(k, inList), written |-> k,
                 overlays |-> Nobody]
<1>1. e \in Entry /\ e.param
  BY DEF Entry, Kinds, ParamKinds, Read
<1>2. Honest(e)
  BY DEF Honest, Read, ParamKinds
<1>3. /\ Fresh(n) /\ Declared(n, e) /\ unit' = unit /\ part' = part
      /\ levels' = Append(Front(levels), With(Last(levels), n, e))
      /\ maps' = maps
  BY DEF DeclareParam
<1> HIDE DEF e
<1>4. EntriesInv' /\ DeclaredOnce' /\ EnteredInv'
  BY <1>1, <1>2, <1>3, DeclareReference
<1>5. levels' \in Seq(Env) /\ Len(levels') = Len(unit) + 1 /\ LevelsInv'
  BY <1>1, <1>3, DeclareLevel
<1>6. MapsInv'
  BY <1>1, <1>3, DeclareNoMap
<1>7. program' \in Seq(Decl)
  BY <1>1, <1>3, DeclaredFacts DEF NamesInv
<1>8. NamesType'
  BY <1>3, <1>5, <1>7 DEF NamesInv, NamesType
<1> QED
  BY <1>4, <1>5, <1>6, <1>8 DEF NamesInv

-----------------------------------------------------------------------------
(***************************************************************************)
(* Entering a unit                                                         *)
(***************************************************************************)

(* u is the next unit: it is inside the units that u and unit share, and   *)
(* no unit entered so far is u.                                            *)
Following(u) ==
  /\ u \in Units /\ Len(u) >= 1 /\ Len(u) <= Len(unit) + 1
  /\ \A k \in 1..(Len(u) - 1) : u[k] = unit[k]
  /\ \A v \in Units : NoLater(v, unit) => NoLater(v, u) /\ v # u

(* The units around the next one are units around the last one.            *)
LEMMA SharedUnits ==
  ASSUME NEW u, Following(u), unit \in Units, NEW v \in Units, Len(v) < Len(u)
  PROVE  IsPrefix(v, u) <=> IsPrefix(v, unit)
<1>1. u \in Units /\ Len(u) \in Nat /\ Len(unit) \in Nat /\ Len(v) \in Nat
  BY LenProperties DEF Following, Units
<1>2. Len(u) <= Len(unit) + 1 /\ \A k \in 1..(Len(u) - 1) : u[k] = unit[k]
  BY DEF Following
<1>3. Len(v) <= Len(unit) /\ Len(v) <= Len(u)
  BY <1>1, <1>2
<1>4. \A k \in 1..Len(v) : u[k] = unit[k]
  BY <1>1, <1>2
<1>5. IsPrefix(v, u) <=> \A k \in 1..Len(v) : v[k] = u[k]
  BY <1>1, <1>3, UnitPrefix
<1>6. IsPrefix(v, unit) <=> \A k \in 1..Len(v) : v[k] = unit[k]
  BY <1>1, <1>3, UnitPrefix
<1> QED
  BY <1>4, <1>5, <1>6

LEMMA EnterStep ==
  ASSUME NamesInv, NEW u, Following(u), Enter(u)
  PROVE  NamesInv'
<1> DEFINE n == Len(u)
<1>0. /\ NamesType /\ EntriesInv /\ DeclaredOnce /\ EnteredInv
      /\ LevelsInv /\ MapsInv
  BY DEF NamesInv
<1>1. /\ u \in Units /\ n \in Nat /\ n >= 1 /\ n <= Len(unit) + 1
      /\ n <= Len(levels) /\ n <= Len(maps)
  BY <1>0, TypeFacts, LenProperties DEF Following, Units
<1>2. /\ unit' = u /\ part' = "decls" /\ program' = program
      /\ levels' = Append(SubSeq(levels, 1, n), <<>>)
      /\ maps' = Append(SubSeq(maps, 1, n), Last(SubSeq(maps, 1, n)))
  BY DEF Enter, Enclosing
<1>3. /\ levels' \in Seq(Env) /\ Len(levels') = n + 1
      /\ levels'[n + 1] = <<>> /\ \A l \in 1..n : levels'[l] = levels[l]
  BY <1>0, <1>1, <1>2, TypeFacts, EmptyEnv, OneLevelMore
<1>4. Last(SubSeq(maps, 1, n)) = maps[n] /\ maps[n] \in Env
  <2>1. /\ maps \in Seq(Env) /\ Len(maps) \in Nat
        /\ \A i \in 1..Len(maps) : maps[i] \in Env
    BY <1>0, TypeFacts, LenProperties, ElementOfSeq
  <2>2. \A i \in 1..n : maps[i] \in Env
    BY <1>1, <2>1
  <2> HIDE DEF n
  <2>3. /\ Len(SubSeq(maps, 1, n)) = IF 1 <= n THEN n - 1 + 1 ELSE 0
        /\ \A i \in 1..(n - 1 + 1) : SubSeq(maps, 1, n)[i] = maps[1 + i - 1]
    BY <1>1, <2>2, SubSeqProperties
  <2>4. n \in 1..(n - 1 + 1) /\ 1 + n - 1 = n /\ n - 1 + 1 = n /\ n \in 1..n
    BY <1>1
  <2>5. Len(SubSeq(maps, 1, n)) = n /\ SubSeq(maps, 1, n)[n] = maps[n]
    BY <1>1, <2>3, <2>4
  <2> QED
    BY <2>2, <2>4, <2>5 DEF Last
<1>5. /\ maps' \in Seq(Env) /\ Len(maps') = n + 1
      /\ maps'[n + 1] = maps[n] /\ \A l \in 1..n : maps'[l] = maps[l]
  BY <1>0, <1>1, <1>2, <1>4, TypeFacts, OneLevelMore
<1>6. NamesType'
  BY <1>0, <1>1, <1>2, <1>3, <1>5 DEF NamesType
<1>7. EntriesInv' /\ DeclaredOnce'
  BY <1>0, <1>2 DEF EntriesInv, DeclaredOnce
<1>8. \A i \in DOMAIN program : /\ NoLater(program[i].unit, u)
                               /\ program[i].unit # u
  BY <1>0, TypeFacts DEF Following, EnteredInv
<1>9. EnteredInv'
  BY <1>2, <1>8 DEF EnteredInv
<1>10. \A i \in DOMAIN program :
         /\ Len(program[i].unit) \in Nat
         /\ Len(program[i].unit) < n =>
              (IsPrefix(program[i].unit, u) <=> IsPrefix(program[i].unit, unit))
         /\ IsPrefix(program[i].unit, u) => Len(program[i].unit) < n
  <2> SUFFICES ASSUME NEW i \in DOMAIN program
               PROVE  /\ Len(program[i].unit) \in Nat
                      /\ Len(program[i].unit) < n =>
                           (IsPrefix(program[i].unit, u)
                              <=> IsPrefix(program[i].unit, unit))
                      /\ IsPrefix(program[i].unit, u) => Len(program[i].unit) < n
    OBVIOUS
  <2>1. program[i].unit \in Units /\ unit \in Units /\ Len(program[i].unit) \in Nat
    BY <1>0, TypeFacts
  <2>2. Len(program[i].unit) < n =>
          (IsPrefix(program[i].unit, u) <=> IsPrefix(program[i].unit, unit))
    BY <2>1, SharedUnits
  <2>3. IsPrefix(program[i].unit, u) =>
          /\ Len(program[i].unit) <= n
          /\ Len(program[i].unit) = n => program[i].unit = u
    BY <1>1, <2>1, OnePrefix
  <2> HIDE DEF n
  <2> QED
    BY <1>1, <1>8, <2>1, <2>2, <2>3
<1> HIDE DEF n
<1>11. \A l \in 1..n : l \in 1..(Len(unit) + 1)
  BY <1>0, <1>1, TypeFacts
<1>12. \A l \in 1..(n + 1) : l \in 1..n \/ l = n + 1
  BY <1>1
<1>13. LevelsInv'
  <2>1. \A i \in DOMAIN program :
          /\ \A l \in 1..n : At(program[i], u, l) <=> At(program[i], unit, l)
          /\ ~At(program[i], u, n + 1)
    BY <1>1, <1>10 DEF At
  <2>2. ASSUME NEW l \in 1..(n + 1)
        PROVE  /\ \A i \in DOMAIN program :
                    At(program[i], u, l) => /\ program[i].name \in DOMAIN levels'[l]
                                            /\ levels'[l][program[i].name]
                                                 = program[i].entry
               /\ \A m \in DOMAIN levels'[l] :
                    \E i \in DOMAIN program : At(program[i], u, l) /\ program[i].name = m
    <3>1. CASE l \in 1..n
      BY <1>0, <1>3, <1>11, <2>1, <3>1 DEF LevelsInv
    <3>2. CASE l = n + 1
      BY <1>3, <2>1, <3>2, EmptyEnv
    <3> QED
      BY <1>12, <3>1, <3>2
  <2> QED
    BY <1>2, <2>2 DEF LevelsInv, n
<1>14. MapsInv'
  <2>1. \A i \in DOMAIN program : \A m :
          /\ \A l \in 1..n : Held(program[i], m, u, l) <=> Held(program[i], m, unit, l)
          /\ Held(program[i], m, u, n + 1) <=> Held(program[i], m, unit, n)
    BY <1>1, <1>10 DEF Held
  <2>2. ASSUME NEW l \in 1..(n + 1)
        PROVE  /\ \A i \in DOMAIN program :
                    Held(program[i], program[i].name, u, l) =>
                      program[i].name \in DOMAIN maps'[l]
               /\ \A m \in DOMAIN maps'[l] :
                    \E i \in DOMAIN program :
                      /\ Held(program[i], m, u, l)
                      /\ maps'[l][m] = program[i].entry
                      /\ \A j \in DOMAIN program :
                           Held(program[j], m, u, l) =>
                             Len(program[j].unit) <= Len(program[i].unit)
    <3>1. CASE l \in 1..n
      <4>1. /\ maps'[l] = maps[l] /\ l \in 1..(Len(unit) + 1)
            /\ \A i \in DOMAIN program : \A m :
                 Held(program[i], m, u, l) <=> Held(program[i], m, unit, l)
        BY <1>5, <1>11, <2>1, <3>1
      <4> QED
        BY <1>0, <4>1 DEF MapsInv
    <3>2. CASE l = n + 1
      <4>1. n \in 1..n
        BY <1>1
      <4>2. /\ maps'[l] = maps[n] /\ n \in 1..(Len(unit) + 1)
            /\ \A i \in DOMAIN program : \A m :
                 Held(program[i], m, u, l) <=> Held(program[i], m, unit, n)
        BY <1>5, <1>11, <2>1, <3>2, <4>1
      <4> QED
        BY <1>0, <4>2 DEF MapsInv
    <3> QED
      BY <1>12, <3>1, <3>2
  <2> QED
    BY <1>2, <2>2 DEF MapsInv, n
<1> QED
  BY <1>6, <1>7, <1>9, <1>13, <1>14 DEF NamesInv

LEMMA UnitShapes ==
  ASSUME NEW v \in Units
  PROVE  /\ v \in Seq(Nat) /\ Len(v) \in 0..2
         /\ v = <<>> <=> Len(v) = 0
         /\ \A k \in 1..Len(v) : v[k] \in Nat
         /\ Len(v) >= 1 => v[1] \in Nat
         /\ Len(v) = 2 => v[2] \in Nat
<1>1. v \in Seq(Nat) /\ Len(v) \in Nat /\ Len(v) <= 2
  BY LenProperties DEF Units
<1>2. \A m \in Nat : m <= 2 => m \in 0..2
  OBVIOUS
<1>3. Len(v) \in 0..2
  BY <1>1, <1>2, Zenon
<1>4. \A k \in 1..Len(v) : v[k] \in Nat
  BY <1>1, ElementOfSeq
<1>5. \A m \in 0..2 : (m >= 1 => 1 \in 1..m) /\ (m = 2 => 2 \in 1..m)
  OBVIOUS
<1>6. v = <<>> <=> Len(v) = 0
  BY <1>1, EmptySeq
<1> QED
  BY <1>1, <1>3, <1>4, <1>5, <1>6

LEMMA EnterProcStep ==
  ASSUME NamesInv, EnterProc
  PROVE  NamesInv'
<1> DEFINE p == IF unit = <<>> THEN 1 ELSE unit[1] + 1
           u == <<p>>
<1>1. unit \in Units
  BY DEF NamesInv, NamesType
<1>2. p \in Nat
  BY <1>1, UnitShapes
<1>3. Enter(u)
  BY DEF EnterProc
<1> HIDE DEF p
<1>4. u \in Seq(Nat) /\ Len(u) = 1 /\ u[1] = p /\ u # <<>>
  BY <1>2
<1>5. u \in Units
  BY <1>4 DEF Units
<1> HIDE DEF u
<1>6. ASSUME NEW v \in Units, NoLater(v, unit)
      PROVE  NoLater(v, u) /\ v # u
  <2>1. CASE v = <<>>
    BY <1>4, <2>1 DEF NoLater
  <2>2. CASE v # <<>>
    <3>1. unit # <<>> /\ v[1] \in Nat /\ unit[1] \in Nat /\ v[1] <= unit[1]
      BY <1>1, <1>6, <2>2, UnitShapes DEF NoLater
    <3>2. v[1] < u[1]
      BY <1>4, <3>1 DEF p
    <3>3. v[1] # u[1]
      BY <1>2, <1>4, <3>1, <3>2
    <3> QED
      BY <1>4, <3>2, <3>3 DEF NoLater
  <2> QED
    BY <2>1, <2>2
<1>7. /\ Len(u) >= 1 /\ Len(u) <= Len(unit) + 1
      /\ \A k \in 1..(Len(u) - 1) : u[k] = unit[k]
  BY <1>1, <1>4, UnitShapes
<1>8. Following(u)
  BY <1>5, <1>6, <1>7 DEF Following
<1> QED
  BY <1>3, <1>8, EnterStep

LEMMA EnterSubStep ==
  ASSUME NamesInv, EnterSub
  PROVE  NamesInv'
<1> DEFINE s == IF Len(unit) = 1 THEN 1 ELSE unit[2] + 1
           p == unit[1]
           u == <<p, s>>
<1>1. unit \in Units /\ unit # <<>>
  BY DEF NamesInv, NamesType, EnterSub
<1>2. p \in Nat /\ s \in Nat /\ s >= 1 /\ Len(unit) \in {1, 2}
  BY <1>1, UnitShapes
<1>3. Enter(u)
  BY DEF EnterSub
<1>3a. Len(unit) = 2 => s = unit[2] + 1 /\ unit[2] \in Nat
  BY <1>1, UnitShapes
<1> HIDE DEF s
<1>4. u \in Seq(Nat) /\ Len(u) = 2 /\ u[1] = p /\ u[2] = s
  BY <1>2
<1>5. u \in Units /\ u # <<>>
  BY <1>4 DEF Units
<1> HIDE DEF u
<1>6. ASSUME NEW v \in Units, NoLater(v, unit)
      PROVE  NoLater(v, u) /\ v # u
  <2>1. CASE v = <<>>
    BY <1>5, <2>1 DEF NoLater
  <2>2. CASE v # <<>> /\ v[1] < p
    <3>1. v[1] \in Nat
      BY <2>2, UnitShapes
    <3>2. v[1] # u[1]
      BY <1>2, <1>4, <2>2, <3>1
    <3> QED
      BY <1>4, <1>5, <2>2, <3>2 DEF NoLater
  <2>3. CASE v # <<>> /\ ~(v[1] < p) /\ Len(v) = 1
    <3>1. v[1] = p
      BY <1>1, <1>2, <1>6, <2>3 DEF NoLater
    <3>2. NoLater(v, u)
      BY <1>4, <1>5, <2>3, <3>1, Zenon DEF NoLater
    <3>3. Len(v) # Len(u)
      BY <1>4, <2>3
    <3> QED
      BY <3>2, <3>3
  <2>4. CASE v # <<>> /\ ~(v[1] < p) /\ Len(v) # 1
    <3>1. /\ Len(unit) = 2 /\ Len(v) = 2 /\ v[1] = p /\ v[2] <= unit[2]
      BY <1>1, <1>6, <2>4 DEF NoLater
    <3>2. v[2] \in Nat
      BY <3>1, UnitShapes
    <3>3. v[2] <= s /\ v[2] # s
      BY <1>3a, <3>1, <3>2
    <3> QED
      BY <1>4, <1>5, <3>1, <3>3 DEF NoLater
  <2> QED
    BY <2>1, <2>2, <2>3, <2>4
<1>7. /\ Len(u) >= 1 /\ Len(u) <= Len(unit) + 1
      /\ \A k \in 1..(Len(u) - 1) : u[k] = unit[k]
  <2>1. \A k \in 1..(2 - 1) : k = 1
    OBVIOUS
  <2> QED
    BY <1>2, <1>4, <2>1
<1>8. Following(u)
  BY <1>5, <1>6, <1>7 DEF Following
<1> QED
  BY <1>3, <1>8, EnterStep

-----------------------------------------------------------------------------
(***************************************************************************)
(* What a name stands for                                                  *)
(***************************************************************************)

LEMMA InitInv == Init => NamesInv
<1> SUFFICES ASSUME Init PROVE NamesInv
  OBVIOUS
<1>1. /\ unit = <<>> /\ part = "decls" /\ program = <<>>
      /\ levels = << <<>> >> /\ maps = << <<>> >>
  BY DEF Init
<1>2. <<>> \in Units
  BY DEF Units
<1>3. /\ levels \in Seq(Env) /\ Len(levels) = 1 /\ levels[1] = <<>>
      /\ maps \in Seq(Env) /\ Len(maps) = 1 /\ maps[1] = <<>>
  BY <1>1, EmptyEnv
<1>4. DOMAIN program = {} /\ program \in Seq(Decl) /\ Len(unit) = 0
  BY <1>1
<1>5. NamesType
  BY <1>1, <1>2, <1>3, <1>4 DEF NamesType
<1>6. EntriesInv /\ DeclaredOnce /\ EnteredInv
  BY <1>4 DEF EntriesInv, DeclaredOnce, EnteredInv
<1>7. 1..(Len(unit) + 1) = {1}
  BY <1>4
<1>8. LevelsInv /\ MapsInv
  BY <1>3, <1>4, <1>7, EmptyEnv DEF LevelsInv, MapsInv
<1> QED
  BY <1>5, <1>6, <1>8 DEF NamesInv

LEMMA NextInv == NamesInv /\ [Next]_vars => NamesInv'
<1> SUFFICES ASSUME NamesInv, [Next]_vars PROVE NamesInv'
  OBVIOUS
<1>1. ASSUME NEW n \in Idents, NEW k \in VarKinds, NEW o \in Idents \cup {Nobody},
             DeclareVar(n, k, o)
      PROVE  NamesInv'
  BY <1>1, VarStep
<1>2. ASSUME NEW n \in Idents, NEW k \in ParamKinds, NEW inList \in BOOLEAN,
             DeclareParam(n, k, inList)
      PROVE  NamesInv'
  BY <1>2, ParamStep
<1>3. CASE /\ part' \in {"decls", "body"}
           /\ UNCHANGED <<unit, levels, maps, program>>
  <2>1. NamesType'
    BY <1>3 DEF NamesInv, NamesType
  <2>2. EntriesInv' /\ DeclaredOnce' /\ EnteredInv'
    BY <1>3 DEF NamesInv, EntriesInv, DeclaredOnce, EnteredInv
  <2>3. LevelsInv' /\ MapsInv'
    BY <1>3 DEF NamesInv, LevelsInv, MapsInv
  <2> QED
    BY <2>1, <2>2, <2>3 DEF NamesInv
<1>4. CASE StartBody
  BY <1>3, <1>4 DEF StartBody
<1>5. ASSUME NEW t \in Idents, NEW x \in Idents, Store(t, x) PROVE NamesInv'
  BY <1>3, <1>5 DEF Store, NamesInv, NamesType
<1>6. CASE EnterProc
  BY <1>6, EnterProcStep
<1>7. CASE EnterSub
  BY <1>7, EnterSubStep
<1>8. CASE UNCHANGED vars
  BY <1>3, <1>8 DEF vars, NamesInv, NamesType
<1> QED
  BY <1>1, <1>2, <1>4, <1>5, <1>6, <1>7, <1>8 DEF Next

(* A declaration of n around the unit.                                     *)
Around(i, n) == program[i].name = n /\ IsPrefix(program[i].unit, unit)

(* The innermost declaration is the one a name stands for.                 *)
LEMMA OneMeaning ==
  ASSUME NamesInv, NEW n, NEW i \in DOMAIN program, Around(i, n),
         \A j \in DOMAIN program :
           Around(j, n) => Len(program[j].unit) <= Len(program[i].unit)
  PROVE  Meaning(n, unit, Len(program)) = {program[i]}
<1> DEFINE D == {j \in 1..Len(program) :
                   program[j].name = n /\ IsPrefix(program[j].unit, unit)}
<1>1. NamesType /\ DeclaredOnce
  BY DEF NamesInv
<1>2. DOMAIN program = 1..Len(program)
  BY <1>1, TypeFacts
<1>3. \A j : j \in D <=> j \in DOMAIN program /\ Around(j, n)
  BY <1>2 DEF Around
<1> HIDE DEF D
<1>4. ASSUME NEW j \in D, \A h \in D : Len(program[h].unit) <= Len(program[j].unit)
      PROVE  j = i
  <2>1. /\ program[j].unit \in Units /\ program[i].unit \in Units /\ unit \in Units
        /\ Len(program[j].unit) \in 0..2 /\ Len(program[i].unit) \in 0..2
    BY <1>1, <1>3, TypeFacts
  <2>2. /\ Len(program[j].unit) <= Len(program[i].unit)
        /\ Len(program[i].unit) <= Len(program[j].unit)
    BY <1>3, <1>4
  <2>3. Len(program[j].unit) = Len(program[i].unit)
    BY <2>1, <2>2
  <2>4. program[j].unit = program[i].unit /\ program[j].name = program[i].name
    BY <1>3, <2>1, <2>3, OnePrefix DEF Around
  <2> QED
    BY <1>1, <1>3, <2>4 DEF DeclaredOnce
<1>5. i \in D /\ \A h \in D : Len(program[h].unit) <= Len(program[i].unit)
  BY <1>3
<1>6. Meaning(n, unit, Len(program)) =
        {program[k] : k \in {j \in D : \A h \in D :
                               Len(program[h].unit) <= Len(program[j].unit)}}
  BY DEF Meaning, D
<1>7. {j \in D : \A h \in D : Len(program[h].unit) <= Len(program[j].unit)} = {i}
  BY <1>4, <1>5
<1> QED
  BY <1>6, <1>7

(* The levels know a name exactly if it is declared around the unit, and   *)
(* what the innermost of them says is what it stands for.                  *)
LEMMA Innermost ==
  ASSUME NamesInv, NEW n
  PROVE  \/ /\ Knowing(n) = {}
            /\ \A i \in DOMAIN program : ~Around(i, n)
            /\ Meaning(n, unit, Len(program)) = {}
         \/ /\ Knowing(n) # {}
            /\ \E i \in DOMAIN program :
                 /\ Around(i, n)
                 /\ \A j \in DOMAIN program :
                      Around(j, n) => Len(program[j].unit) <= Len(program[i].unit)
                 /\ levels[Max(Knowing(n))][n] = program[i].entry
                 /\ Meaning(n, unit, Len(program)) = {program[i]}
<1>1. NamesType /\ LevelsInv
  BY DEF NamesInv
<1>2. /\ DOMAIN program = 1..Len(program) /\ DOMAIN levels = 1..(Len(unit) + 1)
      /\ unit \in Units /\ Len(unit) \in 0..2
      /\ \A i \in DOMAIN program : /\ program[i].unit \in Units
                                   /\ Len(program[i].unit) \in 0..2
  BY <1>1, TypeFacts
<1>3. ASSUME NEW i \in DOMAIN program, Around(i, n)
      PROVE  Len(program[i].unit) + 1 \in Knowing(n)
  <2> DEFINE l == Len(program[i].unit) + 1
  <2>1. Len(program[i].unit) <= Len(unit)
    BY <1>2, <1>3, OnePrefix DEF Around
  <2>2. l \in 1..(Len(unit) + 1) /\ Len(program[i].unit) = l - 1
    BY <1>2, <2>1
  <2> HIDE DEF l
  <2>3. At(program[i], unit, l)
    BY <1>3, <2>2 DEF At, Around
  <2>4. n \in DOMAIN levels[l]
    BY <1>1, <1>3, <2>2, <2>3 DEF LevelsInv, Around
  <2> QED
    BY <1>2, <2>2, <2>4 DEF Knowing, l
<1>4. CASE Knowing(n) = {}
  <2>1. \A i \in DOMAIN program : ~Around(i, n)
    BY <1>3, <1>4
  <2>2. Meaning(n, unit, Len(program)) = {}
    BY <1>2, <2>1 DEF Meaning, Around
  <2> QED
    BY <1>4, <2>1, <2>2
<1>5. CASE Knowing(n) # {}
  <2> DEFINE L == Max(Knowing(n))
  <2>1. Knowing(n) \in SUBSET (1..3)
    <3>1. Knowing(n) \subseteq 1..(Len(unit) + 1)
      BY <1>2 DEF Knowing
    <3>2. \A m \in 0..2 : 1..(m + 1) \subseteq 1..3
      OBVIOUS
    <3>3. 1..(Len(unit) + 1) \subseteq 1..3
      BY <1>2, <3>2, Zenon
    <3> QED
      BY <3>1, <3>3
  <2>2. L \in Knowing(n) /\ \A l \in Knowing(n) : l <= L
    BY <1>5, <2>1, MaxLevel
  <2>3. L \in 1..(Len(unit) + 1) /\ n \in DOMAIN levels[L]
    BY <1>2, <2>2 DEF Knowing
  <2> HIDE DEF L
  <2>4. PICK i \in DOMAIN program : At(program[i], unit, L) /\ program[i].name = n
    BY <1>1, <2>3 DEF LevelsInv
  <2>5. Around(i, n) /\ levels[L][n] = program[i].entry
    BY <1>1, <2>3, <2>4 DEF LevelsInv, Around, At
  <2>6. ASSUME NEW j \in DOMAIN program, Around(j, n)
        PROVE  Len(program[j].unit) <= Len(program[i].unit)
    <3>1. Len(program[j].unit) + 1 <= L
      BY <1>3, <2>2, <2>6
    <3>2. Len(program[i].unit) = L - 1
      BY <2>4 DEF At
    <3> QED
      BY <1>2, <2>3, <3>1, <3>2
  <2>7. Meaning(n, unit, Len(program)) = {program[i]}
    BY <2>5, <2>6, OneMeaning
  <2> QED
    BY <1>5, <2>5, <2>6, <2>7 DEF L
<1> QED
  BY <1>4, <1>5

LEMMA RangeFacts ==
  /\ Range(<<>>) = {}
  /\ \A e : Range(<<e>>) = {e}
<1>1. Range(<<>>) = {}
  BY DEF Range
<1>2. ASSUME NEW e PROVE Range(<<e>>) = {e}
  <2>1. DOMAIN <<e>> = {1} /\ <<e>>[1] = e
    OBVIOUS
  <2> QED
    BY <2>1 DEF Range
<1> QED
  BY <1>1, <1>2

(* ScopeStack.lookup finds what the name stands for.                       *)
LEMMA LookupFacts ==
  ASSUME NamesInv, NEW n
  PROVE  Range(Lookup(n)) = {d.entry : d \in Meaning(n, unit, Len(program))}
<1>1. CASE Knowing(n) = {} /\ Meaning(n, unit, Len(program)) = {}
  BY <1>1, RangeFacts DEF Lookup
<1>2. CASE /\ Knowing(n) # {}
           /\ \E i \in DOMAIN program :
                /\ levels[Max(Knowing(n))][n] = program[i].entry
                /\ Meaning(n, unit, Len(program)) = {program[i]}
  <2>1. PICK i \in DOMAIN program :
          /\ levels[Max(Knowing(n))][n] = program[i].entry
          /\ Meaning(n, unit, Len(program)) = {program[i]}
    BY <1>2
  <2>2. Lookup(n) = <<program[i].entry>>
    BY <1>2, <2>1 DEF Lookup
  <2>3. {d.entry : d \in {program[i]}} = {program[i].entry}
    OBVIOUS
  <2> QED
    BY <2>1, <2>2, <2>3, RangeFacts
<1> QED
  BY <1>1, <1>2, Innermost

(* The dictionary has what the name stands for, unless that is a parameter.*)
LEMMA OverlaidFacts ==
  ASSUME NamesInv, NEW e,
         \A d \in Meaning(e.overlays, unit, Len(program)) : ~d.entry.param
  PROVE  Range(Overlaid(e)) =
           {d.entry : d \in Meaning(e.overlays, unit, Len(program))}
<1> DEFINE n == e.overlays
           top == Len(unit) + 1
<1>1. NamesType /\ MapsInv /\ DeclaredOnce
  BY DEF NamesInv
<1>2. /\ unit \in Units /\ Len(unit) \in 0..2
      /\ \A i \in DOMAIN program : /\ program[i].unit \in Units
                                   /\ Len(program[i].unit) \in 0..2
      /\ Len(maps) = top /\ top \in 1..top
  BY <1>1, TypeFacts
<1>3. \A i \in DOMAIN program :
        /\ Held(program[i], n, unit, top) => Around(i, n)
        /\ Around(i, n) /\ ~program[i].entry.param => Held(program[i], n, unit, top)
  <2>1. \A i \in DOMAIN program :
          IsPrefix(program[i].unit, unit) => Len(program[i].unit) < top
    BY <1>2, OnePrefix
  <2> QED
    BY <2>1 DEF Held, Around
<1>4. Last(maps) = maps[top]
  BY <1>2 DEF Last
<1> HIDE DEF n, top
<1>5. /\ \A i \in DOMAIN program :
           Held(program[i], program[i].name, unit, top) =>
             program[i].name \in DOMAIN maps[top]
      /\ \A m \in DOMAIN maps[top] :
           \E i \in DOMAIN program :
             /\ Held(program[i], m, unit, top)
             /\ maps[top][m] = program[i].entry
             /\ \A j \in DOMAIN program :
                  Held(program[j], m, unit, top) =>
                    Len(program[j].unit) <= Len(program[i].unit)
  BY <1>1, <1>2 DEF MapsInv, top
<1>6. CASE /\ \A i \in DOMAIN program : ~Around(i, n)
           /\ Meaning(n, unit, Len(program)) = {}
  <2>1. n \notin DOMAIN maps[top]
    BY <1>3, <1>5, <1>6
  <2>2. Overlaid(e) = <<>>
    BY <1>4, <2>1 DEF Overlaid, n
  <2> QED
    BY <1>6, <2>2, RangeFacts DEF n
<1>7. CASE \E i \in DOMAIN program :
             /\ Around(i, n)
             /\ \A j \in DOMAIN program :
                  Around(j, n) => Len(program[j].unit) <= Len(program[i].unit)
             /\ Meaning(n, unit, Len(program)) = {program[i]}
  <2>1. PICK i \in DOMAIN program :
          /\ Around(i, n)
          /\ \A j \in DOMAIN program :
               Around(j, n) => Len(program[j].unit) <= Len(program[i].unit)
          /\ Meaning(n, unit, Len(program)) = {program[i]}
    BY <1>7
  <2>2. ~program[i].entry.param
    BY <2>1 DEF n
  <2>3. Held(program[i], n, unit, top) /\ program[i].name = n
    BY <1>3, <2>1, <2>2 DEF Around
  <2>4. n \in DOMAIN maps[top]
    BY <1>5, <2>3
  <2>5. PICK h \in DOMAIN program :
          /\ Held(program[h], n, unit, top)
          /\ maps[top][n] = program[h].entry
          /\ \A j \in DOMAIN program :
               Held(program[j], n, unit, top) =>
                 Len(program[j].unit) <= Len(program[h].unit)
    BY <1>5, <2>4
  <2>6. Around(h, n)
    BY <1>3, <2>5
  <2>7. /\ Len(program[h].unit) <= Len(program[i].unit)
        /\ Len(program[i].unit) <= Len(program[h].unit)
    BY <2>1, <2>3, <2>5, <2>6
  <2>8. \A j \in DOMAIN program :
          Around(j, n) => Len(program[j].unit) <= Len(program[h].unit)
    <3>1. Len(program[h].unit) = Len(program[i].unit)
      BY <1>2, <2>7
    <3> QED
      BY <2>1, <3>1
  <2>9. Meaning(n, unit, Len(program)) = {program[h]}
    BY <2>6, <2>8, OneMeaning
  <2>10. Overlaid(e) = <<program[h].entry>>
    BY <1>4, <2>4, <2>5 DEF Overlaid, n
  <2>11. {d.entry : d \in {program[h]}} = {program[h].entry}
    OBVIOUS
  <2> QED
    BY <2>9, <2>10, <2>11, RangeFacts DEF n
<1> QED
  BY <1>6, <1>7, Innermost

-----------------------------------------------------------------------------
(***************************************************************************)
(* The judgements                                                          *)
(***************************************************************************)

(* The properties of the values of the variables.                          *)
MeaningIn(p, n, u, k) ==
  LET D == {i \in 1..k : p[i].name = n /\ IsPrefix(p[i].unit, u)}
  IN {p[i] : i \in {j \in D : \A h \in D : Len(p[h].unit) <= Len(p[j].unit)}}

AddressesOf(st, u, p, W) ==
  st # <<>> =>
    LET T == MeaningIn(p, st[1], u, Len(p))
        X == MeaningIn(p, st[2], u, Len(p))
        needed == /\ \E x \in X : x.entry.written = "large"
                  /\ \E t \in T : t.entry.written # "extended"
    IN /\ needed => W # {}
       /\ W # {} => needed \/ \E t \in T : t.entry.kind # t.entry.written

OverlayOf(i, u, p, W) ==
  (p[i].unit = u /\ p[i].entry.kind = "overlay") =>
    LET o == p[i].entry.overlays
        then == MeaningIn(p, o, u, i)
    IN then = MeaningIn(p, o, u, Len(p)) /\ (\A d \in then : ~d.entry.param)
       => {w.kind : w \in {v \in W : v.name = p[i].name}}
            = UNION {OverlayWarnings(d.entry) : d \in then}

JudgedForm ==
  /\ AddressesJudged <=> AddressesOf(stored, unit, program, warned)
  /\ OverlaysJudged <=>
       (part = "body" /\ stored = <<>> =>
          \A i \in DOMAIN program : OverlayOf(i, unit, program, warned))

LEMMA JudgedAre == JudgedForm
<1>1. \A n, u, k : Meaning(n, u, k) = MeaningIn(program, n, u, k)
  BY DEF Meaning, MeaningIn
<1>2. AddressesJudged <=> AddressesOf(stored, unit, program, warned)
  BY <1>1 DEF AddressesJudged, AddressesOf
<1>3. ASSUME NEW i \in DOMAIN program
      PROVE  OverlayOf(i, unit, program, warned) <=>
               ((program[i].unit = unit /\ program[i].entry.kind = "overlay") =>
                  LET o == program[i].entry.overlays
                      then == Meaning(o, unit, i)
                  IN then = Meaning(o, unit, Len(program))
                       /\ (\A d \in then : ~d.entry.param)
                     => {w.kind : w \in {v \in warned : v.name = program[i].name}}
                          = UNION {OverlayWarnings(d.entry) : d \in then})
  BY <1>1 DEF OverlayOf
<1> QED
  BY <1>2, <1>3 DEF OverlaysJudged, JudgedForm

LEMMA JudgedAreNext == JudgedForm'
BY JudgedAre, PTL

(* A store judges the address by what the two names stand for.             *)
LEMMA StoreJudged ==
  ASSUME NamesInv, NEW t \in Idents, NEW x \in Idents, Store(t, x)
  PROVE  AddressesJudged'
<1> DEFINE T == Meaning(t, unit, Len(program))
           X == Meaning(x, unit, Len(program))
           large == \E i \in Range(Lookup(x)) : IsLarge(i)
           short == \E i \in Range(Lookup(t)) : ~IsExtended(i)
           needed == /\ \E d \in X : d.entry.written = "large"
                     /\ \E d \in T : d.entry.written # "extended"
<1>1. /\ stored' = <<t, x>> /\ stored'[1] = t /\ stored'[2] = x
      /\ unit' = unit /\ program' = program
      /\ warned' = IF large /\ short
                   THEN {[kind |-> "EXTENDED_POINTER_NEEDED", name |-> t]} ELSE {}
  BY DEF Store
<1>2. \A n : \A d \in Meaning(n, unit, Len(program)) : Honest(d.entry)
  <2>1. \A n : \A d \in Meaning(n, unit, Len(program)) :
          \E i \in 1..Len(program) : d = program[i]
    BY DEF Meaning
  <2>2. 1..Len(program) = DOMAIN program
    BY TypeFacts DEF NamesInv
  <2> QED
    BY <2>1, <2>2 DEF NamesInv, EntriesInv
<1>3. /\ Range(Lookup(x)) = {d.entry : d \in X}
      /\ Range(Lookup(t)) = {d.entry : d \in T}
  BY LookupFacts
<1>4. large <=> \E d \in X : d.entry.written = "large"
  <2>1. \A d \in X : IsLarge(d.entry) <=> d.entry.written = "large"
    BY <1>2 DEF Honest, IsLarge, IsIndirect, ParamKinds
  <2>2. large <=> \E d \in X : IsLarge(d.entry)
    BY <1>3
  <2> QED
    BY <2>1, <2>2
<1>5. short <=> \E d \in T : d.entry.kind # "extended"
  BY <1>3 DEF IsExtended
<1>6. \A d \in T : /\ d.entry.written # "extended" => d.entry.kind # "extended"
                   /\ d.entry.kind # "extended" =>
                        \/ d.entry.written # "extended"
                        \/ d.entry.kind # d.entry.written
  BY <1>2 DEF Honest
<1>7. warned' # {} <=> large /\ short
  BY <1>1
<1> HIDE DEF large, short, T, X
<1>8. /\ needed => warned' # {}
      /\ warned' # {} => needed \/ \E d \in T : d.entry.kind # d.entry.written
  BY <1>4, <1>5, <1>6, <1>7
<1>9. /\ Meaning(stored[1], unit, Len(program))' = T
      /\ Meaning(stored[2], unit, Len(program))' = X
  BY <1>1 DEF Meaning, T, X
<1> QED
  BY <1>8, <1>9 DEF AddressesJudged

(* The unit's overlays are judged by the declarations they name.           *)
LEMMA BodyJudged ==
  ASSUME NamesInv, StartBody
  PROVE  OverlaysJudged'
<1>1. /\ unit' = unit /\ program' = program /\ warned' = Overlays
  BY DEF StartBody
<1>2. ASSUME NEW i \in DOMAIN program,
             program[i].unit = unit, program[i].entry.kind = "overlay",
             Meaning(program[i].entry.overlays, unit, i)
               = Meaning(program[i].entry.overlays, unit, Len(program)),
             \A d \in Meaning(program[i].entry.overlays, unit, i) : ~d.entry.param
      PROVE  {w.kind : w \in {v \in Overlays : v.name = program[i].name}}
               = UNION {OverlayWarnings(d.entry) :
                          d \in Meaning(program[i].entry.overlays, unit, i)}
  <2> DEFINE d0 == program[i]
             M == Meaning(d0.entry.overlays, unit, i)
  <2>1. d0.entry.overlays # Nobody
    BY <1>2 DEF NamesInv, EntriesInv, Honest
  <2>2. Range(Overlaid(d0.entry)) = {d.entry : d \in M}
    BY <1>2, OverlaidFacts
  <2>3. Judged(d0) = UNION {OverlayWarnings(d.entry) : d \in M}
    <3>1. Judged(d0) = UNION {OverlayWarnings(e) : e \in Range(Overlaid(d0.entry))}
      BY <2>1 DEF Judged
    <3>2. {OverlayWarnings(e) : e \in {d.entry : d \in M}}
            = {OverlayWarnings(d.entry) : d \in M}
      OBVIOUS
    <3> QED
      BY <2>2, <3>1, <3>2
  <2>4. \A d \in Mine : d.name = d0.name => d = d0
    <3>1. \A d \in Mine : \E j \in DOMAIN program :
            d = program[j] /\ program[j].unit = unit
      BY DEF Mine
    <3>2. \A j \in DOMAIN program :
            program[j].unit = unit /\ program[j].name = d0.name => j = i
      BY <1>2 DEF NamesInv, DeclaredOnce
    <3> QED
      BY <3>1, <3>2
  <2>5. d0 \in Mine
    BY <1>2 DEF Mine
  <2>6. {w.kind : w \in {v \in Overlays : v.name = d0.name}} = Judged(d0)
    <3>1. \A v : v \in Overlays <=>
            \E d \in Mine : \E w \in Judged(d) : v = [kind |-> w, name |-> d.name]
      BY DEF Overlays
    <3>2. ASSUME NEW w \in Judged(d0)
          PROVE  \E v \in Overlays : v.name = d0.name /\ v.kind = w
      <4>1. [kind |-> w, name |-> d0.name] \in Overlays
        BY <2>5, <3>1, <3>2
      <4> QED
        BY <4>1
    <3>3. ASSUME NEW v \in Overlays, v.name = d0.name PROVE v.kind \in Judged(d0)
      <4>0. PICK d \in Mine :
              \E w \in Judged(d) : v = [kind |-> w, name |-> d.name]
        BY <3>1, <3>3
      <4>1. PICK w \in Judged(d) : v = [kind |-> w, name |-> d.name]
        BY <4>0
      <4>2. v.kind = w /\ v.name = d.name
        BY <4>1
      <4>3. d = d0
        BY <2>4, <3>3, <4>1, <4>2
      <4> QED
        BY <4>1, <4>2, <4>3
    <3> QED
      BY <3>2, <3>3
  <2> QED
    BY <2>3, <2>6
<1>3. \A n, u, k : Meaning(n, u, k) = MeaningIn(program, n, u, k)
  BY DEF Meaning, MeaningIn
<1>4. \A i \in DOMAIN program : OverlayOf(i, unit, program, Overlays)
  BY <1>2, <1>3 DEF OverlayOf
<1> QED
  BY <1>1, <1>4, JudgedAreNext DEF JudgedForm

(* Reports are of the step that made them.                                 *)
LEMMA JudgedNext ==
  NamesInv /\ AddressesJudged /\ OverlaysJudged /\ [Next]_vars
    => AddressesJudged' /\ OverlaysJudged'
<1> SUFFICES ASSUME NamesInv, AddressesJudged, OverlaysJudged, [Next]_vars
             PROVE  AddressesJudged' /\ OverlaysJudged'
  OBVIOUS
<1>1. CASE stored' = <<>> /\ part' = "decls"
  BY <1>1 DEF AddressesJudged, OverlaysJudged
<1>2. ASSUME NEW n \in Idents, NEW k \in VarKinds, NEW o \in Idents \cup {Nobody},
             DeclareVar(n, k, o)
      PROVE  AddressesJudged' /\ OverlaysJudged'
  BY <1>1, <1>2 DEF DeclareVar, Fresh
<1>3. ASSUME NEW n \in Idents, NEW k \in ParamKinds, NEW inList \in BOOLEAN,
             DeclareParam(n, k, inList)
      PROVE  AddressesJudged' /\ OverlaysJudged'
  BY <1>1, <1>3 DEF DeclareParam, Fresh
<1>4. CASE StartBody
  <2>1. stored' = <<>>
    BY <1>4 DEF StartBody
  <2>2. AddressesJudged'
    BY <2>1 DEF AddressesJudged
  <2> QED
    BY <1>4, <2>2, BodyJudged
<1>5. ASSUME NEW t \in Idents, NEW x \in Idents, Store(t, x)
      PROVE  AddressesJudged' /\ OverlaysJudged'
  <2>1. stored' # <<>>
    BY <1>5 DEF Store
  <2>2. OverlaysJudged'
    BY <2>1 DEF OverlaysJudged
  <2> QED
    BY <1>5, <2>2, StoreJudged
<1>6. CASE EnterProc \/ EnterSub
  BY <1>1, <1>6 DEF EnterProc, EnterSub, Enter
<1>7. CASE UNCHANGED vars
  <2>1. /\ unit' = unit /\ part' = part /\ program' = program
        /\ warned' = warned /\ stored' = stored
    BY <1>7 DEF vars
  <2> QED
    BY <2>1, JudgedAre, JudgedAreNext DEF JudgedForm
<1> QED
  BY <1>2, <1>3, <1>4, <1>5, <1>6, <1>7 DEF Next

LEMMA InitJudged == Init => AddressesJudged /\ OverlaysJudged
BY DEF Init, AddressesJudged, OverlaysJudged

(* Levels and dictionaries hold what the program declares, whatever units  *)
(* it has (ScopeStack, _build_scope_vars).                                 *)
THEOREM NamesHeld == Spec => []NamesInv
<1>1. Init => NamesInv
  BY InitInv
<1>2. NamesInv /\ [Next]_vars => NamesInv'
  BY NextInv
<1> QED
  BY <1>1, <1>2, PTL DEF Spec

(* For every program: the address of a large array is reported exactly     *)
(* when it goes to a variable that is not .EXT, by the declarations in     *)
(* force (_check_stmt_ext), but for a parameter typed behind the header.   *)
THEOREM AddressesAlwaysJudged == Spec => []AddressesJudged
<1>1. Init => NamesInv /\ AddressesJudged /\ OverlaysJudged
  BY InitInv, InitJudged
<1>2. NamesInv /\ AddressesJudged /\ OverlaysJudged /\ [Next]_vars
        => (NamesInv /\ AddressesJudged /\ OverlaysJudged)'
  BY NextInv, JudgedNext
<1> QED
  BY <1>1, <1>2, PTL DEF Spec

(* For every program: an overlay is judged by the declaration it names     *)
(* (_check_equivalence_decl), but for a parameter and a name declared      *)
(* again behind it.                                                        *)
THEOREM OverlaysAlwaysJudged == Spec => []OverlaysJudged
<1>1. Init => NamesInv /\ AddressesJudged /\ OverlaysJudged
  BY InitInv, InitJudged
<1>2. NamesInv /\ AddressesJudged /\ OverlaysJudged /\ [Next]_vars
        => (NamesInv /\ AddressesJudged /\ OverlaysJudged)'
  BY NextInv, JudgedNext
<1> QED
  BY <1>1, <1>2, PTL DEF Spec
=============================================================================

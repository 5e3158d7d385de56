------------------------------ MODULE MainProofs ------------------------------
(***************************************************************************)
(* Proofs about the parts of a run of main: the preprocessor, Macros, for  *)
(* any identifiers, texts, imported macros and limit of passes, that every *)
(* line stays on its line and that replacing the parameters one after the  *)
(* other replaces them at once; the runner, Main, for any options and      *)
(* whatever the rules find, that the report hides nothing and the exit     *)
(* status is that of what was found; and the storage and padding rules,    *)
(* Storage, for any programs and sizes, that warnings, summary and layout  *)
(* agree and the savings promised are real.                                *)
(***************************************************************************)
EXTENDS Macros, Main, Storage, SequenceTheorems, FiniteSetTheorems, WellFoundedInduction, TLAPS

-----------------------------------------------------------------------------
(***************************************************************************)
(* Numbers.                                                                *)
(***************************************************************************)

LEMMA LeastNat ==
  ASSUME NEW S \in SUBSET Nat, S # {}
  PROVE  \E x \in S : \A y \in S : x <= y
<1>1. PICK x \in S : \A y \in S : <<y, x>> \notin OpToRel(<, Nat)
  <2> DEFINE R == OpToRel(<, Nat)
  <2>1. IsWellFoundedOn(R, Nat)
    BY NatLessThanWellFounded
  <2> HIDE DEF R
  <2>2. \E x \in S : \A y \in S : <<y, x>> \notin R
    BY <2>1, WFMin
  <2> QED
    BY <2>2 DEF R
<1>2. \A y \in S : ~(y < x)
  BY <1>1 DEF OpToRel
<1> QED
  BY <1>2

LEMMA MinFacts ==
  ASSUME NEW S \in SUBSET Nat, S # {}
  PROVE  Min(S) \in S /\ \A y \in S : Min(S) <= y
BY LeastNat DEF Min

(* Induction up to n, on a set.                                            *)
LEMMA UpTo ==
  ASSUME NEW n \in Nat, NEW S, 0 \in S, \A k \in 1 .. n : k - 1 \in S => k \in S
  PROVE  0 .. n \subseteq S
<1> SUFFICES ASSUME ~(0 .. n \subseteq S) PROVE FALSE
  OBVIOUS
<1> DEFINE Bad == {k \in 0 .. n : k \notin S}
<1>1. Bad \in SUBSET Nat /\ Bad # {}
  OBVIOUS
<1>2. PICK k \in Bad : \A y \in Bad : k <= y
  <2> HIDE DEF Bad
  <2> QED
    BY <1>1, LeastNat
<1>3. k \in 1 .. n /\ k - 1 \in 0 .. n
  OBVIOUS
<1>4. k - 1 \notin Bad
  BY <1>2, <1>3
<1> QED
  BY <1>3, <1>4

LEMMA MaxFacts ==
  ASSUME NEW n \in Nat, NEW S \in SUBSET (1 .. n), S # {}
  PROVE  Max(S) \in S /\ \A y \in S : Max(S) >= y
<1> DEFINE T == {k \in Nat : \A y \in S : y <= k}
<1>1. T # {} /\ T \subseteq Nat
  <2>1. n \in T
    OBVIOUS
  <2> QED
    BY <2>1
<1>2. PICK m \in T : \A k \in T : m <= k
  <2> HIDE DEF T
  <2> QED
    BY <1>1, LeastNat
<1>3. m \in S
  <2> SUFFICES ASSUME m \notin S PROVE FALSE
    OBVIOUS
  <2>1. PICK y \in S : TRUE
    OBVIOUS
  <2>2. m \in Nat /\ y \in 1 .. n /\ y <= m /\ y # m
    BY <1>2, <2>1
  <2>3. m - 1 \in Nat /\ ~(m <= m - 1)
    BY <2>2
  <2>4. \A z \in S : z <= m - 1
    BY <1>2, <2>2
  <2> QED
    BY <1>2, <2>3, <2>4
<1>4. \E x \in S : \A y \in S : x >= y
  BY <1>2, <1>3
<1> QED
  BY <1>4 DEF Max

LEMMA MaxIs ==
  ASSUME NEW n \in Nat, NEW S \in SUBSET (1 .. n), NEW m \in S, \A y \in S : y <= m
  PROVE  Max(S) = m
<1>1. S # {} /\ \A y \in S : y \in Nat
  OBVIOUS
<1>2. Max(S) \in S /\ Max(S) >= m
  BY <1>1, MaxFacts
<1>3. Max(S) \in Nat /\ m \in Nat /\ Max(S) <= m
  BY <1>1, <1>2
<1> QED
  BY <1>2, <1>3

-----------------------------------------------------------------------------
(***************************************************************************)
(* Folds.  FoldLeft over 1 .. n is a function on the sets of positions,    *)
(* the value at a set being made of that of the set without its greatest   *)
(* member; its values at 1 .. k are those of a loop.  F stands for the     *)
(* operator that is folded, with the position beside the value so far.     *)
(***************************************************************************)

Steps(A, n) == [(1 .. n) \X A -> A]

IsFold(A, base, n, F, g) ==
  /\ g \in [SUBSET (1 .. n) -> A]
  /\ g[{}] = base
  /\ \A s \in SUBSET (1 .. n) : s # {} => g[s] = F[<<Max(s), g[s \ {Max(s)}]>>]

IsLoop(A, base, n, F, r) ==
  /\ r \in [0 .. n -> A]
  /\ r[0] = base
  /\ \A k \in 1 .. n : r[k] = F[<<k, r[k - 1]>>]

(* What h is known to do, where its values are in A.                       *)
Follows(A, base, n, F, h) ==
  /\ h[{}] = base
  /\ \A s \in SUBSET (1 .. n) :
       s # {} /\ h[s \ {Max(s)}] \in A => h[s] = F[<<Max(s), h[s \ {Max(s)}]>>]

LEMMA FoldExists ==
  ASSUME NEW A, NEW base \in A, NEW n \in Nat, NEW F \in Steps(A, n)
  PROVE  \E g : IsFold(A, base, n, F, g)
<1> USE DEF Steps, IsFold
<1> DEFINE Fold(m, g) == IsFold(A, base, m, F, g)
    S == {m \in 0 .. n : \E g : Fold(m, g)}
<1>1. 0 \in S
  <2> DEFINE g == [s \in SUBSET (1 .. 0) |-> base]
  <2>1. SUBSET (1 .. 0) = {{}}
    OBVIOUS
  <2>2. Fold(0, g)
    BY <2>1
  <2> HIDE DEF g, Fold
  <2> QED
    BY <2>2
<1>2. ASSUME NEW m \in 1 .. n, m - 1 \in S
      PROVE  m \in S
  <2>1. PICK g : Fold(m - 1, g)
    BY <1>2
  <2> DEFINE h == [s \in SUBSET (1 .. m) |->
                     IF m \in s THEN F[<<m, g[s \ {m}]>>] ELSE g[s]]
  <2>2. ASSUME NEW s \in SUBSET (1 .. m)
        PROVE  /\ s \ {m} \in SUBSET (1 .. m - 1)
               /\ s \ {m} \in SUBSET (1 .. m)
               /\ m \in s => Max(s) = m
               /\ m \notin s => s \in SUBSET (1 .. m - 1)
    <3>1. m \in Nat /\ \A x \in 1 .. m : x <= m /\ (x # m => x \in 1 .. m - 1)
      OBVIOUS
    <3>2. s \ {m} \in SUBSET (1 .. m - 1) /\ (m \notin s => s \in SUBSET (1 .. m - 1))
      BY <3>1
    <3>3. m \in s => Max(s) = m
      BY <3>1, MaxIs
    <3> QED
      BY <3>2, <3>3
  <2>3. h \in [SUBSET (1 .. m) -> A]
    <3> SUFFICES ASSUME NEW s \in SUBSET (1 .. m)
                 PROVE  (IF m \in s THEN F[<<m, g[s \ {m}]>>] ELSE g[s]) \in A
      OBVIOUS
    <3>1. g[s \ {m}] \in A /\ (m \notin s => g[s] \in A)
      BY <2>1, <2>2
    <3> QED
      BY <3>1
  <2>4. h[{}] = base
    BY <2>1
  <2>5. ASSUME NEW s \in SUBSET (1 .. m), s # {}
        PROVE  h[s] = F[<<Max(s), h[s \ {Max(s)}]>>]
    <3>1. CASE m \in s
      <4>1. Max(s) = m /\ s \ {m} \in SUBSET (1 .. m)
        BY <2>2, <3>1
      <4>2. h[s \ {m}] = g[s \ {m}] /\ h[s] = F[<<m, g[s \ {m}]>>]
        BY <3>1, <4>1
      <4> HIDE DEF h
      <4> QED
        BY <4>1, <4>2
    <3>2. CASE m \notin s
      <4>1. s \in SUBSET (1 .. m - 1) /\ m - 1 \in Nat
        BY <2>2, <3>2
      <4>2. Max(s) \in s
        BY <2>5, <4>1, MaxFacts
      <4>3. s \ {Max(s)} \in SUBSET (1 .. m) /\ m \notin s \ {Max(s)}
        BY <3>2
      <4>4. h[s] = g[s] /\ h[s \ {Max(s)}] = g[s \ {Max(s)}]
        BY <3>2, <4>3
      <4>5. g[s] = F[<<Max(s), g[s \ {Max(s)}]>>]
        BY <2>1, <2>5, <4>1
      <4> HIDE DEF h
      <4> QED
        BY <4>4, <4>5
    <3> QED
      BY <3>1, <3>2
  <2>6. Fold(m, h)
    <3> HIDE DEF h
    <3> QED
      BY <2>3, <2>4, <2>5
  <2> HIDE DEF h, Fold
  <2> QED
    BY <2>6
<1>3. n \in S
  <2> HIDE DEF S
  <2>1. 0 .. n \subseteq S
    BY <1>1, <1>2, UpTo
  <2> QED
    BY <2>1
<1> QED
  BY <1>3

LEMMA FoldRuns ==
  ASSUME NEW A, NEW base \in A, NEW n \in Nat, NEW F \in Steps(A, n),
         NEW h, Follows(A, base, n, F, h)
  PROVE  \E r : IsLoop(A, base, n, F, r) /\ r[n] = h[1 .. n]
<1> USE DEF Steps, Follows, IsLoop
<1> DEFINE S == {k \in 0 .. n : h[1 .. k] \in A}
<1>1. \A k \in 1 .. n : h[1 .. k - 1] \in A => h[1 .. k] = F[<<k, h[1 .. k - 1]>>]
  <2> SUFFICES ASSUME NEW k \in 1 .. n, h[1 .. k - 1] \in A
               PROVE  h[1 .. k] = F[<<k, h[1 .. k - 1]>>]
    OBVIOUS
  <2>1. /\ 1 .. k \in SUBSET (1 .. n) /\ k \in 1 .. k /\ \A y \in 1 .. k : y <= k
        /\ (1 .. k) \ {k} = 1 .. k - 1
    OBVIOUS
  <2>2. Max(1 .. k) = k
    BY <2>1, MaxIs
  <2> QED
    BY <2>1, <2>2
<1>2. 1 .. 0 = {}
  OBVIOUS
<1>3. 0 \in S
  BY <1>2
<1>4. \A k \in 1 .. n : k - 1 \in S => k \in S
  <2> SUFFICES ASSUME NEW k \in 1 .. n, h[1 .. k - 1] \in A PROVE h[1 .. k] \in A
    OBVIOUS
  <2>1. h[1 .. k] = F[<<k, h[1 .. k - 1]>>]
    BY <1>1
  <2> QED
    BY <2>1
<1>5. \A k \in 0 .. n : h[1 .. k] \in A
  <2> HIDE DEF S
  <2>1. 0 .. n \subseteq S
    BY <1>3, <1>4, UpTo
  <2> QED
    BY <2>1 DEF S
<1> DEFINE r == [k \in 0 .. n |-> h[1 .. k]]
<1>6. r \in [0 .. n -> A] /\ r[0] = base /\ r[n] = h[1 .. n]
  BY <1>2, <1>5
<1>7. \A k \in 1 .. n : k \in 0 .. n /\ k - 1 \in 0 .. n
  OBVIOUS
<1>8. \A k \in 1 .. n : r[k] = F[<<k, r[k - 1]>>]
  BY <1>1, <1>5, <1>7
<1> HIDE DEF r
<1> QED
  BY <1>6, <1>8

-----------------------------------------------------------------------------
(***************************************************************************)
(* What the folds of Macros compute.                                       *)
(***************************************************************************)

Texts == Seq(Tokens)
Images == [Tokens -> Texts]

(* u is t with the image of each of its tokens in the token's place.       *)
Joins(t, f, u) ==
  \E r \in [0 .. Len(t) -> Texts] :
    /\ r[0] = <<>> /\ r[Len(t)] = u
    /\ \A k \in 1 .. Len(t) : r[k] = r[k - 1] \o f[t[k]]

LEMMA TextFacts ==
  ASSUME NEW t \in Texts
  PROVE  /\ Len(t) \in Nat /\ DOMAIN t = 1 .. Len(t)
         /\ \A k \in DOMAIN t : t[k] \in Tokens
BY DEF Texts

LEMMA TextJoin ==
  ASSUME NEW t \in Texts, NEW u \in Texts
  PROVE  /\ t \o u \in Texts /\ Len(t \o u) = Len(t) + Len(u)
         /\ \A k \in 1 .. Len(t) : (t \o u)[k] = t[k]
         /\ \A k \in 1 .. Len(u) : (t \o u)[Len(t) + k] = u[k]
BY DEF Texts

LEMMA TextThird ==
  ASSUME NEW t \in Texts, NEW u \in Texts, NEW v \in Texts
  PROVE  (t \o u) \o v = t \o (u \o v)
BY ConcatAssociative DEF Texts

LEMMA TextSteps ==
  ASSUME NEW t \in Texts, NEW f \in Images
  PROVE  [x \in (1 .. Len(t)) \X Texts |-> x[2] \o f[t[x[1]]]]
           \in Steps(Texts, Len(t))
<1> SUFFICES ASSUME NEW x \in (1 .. Len(t)) \X Texts
             PROVE  x[2] \o f[t[x[1]]] \in Texts
  BY DEF Steps
<1>1. x[2] \in Texts /\ t[x[1]] \in Tokens
  BY TextFacts
<1>2. f[t[x[1]]] \in Texts
  BY <1>1 DEF Images
<1> QED
  BY <1>1, <1>2, TextJoin

LEMMA EmptyText == <<>> \in Texts
BY DEF Texts

(* The fold that joins the images exists, and joins them.                  *)
LEMMA JoinsExists ==
  ASSUME NEW t \in Texts, NEW f \in Images
  PROVE  \E g : g = [s \in SUBSET DOMAIN t |->
                       IF s = {} THEN <<>>
                       ELSE g[s \ {Max(s)}] \o f[t[Max(s)]]]
<1> DEFINE n == Len(t)
           F == [x \in (1 .. n) \X Texts |-> x[2] \o f[t[x[1]]]]
<1>1. n \in Nat /\ DOMAIN t = 1 .. n /\ <<>> \in Texts
  BY TextFacts, EmptyText
<1>2. F \in Steps(Texts, n)
  BY TextSteps
<1>3. \A k \in 1 .. n, r \in Texts : F[<<k, r>>] = r \o f[t[k]]
  OBVIOUS
<1> HIDE DEF F, n
<1>4. PICK g : IsFold(Texts, <<>>, n, F, g)
  BY <1>1, <1>2, FoldExists
<1>5. ASSUME NEW s \in SUBSET (1 .. n)
      PROVE  g[s] = IF s = {} THEN <<>> ELSE g[s \ {Max(s)}] \o f[t[Max(s)]]
  <2>1. CASE s # {}
    <3>1. Max(s) \in 1 .. n
      BY <1>1, <2>1, MaxFacts
    <3>2. g[s \ {Max(s)}] \in Texts
      BY <1>4 DEF IsFold
    <3> QED
      BY <1>3, <1>4, <2>1, <3>1, <3>2 DEF IsFold
  <2> QED
    BY <1>4, <2>1 DEF IsFold
<1>6. g = [s \in SUBSET (1 .. n) |->
             IF s = {} THEN <<>> ELSE g[s \ {Max(s)}] \o f[t[Max(s)]]]
  BY <1>4, <1>5 DEF IsFold
<1> QED
  BY <1>1, <1>6

LEMMA JoinsRuns ==
  ASSUME NEW t \in Texts, NEW f \in Images,
         NEW h, h = [s \in SUBSET DOMAIN t |->
                       IF s = {} THEN <<>>
                       ELSE h[s \ {Max(s)}] \o f[t[Max(s)]]]
  PROVE  Joins(t, f, h[DOMAIN t])
<1> DEFINE n == Len(t)
           F == [x \in (1 .. n) \X Texts |-> x[2] \o f[t[x[1]]]]
<1>1. n \in Nat /\ DOMAIN t = 1 .. n /\ <<>> \in Texts
  BY TextFacts, EmptyText
<1>2. F \in Steps(Texts, n)
  BY TextSteps
<1>3. \A k \in 1 .. n, r \in Texts : F[<<k, r>>] = r \o f[t[k]]
  OBVIOUS
<1> HIDE DEF F, n
<1>4. h[{}] = <<>>
  OBVIOUS
<1>5. ASSUME NEW s \in SUBSET (1 .. n), s # {}, h[s \ {Max(s)}] \in Texts
      PROVE  h[s] = F[<<Max(s), h[s \ {Max(s)}]>>]
  <2>1. Max(s) \in 1 .. n
    BY <1>1, <1>5, MaxFacts
  <2>2. h[s] = h[s \ {Max(s)}] \o f[t[Max(s)]]
    BY <1>1, <1>5
  <2> QED
    BY <1>3, <1>5, <2>1, <2>2
<1>6. PICK r : IsLoop(Texts, <<>>, n, F, r) /\ r[n] = h[1 .. n]
  <2>1. Follows(Texts, <<>>, n, F, h)
    BY <1>4, <1>5 DEF Follows
  <2>2. n \in Nat /\ <<>> \in Texts
    BY <1>1
  <2> QED
    BY ONLY <1>2, <2>1, <2>2, FoldRuns
<1>7. \A k \in 1 .. n : r[k] = r[k - 1] \o f[t[k]]
  <2> SUFFICES ASSUME NEW k \in 1 .. n PROVE r[k] = r[k - 1] \o f[t[k]]
    OBVIOUS
  <2>1. k - 1 \in 0 .. n
    BY <1>1
  <2>2. r[k - 1] \in Texts
    BY <1>6, <2>1 DEF IsLoop
  <2> QED
    BY <1>3, <1>6, <2>2 DEF IsLoop
<1> QED
  BY <1>1, <1>6, <1>7 DEF Joins, IsLoop, n

(* Replace puts a in the place of p.                                       *)
Instead(p, a) == [c \in Tokens |-> IF c = p THEN a ELSE <<c>>]

LEMMA InsteadImages ==
  ASSUME NEW p, NEW a \in Texts
  PROVE  /\ Instead(p, a) \in Images
         /\ \A c \in Tokens : Instead(p, a)[c] = IF c = p THEN a ELSE <<c>>
BY DEF Images, Instead, Texts

LEMMA ReplaceJoins ==
  ASSUME NEW t \in Texts, NEW p, NEW a \in Texts
  PROVE  Joins(t, Instead(p, a), Replace(t, p, a))
<1> DEFINE Eq(h) == h = [s \in SUBSET DOMAIN t |->
                           IF s = {} THEN <<>>
                           ELSE h[s \ {Max(s)}]
                                  \o (IF t[Max(s)] = p THEN a ELSE <<t[Max(s)]>>)]
           f == Instead(p, a)
           Ef(h) == h = [s \in SUBSET DOMAIN t |->
                           IF s = {} THEN <<>>
                           ELSE h[s \ {Max(s)}] \o f[t[Max(s)]]]
<1>1. Replace(t, p, a) = (CHOOSE h : Eq(h))[DOMAIN t]
  BY DEF Replace, FoldLeft, MapThenFoldSet
<1>2. f \in Images
  BY InsteadImages
<1>3. ASSUME NEW s \in SUBSET DOMAIN t, s # {}
      PROVE  f[t[Max(s)]] = IF t[Max(s)] = p THEN a ELSE <<t[Max(s)]>>
  <2>1. Len(t) \in Nat /\ s \in SUBSET (1 .. Len(t))
    BY TextFacts
  <2>2. t[Max(s)] \in Tokens
    BY <1>3, <2>1, MaxFacts, TextFacts
  <2> QED
    BY <2>2, InsteadImages
<1>4. ASSUME NEW h PROVE Eq(h) <=> Ef(h)
  <2>1. \A s \in SUBSET DOMAIN t :
          (IF s = {} THEN <<>>
           ELSE h[s \ {Max(s)}] \o (IF t[Max(s)] = p THEN a ELSE <<t[Max(s)]>>))
          = (IF s = {} THEN <<>> ELSE h[s \ {Max(s)}] \o f[t[Max(s)]])
    BY <1>3
  <2> HIDE DEF f
  <2> QED
    BY <2>1
<1>5. \E h : Ef(h)
  <2> HIDE DEF f
  <2> QED
    BY <1>2, JoinsExists
<1> HIDE DEF Eq, Ef, f
<1>6. Ef(CHOOSE h : Eq(h))
  BY <1>4, <1>5
<1>7. Joins(t, f, (CHOOSE h : Eq(h))[DOMAIN t])
  BY <1>2, <1>6, JoinsRuns DEF Ef
<1> QED
  BY <1>1, <1>7 DEF f

LEMMA JoinsType ==
  ASSUME NEW t \in Texts, NEW f, NEW u, Joins(t, f, u)
  PROVE  u \in Texts
BY TextFacts DEF Joins

LEMMA JoinsOne ==
  ASSUME NEW t \in Texts, NEW f, NEW u, NEW v, Joins(t, f, u), Joins(t, f, v)
  PROVE  u = v
<1>1. Len(t) \in Nat
  BY TextFacts
<1>2. PICK r : /\ r[0] = <<>> /\ r[Len(t)] = u
               /\ \A k \in 1 .. Len(t) : r[k] = r[k - 1] \o f[t[k]]
  BY DEF Joins
<1>3. PICK q : /\ q[0] = <<>> /\ q[Len(t)] = v
               /\ \A k \in 1 .. Len(t) : q[k] = q[k - 1] \o f[t[k]]
  BY DEF Joins
<1> DEFINE S == {k \in 0 .. Len(t) : r[k] = q[k]}
<1>4. 0 \in S
  BY <1>1, <1>2, <1>3
<1>5. \A k \in 1 .. Len(t) : k - 1 \in S => k \in S
  <2> SUFFICES ASSUME NEW k \in 1 .. Len(t), r[k - 1] = q[k - 1]
               PROVE  k \in S
    OBVIOUS
  <2>1. r[k] = r[k - 1] \o f[t[k]] /\ q[k] = q[k - 1] \o f[t[k]]
    BY <1>2, <1>3
  <2>2. k \in 0 .. Len(t)
    OBVIOUS
  <2> QED
    BY <2>1, <2>2
<1>6. Len(t) \in S
  <2> HIDE DEF S
  <2>1. 0 .. Len(t) \subseteq S
    BY <1>1, <1>4, <1>5, UpTo
  <2> QED
    BY <1>1, <2>1
<1> QED
  BY <1>2, <1>3, <1>6

LEMMA JoinsEmpty ==
  ASSUME NEW f
  PROVE  Joins(<<>>, f, <<>>)
<1> DEFINE r == [k \in 0 .. 0 |-> <<>>]
<1>1. r \in [0 .. 0 -> Texts] /\ r[0] = <<>>
  BY EmptyText
<1>2. Len(<<>>) = 0
  OBVIOUS
<1> HIDE DEF r
<1> QED
  BY <1>1, <1>2 DEF Joins

(* One text after the other.                                               *)
LEMMA JoinsThen ==
  ASSUME NEW t \in Texts, NEW s \in Texts, NEW f \in Images, NEW u, NEW v,
         Joins(t, f, u), Joins(s, f, v)
  PROVE  Joins(t \o s, f, u \o v)
<1> DEFINE n == Len(t)
           m == Len(s)
<1>1. n \in Nat /\ m \in Nat /\ u \in Texts /\ v \in Texts
  BY TextFacts, JoinsType
<1>1a. \A x, y \in Texts : (u \o x) \o y = u \o (x \o y)
  BY <1>1, TextThird, Zenon
<1>2. PICK r \in [0 .. n -> Texts] :
        /\ r[0] = <<>> /\ r[n] = u
        /\ \A k \in 1 .. n : r[k] = r[k - 1] \o f[t[k]]
  BY DEF Joins
<1>3. PICK q \in [0 .. m -> Texts] :
        /\ q[0] = <<>> /\ q[m] = v
        /\ \A k \in 1 .. m : q[k] = q[k - 1] \o f[s[k]]
  BY DEF Joins
<1>4. /\ Len(t \o s) = n + m
      /\ \A k \in 1 .. n : (t \o s)[k] = t[k]
      /\ \A k \in 1 .. m : (t \o s)[n + k] = s[k]
  BY TextJoin
<1> DEFINE w == [k \in 0 .. n + m |-> IF k <= n THEN r[k] ELSE u \o q[k - n]]
<1> HIDE DEF n, m
<1>5. /\ \A k \in 0 .. n + m : k <= n => k \in 0 .. n
      /\ \A k \in 0 .. n + m : ~(k <= n) => k - n \in 0 .. m
  BY <1>1
<1>6. w \in [0 .. n + m -> Texts]
  <2> SUFFICES ASSUME NEW k \in 0 .. n + m
               PROVE  (IF k <= n THEN r[k] ELSE u \o q[k - n]) \in Texts
    OBVIOUS
  <2>1. CASE k <= n
    BY <1>5, <2>1
  <2>2. CASE ~(k <= n)
    <3>1. q[k - n] \in Texts
      BY <1>5, <2>2
    <3> QED
      BY <1>1, <2>2, <3>1, TextJoin
  <2> QED
    BY <2>1, <2>2
<1>7. \A k \in 0 .. m : w[n + k] = u \o q[k]
  <2> SUFFICES ASSUME NEW k \in 0 .. m PROVE w[n + k] = u \o q[k]
    OBVIOUS
  <2>1. CASE k = 0
    <3>1. w[n + k] = r[n] /\ q[k] = <<>>
      BY <1>1, <1>3, <2>1
    <3>2. u \o <<>> = u
      BY <1>1 DEF Texts
    <3> QED
      BY <1>2, <3>1, <3>2
  <2>2. CASE k # 0
    <3>1. n + k \in 0 .. n + m /\ ~(n + k <= n) /\ (n + k) - n = k
      BY <1>1, <2>2
    <3> QED
      BY <3>1
  <2> QED
    BY <2>1, <2>2
<1>8. w[0] = <<>>
  BY <1>1, <1>2
<1>9. w[n + m] = u \o v
  <2>1. m \in 0 .. m
    BY <1>1
  <2> QED
    BY <1>3, <1>7, <2>1
<1>10. ASSUME NEW k \in 1 .. n + m
       PROVE  w[k] = w[k - 1] \o f[(t \o s)[k]]
  <2>1. CASE k <= n
    <3>1. k \in 1 .. n /\ k \in 0 .. n + m /\ k - 1 \in 0 .. n + m /\ k - 1 <= n
      BY <1>1, <2>1
    <3>2. w[k] = r[k] /\ w[k - 1] = r[k - 1]
      BY <2>1, <3>1
    <3> QED
      BY <1>2, <1>4, <3>1, <3>2
  <2>2. CASE ~(k <= n)
    <3> DEFINE j == k - n
    <3>1. j \in 1 .. m /\ j - 1 \in 0 .. m /\ j \in 0 .. m /\ n + j = k /\ n + (j - 1) = k - 1
      BY <1>1, <2>2
    <3> HIDE DEF j
    <3>2. w[k] = u \o q[j] /\ w[k - 1] = u \o q[j - 1] /\ (t \o s)[k] = s[j]
      BY <1>4, <1>7, <3>1
    <3>3. q[j] = q[j - 1] \o f[s[j]]
      BY <1>3, <3>1
    <3>4. q[j - 1] \in Texts
      BY <3>1
    <3>5. f[s[j]] \in Texts
      BY <3>1, TextFacts DEF Images, m
    <3>6. (u \o q[j - 1]) \o f[s[j]] = u \o (q[j - 1] \o f[s[j]])
      BY <1>1a, <3>4, <3>5, Zenon
    <3> QED
      BY <3>2, <3>3, <3>6
  <2> QED
    BY <2>1, <2>2
<1> HIDE DEF w
<1> QED
  BY <1>4, <1>6, <1>8, <1>9, <1>10 DEF Joins, n, m

(* Images that are the token itself change nothing.                        *)
LEMMA JoinsSelf ==
  ASSUME NEW t \in Texts, NEW f, \A k \in DOMAIN t : f[t[k]] = <<t[k]>>
  PROVE  Joins(t, f, t)
<1> DEFINE n == Len(t)
           r == [k \in 0 .. n |-> SubSeq(t, 1, k)]
<1>1. n \in Nat /\ DOMAIN t = 1 .. n
  BY TextFacts
<1>2. \A k \in 0 .. n : SubSeq(t, 1, k) \in Texts
  <2> SUFFICES ASSUME NEW k \in 0 .. n PROVE SubSeq(t, 1, k) \in Texts
    OBVIOUS
  <2>1. k \in Int /\ \A j \in 1 .. k : j \in 1 .. Len(t)
    BY <1>1
  <2> QED
    BY <2>1, SubSeqProperties DEF Texts
<1>3. SubSeq(t, 1, 0) = <<>> /\ SubSeq(t, 1, n) = t
  BY <1>1, SubSeqEmpty, SubSeqFull DEF Texts
<1>4. ASSUME NEW k \in 1 .. n
      PROVE  SubSeq(t, 1, k) = SubSeq(t, 1, k - 1) \o f[t[k]]
  <2>1. SubSeq(t, 1, k) = SubSeq(t, 1, k - 1) \o <<t[k]>>
    <3>1. 1 \in 1 .. Len(t) /\ k \in 1 .. Len(t) /\ 1 <= k
      BY <1>1
    <3> QED
      BY <3>1, SubSeqRecursiveSecond DEF Texts
  <2> QED
    BY <1>1, <2>1
<1>5. \A k \in 1 .. n : k \in 0 .. n /\ k - 1 \in 0 .. n
  BY <1>1
<1>6. r \in [0 .. n -> Texts] /\ r[0] = <<>> /\ r[n] = t
  BY <1>1, <1>2, <1>3
<1>7. \A k \in 1 .. n : r[k] = r[k - 1] \o f[t[k]]
  BY <1>4, <1>5
<1> HIDE DEF r
<1> QED
  BY <1>6, <1>7 DEF Joins

(* The image under g of what f makes of t.                                 *)
LEMMA JoinsTwice ==
  ASSUME NEW t \in Texts, NEW f \in Images, NEW g \in Images, NEW h,
         \A k \in DOMAIN t : Joins(f[t[k]], g, h[t[k]]),
         NEW u, NEW v, Joins(t, f, u), Joins(t, h, v)
  PROVE  Joins(u, g, v)
<1>1. Len(t) \in Nat /\ DOMAIN t = 1 .. Len(t)
  BY TextFacts
<1>2. PICK r \in [0 .. Len(t) -> Texts] :
        /\ r[0] = <<>> /\ r[Len(t)] = u
        /\ \A k \in 1 .. Len(t) : r[k] = r[k - 1] \o f[t[k]]
  BY DEF Joins
<1>3. PICK q : /\ q[0] = <<>> /\ q[Len(t)] = v
               /\ \A k \in 1 .. Len(t) : q[k] = q[k - 1] \o h[t[k]]
  BY DEF Joins
<1> DEFINE S == {k \in 0 .. Len(t) : Joins(r[k], g, q[k])}
<1>4. 0 \in S
  BY <1>1, <1>2, <1>3, JoinsEmpty
<1>5. \A k \in 1 .. Len(t) : k - 1 \in S => k \in S
  <2> SUFFICES ASSUME NEW k \in 1 .. Len(t), Joins(r[k - 1], g, q[k - 1])
               PROVE  Joins(r[k], g, q[k])
    OBVIOUS
  <2>1. r[k] = r[k - 1] \o f[t[k]] /\ q[k] = q[k - 1] \o h[t[k]]
    BY <1>2, <1>3
  <2>2. r[k - 1] \in Texts /\ f[t[k]] \in Texts
    <3>1. k - 1 \in 0 .. Len(t)
      BY <1>1
    <3> QED
      BY <3>1, TextFacts DEF Images
  <2>3. Joins(f[t[k]], g, h[t[k]])
    BY <1>1
  <2>4. Joins(r[k - 1] \o f[t[k]], g, q[k - 1] \o h[t[k]])
    BY <2>2, <2>3, JoinsThen
  <2> QED
    BY <2>1, <2>4
<1>6. Len(t) \in S
  <2> HIDE DEF S
  <2>1. 0 .. Len(t) \subseteq S
    BY <1>1, <1>4, <1>5, UpTo
  <2> QED
    BY <1>1, <2>1
<1> QED
  BY <1>2, <1>3, <1>6

(* No image has a newline.                                                 *)
Free(t) == \A k \in DOMAIN t : t[k] # "NL"

LEMMA FreeJoin ==
  ASSUME NEW t \in Texts, NEW u \in Texts, Free(t), Free(u)
  PROVE  Free(t \o u)
<1> SUFFICES ASSUME NEW k \in DOMAIN (t \o u) PROVE (t \o u)[k] # "NL"
  BY DEF Free
<1>1. Len(t) \in Nat /\ Len(u) \in Nat /\ DOMAIN t = 1 .. Len(t) /\ DOMAIN u = 1 .. Len(u)
  BY TextFacts
<1>2. k \in 1 .. Len(t) + Len(u)
  BY TextJoin, TextFacts
<1>3. CASE k <= Len(t)
  <2>1. k \in 1 .. Len(t)
    BY <1>1, <1>2, <1>3
  <2>2. (t \o u)[k] = t[k]
    BY <2>1, TextJoin
  <2> QED
    BY <1>1, <2>1, <2>2 DEF Free
<1>4. CASE ~(k <= Len(t))
  <2>1. k - Len(t) \in 1 .. Len(u) /\ Len(t) + (k - Len(t)) = k
    BY <1>1, <1>2, <1>4
  <2>2. (t \o u)[k] = u[k - Len(t)]
    BY <2>1, TextJoin
  <2> QED
    BY <1>1, <2>1, <2>2 DEF Free
<1> QED
  BY <1>3, <1>4

LEMMA JoinsFree ==
  ASSUME NEW t \in Texts, NEW f \in Images, \A k \in DOMAIN t : Free(f[t[k]]),
         NEW u, Joins(t, f, u)
  PROVE  Free(u)
<1>1. Len(t) \in Nat /\ DOMAIN t = 1 .. Len(t)
  BY TextFacts
<1>2. PICK r \in [0 .. Len(t) -> Texts] :
        /\ r[0] = <<>> /\ r[Len(t)] = u
        /\ \A k \in 1 .. Len(t) : r[k] = r[k - 1] \o f[t[k]]
  BY DEF Joins
<1> DEFINE S == {k \in 0 .. Len(t) : Free(r[k])}
<1>3. 0 \in S
  BY <1>1, <1>2 DEF Free
<1>4. \A k \in 1 .. Len(t) : k - 1 \in S => k \in S
  <2> SUFFICES ASSUME NEW k \in 1 .. Len(t), k - 1 \in S PROVE k \in S
    OBVIOUS
  <2>0. Free(r[k - 1]) /\ k \in 0 .. Len(t)
    BY ONLY <1>1, k - 1 \in S, k \in 1 .. Len(t)
  <2>1. r[k] = r[k - 1] \o f[t[k]]
    BY <1>2
  <2>2. r[k - 1] \in Texts /\ f[t[k]] \in Texts
    <3>1. k - 1 \in 0 .. Len(t)
      BY <1>1
    <3> QED
      BY <3>1, TextFacts DEF Images
  <2>3. Free(f[t[k]])
    BY <1>1
  <2>4. Free(r[k])
    BY <2>0, <2>1, <2>2, <2>3, FreeJoin
  <2> QED
    BY <2>0, <2>4
<1>5. Len(t) \in S
  <2> HIDE DEF S
  <2>1. 0 .. Len(t) \subseteq S
    BY <1>1, <1>3, <1>4, UpTo
  <2> QED
    BY <1>1, <2>1
<1> QED
  BY <1>2, <1>5

LEMMA PartOfText ==
  ASSUME NEW t \in Texts, NEW a \in Int, NEW b \in Int, 1 <= a, b <= Len(t)
  PROVE  SubSeq(t, a, b) \in Texts
<1>1. \A j \in a .. b : j \in 1 .. Len(t)
  BY TextFacts
<1> QED
  BY <1>1, SubSeqProperties DEF Texts

LEMMA StrippedText ==
  ASSUME NEW t \in Texts
  PROVE  Stripped(t) \in Texts
<1> DEFINE solid == {k \in DOMAIN t : t[k] # "NL"}
<1>1. CASE solid = {}
  BY <1>1, EmptyText DEF Stripped
<1>2. CASE solid # {}
  <2>1. Len(t) \in Nat /\ solid \in SUBSET (1 .. Len(t)) /\ solid \in SUBSET Nat
    BY TextFacts
  <2>2. Stripped(t) = SubSeq(t, Min(solid), Max(solid))
    BY <1>2 DEF Stripped
  <2> HIDE DEF solid
  <2>3. Min(solid) \in 1 .. Len(t) /\ Max(solid) \in 1 .. Len(t)
    BY <1>2, <2>1, MinFacts, MaxFacts
  <2>4. SubSeq(t, Min(solid), Max(solid)) \in Texts
    BY <2>1, <2>3, PartOfText
  <2> QED
    BY <2>2, <2>4
<1> QED
  BY <1>1, <1>2

(* A fold whose steps stay in A is a loop over the positions.              *)
LEMMA IdentifiersType ==
  ASSUME NEW t \in Texts
  PROVE  Identifiers(t) \in Seq(Idents)
<1> DEFINE n == Len(t)
           A == Seq(Idents)
           e == <<>>
           op(r, c) == IF c \in Idents THEN Append(r, c) ELSE r
           F == [x \in (1 .. n) \X A |-> op(x[2], t[x[1]])]
           Eq(h) == h = [s \in SUBSET DOMAIN t |->
                           IF s = {} THEN e ELSE op(h[s \ {Max(s)}], t[Max(s)])]
<1>1. Identifiers(t) = (CHOOSE h : Eq(h))[DOMAIN t]
  BY DEF Identifiers, FoldLeft, MapThenFoldSet
<1>2. n \in Nat /\ DOMAIN t = 1 .. n /\ e \in A
  BY TextFacts
<1>3. \A k \in 1 .. n, r \in A : op(r, t[k]) \in A
  OBVIOUS
<1>4. F \in Steps(A, n)
  BY <1>3 DEF Steps
<1>5. \A k \in 1 .. n, r \in A : F[<<k, r>>] = op(r, t[k])
  OBVIOUS
<1> HIDE DEF n, A, e, op, F
<1>6. PICK g : IsFold(A, e, n, F, g)
  BY <1>2, <1>4, FoldExists
<1>7. Eq(g)
  <2>1. ASSUME NEW s \in SUBSET (1 .. n)
        PROVE  g[s] = IF s = {} THEN e ELSE op(g[s \ {Max(s)}], t[Max(s)])
    <3>1. CASE s # {}
      <4>1. Max(s) \in 1 .. n
        BY <1>2, <3>1, MaxFacts
      <4>2. g[s \ {Max(s)}] \in A
        BY <1>6 DEF IsFold
      <4> QED
        BY <1>5, <1>6, <3>1, <4>1, <4>2 DEF IsFold
    <3> QED
      BY <1>6, <3>1 DEF IsFold
  <2> QED
    BY <1>2, <1>6, <2>1 DEF IsFold
<1> DEFINE h == CHOOSE x : Eq(x)
<1>8. Eq(h)
  <2> HIDE DEF Eq
  <2> QED
    BY <1>7
<1>9. Follows(A, e, n, F, h)
  <2> HIDE DEF h
  <2>1. h[{}] = e
    BY <1>8
  <2>2. ASSUME NEW s \in SUBSET (1 .. n), s # {}, h[s \ {Max(s)}] \in A
        PROVE  h[s] = F[<<Max(s), h[s \ {Max(s)}]>>]
    <3>1. Max(s) \in 1 .. n
      BY <1>2, <2>2, MaxFacts
    <3>2. h[s] = op(h[s \ {Max(s)}], t[Max(s)])
      BY <1>2, <1>8, <2>2
    <3> QED
      BY <1>5, <2>2, <3>1, <3>2
  <2> QED
    BY <2>1, <2>2 DEF Follows
<1> HIDE DEF h
<1>10. PICK r : IsLoop(A, e, n, F, r) /\ r[n] = h[1 .. n]
  BY ONLY <1>2, <1>4, <1>9, FoldRuns
<1>11. r[n] \in A
  BY <1>2, <1>10 DEF IsLoop
<1> QED
  BY <1>1, <1>2, <1>10, <1>11 DEF h, A

SplitState == [args : Seq(Texts), depth : Int, current : Texts]

LEMMA SplitStep ==
  ASSUME NEW s \in SplitState, NEW c \in Tokens
  PROVE  Split(s, c) \in SplitState
<1>1. s.args \in Seq(Texts) /\ s.depth \in Int /\ s.current \in Texts
  BY DEF SplitState
<1>2. Append(s.current, c) \in Texts
  BY <1>1, AppendProperties DEF Texts
<1>3. Append(s.current, ",") \in Texts
  <2>1. "," \in Tokens
    BY DEF Tokens
  <2> QED
    BY <1>1, <2>1, AppendProperties DEF Texts
<1>4. Append(s.args, Stripped(s.current)) \in Seq(Texts)
  BY <1>1, StrippedText, AppendProperties
<1>5. \A x \in Texts : [s EXCEPT !.current = x] \in SplitState
  BY DEF SplitState
<1>6. \A x \in Texts, d \in Int : [s EXCEPT !.current = x, !.depth = d] \in SplitState
  BY DEF SplitState
<1>7. \A x \in Texts, y \in Seq(Texts) :
         [s EXCEPT !.args = y, !.current = x] \in SplitState
  BY DEF SplitState
<1>8. s.depth + 1 \in Int /\ s.depth - 1 \in Int
  BY <1>1
<1>9. [s EXCEPT !.current = Append(@, ",")] \in SplitState
  BY <1>3, <1>5
<1>10. [s EXCEPT !.current = Append(@, c)] \in SplitState
  BY <1>2, <1>5
<1>11. [s EXCEPT !.current = Append(@, c), !.depth = @ + 1] \in SplitState
  BY <1>2, <1>6, <1>8
<1>12. [s EXCEPT !.current = Append(@, c), !.depth = @ - 1] \in SplitState
  BY <1>2, <1>6, <1>8
<1>13. [s EXCEPT !.args = Append(@, Stripped(s.current)), !.current = <<>>] \in SplitState
  BY <1>4, <1>7, EmptyText
<1>14. \/ Split(s, c) = [s EXCEPT !.current = Append(@, ",")]
       \/ Split(s, c) = [s EXCEPT !.current = Append(@, c), !.depth = @ + 1]
       \/ Split(s, c) = [s EXCEPT !.current = Append(@, c), !.depth = @ - 1]
       \/ Split(s, c) = [s EXCEPT !.args = Append(@, Stripped(s.current)), !.current = <<>>]
       \/ Split(s, c) = [s EXCEPT !.current = Append(@, c)]
  BY Zenon DEF Split
<1> QED
  BY <1>9, <1>10, <1>11, <1>12, <1>13, <1>14

LEMMA SplitArgsType ==
  ASSUME NEW t \in Texts
  PROVE  SplitArgs(t) \in Seq(Texts)
<1> DEFINE n == Len(t)
           A == SplitState
           e == [args |-> <<>>, depth |-> 0, current |-> <<>>]
           F == [x \in (1 .. n) \X A |-> Split(x[2], t[x[1]])]
           Eq(h) == h = [s \in SUBSET DOMAIN t |->
                           IF s = {} THEN e ELSE Split(h[s \ {Max(s)}], t[Max(s)])]
           end == FoldLeft(Split, e, t)
<1>1. end = (CHOOSE h : Eq(h))[DOMAIN t]
  BY DEF FoldLeft, MapThenFoldSet
<1>2. n \in Nat /\ DOMAIN t = 1 .. n /\ e \in A
  BY TextFacts, EmptyText DEF SplitState
<1>3. \A k \in 1 .. n, r \in A : Split(r, t[k]) \in A
  BY TextFacts, SplitStep
<1>4. F \in Steps(A, n)
  BY <1>3 DEF Steps
<1>5. \A k \in 1 .. n, r \in A : F[<<k, r>>] = Split(r, t[k])
  OBVIOUS
<1>a. SplitArgs(t) = IF Stripped(end.current) = <<>> THEN end.args
                     ELSE Append(end.args, Stripped(end.current))
  BY DEF SplitArgs
<1> HIDE DEF n, A, e, F, end
<1>6. PICK g : IsFold(A, e, n, F, g)
  BY <1>2, <1>4, FoldExists
<1>7. Eq(g)
  <2>1. ASSUME NEW s \in SUBSET (1 .. n)
        PROVE  g[s] = IF s = {} THEN e ELSE Split(g[s \ {Max(s)}], t[Max(s)])
    <3>1. CASE s # {}
      <4>1. Max(s) \in 1 .. n
        BY <1>2, <3>1, MaxFacts
      <4>2. g[s \ {Max(s)}] \in A
        BY <1>6 DEF IsFold
      <4> QED
        BY <1>5, <1>6, <3>1, <4>1, <4>2 DEF IsFold
    <3> QED
      BY <1>6, <3>1 DEF IsFold
  <2> QED
    BY <1>2, <1>6, <2>1 DEF IsFold
<1> DEFINE h == CHOOSE x : Eq(x)
<1>8. Eq(h)
  <2> HIDE DEF Eq
  <2> QED
    BY <1>7
<1>9. Follows(A, e, n, F, h)
  <2> HIDE DEF h
  <2>1. h[{}] = e
    BY <1>8
  <2>2. ASSUME NEW s \in SUBSET (1 .. n), s # {}, h[s \ {Max(s)}] \in A
        PROVE  h[s] = F[<<Max(s), h[s \ {Max(s)}]>>]
    <3>1. Max(s) \in 1 .. n
      BY <1>2, <2>2, MaxFacts
    <3>2. h[s] = Split(h[s \ {Max(s)}], t[Max(s)])
      BY <1>2, <1>8, <2>2
    <3> QED
      BY <1>5, <2>2, <3>1, <3>2
  <2> QED
    BY <2>1, <2>2 DEF Follows
<1> HIDE DEF h
<1>10. PICK r : IsLoop(A, e, n, F, r) /\ r[n] = h[1 .. n]
  BY ONLY <1>2, <1>4, <1>9, FoldRuns
<1>11. end \in SplitState
  <2>1. r[n] \in A
    BY <1>2, <1>10 DEF IsLoop
  <2> QED
    BY <1>1, <1>2, <1>10, <2>1 DEF h, A
<1>12. end.args \in Seq(Texts) /\ Stripped(end.current) \in Texts
  BY <1>11, StrippedText DEF SplitState
<1>13. Append(end.args, Stripped(end.current)) \in Seq(Texts)
  BY <1>12, AppendProperties
<1> QED
  BY <1>a, <1>12, <1>13

(* One parameter after the other is a loop over the parameters.            *)
Bound(params, args) == Min({Len(params), Len(args)})

LEMMA BoundFacts ==
  ASSUME NEW params \in Seq(Idents), NEW args \in Seq(Texts)
  PROVE  /\ Bound(params, args) \in Nat
         /\ \A k \in 1 .. Bound(params, args) :
              /\ k \in DOMAIN params /\ k \in DOMAIN args
              /\ params[k] \in Idents /\ args[k] \in Texts
<1> DEFINE S == {Len(params), Len(args)}
<1>1. S \in SUBSET Nat /\ S # {}
  OBVIOUS
<1>2. Min(S) \in S /\ \A y \in S : Min(S) <= y
  <2> HIDE DEF S
  <2> QED
    BY <1>1, MinFacts
<1>3. Bound(params, args) \in Nat /\ Bound(params, args) <= Len(params)
      /\ Bound(params, args) <= Len(args)
  BY <1>1, <1>2 DEF Bound
<1> QED
  BY <1>3

LEMMA ReplaceType ==
  ASSUME NEW t \in Texts, NEW p, NEW a \in Texts
  PROVE  Replace(t, p, a) \in Texts
BY ReplaceJoins, JoinsType

LEMMA SubstituteLoop ==
  ASSUME NEW body \in Texts, NEW params \in Seq(Idents), NEW args \in Seq(Texts)
  PROVE  \E r \in [0 .. Bound(params, args) -> Texts] :
           /\ r[0] = body /\ r[Bound(params, args)] = Substitute(body, params, args)
           /\ \A k \in 1 .. Bound(params, args) :
                r[k] = Replace(r[k - 1], params[k], args[k])
<1> DEFINE n == Bound(params, args)
           A == Texts
           e == body
           t == Pairs(params, args)
           op(r, c) == Replace(r, c[1], c[2])
           F == [x \in (1 .. n) \X A |-> op(x[2], t[x[1]])]
           Eq(h) == h = [s \in SUBSET DOMAIN t |->
                           IF s = {} THEN e ELSE op(h[s \ {Max(s)}], t[Max(s)])]
<1>1. Substitute(body, params, args) = (CHOOSE h : Eq(h))[DOMAIN t]
  BY DEF Substitute, FoldLeft, MapThenFoldSet
<1>2. n \in Nat /\ DOMAIN t = 1 .. n /\ e \in A
  BY BoundFacts DEF Pairs, Bound
<1>a. \A k \in 1 .. n : t[k] = <<params[k], args[k]>>
  BY DEF Pairs, Bound
<1>b. \A k \in 1 .. n, r \in A : op(r, t[k]) = Replace(r, params[k], args[k])
  BY <1>a
<1>3. \A k \in 1 .. n, r \in A : op(r, t[k]) \in A
  <2> SUFFICES ASSUME NEW k \in 1 .. n, NEW r \in A
               PROVE  Replace(r, params[k], args[k]) \in A
    BY <1>b
  <2> QED
    BY BoundFacts, ReplaceType
<1> HIDE DEF op
<1>4. F \in Steps(A, n)
  BY <1>3 DEF Steps
<1>5. \A k \in 1 .. n, r \in A : F[<<k, r>>] = op(r, t[k])
  OBVIOUS
<1> HIDE DEF n, A, e, F, t
<1>6. PICK g : IsFold(A, e, n, F, g)
  BY <1>2, <1>4, FoldExists
<1>7. Eq(g)
  <2>1. ASSUME NEW s \in SUBSET (1 .. n)
        PROVE  g[s] = IF s = {} THEN e ELSE op(g[s \ {Max(s)}], t[Max(s)])
    <3>1. CASE s # {}
      <4>1. Max(s) \in 1 .. n
        BY <1>2, <3>1, MaxFacts
      <4>2. g[s \ {Max(s)}] \in A
        BY <1>6 DEF IsFold
      <4> QED
        BY <1>5, <1>6, <3>1, <4>1, <4>2 DEF IsFold
    <3> QED
      BY <1>6, <3>1 DEF IsFold
  <2> QED
    BY <1>2, <1>6, <2>1 DEF IsFold
<1> DEFINE h == CHOOSE x : Eq(x)
<1>8. Eq(h)
  <2> HIDE DEF Eq
  <2> QED
    BY <1>7
<1>9. Follows(A, e, n, F, h)
  <2> HIDE DEF h
  <2>1. h[{}] = e
    BY <1>8
  <2>2. ASSUME NEW s \in SUBSET (1 .. n), s # {}, h[s \ {Max(s)}] \in A
        PROVE  h[s] = F[<<Max(s), h[s \ {Max(s)}]>>]
    <3>1. Max(s) \in 1 .. n
      BY <1>2, <2>2, MaxFacts
    <3>2. h[s] = op(h[s \ {Max(s)}], t[Max(s)])
      BY <1>2, <1>8, <2>2
    <3> QED
      BY <1>5, <2>2, <3>1, <3>2
  <2> QED
    BY <2>1, <2>2 DEF Follows
<1> HIDE DEF h
<1>10. PICK r : IsLoop(A, e, n, F, r) /\ r[n] = h[1 .. n]
  BY ONLY <1>2, <1>4, <1>9, FoldRuns
<1>11. \A k \in 1 .. n : r[k] = Replace(r[k - 1], params[k], args[k])
  <2> SUFFICES ASSUME NEW k \in 1 .. n
               PROVE  r[k] = Replace(r[k - 1], params[k], args[k])
    OBVIOUS
  <2>1. k - 1 \in 0 .. n
    BY <1>2
  <2>2. r[k - 1] \in A /\ r[k] = F[<<k, r[k - 1]>>]
    BY <1>10, <2>1 DEF IsLoop
  <2> QED
    BY <1>5, <1>b, <2>2
<1>12. r[n] = Substitute(body, params, args)
  BY <1>1, <1>2, <1>10 DEF h
<1> QED
  BY <1>10, <1>11, <1>12 DEF IsLoop, n, A, e

LEMMA JoinsTotal ==
  ASSUME NEW t \in Texts, NEW f \in Images
  PROVE  \E u \in Texts : Joins(t, f, u)
<1>1. PICK g : g = [s \in SUBSET DOMAIN t |->
                      IF s = {} THEN <<>> ELSE g[s \ {Max(s)}] \o f[t[Max(s)]]]
  BY JoinsExists
<1>2. Joins(t, f, g[DOMAIN t])
  BY <1>1, JoinsRuns
<1> QED
  BY <1>2, JoinsType

LEMMA JoinsSingle ==
  ASSUME NEW c \in Tokens, NEW f \in Images
  PROVE  Joins(<<c>>, f, f[c])
<1> DEFINE r == [k \in 0 .. 1 |-> IF k = 0 THEN <<>> ELSE f[c]]
<1>1. f[c] \in Texts /\ <<>> \in Texts
  BY EmptyText DEF Images
<1>2. Len(<<c>>) = 1 /\ <<c>>[1] = c /\ \A k \in 1 .. 1 : k = 1
  OBVIOUS
<1>3. r \in [0 .. 1 -> Texts] /\ r[0] = <<>> /\ r[1] = f[c]
  BY <1>1
<1>4. <<>> \o f[c] = f[c]
  BY <1>1 DEF Texts
<1> HIDE DEF r
<1>5. \A k \in 1 .. 1 : r[k] = r[k - 1] \o f[<<c>>[k]]
  <2> SUFFICES ASSUME NEW k \in 1 .. 1 PROVE r[k] = r[k - 1] \o f[<<c>>[k]]
    OBVIOUS
  <2>1. k = 1 /\ k - 1 = 0 /\ <<c>>[k] = c
    BY <1>2
  <2> QED
    BY ONLY <1>3, <1>4, <2>1
<1> QED
  BY <1>2, <1>3, <1>5 DEF Joins

(* The first k parameters replaced at once.                                *)
First(params, c) == Min({j \in DOMAIN params : params[j] = c})

Once(params, args, k) ==
  [c \in Tokens |-> IF c \in {params[j] : j \in 1 .. k} THEN args[First(params, c)]
                    ELSE <<c>>]

LEMMA FirstFacts ==
  ASSUME NEW params \in Seq(Idents), NEW k \in DOMAIN params
  PROVE  /\ First(params, params[k]) \in 1 .. k
         /\ params[First(params, params[k])] = params[k]
<1> DEFINE S == {j \in DOMAIN params : params[j] = params[k]}
<1>1. S \in SUBSET Nat /\ k \in S /\ DOMAIN params = 1 .. Len(params)
  OBVIOUS
<1>2. Min(S) \in S /\ Min(S) <= k
  <2> HIDE DEF S
  <2> QED
    BY <1>1, MinFacts
<1>3. First(params, params[k]) = Min(S)
  BY DEF First
<1>4. Min(S) \in 1 .. k
  BY <1>1, <1>2
<1> QED
  BY <1>2, <1>3, <1>4

LEMMA OnceFacts ==
  ASSUME NEW params \in Seq(Idents), NEW args \in Seq(Texts),
         NEW k \in 0 .. Bound(params, args)
  PROVE  /\ Once(params, args, k) \in Images
         /\ \A c \in Tokens : Once(params, args, k)[c] =
              IF c \in {params[j] : j \in 1 .. k} THEN args[First(params, c)] ELSE <<c>>
<1>1. ASSUME NEW c \in Tokens
      PROVE  (IF c \in {params[j] : j \in 1 .. k} THEN args[First(params, c)] ELSE <<c>>)
               \in Texts
  <2>1. CASE c \in {params[j] : j \in 1 .. k}
    <3>1. PICK j \in 1 .. k : params[j] = c
      BY <2>1
    <3>2. j \in 1 .. Bound(params, args)
      BY BoundFacts
    <3>3. First(params, c) \in 1 .. j
      BY <3>1, <3>2, BoundFacts, FirstFacts
    <3>4. First(params, c) \in 1 .. Bound(params, args)
      BY <3>2, <3>3, BoundFacts
    <3> QED
      BY <2>1, <3>4, BoundFacts
  <2>2. CASE c \notin {params[j] : j \in 1 .. k}
    BY <2>2 DEF Texts
  <2> QED
    BY <2>1, <2>2
<1> QED
  BY <1>1 DEF Once, Images

(* What one more parameter does to an image.                               *)
LEMMA OnceMore ==
  ASSUME NEW params \in Seq(Idents), NEW args \in Seq(Texts),
         NEW k \in 1 .. Bound(params, args),
         \A a \in 1 .. k - 1 : params[k] \notin Range(args[a]),
         NEW c \in Tokens
  PROVE  Joins(Once(params, args, k - 1)[c], Instead(params[k], args[k]),
               Once(params, args, k)[c])
<1> DEFINE n == Bound(params, args)
           g == Instead(params[k], args[k])
<1>1. n \in Nat /\ k - 1 \in 0 .. n /\ k \in 0 .. n
  BY BoundFacts
<1>2. /\ params[k] \in Idents /\ args[k] \in Texts /\ k \in DOMAIN params
      /\ \A j \in 1 .. k - 1 : j \in 1 .. n
  BY <1>1, BoundFacts
<1>3. g \in Images /\ \A x \in Tokens : g[x] = IF x = params[k] THEN args[k] ELSE <<x>>
  BY <1>2, InsteadImages
<1>4. /\ Once(params, args, k - 1)[c] =
           IF c \in {params[j] : j \in 1 .. k - 1} THEN args[First(params, c)] ELSE <<c>>
      /\ Once(params, args, k)[c] =
           IF c \in {params[j] : j \in 1 .. k} THEN args[First(params, c)] ELSE <<c>>
  <2>1. \A h \in 0 .. Bound(params, args) :
          Once(params, args, h)[c] =
            IF c \in {params[j] : j \in 1 .. h} THEN args[First(params, c)] ELSE <<c>>
    BY OnceFacts, Zenon
  <2> QED
    BY ONLY <1>1, <2>1
<1> HIDE DEF g
<1>5. CASE c \in {params[j] : j \in 1 .. k - 1}
  <2>1. PICK j \in 1 .. k - 1 : params[j] = c
    BY <1>5
  <2>2. j \in 1 .. n
    BY <1>2
  <2>3. First(params, c) \in 1 .. j
    BY <2>1, <2>2, BoundFacts, FirstFacts
  <2>4. First(params, c) \in 1 .. k - 1
    BY <2>3
  <2> DEFINE a == args[First(params, c)]
  <2>5. a \in Texts /\ params[k] \notin Range(a)
    BY <1>2, <2>4, BoundFacts
  <2> HIDE DEF a
  <2>6. \A x \in DOMAIN a : g[a[x]] = <<a[x]>>
    <3> SUFFICES ASSUME NEW x \in DOMAIN a PROVE g[a[x]] = <<a[x]>>
      OBVIOUS
    <3>1. a[x] \in Tokens /\ a[x] # params[k]
      BY <2>5, TextFacts DEF Range
    <3> QED
      BY <1>3, <3>1
  <2>7. Joins(a, g, a)
    BY <2>5, <2>6, JoinsSelf
  <2>8. c \in {params[x] : x \in 1 .. k}
    BY <2>1
  <2> QED
    BY <1>4, <1>5, <2>7, <2>8 DEF a, g
<1>6. CASE c \notin {params[j] : j \in 1 .. k - 1}
  <2>1. Joins(<<c>>, g, g[c])
    BY <1>3, JoinsSingle
  <2>2. g[c] = Once(params, args, k)[c]
    <3>1. CASE c = params[k]
      <4>1. First(params, c) \in 1 .. k /\ params[First(params, c)] = c
        BY <1>2, <3>1, FirstFacts
      <4>2. First(params, c) = k
        BY <1>6, <4>1
      <4>3. c \in {params[j] : j \in 1 .. k}
        BY <3>1
      <4> QED
        BY <1>3, <1>4, <3>1, <4>2, <4>3
    <3>2. CASE c # params[k]
      <4>1. c \notin {params[j] : j \in 1 .. k}
        BY <1>6, <3>2
      <4> QED
        BY <1>3, <1>4, <3>2, <4>1
    <3> QED
      BY <3>1, <3>2
  <2> QED
    BY <1>4, <1>6, <2>1, <2>2 DEF g
<1> QED
  BY <1>5, <1>6

LEMMA AtOnceJoins ==
  ASSUME NEW body \in Texts, NEW params \in Seq(Idents), NEW args \in Seq(Texts),
         NEW s, s.body = body, s.params = params, s.args = args
  PROVE  Joins(body, Once(params, args, Bound(params, args)), AtOnce(s))
<1> DEFINE n == Bound(params, args)
           f == Once(params, args, n)
           image(c) == IF c \in {params[j] : j \in 1 .. n} THEN args[First(params, c)]
                       ELSE <<c>>
           Eq(h) == h = [x \in SUBSET DOMAIN body |->
                           IF x = {} THEN <<>>
                           ELSE h[x \ {Max(x)}] \o image(body[Max(x)])]
           Ef(h) == h = [x \in SUBSET DOMAIN body |->
                           IF x = {} THEN <<>>
                           ELSE h[x \ {Max(x)}] \o f[body[Max(x)]]]
<1>1. AtOnce(s) = (CHOOSE h : Eq(h))[DOMAIN body]
  BY DEF AtOnce, FoldLeft, MapThenFoldSet, Bound, First
<1>2. n \in 0 .. n /\ f \in Images /\ \A c \in Tokens : f[c] = image(c)
  <2>1. n \in 0 .. n
    BY BoundFacts
  <2> QED
    BY <2>1, OnceFacts
<1> HIDE DEF image, f
<1>3. ASSUME NEW x \in SUBSET DOMAIN body, x # {}
      PROVE  f[body[Max(x)]] = image(body[Max(x)])
  <2>1. Len(body) \in Nat /\ x \in SUBSET (1 .. Len(body))
    BY TextFacts
  <2>2. body[Max(x)] \in Tokens
    BY <1>3, <2>1, MaxFacts, TextFacts
  <2> QED
    BY <1>2, <2>2
<1>4. ASSUME NEW h PROVE Eq(h) <=> Ef(h)
  <2>1. \A x \in SUBSET DOMAIN body :
          (IF x = {} THEN <<>> ELSE h[x \ {Max(x)}] \o image(body[Max(x)]))
          = (IF x = {} THEN <<>> ELSE h[x \ {Max(x)}] \o f[body[Max(x)]])
    BY <1>3
  <2> QED
    BY <2>1
<1>5. \E h : Ef(h)
  BY <1>2, JoinsExists
<1> HIDE DEF Eq, Ef
<1>6. Ef(CHOOSE h : Eq(h))
  BY <1>4, <1>5
<1>7. Joins(body, f, (CHOOSE h : Eq(h))[DOMAIN body])
  BY <1>2, <1>6, JoinsRuns DEF Ef
<1> QED
  BY <1>1, <1>7 DEF f

(* Replacing one parameter after the other replaces them at once, where no *)
(* argument mentions a parameter that comes later.                         *)
LEMMA SubstitutedAtOnce ==
  ASSUME NEW body \in Texts, NEW params \in Seq(Idents), NEW args \in Seq(Texts),
         NEW s, s.body = body, s.params = params, s.args = args,
         \A a, b \in 1 .. Bound(params, args) : a < b => params[b] \notin Range(args[a])
  PROVE  Substitute(body, params, args) = AtOnce(s)
<1> DEFINE n == Bound(params, args)
<1>1. n \in Nat
  BY BoundFacts
<1>2. PICK r \in [0 .. n -> Texts] :
        /\ r[0] = body /\ r[n] = Substitute(body, params, args)
        /\ \A k \in 1 .. n : r[k] = Replace(r[k - 1], params[k], args[k])
  BY SubstituteLoop
<1> DEFINE S == {k \in 0 .. n : Joins(body, Once(params, args, k), r[k])}
<1>3. 0 \in S
  <2>1. 0 \in 0 .. n
    BY <1>1
  <2>2. \A k \in DOMAIN body : Once(params, args, 0)[body[k]] = <<body[k]>>
    <3> SUFFICES ASSUME NEW k \in DOMAIN body
                 PROVE  Once(params, args, 0)[body[k]] = <<body[k]>>
      OBVIOUS
    <3>1. body[k] \in Tokens
      BY TextFacts
    <3>2. body[k] \notin {params[j] : j \in 1 .. 0}
      OBVIOUS
    <3> QED
      BY ONLY <3>1, <3>2 DEF Once
  <2>3. Joins(body, Once(params, args, 0), body)
    BY <2>2, JoinsSelf
  <2> QED
    BY <1>2, <2>1, <2>3
<1>4. \A k \in 1 .. n : k - 1 \in S => k \in S
  <2> SUFFICES ASSUME NEW k \in 1 .. n,
                      Joins(body, Once(params, args, k - 1), r[k - 1])
               PROVE  k \in 0 .. n /\ Joins(body, Once(params, args, k), r[k])
    OBVIOUS
  <2>1. /\ k \in 0 .. n /\ k - 1 \in 0 .. n
        /\ \A a \in 1 .. k - 1 : a \in 1 .. n /\ a < k
    BY <1>1
  <2>2. \A a \in 1 .. k - 1 : params[k] \notin Range(args[a])
    BY <2>1
  <2>3. args[k] \in Texts /\ r[k - 1] \in Texts
    BY <2>1, BoundFacts
  <2>4. Once(params, args, k - 1) \in Images /\ Once(params, args, k) \in Images
        /\ Instead(params[k], args[k]) \in Images
    BY <2>1, <2>3, OnceFacts, InsteadImages
  <2>5. PICK w \in Texts : Joins(body, Once(params, args, k), w)
    BY <2>4, JoinsTotal
  <2>6. \A x \in DOMAIN body :
          Joins(Once(params, args, k - 1)[body[x]], Instead(params[k], args[k]),
                Once(params, args, k)[body[x]])
    BY <2>2, TextFacts, OnceMore
  <2>7. Joins(r[k - 1], Instead(params[k], args[k]), w)
    <3> DEFINE f == Once(params, args, k - 1)
               g == Instead(params[k], args[k])
               h == Once(params, args, k)
               q == r[k - 1]
    <3>1. f \in Images /\ g \in Images /\ Joins(body, f, q) /\ Joins(body, h, w)
      BY <2>4, <2>5
    <3>2. \A x \in DOMAIN body : Joins(f[body[x]], g, h[body[x]])
      BY <2>6
    <3> HIDE DEF f, g, h, q
    <3>3. Joins(q, g, w)
      BY ONLY body \in Texts, <3>1, <3>2, JoinsTwice
    <3> QED
      BY <3>3 DEF g, q
  <2>8. Joins(r[k - 1], Instead(params[k], args[k]), r[k])
    BY <1>2, <2>3, ReplaceJoins
  <2>9. w = r[k]
    BY <2>3, <2>7, <2>8, JoinsOne
  <2> QED
    BY <2>1, <2>5, <2>9
<1>5. n \in S
  <2> HIDE DEF S
  <2>1. 0 .. n \subseteq S
    BY <1>1, <1>3, <1>4, UpTo
  <2> QED
    BY <1>1, <2>1
<1>6. Joins(body, Once(params, args, n), AtOnce(s))
  BY AtOnceJoins
<1> QED
  BY <1>2, <1>5, <1>6, JoinsOne

-----------------------------------------------------------------------------
(***************************************************************************)
(* Newlines.                                                               *)
(***************************************************************************)

Newlines(t) == {k \in DOMAIN t : t[k] = "NL"}

LEMMA CountFacts ==
  ASSUME NEW t \in Texts
  PROVE  /\ IsFiniteSet(Newlines(t)) /\ Newlines(t) \in SUBSET (1 .. Len(t))
         /\ Count(t) = Cardinality(Newlines(t)) /\ Count(t) \in Nat
<1>1. IsFiniteSet(1 .. Len(t)) /\ Newlines(t) \in SUBSET (1 .. Len(t))
  <2>1. 1 \in Int /\ Len(t) \in Int /\ DOMAIN t = 1 .. Len(t)
    BY TextFacts
  <2>2. IsFiniteSet(1 .. Len(t))
    BY <2>1, FS_Interval
  <2> QED
    BY <2>1, <2>2 DEF Newlines
<1>2. IsFiniteSet(Newlines(t))
  BY <1>1, FS_Subset
<1>3. Count(t) = Cardinality(Newlines(t))
  BY DEF Count, Newlines
<1> QED
  BY <1>1, <1>2, <1>3, FS_CardinalityType

LEMMA CountJoin ==
  ASSUME NEW t \in Texts, NEW u \in Texts
  PROVE  Count(t \o u) = Count(t) + Count(u)
<1> DEFINE n == Len(t)
           A == Newlines(t)
           B == Newlines(u)
           C == {n + k : k \in B}
           f == [k \in B |-> n + k]
<1>1. n \in Nat /\ Len(u) \in Nat /\ DOMAIN t = 1 .. n /\ DOMAIN u = 1 .. Len(u)
  BY TextFacts
<1>2. /\ IsFiniteSet(A) /\ A \in SUBSET (1 .. n) /\ Count(t) = Cardinality(A)
      /\ IsFiniteSet(B) /\ B \in SUBSET (1 .. Len(u)) /\ Count(u) = Cardinality(B)
      /\ Count(t) \in Nat /\ Count(u) \in Nat
  BY CountFacts
<1>3. f \in Bijection(B, C)
  <2>1. \A a, b \in B : n + a = n + b => a = b
    BY <1>1, <1>2
  <2>2. f \in [B -> C] /\ \A y \in C : \E x \in B : f[x] = y
    OBVIOUS
  <2>3. \A a, b \in B : f[a] = f[b] => a = b
    BY <2>1
  <2> QED
    BY <2>2, <2>3 DEF Bijection, Injection, Surjection, IsInjective
<1>4. IsFiniteSet(C) /\ Cardinality(C) = Cardinality(B)
  <2>1. ExistsBijection(B, C)
    BY <1>3 DEF ExistsBijection
  <2> QED
    BY ONLY <1>2, <2>1, FS_Bijection
<1>5. A \cap C = {}
  BY <1>1, <1>2
<1>6. Newlines(t \o u) = A \cup C
  <2> DEFINE w == t \o u
  <2>1. /\ w \in Texts /\ DOMAIN w = 1 .. n + Len(u)
        /\ \A k \in 1 .. n : w[k] = t[k]
        /\ \A k \in 1 .. Len(u) : w[n + k] = u[k]
    BY TextJoin, TextFacts
  <2> HIDE DEF w, n
  <2>2. ASSUME NEW k \in Newlines(w) PROVE k \in A \cup C
    <3>1. k \in 1 .. n + Len(u) /\ w[k] = "NL"
      BY <2>1 DEF Newlines
    <3>2. CASE k <= n
      <4>1. k \in 1 .. n
        BY <1>1, <3>1, <3>2
      <4> QED
        BY <1>1, <2>1, <3>1, <4>1 DEF Newlines
    <3>3. CASE ~(k <= n)
      <4>1. k - n \in 1 .. Len(u) /\ n + (k - n) = k
        BY <1>1, <3>1, <3>3
      <4>2. k - n \in B
        BY <1>1, <2>1, <3>1, <4>1 DEF Newlines
      <4> QED
        BY <4>1, <4>2
    <3> QED
      BY <3>2, <3>3
  <2>3. ASSUME NEW k \in A PROVE k \in Newlines(w)
    <3>1. k \in 1 .. n /\ t[k] = "NL" /\ k \in 1 .. n + Len(u)
      BY <1>1, <1>2 DEF Newlines
    <3> QED
      BY <2>1, <3>1 DEF Newlines
  <2>4. ASSUME NEW k \in B PROVE n + k \in Newlines(w)
    <3>1. k \in 1 .. Len(u) /\ u[k] = "NL"
      BY <1>2 DEF Newlines
    <3>2. n + k \in 1 .. n + Len(u)
      BY <1>1, <3>1
    <3> QED
      BY <2>1, <3>1, <3>2 DEF Newlines
  <2> QED
    BY <2>2, <2>3, <2>4 DEF w
<1>7. Cardinality(A \cup C) = Cardinality(A) + Cardinality(C)
  <2> HIDE DEF A, C
  <2>1. Cardinality(A \cup C) = Cardinality(A) + Cardinality(C) - Cardinality(A \cap C)
    BY <1>2, <1>4, FS_Union
  <2>2. Cardinality(A \cap C) = 0
    BY <1>5, FS_EmptySet
  <2>3. Cardinality(A) \in Nat /\ Cardinality(C) \in Nat
    BY <1>2, <1>4
  <2> QED
    BY <2>1, <2>2, <2>3
<1>8. Count(t \o u) = Cardinality(Newlines(t \o u))
  BY TextJoin, CountFacts
<1> QED
  BY <1>2, <1>4, <1>6, <1>7, <1>8

LEMMA FreeCount ==
  ASSUME NEW t \in Texts, Free(t)
  PROVE  Count(t) = 0
<1>1. Newlines(t) = {}
  BY DEF Free, Newlines
<1> QED
  BY <1>1, CountFacts, FS_EmptySet

LEMMA BlankFacts ==
  ASSUME NEW n \in Nat
  PROVE  Blank(n) \in Texts /\ Count(Blank(n)) = n
<1>1. "NL" \in Tokens
  BY DEF Tokens
<1>2. Blank(n) \in Texts /\ DOMAIN Blank(n) = 1 .. n /\ \A k \in 1 .. n : Blank(n)[k] = "NL"
  BY <1>1 DEF Blank, Texts
<1>3. Newlines(Blank(n)) = 1 .. n
  BY <1>2 DEF Newlines
<1>4. Cardinality(1 .. n) = n
  BY FS_Interval
<1> QED
  BY <1>2, <1>3, <1>4, CountFacts

(* A padded text has the newlines it is to have.                           *)
LEMMA PadFacts ==
  ASSUME NEW t \in Texts, NEW n \in Nat
  PROVE  Pad(t, n) \in Texts /\ Count(Pad(t, n)) = n
<1>1. Count(t) \in Nat
  BY CountFacts
<1>2. CASE Count(t) > n
  <2> DEFINE u == Replace(t, "NL", <<>>)
             f == Instead("NL", <<>>)
  <2>1. u \in Texts /\ f \in Images /\ Joins(t, f, u)
    BY EmptyText, ReplaceType, ReplaceJoins, InsteadImages
  <2>2. \A k \in DOMAIN t : Free(f[t[k]])
    <3> SUFFICES ASSUME NEW k \in DOMAIN t PROVE Free(f[t[k]])
      OBVIOUS
    <3>1. f[t[k]] = IF t[k] = "NL" THEN <<>> ELSE <<t[k]>>
      BY TextFacts, EmptyText, InsteadImages
    <3> HIDE DEF f
    <3> QED
      BY <3>1 DEF Free
  <2> HIDE DEF f
  <2>3. Free(u)
    BY <2>1, <2>2, JoinsFree
  <2>4. Count(u) = 0
    BY <2>1, <2>3, FreeCount
  <2>5. Pad(t, n) = u \o Blank(n)
    BY <1>2 DEF Pad
  <2> HIDE DEF u
  <2> QED
    BY <2>1, <2>4, <2>5, BlankFacts, CountJoin, TextJoin
<1>3. CASE ~(Count(t) > n)
  <2>1. n - Count(t) \in Nat /\ Count(t) + (n - Count(t)) = n
    BY <1>1, <1>3
  <2>2. Pad(t, n) = t \o Blank(n - Count(t))
    BY <1>3 DEF Pad
  <2> QED
    BY <2>1, <2>2, BlankFacts, CountJoin, TextJoin
<1> QED
  BY <1>2, <1>3

(* The newlines of a text are those of its parts.                          *)
LEMMA CountParts ==
  ASSUME NEW t \in Texts, NEW a \in 1 .. Len(t) + 1, NEW b \in a .. Len(t) + 1
  PROVE  /\ SubSeq(t, a, b - 1) \in Texts /\ SubSeq(t, b, Len(t)) \in Texts
         /\ Count(SubSeq(t, a, Len(t)))
              = Count(SubSeq(t, a, b - 1)) + Count(SubSeq(t, b, Len(t)))
<1>1. /\ Len(t) \in Nat /\ a \in Int /\ b \in Int /\ 1 <= a /\ 1 <= b /\ b - 1 <= Len(t)
      /\ b - 1 \in a - 1 .. Len(t) /\ Len(t) \in b - 1 .. Len(t) /\ (b - 1) + 1 = b
  BY TextFacts
<1>2. SubSeq(t, a, b - 1) \in Texts /\ SubSeq(t, b, Len(t)) \in Texts
  BY <1>1, PartOfText
<1>3. SubSeq(t, a, b - 1) \o SubSeq(t, (b - 1) + 1, Len(t)) = SubSeq(t, a, Len(t))
  BY <1>1, ConcatAdjacentSubSeq DEF Texts
<1>4. SubSeq(t, a, b - 1) \o SubSeq(t, b, Len(t)) = SubSeq(t, a, Len(t))
  BY ONLY <1>1, <1>3
<1>5. Count(SubSeq(t, a, b - 1) \o SubSeq(t, b, Len(t)))
        = Count(SubSeq(t, a, b - 1)) + Count(SubSeq(t, b, Len(t)))
  BY ONLY <1>2, CountJoin, Zenon
<1> QED
  BY ONLY <1>2, <1>4, <1>5

-----------------------------------------------------------------------------
(***************************************************************************)
(* Positions in the text.                                                  *)
(***************************************************************************)

LEMMA Following ==
  ASSUME source \in Texts, NEW k \in 1 .. Len(source) + 2,
         NEW S \in SUBSET (k .. Len(source))
  PROVE  /\ Min(S \cup {Len(source) + 1}) \in 1 .. Len(source) + 1
         /\ k <= Len(source) + 1 => Min(S \cup {Len(source) + 1}) >= k
<1> DEFINE N == Len(source)
           T == S \cup {N + 1}
<1>1. N \in Nat
  BY TextFacts
<1>2. \A x \in T : x \in 1 .. N + 1 /\ (k <= N + 1 => x >= k)
  <2>1. k \in Nat /\ k >= 1 /\ \A x \in S : x \in k .. N
    BY <1>1
  <2> HIDE DEF N
  <2>2. ASSUME NEW x \in S PROVE x \in 1 .. N + 1 /\ x >= k
    BY ONLY <1>1, <2>1, <2>2
  <2>3. N + 1 \in 1 .. N + 1
    BY <1>1
  <2> QED
    BY <2>2, <2>3
<1>a. N + 1 \in T
  OBVIOUS
<1> HIDE DEF N
<1>3. T \in SUBSET Nat /\ T # {}
  <2> HIDE DEF T
  <2> QED
    BY ONLY <1>1, <1>2, <1>a
<1>4. Min(T) \in T
  <2> HIDE DEF T
  <2> QED
    BY <1>3, MinFacts
<1>5. Min(T) \in 1 .. N + 1 /\ (k <= N + 1 => Min(T) >= k)
  <2> HIDE DEF T
  <2> QED
    BY <1>2, <1>4
<1> QED
  BY <1>5 DEF N

LEMMA SolidFacts ==
  ASSUME source \in Texts, NEW k \in 1 .. Len(source) + 2
  PROVE  /\ Solid(k) \in 1 .. Len(source) + 1
         /\ k <= Len(source) + 1 => Solid(k) >= k
<1> DEFINE S == {j \in k .. Len(source) : source[j] # "NL"}
<1>1. S \in SUBSET (k .. Len(source)) /\ Solid(k) = Min(S \cup {Len(source) + 1})
  BY DEF Solid
<1> HIDE DEF S
<1> QED
  BY <1>1, Following

LEMMA FirstOfFacts ==
  ASSUME source \in Texts, NEW c, NEW k \in 1 .. Len(source) + 2
  PROVE  /\ FirstOf(c, k) \in 1 .. Len(source) + 1
         /\ k <= Len(source) + 1 => FirstOf(c, k) >= k
<1> DEFINE S == {j \in k .. Len(source) : source[j] = c}
<1>1. S \in SUBSET (k .. Len(source)) /\ FirstOf(c, k) = Min(S \cup {Len(source) + 1})
  BY DEF FirstOf
<1> HIDE DEF S
<1> QED
  BY <1>1, Following

LEMMA AtFacts ==
  ASSUME source \in Texts, NEW k \in 1 .. Len(source) + 1, At(k) # "end"
  PROVE  k \in 1 .. Len(source) /\ At(k) = source[k]
BY TextFacts DEF At

LEMMA EndIsNoToken == "end" \notin Idents /\ "end" \notin {",", ";"} /\ "=" # "end" /\ "(" # "end"
BY Zenon, MacrosAssumption

(* What is read of a DEFINE is a macro, and the text read is not behind.   *)
LEMMA EntryFacts ==
  ASSUME source \in Texts, NEW k \in 1 .. Len(source) + 1, EntryAt(k).ok
  PROVE  /\ EntryAt(k).macro \in Macro
         /\ EntryAt(k).end \in k .. Len(source) + 1
<1> DEFINE N == Len(source)
           n == Solid(k)
           p == Solid(n + 1)
           close == FirstOf(")", p)
           called == At(p) = "(" /\ close <= N
           e == IF called THEN Solid(close + 1) ELSE p
           h == FirstOf("#", e)
           ok == At(n) \in Idents /\ At(e) = "=" /\ h <= N
           params == IF e = p THEN <<>> ELSE Identifiers(SubSeq(source, p, close))
           body == Stripped(SubSeq(source, e + 1, h - 1))
           macro == [name |-> At(n), params |-> params, body |-> body]
<1>1. EntryAt(k) = [ok |-> ok, macro |-> macro, end |-> h + 1]
  BY Zenon DEF EntryAt
<1> HIDE DEF ok, macro
<1>2. ok /\ EntryAt(k).macro = macro /\ EntryAt(k).end = h + 1
  BY <1>1
<1>3. N \in Nat
  BY TextFacts
<1>4. n \in k .. N + 1 /\ n \in 1 .. N + 1
  BY <1>3, SolidFacts
<1>5. At(n) \in Idents /\ At(e) # "end" /\ h <= N
  <2> HIDE DEF n, e, h
  <2> QED
    BY Zenon, <1>2, EndIsNoToken DEF ok
<1>6. At(n) # "end"
  BY <1>5, EndIsNoToken
<1>7. n \in 1 .. N
  BY <1>4, <1>6, AtFacts
<1>8. p \in n + 1 .. N + 1
  BY <1>3, <1>7, SolidFacts
<1>9. close \in p .. N + 1
  <2> DEFINE c == ")"
  <2> HIDE DEF c, p
  <2>1. p \in 1 .. N + 2 /\ p <= N + 1
    BY <1>3, <1>7, <1>8
  <2>2. FirstOf(c, p) \in p .. N + 1
    BY <1>3, <2>1, FirstOfFacts
  <2> QED
    BY <2>2 DEF c, p
<1> HIDE DEF N, n, p, close
<1>10. e \in p .. N + 1 /\ (e # p => close <= N)
  <2>1. CASE called
    <3>1. e = Solid(close + 1)
      BY Zenon, <2>1
    <3>2. close <= N
      BY Zenon, <2>1
    <3> HIDE DEF called, e
    <3>3. close + 1 \in 1 .. N + 1
      BY <1>3, <1>7, <1>8, <1>9, <3>2
    <3>4. Solid(close + 1) \in close + 1 .. N + 1
      BY <1>3, <3>3, SolidFacts DEF N
    <3> QED
      BY <1>3, <1>8, <1>9, <3>1, <3>2, <3>4
  <2>2. CASE ~called
    <3>1. e = p
      BY Zenon, <2>2
    <3> HIDE DEF called, e
    <3> QED
      BY <1>3, <1>7, <1>8, <3>1
  <2> QED
    BY <2>1, <2>2
<1> HIDE DEF called, e
<1>11. h \in e .. N
  <2> DEFINE c == "#"
  <2> HIDE DEF c
  <2>1. e \in 1 .. N + 2 /\ e <= N + 1
    BY <1>3, <1>7, <1>8, <1>10
  <2>2. FirstOf(c, e) >= e /\ FirstOf(c, e) \in Nat
    BY <1>3, <2>1, FirstOfFacts DEF N
  <2>3. h = FirstOf(c, e)
    BY DEF c
  <2> HIDE DEF h
  <2> QED
    BY <1>3, <1>5, <2>1, <2>2, <2>3
<1> HIDE DEF h
<1>12. h + 1 \in k .. N + 1
  BY <1>3, <1>4, <1>7, <1>8, <1>10, <1>11
<1>13. params \in Seq(Idents)
  <2>1. CASE e = p
    BY <2>1
  <2>2. CASE e # p
    <3>1. p \in Int /\ close \in Int /\ 1 <= p /\ close <= N
      BY <1>3, <1>7, <1>8, <1>9, <1>10, <2>2
    <3>2. SubSeq(source, p, close) \in Texts
      BY <3>1, PartOfText DEF N
    <3> QED
      BY <2>2, <3>2, IdentifiersType
  <2> QED
    BY <2>1, <2>2
<1>14. body \in Texts
  <2>1. e + 1 \in Int /\ h - 1 \in Int /\ 1 <= e + 1 /\ h - 1 <= N
    BY <1>3, <1>7, <1>8, <1>10, <1>11
  <2>2. SubSeq(source, e + 1, h - 1) \in Texts
    BY <2>1, PartOfText DEF N
  <2> QED
    BY <2>2, StrippedText
<1> HIDE DEF params, body
<1>15. macro \in Macro
  BY <1>5, <1>13, <1>14 DEF macro, Macro, Texts
<1> QED
  BY <1>2, <1>12, <1>15 DEF N

LEMMA MacroOfType ==
  ASSUME macros \in Seq(Macro), NEW n \in MacroNames
  PROVE  MacroOf(n) \in Macro
<1> DEFINE S == {k \in DOMAIN macros : macros[k].name = n}
<1>1. Len(macros) \in Nat /\ S \in SUBSET (1 .. Len(macros)) /\ S # {}
  BY DEF MacroNames
<1>2. MacroOf(n) = macros[Max(S)]
  BY DEF MacroOf
<1> HIDE DEF S
<1>3. Max(S) \in 1 .. Len(macros)
  BY <1>1, MaxFacts
<1> QED
  BY <1>2, <1>3

LEMMA MacroNamesType ==
  ASSUME macros \in Seq(Macro)
  PROVE  MacroNames \subseteq Idents
<1> SUFFICES ASSUME NEW k \in DOMAIN macros PROVE macros[k].name \in Idents
  BY DEF MacroNames
<1>1. macros[k] \in Macro
  OBVIOUS
<1> QED
  BY ONLY <1>1 DEF Macro

(* An invocation stands at a token of the text.                            *)
LEMMA InvocationFacts ==
  ASSUME source \in Texts, macros \in Seq(Macro), NEW k \in 1 .. Len(source) + 1,
         IsMacro(k)
  PROVE  k \in 1 .. Len(source) /\ MacroOf(source[k]) \in Macro
<1>1. At(k) \in MacroNames /\ At(k) # "end"
  BY MacroNamesType, EndIsNoToken DEF IsMacro
<1>2. k \in 1 .. Len(source) /\ At(k) = source[k]
  BY <1>1, AtFacts
<1> QED
  BY <1>1, <1>2, MacroOfType

(* The parenthesis that closes a call is in the text, after the name.      *)
LEMMA ClosingFacts ==
  ASSUME source \in Texts, NEW k \in 1 .. Len(source), Closing(Solid(k + 1)) # 0
  PROVE  /\ Solid(k + 1) \in k + 1 .. Len(source) + 1
         /\ Closing(Solid(k + 1)) \in Solid(k + 1) .. Len(source)
<1> DEFINE open == Solid(k + 1)
           opened(j) == Cardinality({m \in open .. j : source[m] = "("})
           closed(j) == Cardinality({m \in open .. j : source[m] = ")"})
           ends == {j \in open .. Len(source) :
                      source[j] = ")" /\ closed(j) = opened(j)}
<1>1. Len(source) \in Nat
  BY TextFacts
<1>2. open \in k + 1 .. Len(source) + 1
  BY <1>1, SolidFacts
<1>3. Closing(open) = IF ends = {} THEN 0 ELSE Min(ends)
  BY Zenon DEF Closing
<1>4. ends \subseteq open .. Len(source)
  BY Zenon
<1> HIDE DEF open, ends
<1>5. ends # {} /\ Closing(open) = Min(ends)
  BY <1>3 DEF open
<1>6. ends \in SUBSET Nat
  BY <1>1, <1>2, <1>4
<1>7. Min(ends) \in ends
  BY <1>5, <1>6, MinFacts
<1> QED
  BY <1>2, <1>4, <1>5, <1>7 DEF open

-----------------------------------------------------------------------------
(***************************************************************************)
(* Every line stays on its line.                                           *)
(***************************************************************************)

TextsRead ==
  /\ source \in Texts /\ out \in Texts /\ macros \in Seq(Macro)
  /\ i \in 1 .. Len(source) + 1

(* A pass begins with all the lines.                                       *)
LinesMet ==
  /\ Count(out) + Count(Rest(i)) = lines
  /\ phase = "expand" => Count(source) = lines

LineRecord == [line : Nat, first : Nat, end : Nat]

RecordsMet ==
  /\ records \in Seq(LineRecord)
  /\ \A k \in DOMAIN records :
       records[k].first = records[k].line /\ records[k].end <= lines + 1

Substituted(b, p, a) == [body |-> b, params |-> p, args |-> a,
                         result |-> Substitute(b, p, a)]

LastMet ==
  \/ last = <<>>
  \/ \E b \in Texts, p \in Seq(Idents), a \in Seq(Texts) :
       last = <<Substituted(b, p, a)>>

MacrosInv == TextsRead /\ LinesMet /\ RecordsMet /\ LastMet

LEMMA MacrosBegin ==
  ASSUME Init
  PROVE  MacrosInv
<1>1. source \in Texts
  BY MacrosAssumption DEF Init, Texts
<1>2. Len(source) \in Nat /\ i = 1 /\ out = <<>> /\ macros = <<>> /\ records = <<>>
      /\ last = <<>> /\ phase = "collect" /\ lines = Count(source)
  BY <1>1, TextFacts DEF Init
<1>3. Rest(i) = source
  BY <1>1, <1>2, SubSeqFull DEF Rest, Texts
<1>4. Count(out) = 0 /\ Count(source) \in Nat
  BY <1>1, <1>2, EmptyText, FreeCount, CountFacts DEF Free
<1>5. TextsRead
  BY <1>1, <1>2, EmptyText DEF TextsRead
<1>6. LinesMet
  BY <1>2, <1>3, <1>4 DEF LinesMet
<1>7. RecordsMet
  BY <1>2 DEF RecordsMet
<1>8. LastMet
  BY <1>2 DEF LastMet
<1> QED
  BY <1>5, <1>6, <1>7, <1>8 DEF MacrosInv

LEMMA RestFacts ==
  ASSUME source \in Texts, NEW k \in 1 .. Len(source) + 1
  PROVE  Rest(k) \in Texts /\ Count(Rest(k)) \in Nat
<1>1. k \in Int /\ Len(source) \in Int /\ 1 <= k /\ Len(source) <= Len(source)
  BY TextFacts
<1> QED
  BY <1>1, PartOfText, CountFacts DEF Rest

LEMMA LinesType ==
  ASSUME MacrosInv
  PROVE  lines \in Nat
BY RestFacts, CountFacts DEF MacrosInv, TextsRead, LinesMet

(* A token is copied.                                                      *)
LEMMA CopiedLines ==
  ASSUME MacrosInv, i <= Len(source), out' = Append(out, source[i]), i' = i + 1,
         UNCHANGED <<phase, source, macros, lines>>
  PROVE  TextsRead' /\ LinesMet'
<1>1. /\ source \in Texts /\ out \in Texts /\ macros \in Seq(Macro) /\ Len(source) \in Nat
      /\ i \in 1 .. Len(source) /\ i \in 1 .. Len(source) + 1
      /\ i + 1 \in 1 .. Len(source) + 1
      /\ Count(out) + Count(Rest(i)) = lines
  BY TextFacts DEF MacrosInv, TextsRead, LinesMet
<1> DEFINE c == source[i]
<1>2. c \in Tokens /\ <<c>> \in Texts
  BY <1>1, TextFacts DEF Texts
<1>3. out' = out \o <<c>>
  BY <1>1, <1>2, AppendIsConcat DEF Texts
<1>4. Rest(i) = <<c>> \o Rest(i + 1)
  <2>1. Len(source) \in i .. Len(source)
    BY <1>1
  <2> QED
    BY <1>1, <2>1, SubSeqRecursiveFirst DEF Rest, Texts
<1>5. Rest(i)' = Rest(i + 1)
  BY DEF Rest
<1> HIDE DEF c
<1>6. Count(out') = Count(out) + Count(<<c>>) /\ out' \in Texts
  BY <1>1, <1>2, <1>3, CountJoin, TextJoin
<1>7. Count(Rest(i)) = Count(<<c>>) + Count(Rest(i + 1))
  BY <1>1, <1>2, <1>4, RestFacts, CountJoin
<1>8. Count(out) \in Nat /\ Count(<<c>>) \in Nat /\ Count(Rest(i + 1)) \in Nat
  BY <1>1, <1>2, RestFacts, CountFacts
<1>9. Count(out') + Count(Rest(i + 1)) = lines
  BY <1>1, <1>6, <1>7, <1>8
<1>10. TextsRead'
  BY <1>1, <1>6 DEF TextsRead
<1>11. LinesMet'
  <2>1. (Count(out) + Count(Rest(i)) = lines)'
    BY <1>5, <1>9 DEF Count
  <2>2. (phase = "expand" => Count(source) = lines)'
    BY DEF MacrosInv, LinesMet, Count
  <2> QED
    BY <2>1, <2>2 DEF LinesMet
<1> QED
  BY <1>10, <1>11

(* Text is replaced by one with as many newlines.                          *)
LEMMA PassedLines ==
  ASSUME MacrosInv, NEW to \in i .. Len(source) + 1, NEW u \in Texts,
         Count(u) = Count(SubSeq(source, i, to - 1)),
         out' = out \o u, i' = to, UNCHANGED <<phase, source, lines>>, macros' \in Seq(Macro)
  PROVE  TextsRead' /\ LinesMet'
<1>1. /\ source \in Texts /\ out \in Texts /\ Len(source) \in Nat
      /\ i \in 1 .. Len(source) + 1 /\ to \in 1 .. Len(source) + 1
      /\ Count(out) + Count(Rest(i)) = lines
  BY TextFacts DEF MacrosInv, TextsRead, LinesMet
<1>2. Count(Rest(i)) = Count(u) + Count(Rest(to))
  BY <1>1, CountParts DEF Rest
<1>3. Count(out') = Count(out) + Count(u) /\ out' \in Texts
  BY <1>1, CountJoin, TextJoin
<1>4. Count(out) \in Nat /\ Count(u) \in Nat /\ Count(Rest(to)) \in Nat
  BY <1>1, RestFacts, CountFacts
<1>5. Count(out') + Count(Rest(to)) = lines
  BY <1>1, <1>2, <1>3, <1>4
<1>6. Rest(i)' = Rest(to)
  BY DEF Rest
<1>7. TextsRead'
  BY <1>1, <1>3 DEF TextsRead
<1>8. LinesMet'
  <2>1. (Count(out) + Count(Rest(i)) = lines)'
    BY <1>5, <1>6 DEF Count
  <2>2. (phase = "expand" => Count(source) = lines)'
    BY DEF MacrosInv, LinesMet, Count
  <2> QED
    BY <2>1, <2>2 DEF LinesMet
<1> QED
  BY <1>7, <1>8

(* The text written is read again.                                         *)
LEMMA AgainLines ==
  ASSUME MacrosInv, i > Len(source), source' = out, i' = 1, out' = <<>>,
         UNCHANGED lines, macros' \in Seq(Macro)
  PROVE  TextsRead' /\ LinesMet'
<1>1. /\ source \in Texts /\ out \in Texts /\ Len(source) \in Nat /\ Len(out) \in Nat
      /\ i \in 1 .. Len(source) + 1 /\ Count(out) \in Nat
      /\ Count(out) + Count(Rest(i)) = lines
  BY TextFacts, CountFacts DEF MacrosInv, TextsRead, LinesMet
<1>2. Count(Rest(i)) = 0
  <2>1. i \in Int /\ Len(source) \in Int /\ Len(source) < i
    BY <1>1
  <2>2. Rest(i) = <<>>
    BY <2>1, SubSeqEmpty DEF Rest
  <2> QED
    BY <2>2, EmptyText, FreeCount DEF Free
<1>3. Count(out) = lines
  BY <1>1, <1>2
<1>4. Rest(i)' = out
  BY <1>1, SubSeqFull DEF Rest, Texts
<1>5. Count(out') = 0
  BY EmptyText, FreeCount DEF Free
<1>6. TextsRead'
  BY <1>1, EmptyText DEF TextsRead
<1>7. LinesMet'
  <2>1. (Count(out) + Count(Rest(i)) = lines)'
    <3>1. Count(out)' = 0 /\ Count(Rest(i))' = Count(out)
      BY <1>4, <1>5 DEF Count
    <3> QED
      BY <1>1, <1>3, <3>1
  <2>2. (Count(source) = lines)'
    BY <1>3 DEF Count
  <2> QED
    BY <2>1, <2>2 DEF LinesMet
<1> QED
  BY <1>6, <1>7

LEMMA RecordsStay ==
  ASSUME MacrosInv, UNCHANGED <<records, lines>>
  PROVE  RecordsMet'
BY DEF MacrosInv, RecordsMet

LEMMA CollectEntryKeeps ==
  ASSUME MacrosInv, CollectEntry
  PROVE  MacrosInv'
<1> DEFINE end == EntryAt(i).end
           sep == Solid(end)
           more == At(sep) \in {",", ";"}
           to == IF more THEN sep + 1 ELSE end
<1>1. /\ EntryAt(i).ok
      /\ macros' = IF phase = "again" THEN macros ELSE Append(macros, EntryAt(i).macro)
      /\ out' = out \o Kept(i, to) /\ i' = to
      /\ UNCHANGED <<phase, source, passes, records, last, lines>>
  BY Zenon DEF CollectEntry
<1>2. /\ source \in Texts /\ macros \in Seq(Macro) /\ i \in 1 .. Len(source) + 1
      /\ Len(source) \in Nat
  BY TextFacts DEF MacrosInv, TextsRead
<1>3. EntryAt(i).macro \in Macro /\ end \in i .. Len(source) + 1
  BY <1>1, <1>2, EntryFacts
<1>4. macros' \in Seq(Macro)
  <2>1. Append(macros, EntryAt(i).macro) \in Seq(Macro)
    BY <1>2, <1>3, AppendProperties
  <2> QED
    BY <1>1, <1>2, <2>1
<1>5. more => At(sep) # "end"
  BY Zenon, EndIsNoToken
<1> HIDE DEF end, more
<1>6. sep \in end .. Len(source) + 1 /\ sep \in 1 .. Len(source) + 1
  <2>1. end \in 1 .. Len(source) + 2 /\ end <= Len(source) + 1
    BY <1>2, <1>3
  <2> QED
    BY <1>2, <2>1, SolidFacts
<1>7. to \in i .. Len(source) + 1
  <2>1. CASE more
    <3>1. sep \in 1 .. Len(source)
      BY <1>2, <1>5, <1>6, <2>1, AtFacts
    <3> HIDE DEF sep
    <3> QED
      BY <1>2, <1>3, <1>6, <2>1, <3>1
  <2>2. CASE ~more
    BY <1>3, <2>2
  <2> QED
    BY <2>1, <2>2
<1> HIDE DEF to
<1>8. Kept(i, to) \in Texts /\ Count(Kept(i, to)) = Count(SubSeq(source, i, to - 1))
  <2>1. SubSeq(source, i, to - 1) \in Texts
    BY <1>2, <1>7, CountParts
  <2> QED
    BY <2>1, CountFacts, BlankFacts DEF Kept
<1>9. TextsRead' /\ LinesMet'
  BY <1>1, <1>4, <1>7, <1>8, PassedLines
<1>10. RecordsMet' /\ LastMet'
  BY <1>1, RecordsStay DEF MacrosInv, LastMet
<1> QED
  BY <1>9, <1>10 DEF MacrosInv

LEMMA CollectDoneKeeps ==
  ASSUME MacrosInv, NEW m \in Imports, CollectDone(m)
  PROVE  MacrosInv'
<1>1. /\ i > Len(source) /\ macros' = macros \o macros \o m
      /\ source' = out /\ i' = 1 /\ out' = <<>>
      /\ UNCHANGED <<entry, passes, records, last, lines>>
  BY DEF CollectDone
<1>2. macros \in Seq(Macro) /\ m \in Seq(Macro)
  BY MacrosAssumption DEF MacrosInv, TextsRead
<1>3. macros' \in Seq(Macro)
  <2>1. macros \o macros \in Seq(Macro)
    BY <1>2, ConcatProperties
  <2> QED
    BY <1>1, <1>2, <2>1, ConcatProperties
<1>4. TextsRead' /\ LinesMet'
  BY <1>1, <1>3, AgainLines
<1>5. RecordsMet' /\ LastMet'
  BY <1>1, RecordsStay DEF MacrosInv, LastMet
<1> QED
  BY <1>4, <1>5 DEF MacrosInv

LEMMA CollectedAgainKeeps ==
  ASSUME MacrosInv, CollectedAgain
  PROVE  MacrosInv'
<1>1. /\ i > Len(source) /\ source' = out /\ i' = 1 /\ out' = <<>>
      /\ UNCHANGED <<macros, entry, passes, records, last, lines>>
  BY DEF CollectedAgain
<1>2. macros' \in Seq(Macro)
  BY <1>1 DEF MacrosInv, TextsRead
<1>3. TextsRead' /\ LinesMet'
  BY <1>1, <1>2, AgainLines
<1>4. RecordsMet' /\ LastMet'
  BY <1>1, RecordsStay DEF MacrosInv, LastMet
<1> QED
  BY <1>3, <1>4 DEF MacrosInv

LEMMA EndPassKeeps ==
  ASSUME MacrosInv, EndPass
  PROVE  MacrosInv'
<1>1. /\ i > Len(source) /\ source' = out /\ i' = 1 /\ out' = <<>> /\ records' = <<>>
      /\ UNCHANGED <<macros, entry, last, lines>>
  BY DEF EndPass
<1>2. macros' \in Seq(Macro)
  BY <1>1 DEF MacrosInv, TextsRead
<1>3. TextsRead' /\ LinesMet'
  BY <1>1, <1>2, AgainLines
<1>4. RecordsMet' /\ LastMet'
  BY <1>1 DEF MacrosInv, RecordsMet, LastMet
<1> QED
  BY <1>3, <1>4 DEF MacrosInv

(* An invocation from i to "to" is replaced by text, padded.               *)
LEMMA ReplacedKeeps ==
  ASSUME MacrosInv, phase = "expand", i \in 1 .. Len(source),
         NEW to \in i .. Len(source), NEW text \in Texts, Replaced(i, to, text),
         UNCHANGED <<phase, source, macros, entry, passes, lines>>
  PROVE  TextsRead' /\ LinesMet' /\ RecordsMet'
<1> DEFINE part == SubSeq(source, i, to)
           u == Pad(text, Count(part))
           N == Len(source)
<1>1. out' = out \o u /\ records' = Append(records, Record(i, u)) /\ i' = to + 1
  BY DEF Replaced
<1>2. /\ source \in Texts /\ out \in Texts /\ macros \in Seq(Macro) /\ N \in Nat
      /\ records \in Seq(LineRecord) /\ lines \in Nat
      /\ Count(out) + Count(Rest(i)) = lines /\ Count(source) = lines
  BY TextFacts, LinesType DEF MacrosInv, TextsRead, LinesMet, RecordsMet
<1>3. /\ to + 1 \in i .. N + 1 /\ i \in 1 .. N + 1 /\ (to + 1) - 1 = to
      /\ 1 \in 1 .. N + 1 /\ i \in Int /\ to \in Int
  BY <1>2
<1>4. part \in Texts /\ Count(part) \in Nat
  <2>1. SubSeq(source, i, (to + 1) - 1) \in Texts
    BY <1>2, <1>3, CountParts
  <2> QED
    BY <1>3, <2>1, CountFacts
<1>5. u \in Texts /\ Count(u) = Count(part)
  BY <1>4, PadFacts
<1> HIDE DEF u
<1>6. TextsRead' /\ LinesMet'
  BY <1>1, <1>2, <1>3, <1>5, PassedLines
<1> DEFINE before == Count(SubSeq(source, 1, i - 1))
<1>7. before \in Nat /\ before + Count(Rest(i)) = lines /\ Count(Rest(i)) \in Nat
  <2>1. /\ SubSeq(source, 1, i - 1) \in Texts
        /\ Count(SubSeq(source, 1, N)) = before + Count(SubSeq(source, i, N))
    BY <1>2, <1>3, CountParts
  <2>2. SubSeq(source, 1, N) = source
    BY <1>2, SubSeqFull DEF Texts
  <2> QED
    BY <1>2, <1>3, <2>1, <2>2, RestFacts, CountFacts DEF Rest
<1>8. Count(Rest(i)) = Count(part) + Count(Rest(to + 1)) /\ Count(Rest(to + 1)) \in Nat
  <2>1. Count(SubSeq(source, i, N))
          = Count(SubSeq(source, i, (to + 1) - 1)) + Count(SubSeq(source, to + 1, N))
    BY <1>2, <1>3, CountParts
  <2>2. to + 1 \in 1 .. N + 1
    BY <1>2, <1>3
  <2> QED
    BY <1>2, <1>3, <2>1, <2>2, RestFacts DEF Rest
<1> DEFINE q == Record(i, u)
<1>9. q = [line |-> before + 1, first |-> Count(out) + 1,
           end |-> Count(out) + 1 + Count(u)]
  BY DEF Record
<1> HIDE DEF before, part, N
<1>10. Count(out) \in Nat /\ before = Count(out) /\ Count(out) + Count(u) <= lines
  <2>1. Count(out) \in Nat
    BY <1>2, CountFacts, Zenon
  <2>2. /\ before + Count(Rest(i)) = lines /\ before \in Nat
        /\ Count(out) + Count(Rest(i)) = lines /\ Count(Rest(i)) \in Nat
    BY ONLY <1>2, <1>7
  <2>3. /\ Count(Rest(i)) = Count(u) + Count(Rest(to + 1))
        /\ Count(u) \in Nat /\ Count(Rest(to + 1)) \in Nat
    BY ONLY <1>4, <1>5, <1>8
  <2> QED
    BY ONLY <2>1, <2>2, <2>3
<1>11. q \in LineRecord /\ q.first = q.line /\ q.end <= lines + 1
  <2>1. Count(u) \in Nat
    BY <1>4, <1>5
  <2> HIDE DEF q
  <2> QED
    BY <1>2, <1>9, <1>10, <2>1 DEF LineRecord
<1> HIDE DEF q
<1>12. RecordsMet'
  <2>1. records' = Append(records, q) /\ lines' = lines
    BY <1>1 DEF q
  <2>2. \A k \in DOMAIN records :
          records[k].first = records[k].line /\ records[k].end <= lines + 1
    BY DEF MacrosInv, RecordsMet
  <2>3. records' \in Seq(LineRecord)
    BY <1>2, <1>11, <2>1, AppendProperties
  <2>4. \A k \in DOMAIN records' :
          records'[k].first = records'[k].line /\ records'[k].end <= lines + 1
    <3> SUFFICES ASSUME NEW k \in DOMAIN records'
                 PROVE  records'[k].first = records'[k].line /\ records'[k].end <= lines + 1
      OBVIOUS
    <3>1. (k \in DOMAIN records /\ records'[k] = records[k]) \/ records'[k] = q
      BY <1>2, <1>11, <2>1
    <3> QED
      BY <1>11, <2>2, <3>1
  <2> QED
    BY <2>1, <2>3, <2>4 DEF RecordsMet
<1> QED
  BY <1>6, <1>12

LEMMA ExpandCallKeeps ==
  ASSUME MacrosInv, ExpandCall
  PROVE  MacrosInv'
<1> DEFINE m == MacroOf(source[i])
           open == Solid(i + 1)
           text == SubSeq(source, open + 1, Closing(open) - 1)
           args == SplitArgs(text)
           result == Substitute(m.body, m.params, args)
<1>1. /\ phase = "expand" /\ IsMacro(i) /\ Closing(open) # 0
      /\ Replaced(i, Closing(open), result)
      /\ last' = <<[body |-> m.body, params |-> m.params, args |-> args,
                    result |-> result]>>
      /\ UNCHANGED <<phase, source, macros, entry, passes, lines>>
  BY Zenon DEF ExpandCall, Call
<1>2. /\ source \in Texts /\ macros \in Seq(Macro) /\ i \in 1 .. Len(source) + 1
      /\ Len(source) \in Nat
  BY TextFacts DEF MacrosInv, TextsRead
<1>3. i \in 1 .. Len(source) /\ m \in Macro
  BY <1>1, <1>2, InvocationFacts
<1>4. m.body \in Texts /\ m.params \in Seq(Idents)
  <2> HIDE DEF m
  <2> QED
    BY <1>3 DEF Macro, Texts
<1>5. open \in i + 1 .. Len(source) + 1 /\ Closing(open) \in open .. Len(source)
  BY <1>1, <1>2, <1>3, ClosingFacts
<1> HIDE DEF m, open
<1>6. Closing(open) \in i .. Len(source)
  BY <1>2, <1>3, <1>5
<1>7. text \in Texts
  <2>1. open + 1 \in Int /\ Closing(open) - 1 \in Int /\ 1 <= open + 1
        /\ Closing(open) - 1 <= Len(source)
    BY <1>2, <1>3, <1>5
  <2> QED
    BY <1>2, <2>1, PartOfText
<1> HIDE DEF text
<1>8. args \in Seq(Texts)
  BY <1>7, SplitArgsType
<1> HIDE DEF args
<1>9. result \in Texts
  <2>1. PICK r \in [0 .. Bound(m.params, args) -> Texts] :
          r[Bound(m.params, args)] = Substitute(m.body, m.params, args)
    BY <1>4, <1>8, SubstituteLoop
  <2>2. Bound(m.params, args) \in 0 .. Bound(m.params, args)
    BY <1>4, <1>8, BoundFacts
  <2> QED
    BY <2>1, <2>2
<1>10. last' = <<Substituted(m.body, m.params, args)>>
  BY <1>1 DEF Substituted
<1> HIDE DEF result
<1>11. TextsRead' /\ LinesMet' /\ RecordsMet'
  BY <1>1, <1>3, <1>6, <1>9, ReplacedKeeps
<1>12. LastMet'
  <2>1. \E b \in Texts, p \in Seq(Idents), a \in Seq(Texts) :
          last' = <<Substituted(b, p, a)>>
    BY <1>4, <1>8, <1>10
  <2> QED
    BY <2>1 DEF LastMet
<1> QED
  BY <1>11, <1>12 DEF MacrosInv

LEMMA ExpandPlainKeeps ==
  ASSUME MacrosInv, ExpandPlain
  PROVE  MacrosInv'
<1>1. /\ phase = "expand" /\ IsMacro(i)
      /\ Replaced(i, i, MacroOf(source[i]).body)
      /\ UNCHANGED <<phase, source, macros, entry, passes, last, lines>>
  BY Zenon DEF ExpandPlain, Plain
<1>2. /\ source \in Texts /\ macros \in Seq(Macro) /\ i \in 1 .. Len(source) + 1
      /\ Len(source) \in Nat
  BY TextFacts DEF MacrosInv, TextsRead
<1>3. i \in 1 .. Len(source) /\ MacroOf(source[i]) \in Macro
  BY <1>1, <1>2, InvocationFacts
<1>4. MacroOf(source[i]).body \in Texts /\ i \in i .. Len(source)
  BY <1>3 DEF Macro, Texts
<1>5. TextsRead' /\ LinesMet' /\ RecordsMet'
  BY <1>1, <1>3, <1>4, ReplacedKeeps
<1>6. LastMet'
  BY <1>1 DEF MacrosInv, LastMet
<1> QED
  BY <1>5, <1>6 DEF MacrosInv

LEMMA MacrosKeep ==
  ASSUME MacrosInv, [Next]_vars
  PROVE  MacrosInv'
<1>1. CASE CollectCopy
  <2>1. /\ i <= Len(source) /\ out' = Append(out, source[i]) /\ i' = i + 1
        /\ UNCHANGED <<phase, source, macros, entry, passes, records, last, lines>>
    BY <1>1 DEF CollectCopy
  <2>2. TextsRead' /\ LinesMet'
    BY <2>1, CopiedLines
  <2> QED
    BY <2>1, <2>2, RecordsStay DEF MacrosInv, LastMet
<1>2. CASE CollectStart
  <2>1. At(i) = "define" /\ i' = i + 1
        /\ UNCHANGED <<phase, source, out, macros, passes, records, last, lines>>
    BY <1>2 DEF CollectStart, StartsDefine
  <2>2. /\ source \in Texts /\ out \in Texts /\ i \in 1 .. Len(source) + 1
        /\ Len(source) \in Nat
    BY TextFacts DEF MacrosInv, TextsRead
  <2>3. i \in 1 .. Len(source) /\ source[i] = "define"
    BY <2>1, <2>2, AtFacts
  <2> DEFINE c == source[i]
  <2>4. Rest(i) = <<c>> \o Rest(i + 1) /\ <<c>> \in Texts /\ Count(<<c>>) = 0
    <3>1. Len(source) \in i .. Len(source)
      BY <2>2, <2>3
    <3>2. Rest(i) = <<c>> \o Rest(i + 1)
      BY <2>2, <2>3, <3>1, SubSeqRecursiveFirst DEF Rest, Texts
    <3>3. <<c>> \in Texts
      BY <2>2, <2>3, TextFacts DEF Texts
    <3>4. Free(<<c>>)
      BY <2>3 DEF Free
    <3> QED
      BY <3>2, <3>3, <3>4, FreeCount
  <2> HIDE DEF c
  <2>5. Count(Rest(i)) = Count(Rest(i + 1)) /\ i + 1 \in 1 .. Len(source) + 1
    <3>1. i + 1 \in 1 .. Len(source) + 1
      BY <2>2, <2>3
    <3>2. Rest(i + 1) \in Texts /\ Count(Rest(i + 1)) \in Nat
      BY <2>2, <3>1, RestFacts
    <3> QED
      BY <2>4, <3>1, <3>2, CountJoin
  <2>6. Rest(i)' = Rest(i + 1)
    BY <2>1 DEF Rest
  <2>7. TextsRead' /\ LinesMet'
    <3>1. TextsRead'
      BY <2>1, <2>5 DEF MacrosInv, TextsRead
    <3>2. LinesMet'
      BY <2>1, <2>5, <2>6 DEF MacrosInv, LinesMet, Count
    <3> QED
      BY <3>1, <3>2
  <2> QED
    BY <2>1, <2>7, RecordsStay DEF MacrosInv, LastMet
<1>3. CASE CollectEntry
  BY <1>3, CollectEntryKeeps
<1>4. CASE CollectBreak
  BY <1>4 DEF CollectBreak, MacrosInv, TextsRead, LinesMet, RecordsMet, LastMet, Rest
<1>5. CASE \E m \in Imports : CollectDone(m)
  BY <1>5, CollectDoneKeeps
<1>6. CASE ExpandCall
  BY <1>6, ExpandCallKeeps
<1>7. CASE ExpandPlain
  BY <1>7, ExpandPlainKeeps
<1>8. CASE Copy
  <2>1. /\ i <= Len(source) /\ out' = Append(out, source[i]) /\ i' = i + 1
        /\ UNCHANGED <<phase, source, macros, entry, passes, records, last, lines>>
    BY <1>8 DEF Copy
  <2>2. TextsRead' /\ LinesMet'
    BY <2>1, CopiedLines
  <2> QED
    BY <2>1, <2>2, RecordsStay DEF MacrosInv, LastMet
<1>9. CASE EndPass
  BY <1>9, EndPassKeeps
<1>10. CASE CollectedAgain
  BY <1>10, CollectedAgainKeeps
<1>11. CASE UNCHANGED vars
  BY <1>11 DEF vars, MacrosInv, TextsRead, LinesMet, RecordsMet, LastMet, Rest
<1> QED
  BY <1>1, <1>2, <1>3, <1>4, <1>5, <1>6, <1>7, <1>8, <1>9, <1>10, <1>11
  DEF Next

THEOREM MacrosTypes == Spec => []MacrosInv
<1>1. Init => MacrosInv
  BY MacrosBegin
<1>2. MacrosInv /\ [Next]_vars => MacrosInv'
  BY MacrosKeep
<1> QED
  BY <1>1, <1>2, PTL DEF Spec

(* Every line of the program stays on its line, whatever the texts, the    *)
(* imported macros and the limit of passes: collect_defines leaves the     *)
(* newlines of what it takes out, _pad_to_match_lines those of what is     *)
(* replaced, and an ExpansionRecord names the line of its call.            *)
THEOREM LinesAreKept == Spec => []LinesKept
<1>1. MacrosInv => LinesKept
  BY DEF MacrosInv, LinesMet, RecordsMet, LinesKept
<1> QED
  BY <1>1, MacrosTypes, PTL

(* _substitute_params, which goes through the text once per parameter,     *)
(* gives for every call what replacing all at once gives, unless an        *)
(* argument mentions a parameter that comes later.                         *)
THEOREM SubstitutionIsExact == Spec => []SubstitutionExact
<1>1. MacrosInv => SubstitutionExact
  <2> SUFFICES ASSUME MacrosInv, NEW k \in DOMAIN last,
                      \A a, b \in 1 .. Bound(last[k].params, last[k].args) :
                        a < b => last[k].params[b] \notin Range(last[k].args[a])
               PROVE  last[k].result = AtOnce(last[k])
    BY DEF SubstitutionExact, Bound
  <2>1. PICK b \in Texts, p \in Seq(Idents), a \in Seq(Texts) :
          last = <<Substituted(b, p, a)>>
    BY DEF MacrosInv, LastMet
  <2> DEFINE s == last[k]
  <2>2. s = Substituted(b, p, a)
    BY <2>1
  <2>3. s.body = b /\ s.params = p /\ s.args = a /\ s.result = Substitute(b, p, a)
    BY <2>2 DEF Substituted
  <2>4. \A x, y \in 1 .. Bound(p, a) : x < y => p[y] \notin Range(a[x])
    BY <2>3
  <2> HIDE DEF s
  <2>5. Substitute(b, p, a) = AtOnce(s)
    BY ONLY <2>3, <2>4, SubstitutedAtOnce
  <2> QED
    BY <2>3, <2>5 DEF s
<1> QED
  BY <1>1, MacrosTypes, PTL

-----------------------------------------------------------------------------
(***************************************************************************)
(* Positions arranged in an order.                                         *)
(***************************************************************************)

StrictOn(R, S) ==
  /\ \A m \in S : <<m, m>> \notin R
  /\ \A l, m, n \in S : <<l, m>> \in R /\ <<m, n>> \in R => <<l, n>> \in R
  /\ \A m, n \in S : m # n => <<m, n>> \in R \/ <<n, m>> \in R

Upto(S, R, n) == {m \in S : m = n \/ <<m, n>> \in R}

LEMMA RankFacts ==
  ASSUME NEW S, IsFiniteSet(S), NEW R, StrictOn(R, S)
  PROVE  /\ \A n \in S : Cardinality(Upto(S, R, n)) \in 1 .. Cardinality(S)
         /\ \A m, n \in S : <<m, n>> \in R =>
              Cardinality(Upto(S, R, m)) < Cardinality(Upto(S, R, n))
         /\ \A k \in 1 .. Cardinality(S) : \E n \in S : Cardinality(Upto(S, R, n)) = k
<1> DEFINE N == Cardinality(S)
           rank == [n \in S |-> Cardinality(Upto(S, R, n))]
<1>1. N \in Nat
  BY FS_CardinalityType
<1>2. \A n \in S : /\ Upto(S, R, n) \in SUBSET S /\ n \in Upto(S, R, n)
                   /\ IsFiniteSet(Upto(S, R, n))
                   /\ Cardinality(Upto(S, R, n)) \in Nat
  <2> SUFFICES ASSUME NEW n \in S
               PROVE  /\ Upto(S, R, n) \in SUBSET S /\ n \in Upto(S, R, n)
                      /\ IsFiniteSet(Upto(S, R, n))
                      /\ Cardinality(Upto(S, R, n)) \in Nat
    OBVIOUS
  <2>1. Upto(S, R, n) \in SUBSET S /\ n \in Upto(S, R, n)
    BY DEF Upto
  <2>2. IsFiniteSet(Upto(S, R, n))
    BY <2>1, FS_Subset
  <2> QED
    BY <2>1, <2>2, FS_CardinalityType
<1>3. \A n \in S : Cardinality(Upto(S, R, n)) \in 1 .. N
  <2> SUFFICES ASSUME NEW n \in S PROVE Cardinality(Upto(S, R, n)) \in 1 .. N
    OBVIOUS
  <2>1. Cardinality(Upto(S, R, n)) <= N
    BY <1>2, FS_Subset
  <2>2. Cardinality(Upto(S, R, n)) # 0
    BY <1>2, FS_EmptySet
  <2> QED
    BY <1>1, <1>2, <2>1, <2>2
<1>4. \A m, n \in S : <<m, n>> \in R =>
        Cardinality(Upto(S, R, m)) < Cardinality(Upto(S, R, n))
  <2> SUFFICES ASSUME NEW m \in S, NEW n \in S, <<m, n>> \in R
               PROVE  Cardinality(Upto(S, R, m)) < Cardinality(Upto(S, R, n))
    OBVIOUS
  <2>1. Upto(S, R, m) \in SUBSET Upto(S, R, n)
    BY DEF Upto, StrictOn
  <2>2. n \notin Upto(S, R, m)
    BY DEF Upto, StrictOn
  <2>3. Upto(S, R, m) # Upto(S, R, n)
    BY <1>2, <2>2
  <2>4. Cardinality(Upto(S, R, m)) <= Cardinality(Upto(S, R, n))
        /\ Cardinality(Upto(S, R, m)) # Cardinality(Upto(S, R, n))
    BY <1>2, <2>1, <2>3, FS_Subset
  <2> QED
    BY <1>2, <2>4
<1>5. rank \in Injection(S, 1 .. N)
  <2>1. rank \in [S -> 1 .. N]
    BY <1>3
  <2>2. ASSUME NEW m \in S, NEW n \in S, rank[m] = rank[n] PROVE m = n
    <3>1. Cardinality(Upto(S, R, m)) = Cardinality(Upto(S, R, n))
      BY <2>2
    <3>2. ~(<<m, n>> \in R) /\ ~(<<n, m>> \in R)
      BY <1>2, <1>4, <3>1
    <3> QED
      BY <3>2 DEF StrictOn
  <2> HIDE DEF rank
  <2> QED
    BY <2>1, <2>2 DEF Injection, IsInjective
<1>6. rank \in Surjection(S, 1 .. N)
  <2>1. 1 \in Int /\ N \in Int
    BY <1>1
  <2>2. IsFiniteSet(1 .. N) /\ Cardinality(1 .. N) = N
    BY <1>1, <2>1, FS_Interval
  <2> HIDE DEF rank
  <2> QED
    BY <1>5, <2>2, FS_Injection
<1>7. \A k \in 1 .. N : \E n \in S : rank[n] = k
  <2> HIDE DEF rank
  <2> QED
    BY <1>6 DEF Surjection
<1> QED
  BY <1>3, <1>4, <1>7

(* a has the members of ws at the positions S, each once, in the order R.  *)
Arranges(a, ws, S, R) ==
  \E pos \in [1 .. Len(a) -> S] :
    /\ \A k \in 1 .. Len(a) : a[k] = ws[pos[k]]
    /\ \A n \in S : \E k \in 1 .. Len(a) : pos[k] = n
    /\ \A j, k \in 1 .. Len(a) : j < k => <<pos[j], pos[k]>> \in R
    /\ \A j, k \in 1 .. Len(a) : pos[j] = pos[k] => j = k

LEMMA ArrangedFacts ==
  ASSUME NEW A, NEW ws \in Seq(A), NEW S \in SUBSET DOMAIN ws, NEW R, StrictOn(R, S)
  PROVE  Arranged(ws, S, R) \in Seq(A) /\ Arranges(Arranged(ws, S, R), ws, S, R)
<1> DEFINE N == Cardinality(S)
           at(k) == CHOOSE n \in S : Cardinality(Upto(S, R, n)) = k
           pos == [k \in 1 .. N |-> at(k)]
           a == Arranged(ws, S, R)
<1>1. IsFiniteSet(S)
  <2>1. DOMAIN ws = 1 .. Len(ws) /\ Len(ws) \in Int /\ 1 \in Int
    OBVIOUS
  <2>2. IsFiniteSet(DOMAIN ws)
    BY <2>1, FS_Interval
  <2> QED
    BY <2>2, FS_Subset
<1>2. N \in Nat
  BY <1>1, FS_CardinalityType
<1>3. \A k \in 1 .. N : at(k) \in S /\ Cardinality(Upto(S, R, at(k))) = k
  <2> SUFFICES ASSUME NEW k \in 1 .. N
               PROVE  at(k) \in S /\ Cardinality(Upto(S, R, at(k))) = k
    OBVIOUS
  <2>1. \E n \in S : Cardinality(Upto(S, R, n)) = k
    BY <1>1, RankFacts
  <2> QED
    BY <2>1
<1>4. a = [k \in 1 .. N |-> ws[at(k)]]
  BY DEF Arranged, Upto
<1> HIDE DEF at
<1>5. pos \in [1 .. N -> S] /\ \A k \in 1 .. N : pos[k] = at(k)
  BY <1>3
<1> HIDE DEF pos, a
<1>6. a \in Seq(A) /\ Len(a) = N
  <2>1. \A k \in 1 .. N : ws[at(k)] \in A
    BY <1>3
  <2>2. a \in [1 .. N -> A]
    BY <1>4, <2>1
  <2> HIDE DEF N
  <2> QED
    BY <1>2, <2>2
<1>7. \A k \in 1 .. N : a[k] = ws[pos[k]]
  BY <1>4, <1>5
<1>8. \A j, k \in 1 .. N : j < k => <<pos[j], pos[k]>> \in R
  <2> SUFFICES ASSUME NEW j \in 1 .. N, NEW k \in 1 .. N, j < k
               PROVE  <<pos[j], pos[k]>> \in R
    OBVIOUS
  <2> DEFINE x == pos[j]
             y == pos[k]
  <2>1. x \in S /\ y \in S /\ Cardinality(Upto(S, R, x)) = j /\ Cardinality(Upto(S, R, y)) = k
    BY <1>3, <1>5
  <2> HIDE DEF x, y
  <2>2. x # y /\ ~(<<y, x>> \in R)
    <3>1. j \in Nat /\ k \in Nat /\ j # k /\ ~(k < j)
      BY <1>2
    <3>2. <<y, x>> \in R => Cardinality(Upto(S, R, y)) < Cardinality(Upto(S, R, x))
      BY <1>1, <2>1, RankFacts
    <3> QED
      BY <2>1, <3>1, <3>2
  <2>3. <<x, y>> \in R
    BY <2>1, <2>2 DEF StrictOn
  <2> QED
    BY <2>3 DEF x, y
<1>9. \A j, k \in 1 .. N : pos[j] = pos[k] => j = k
  BY <1>3, <1>5
<1>10. \A n \in S : \E k \in 1 .. N : pos[k] = n
  <2> SUFFICES ASSUME NEW n \in S PROVE \E k \in 1 .. N : pos[k] = n
    OBVIOUS
  <2> DEFINE k == Cardinality(Upto(S, R, n))
  <2>1. k \in 1 .. N
    BY <1>1, RankFacts
  <2>2. pos[k] \in S /\ Cardinality(Upto(S, R, pos[k])) = k
    BY <1>3, <1>5, <2>1
  <2> DEFINE x == pos[k]
  <2>3. x \in S /\ Cardinality(Upto(S, R, x)) = Cardinality(Upto(S, R, n))
    BY <2>2
  <2> HIDE DEF x
  <2>4. ~(<<x, n>> \in R) /\ ~(<<n, x>> \in R)
    <3>1. /\ Cardinality(Upto(S, R, n)) \in Nat
          /\ <<x, n>> \in R => Cardinality(Upto(S, R, x)) < Cardinality(Upto(S, R, n))
          /\ <<n, x>> \in R => Cardinality(Upto(S, R, n)) < Cardinality(Upto(S, R, x))
      BY <1>1, <1>2, <2>1, <2>3, RankFacts
    <3> QED
      BY <2>3, <3>1
  <2>5. x = n
    BY <2>3, <2>4 DEF StrictOn
  <2> QED
    BY <2>1, <2>5 DEF x
<1> QED
  BY <1>5, <1>6, <1>7, <1>8, <1>9, <1>10 DEF Arranges, a

LEMMA AscendingStrict ==
  ASSUME NEW S \in SUBSET Nat
  PROVE  StrictOn(Ascending(S), S)
BY DEF StrictOn, Ascending

-----------------------------------------------------------------------------
(***************************************************************************)
(* Warnings and their order.                                               *)
(***************************************************************************)

LEMMA PassesLength == Len(Passes) \in Nat /\ 1 <= Len(Passes) /\ DOMAIN Passes = 1 .. Len(Passes)
BY DEF Passes

LEMMA RankType ==
  ASSUME NEW kind
  PROVE  /\ Rank(kind) \in 0 .. 3
         /\ kind \in Critical => Rank(kind) = 0
<1>1. /\ kind \in Critical => kind \notin High /\ kind \notin Low
      /\ kind \in High => kind \notin Low
  BY DEF Critical, High, Low, PaddingScopes
<1>2. kind \in Critical => Rank(kind) = 0
  BY Zenon, <1>1 DEF Rank
<1>3. kind \in High => Rank(kind) = 1
  BY Zenon, <1>1 DEF Rank
<1>4. kind \in Low => Rank(kind) = 3
  BY Zenon, <1>1 DEF Rank
<1>5. kind \notin Critical /\ kind \notin High /\ kind \notin Low => Rank(kind) = 2
  BY Zenon DEF Rank
<1> QED
  BY <1>2, <1>3, <1>4, <1>5

(* No option leaves out what is critical.                                  *)
LEMMA CriticalWanted ==
  ASSUME NEW w, w.kind \in Critical
  PROVE  Wanted(w)
<1>1. Rank(w.kind) <= 1
  BY RankType
<1>2. w.kind \notin Padding
  BY DEF Critical, Padding, PaddingScopes
<1> QED
  BY <1>1, <1>2 DEF Wanted

(* An order by severity, kind and line, where kinds have places.           *)
(* One lexicographic order, from three functions on a set.                 *)
Lex(S, rank, place, line, kind) ==
  {p \in S \X S : \/ rank[p[1]] < rank[p[2]]
                  \/ rank[p[1]] = rank[p[2]] /\ place[p[1]] < place[p[2]]
                  \/ kind[p[1]] = kind[p[2]] /\ line[p[1]] < line[p[2]]}

LEMMA LexOrder ==
  ASSUME NEW S, NEW rank \in [S -> Nat], NEW place \in [S -> Nat],
         NEW line \in [S -> Nat], NEW kind,
         \A m, n \in S : kind[m] = kind[n] => rank[m] = rank[n] /\ place[m] = place[n],
         \A m, n \in S : place[m] = place[n] => kind[m] = kind[n],
         \A m, n \in S : kind[m] = kind[n] /\ line[m] = line[n] => m = n
  PROVE  StrictOn(Lex(S, rank, place, line, kind), S)
<1> DEFINE Less(m, n) == \/ rank[m] < rank[n]
                         \/ rank[m] = rank[n] /\ place[m] < place[n]
                         \/ kind[m] = kind[n] /\ line[m] < line[n]
           R == {p \in S \X S : Less(p[1], p[2])}
<1>1. \A m, n \in S : <<m, n>> \in R <=> Less(m, n)
  OBVIOUS
<1>2. \A m \in S : ~Less(m, m)
  OBVIOUS
<1>3. ASSUME NEW l \in S, NEW m \in S, NEW n \in S, Less(l, m), Less(m, n)
      PROVE  Less(l, n)
  BY <1>3
<1>4. ASSUME NEW m \in S, NEW n \in S, m # n
      PROVE  Less(m, n) \/ Less(n, m)
  <2>1. rank[m] \in Nat /\ rank[n] \in Nat /\ place[m] \in Nat /\ place[n] \in Nat
        /\ line[m] \in Nat /\ line[n] \in Nat
    OBVIOUS
  <2>2. CASE kind[m] = kind[n]
    BY <1>4, <2>1, <2>2
  <2>3. CASE kind[m] # kind[n]
    <3>1. place[m] # place[n]
      BY <2>3
    <3> QED
      BY <2>1, <3>1
  <2> QED
    BY <2>2, <2>3
<1> HIDE DEF Less
<1>5. StrictOn(R, S)
  <2> HIDE DEF R
  <2> QED
    BY <1>1, <1>2, <1>3, <1>4 DEF StrictOn
<1> QED
  BY <1>5 DEF R, Less, Lex

(* No two warnings of ws have the same kind and place.                     *)
Unlike(ws) == \A m, n \in DOMAIN ws : Key(ws[m]) = Key(ws[n]) => m = n
KeysOf(ws) == {Key(ws[n]) : n \in DOMAIN ws}

LEMMA WarningFacts ==
  ASSUME NEW ws \in Seq(Warnings)
  PROVE  /\ Len(ws) \in Nat /\ DOMAIN ws = 1 .. Len(ws) /\ DOMAIN ws \in SUBSET Nat
         /\ \A n \in DOMAIN ws : /\ ws[n] \in Warnings
                                 /\ ws[n].kind \in STRING /\ ws[n].line \in Nat
                                 /\ Key(ws[n]) = <<ws[n].kind, ws[n].line>>
<1>1. Len(ws) \in Nat /\ DOMAIN ws = 1 .. Len(ws) /\ DOMAIN ws \in SUBSET Nat
      /\ \A n \in DOMAIN ws : ws[n] \in Warnings
  OBVIOUS
<1> QED
  BY <1>1 DEF Warnings, Key

LEMMA DeduplicatedFacts ==
  ASSUME NEW ws \in Seq(Warnings)
  PROVE  /\ Deduplicated(ws) \in Seq(Warnings) /\ Unlike(Deduplicated(ws))
         /\ KeysOf(Deduplicated(ws)) = KeysOf(ws)
<1> DEFINE S == FirstOfKey(ws)
           d == Deduplicated(ws)
<1>1. Len(ws) \in Nat /\ DOMAIN ws = 1 .. Len(ws) /\ DOMAIN ws \in SUBSET Nat
  BY WarningFacts
<1>2. /\ S \in SUBSET DOMAIN ws /\ S \in SUBSET Nat
      /\ \A n \in S : \A m \in 1 .. n - 1 : Key(ws[m]) # Key(ws[n])
      /\ \A n \in DOMAIN ws : (\A m \in 1 .. n - 1 : Key(ws[m]) # Key(ws[n])) => n \in S
  BY <1>1 DEF FirstOfKey
<1>3. StrictOn(Ascending(S), S)
  BY <1>2, AscendingStrict
<1> HIDE DEF S
<1>4. d \in Seq(Warnings) /\ Arranges(d, ws, S, Ascending(S))
  BY <1>2, <1>3, ArrangedFacts DEF Deduplicated, S
<1> HIDE DEF d
<1>5. PICK pos \in [1 .. Len(d) -> S] :
        /\ \A k \in 1 .. Len(d) : d[k] = ws[pos[k]]
        /\ \A n \in S : \E k \in 1 .. Len(d) : pos[k] = n
        /\ \A j, k \in 1 .. Len(d) : pos[j] = pos[k] => j = k
  BY <1>4 DEF Arranges
<1>6. DOMAIN d = 1 .. Len(d)
  BY <1>4, WarningFacts
<1>7. ASSUME NEW x \in S, NEW y \in S, Key(ws[x]) = Key(ws[y]) PROVE x = y
  <2>1. x \in Nat /\ y \in Nat /\ x >= 1 /\ y >= 1
    BY <1>1, <1>2
  <2>2. ~(x < y)
    <3>1. x < y => x \in 1 .. y - 1
      BY <2>1
    <3> QED
      BY <1>2, <1>7, <3>1
  <2>3. ~(y < x)
    <3>1. y < x => y \in 1 .. x - 1
      BY <2>1
    <3> QED
      BY <1>2, <1>7, <3>1
  <2> QED
    BY <2>1, <2>2, <2>3
<1>8. Unlike(d)
  <2> SUFFICES ASSUME NEW m \in 1 .. Len(d), NEW n \in 1 .. Len(d), Key(d[m]) = Key(d[n])
               PROVE  m = n
    BY <1>6 DEF Unlike
  <2>1. pos[m] \in S /\ pos[n] \in S /\ Key(ws[pos[m]]) = Key(ws[pos[n]])
    BY <1>5
  <2>2. pos[m] = pos[n]
    BY <1>7, <2>1
  <2> QED
    BY <1>5, <2>2
<1>9. ASSUME NEW n \in DOMAIN ws PROVE \E x \in S : Key(ws[x]) = Key(ws[n])
  <2> DEFINE T == {m \in DOMAIN ws : Key(ws[m]) = Key(ws[n])}
  <2>1. T \in SUBSET Nat /\ T # {}
    BY <1>1
  <2>2. PICK x \in T : \A y \in T : x <= y
    <3> HIDE DEF T
    <3> QED
      BY <2>1, LeastNat
  <2>3. x \in DOMAIN ws /\ Key(ws[x]) = Key(ws[n])
    OBVIOUS
  <2>4. \A m \in 1 .. x - 1 : m \in DOMAIN ws /\ ~(x <= m)
    BY <1>1, <2>3
  <2>5. \A m \in 1 .. x - 1 : Key(ws[m]) # Key(ws[x])
    <3> SUFFICES ASSUME NEW m \in 1 .. x - 1, Key(ws[m]) = Key(ws[x]) PROVE FALSE
      OBVIOUS
    <3>1. m \in T
      BY <2>3, <2>4
    <3> HIDE DEF T
    <3> QED
      BY <2>2, <2>4, <3>1
  <2> QED
    BY <1>2, <2>3, <2>5
<1>10. KeysOf(d) = KeysOf(ws)
  <2>1. ASSUME NEW k \in 1 .. Len(d) PROVE Key(d[k]) \in KeysOf(ws)
    <3>1. pos[k] \in DOMAIN ws /\ d[k] = ws[pos[k]]
      BY <1>2, <1>5
    <3> QED
      BY <3>1 DEF KeysOf
  <2>2. ASSUME NEW n \in DOMAIN ws PROVE Key(ws[n]) \in KeysOf(d)
    <3>1. PICK x \in S : Key(ws[x]) = Key(ws[n])
      BY <1>9
    <3>2. PICK k \in 1 .. Len(d) : pos[k] = x
      BY <1>5
    <3>3. Key(d[k]) = Key(ws[n])
      BY <1>5, <3>1, <3>2
    <3> QED
      BY <1>6, <3>3 DEF KeysOf
  <2> QED
    BY <1>6, <2>1, <2>2 DEF KeysOf
<1> QED
  BY <1>4, <1>8, <1>10 DEF d

LEMMA PlaceFacts ==
  ASSUME warnings \in Seq(Warnings), NEW n \in DOMAIN warnings
  PROVE  /\ Place(warnings[n].kind) \in DOMAIN warnings
         /\ warnings[Place(warnings[n].kind)].kind = warnings[n].kind
<1> DEFINE T == {m \in DOMAIN warnings : warnings[m].kind = warnings[n].kind}
<1>1. T \in SUBSET Nat /\ T # {} /\ DOMAIN warnings = 1 .. Len(warnings) /\ Len(warnings) \in Nat
  BY WarningFacts
<1>2. PICK x \in T : \A y \in T : x <= y
  <2> HIDE DEF T
  <2> QED
    BY <1>1, LeastNat
<1>3. \A m \in 1 .. x - 1 : m \in DOMAIN warnings /\ ~(x <= m)
  BY <1>1, <1>2
<1>4. \A m \in 1 .. x - 1 : warnings[m].kind # warnings[n].kind
  <2> SUFFICES ASSUME NEW m \in 1 .. x - 1, warnings[m].kind = warnings[n].kind PROVE FALSE
    OBVIOUS
  <2>1. m \in T
    BY <1>3
  <2> HIDE DEF T
  <2> QED
    BY <1>2, <1>3, <2>1
<1>5. x \in DOMAIN warnings /\ warnings[x].kind = warnings[n].kind
  OBVIOUS
<1> QED
  BY <1>4, <1>5 DEF Place

LEMMA SortedStrict ==
  ASSUME warnings \in Seq(Warnings), Unlike(warnings), NEW S \in SUBSET DOMAIN warnings
  PROVE  StrictOn({p \in S \X S : Before(warnings[p[1]], warnings[p[2]])}, S)
<1> DEFINE rank == [n \in S |-> Rank(warnings[n].kind)]
           place == [n \in S |-> Place(warnings[n].kind)]
           line == [n \in S |-> warnings[n].line]
           kind == [n \in S |-> warnings[n].kind]
           L == Lex(S, rank, place, line, kind)
<1>1. \A n \in S : /\ rank[n] = Rank(warnings[n].kind) /\ place[n] = Place(warnings[n].kind)
                   /\ line[n] = warnings[n].line /\ kind[n] = warnings[n].kind
  OBVIOUS
<1>2. rank \in [S -> Nat]
  <2>1. \A n \in S : Rank(warnings[n].kind) \in Nat
    BY RankType
  <2> QED
    BY <2>1
<1>3. place \in [S -> Nat]
  <2>1. \A n \in S : Place(warnings[n].kind) \in Nat
    BY PlaceFacts, WarningFacts
  <2> QED
    BY <2>1
<1>4. line \in [S -> Nat]
  BY WarningFacts
<1>5. \A m, n \in S : Place(warnings[m].kind) = Place(warnings[n].kind)
                        => warnings[m].kind = warnings[n].kind
  BY PlaceFacts
<1>6. \A m, n \in S : warnings[m].kind = warnings[n].kind /\ warnings[m].line = warnings[n].line
                        => m = n
  BY DEF Unlike, Key
<1>7. {p \in S \X S : Before(warnings[p[1]], warnings[p[2]])} = L
  BY <1>1 DEF Before, Lex
<1> HIDE DEF rank, place, line, kind
<1>8. StrictOn(L, S)
  <2>1. \A m, n \in S : kind[m] = kind[n] => rank[m] = rank[n] /\ place[m] = place[n]
    BY <1>1
  <2>2. \A m, n \in S : place[m] = place[n] => kind[m] = kind[n]
    BY <1>1, <1>5
  <2>3. \A m, n \in S : kind[m] = kind[n] /\ line[m] = line[n] => m = n
    BY <1>1, <1>6
  <2> QED
    BY ONLY <1>2, <1>3, <1>4, <2>1, <2>2, <2>3, LexOrder, Zenon
<1> HIDE DEF L
<1> QED
  BY ONLY <1>7, <1>8

-----------------------------------------------------------------------------
(***************************************************************************)
(* The report.                                                             *)
(***************************************************************************)

Asked == {Key(w) : w \in {v \in ToSet(found) : Wanted(v)}}

(* In the text, those of one kind stand in the order of their lines.       *)
InOrder(ws) ==
  \A m, n \in DOMAIN ws : m < n /\ ws[m].kind = ws[n].kind => ws[m].line < ws[n].line

(* The k-th of ws has an entry of its own, and which.                      *)
Speaks(ws, json, k) ==
  \/ json \/ ws[k].kind \notin Groupable
  \/ \A m \in 1 .. k - 1 : ws[m].kind # ws[k].kind
Same(ws, kind) == {n \in DOMAIN ws : ws[n].kind = kind}
Says(ws, json, k) ==
  Entry(ws[k], IF json \/ ws[k].kind \notin Groupable THEN 1
               ELSE Cardinality(Same(ws, ws[k].kind)))

(* The entries of the rows before r.                                       *)
Rows(ws, json, r, sh) ==
  /\ \A n \in DOMAIN sh : \E k \in 1 .. r - 1 : Speaks(ws, json, k) /\ sh[n] = Says(ws, json, k)
  /\ \A k \in 1 .. r - 1 : Speaks(ws, json, k) => \E n \in DOMAIN sh : sh[n] = Says(ws, json, k)
  /\ \A m, n \in DOMAIN sh : Key(sh[m]) = Key(sh[n]) => m = n

Groups(ws, r) == {kind \in Groupable : \E k \in 1 .. r - 1 : ws[k].kind = kind}

Listed ==
  /\ Unlike(warnings) /\ KeysOf(warnings) = Asked
  /\ ~options.json => InOrder(warnings)

Told == Rows(warnings, options.json, row, shown)

Entries == [kind : STRING, line : Nat, for : Nat]

MainInv ==
  /\ case \in Cases /\ pass \in 1 .. Len(Passes) + 1
  /\ warnings \in Seq(Warnings) /\ found \in Seq(Warnings) /\ shown \in Seq(Entries)
  /\ row \in 1 .. Len(warnings) + 1
  /\ stage \in {"read", "checks", "filter", "report", "exit"}
  /\ stage = "read" => pass = 1
  /\ stage \in {"checks", "filter", "report"} => case.input \notin Unusable
  /\ stage \in {"read", "checks"} => found = warnings
  /\ stage \in {"read", "checks", "filter"} => row = 1 /\ shown = <<>> /\ grouped = {}
  /\ stage \in {"filter", "report"} => pass > Len(Passes)
  /\ stage = "filter" => Unlike(warnings) /\ KeysOf(warnings) = KeysOf(found)
  /\ stage = "report" => /\ ~options.backtrace /\ Listed /\ Told
                         /\ ~options.json => grouped = Groups(warnings, row)
  /\ Reported => Listed /\ Told /\ row > Len(warnings)
  /\ ExitHonest

LEMMA SaysFacts ==
  ASSUME NEW ws \in Seq(Warnings), NEW json, NEW k \in DOMAIN ws
  PROVE  /\ Says(ws, json, k) \in Entries
         /\ Key(Says(ws, json, k)) = Key(ws[k])
         /\ Says(ws, json, k).kind = ws[k].kind /\ Says(ws, json, k).line = ws[k].line
         /\ Says(ws, json, k).for = IF json \/ ws[k].kind \notin Groupable THEN 1
                                    ELSE Cardinality(Same(ws, ws[k].kind))
<1>1. ws[k].kind \in STRING /\ ws[k].line \in Nat
  BY WarningFacts
<1>2. Cardinality(Same(ws, ws[k].kind)) \in Nat
  <2>1. DOMAIN ws = 1 .. Len(ws) /\ Len(ws) \in Int /\ 1 \in Int
    BY WarningFacts
  <2>2. IsFiniteSet(DOMAIN ws) /\ Same(ws, ws[k].kind) \in SUBSET DOMAIN ws
    BY <2>1, FS_Interval DEF Same
  <2>3. IsFiniteSet(Same(ws, ws[k].kind))
    BY <2>2, FS_Subset
  <2> QED
    BY <2>3, FS_CardinalityType
<1> DEFINE n == IF json \/ ws[k].kind \notin Groupable THEN 1
                ELSE Cardinality(Same(ws, ws[k].kind))
<1>3. n \in Nat
  BY <1>2
<1>4. Says(ws, json, k) = [kind |-> ws[k].kind, line |-> ws[k].line, for |-> n]
  BY DEF Says, Entry
<1> HIDE DEF n
<1>5. /\ Says(ws, json, k) \in Entries
      /\ Key(Says(ws, json, k)) = Key(ws[k])
      /\ Says(ws, json, k).kind = ws[k].kind /\ Says(ws, json, k).line = ws[k].line
      /\ Says(ws, json, k).for = n
  BY <1>1, <1>3, <1>4 DEF Entries, Key
<1> QED
  BY <1>5 DEF n

(* One more row.                                                           *)
LEMMA RowsMore ==
  ASSUME NEW ws \in Seq(Warnings), Unlike(ws), NEW json, NEW r \in 1 .. Len(ws),
         NEW sh \in Seq(Entries), Rows(ws, json, r, sh), NEW new,
         \/ Speaks(ws, json, r) /\ new = Append(sh, Says(ws, json, r))
         \/ ~Speaks(ws, json, r) /\ new = sh
  PROVE  new \in Seq(Entries) /\ Rows(ws, json, r + 1, new)
<1>1. /\ Len(ws) \in Nat /\ DOMAIN ws = 1 .. Len(ws) /\ r \in DOMAIN ws
      /\ (r + 1) - 1 = r /\ r \in 1 .. r
      /\ \A k \in 1 .. r - 1 : k \in 1 .. r /\ k \in DOMAIN ws /\ k # r
      /\ \A k \in 1 .. r : k \in 1 .. r - 1 \/ k = r
  BY WarningFacts
<1>2. CASE ~Speaks(ws, json, r) /\ new = sh
  <2>1. \A k \in 1 .. r : Speaks(ws, json, k) => k \in 1 .. r - 1
    BY <1>1, <1>2
  <2> QED
    BY <1>1, <1>2, <2>1 DEF Rows
<1>3. CASE Speaks(ws, json, r) /\ new = Append(sh, Says(ws, json, r))
  <2> DEFINE e == Says(ws, json, r)
  <2>1. e \in Entries /\ Key(e) = Key(ws[r])
    BY <1>1, SaysFacts
  <2> HIDE DEF e
  <2>2. /\ new \in Seq(Entries) /\ Len(sh) \in Nat
        /\ DOMAIN sh = 1 .. Len(sh) /\ DOMAIN new = 1 .. Len(sh) + 1
        /\ new[Len(sh) + 1] = e
        /\ \A n \in 1 .. Len(sh) : new[n] = sh[n]
    BY <1>3, <2>1 DEF e
  <2>3. ASSUME NEW n \in DOMAIN new
        PROVE  \E k \in 1 .. r : Speaks(ws, json, k) /\ new[n] = Says(ws, json, k)
    <3>1. CASE n = Len(sh) + 1
      BY <1>1, <1>3, <2>2, <3>1 DEF e
    <3>2. CASE n # Len(sh) + 1
      <4>1. n \in DOMAIN sh /\ new[n] = sh[n]
        BY <2>2, <3>2
      <4> QED
        BY <1>1, <4>1 DEF Rows
    <3> QED
      BY <3>1, <3>2
  <2>4. ASSUME NEW k \in 1 .. r, Speaks(ws, json, k)
        PROVE  \E n \in DOMAIN new : new[n] = Says(ws, json, k)
    <3>1. CASE k = r
      <4>1. Len(sh) + 1 \in DOMAIN new
        BY <2>2
      <4> QED
        BY <2>2, <3>1, <4>1 DEF e
    <3>2. CASE k # r
      <4>1. PICK n \in DOMAIN sh : sh[n] = Says(ws, json, k)
        BY <1>1, <2>4, <3>2 DEF Rows
      <4>2. n \in DOMAIN new /\ new[n] = sh[n]
        BY <2>2
      <4> QED
        BY <4>1, <4>2
    <3> QED
      BY <3>1, <3>2
  <2>5. ASSUME NEW n \in DOMAIN sh PROVE Key(sh[n]) # Key(e)
    <3>1. PICK k \in 1 .. r - 1 : sh[n] = Says(ws, json, k)
      BY DEF Rows
    <3>2. Key(sh[n]) = Key(ws[k])
      BY <1>1, <3>1, SaysFacts
    <3> QED
      BY <1>1, <2>1, <3>2 DEF Unlike
  <2>6. ASSUME NEW m \in DOMAIN new, NEW n \in DOMAIN new, Key(new[m]) = Key(new[n])
        PROVE  m = n
    <3>1. (m \in DOMAIN sh /\ new[m] = sh[m]) \/ (m = Len(sh) + 1 /\ new[m] = e)
      BY <2>2
    <3>2. (n \in DOMAIN sh /\ new[n] = sh[n]) \/ (n = Len(sh) + 1 /\ new[n] = e)
      BY <2>2
    <3> QED
      BY <2>5, <2>6, <3>1, <3>2 DEF Rows
  <2> QED
    BY <1>1, <2>2, <2>3, <2>4, <2>6 DEF Rows
<1> QED
  BY <1>2, <1>3

(* What is kept of the warnings, and in which order.                       *)
LEMMA FilterFacts ==
  ASSUME MainInv, stage = "filter", NEW ws,
         NEW kept, kept = {n \in DOMAIN warnings : Wanted(warnings[n])},
         NEW sorted, sorted = {p \in kept \X kept : Before(warnings[p[1]], warnings[p[2]])},
         ws = Arranged(warnings, kept, IF options.json THEN Ascending(kept) ELSE sorted)
  PROVE  /\ ws \in Seq(Warnings) /\ Unlike(ws) /\ KeysOf(ws) = Asked
         /\ ~options.json => InOrder(ws)
<1> DEFINE R == IF options.json THEN Ascending(kept) ELSE sorted
<1>1. warnings \in Seq(Warnings) /\ Unlike(warnings) /\ KeysOf(warnings) = KeysOf(found)
      /\ found \in Seq(Warnings)
  BY DEF MainInv
<1>2. kept \in SUBSET DOMAIN warnings /\ kept \in SUBSET Nat
  BY <1>1, WarningFacts
<1>3. StrictOn(R, kept)
  <2>1. CASE options.json
    BY <1>2, <2>1, AscendingStrict
  <2>2. CASE ~options.json
    BY <1>1, <1>2, <2>2, SortedStrict
  <2> QED
    BY <2>1, <2>2
<1> HIDE DEF R
<1>4. ws \in Seq(Warnings) /\ Arranges(ws, warnings, kept, R)
  BY <1>1, <1>2, <1>3, ArrangedFacts DEF R
<1>5. PICK pos \in [1 .. Len(ws) -> kept] :
        /\ \A k \in 1 .. Len(ws) : ws[k] = warnings[pos[k]]
        /\ \A n \in kept : \E k \in 1 .. Len(ws) : pos[k] = n
        /\ \A j, k \in 1 .. Len(ws) : j < k => <<pos[j], pos[k]>> \in R
        /\ \A j, k \in 1 .. Len(ws) : pos[j] = pos[k] => j = k
  BY <1>4 DEF Arranges
<1>6. DOMAIN ws = 1 .. Len(ws)
  BY <1>4, WarningFacts
<1>7. \A k \in 1 .. Len(ws) : pos[k] \in DOMAIN warnings /\ Wanted(warnings[pos[k]])
  BY <1>5
<1>8. Unlike(ws)
  <2>1. ASSUME NEW m \in 1 .. Len(ws), NEW n \in 1 .. Len(ws), Key(ws[m]) = Key(ws[n])
        PROVE  m = n
    <3>1. Key(warnings[pos[m]]) = Key(warnings[pos[n]])
      BY <1>5, <2>1
    <3>2. pos[m] = pos[n]
      BY <1>1, <1>7, <3>1 DEF Unlike
    <3>3. \A j, k \in 1 .. Len(ws) : pos[j] = pos[k] => j = k
      BY ONLY <1>5
    <3> QED
      BY ONLY <3>2, <3>3, m \in 1 .. Len(ws), n \in 1 .. Len(ws), Zenon
  <2> QED
    BY ONLY <1>6, <2>1 DEF Unlike
<1>9. \A v, w : Key(v) = Key(w) /\ Wanted(v) => Wanted(w)
  BY DEF Key, Wanted
<1>10. KeysOf(ws) = Asked
  <2>1. ASSUME NEW k \in 1 .. Len(ws) PROVE Key(ws[k]) \in Asked
    <3>1. Key(warnings[pos[k]]) \in KeysOf(found)
      BY <1>1, <1>7 DEF KeysOf
    <3>2. PICK n \in DOMAIN found : Key(found[n]) = Key(warnings[pos[k]])
      BY <3>1 DEF KeysOf
    <3>3. Wanted(found[n])
      BY <1>7, <1>9, <3>2
    <3>4. found[n] \in ToSet(found)
      BY DEF ToSet
    <3>5. Key(ws[k]) = Key(found[n])
      BY <1>5, <3>2
    <3>6. found[n] \in {v \in ToSet(found) : Wanted(v)}
      BY ONLY <3>3, <3>4
    <3> QED
      BY ONLY <3>5, <3>6 DEF Asked
  <2>2. ASSUME NEW v \in ToSet(found), Wanted(v) PROVE Key(v) \in KeysOf(ws)
    <3>1. PICK n \in DOMAIN found : v = found[n]
      BY DEF ToSet
    <3>2. Key(v) \in KeysOf(warnings)
      BY <1>1, <3>1 DEF KeysOf
    <3>3. PICK m \in DOMAIN warnings : Key(warnings[m]) = Key(v)
      BY <3>2 DEF KeysOf
    <3>4. m \in kept
      BY <1>9, <2>2, <3>3
    <3>5. PICK k \in 1 .. Len(ws) : pos[k] = m
      BY <1>5, <3>4
    <3>6. Key(ws[k]) = Key(v)
      BY <1>5, <3>3, <3>5
    <3> QED
      BY <1>6, <3>6 DEF KeysOf
  <2>3. \A x \in KeysOf(ws) : x \in Asked
    BY <1>6, <2>1 DEF KeysOf
  <2>4. \A x \in Asked : x \in KeysOf(ws)
    BY <2>2 DEF Asked
  <2> QED
    BY <2>3, <2>4
<1>11. ASSUME ~options.json PROVE InOrder(ws)
  <2>1. ASSUME NEW m \in 1 .. Len(ws), NEW n \in 1 .. Len(ws), m < n,
               ws[m].kind = ws[n].kind
        PROVE  ws[m].line < ws[n].line
    <3> DEFINE v == warnings[pos[m]]
               w == warnings[pos[n]]
    <3>1. ws[m] = v /\ ws[n] = w /\ <<pos[m], pos[n]>> \in R
      <4>1. m \in 1 .. Len(ws) /\ n \in 1 .. Len(ws) /\ m < n
        BY <2>1
      <4> QED
        BY ONLY <1>5, <4>1
    <3>2. Before(v, w)
      BY <1>11, <3>1 DEF R
    <3>3. pos[m] \in DOMAIN warnings
      BY <1>7
    <3>4. Place(v.kind) \in Nat
      <4>1. Place(v.kind) \in DOMAIN warnings
        BY ONLY <1>1, <3>3, PlaceFacts
      <4>2. DOMAIN warnings \in SUBSET Nat
        BY ONLY <1>1, WarningFacts
      <4> HIDE DEF v
      <4> QED
        BY ONLY <4>1, <4>2
    <3>5. Rank(v.kind) \in Nat
      BY ONLY RankType
    <3>6. v.kind = w.kind
      BY ONLY <2>1, <3>1
    <3> HIDE DEF v, w
    <3>7. v.line < w.line
      <4>1. ~(Rank(v.kind) < Rank(w.kind)) /\ ~(Place(v.kind) < Place(w.kind))
        <5>1. Rank(v.kind) = Rank(w.kind) /\ Place(v.kind) = Place(w.kind)
          BY ONLY <3>6
        <5> QED
          BY ONLY <3>4, <3>5, <5>1
      <4> QED
        BY ONLY <3>2, <4>1 DEF Before
    <3> QED
      BY ONLY <3>1, <3>7
  <2> QED
    BY ONLY <1>6, <2>1 DEF InOrder
<1> QED
  BY <1>4, <1>8, <1>10, <1>11

-----------------------------------------------------------------------------
(***************************************************************************)
(* The run.                                                                *)
(***************************************************************************)

LEMMA MainBegins ==
  ASSUME MainInit
  PROVE  MainInv
<1>1. 1 \in 1 .. Len(Passes) + 1
  BY PassesLength
<1>2. stage = "read" /\ pass = 1 /\ warnings = <<>> /\ found = <<>> /\ row = 1
      /\ grouped = {} /\ shown = <<>> /\ case \in Cases
  BY DEF MainInit
<1> QED
  BY <1>1, <1>2 DEF MainInv, Reported, ExitHonest

LEMMA CaseFacts ==
  ASSUME MainInv
  PROVE  /\ case.input \in Unusable \cup Uncaught \cup {"good"}
         /\ options \in Options
         /\ \A p \in 1 .. Len(Passes) : Found(case, Passes[p]) \in Seq(Warnings)
BY MainAssumption, PassesLength DEF MainInv, options

LEMMA ReadKeeps ==
  ASSUME MainInv, Read
  PROVE  MainInv'
<1>1. stage = "read" /\ UNCHANGED <<case, pass, warnings, found, row, grouped, shown>>
  BY DEF Read
<1>2. /\ case.input \in Uncaught => case.input \notin Unusable
      /\ case.input = "good" => case.input \notin Unusable
  BY Zenon DEF Unusable, Uncaught
<1>3. pass = 1 /\ pass <= Len(Passes) /\ Len(Passes) \in Nat
  BY <1>1, PassesLength DEF MainInv
<1>4. \/ stage' = "checks" /\ case.input \notin Unusable
      \/ stage' = "exit" /\ status' = IF case.input \in Unusable THEN 2 ELSE 1
  BY <1>2 DEF Read, Stop
<1>5. CASE stage' = "checks" /\ case.input \notin Unusable
  BY <1>1, <1>5 DEF MainInv, Reported, ExitHonest
<1>6. CASE stage' = "exit" /\ status' = IF case.input \in Unusable THEN 2 ELSE 1
  <2>1. ExitHonest'
    BY <1>1, <1>3, <1>6 DEF ExitHonest
  <2>2. ~Reported'
    BY <1>1, <1>3 DEF Reported
  <2> QED
    BY <1>1, <1>6, <2>1, <2>2 DEF MainInv
<1> QED
  BY <1>4, <1>5, <1>6

LEMMA RunCheckKeeps ==
  ASSUME MainInv, RunCheck
  PROVE  MainInv'
<1> DEFINE more == Found(case, Passes[pass])
<1>1. /\ stage = "checks" /\ pass <= Len(Passes)
      /\ warnings' = warnings \o more /\ found' = warnings' /\ pass' = pass + 1
      /\ UNCHANGED <<case, stage, row, grouped, shown, status>>
  BY DEF RunCheck
<1>2. pass \in 1 .. Len(Passes) /\ pass + 1 \in 1 .. Len(Passes) + 1
  BY <1>1, PassesLength DEF MainInv
<1>3. more \in Seq(Warnings)
  BY <1>2, CaseFacts
<1> HIDE DEF more
<1>4. warnings' \in Seq(Warnings) /\ Len(warnings') \in Nat
  BY <1>1, <1>3 DEF MainInv
<1>5. row' = 1 /\ row' \in 1 .. Len(warnings') + 1
  BY <1>1, <1>4 DEF MainInv
<1> QED
  BY <1>1, <1>2, <1>4, <1>5 DEF MainInv, Reported, ExitHonest

LEMMA CheckFailsKeeps ==
  ASSUME MainInv, CheckFails
  PROVE  MainInv'
<1>1. /\ stage = "checks" /\ pass <= Len(Passes) /\ stage' = "exit" /\ status' = 1
      /\ UNCHANGED <<case, pass, warnings, found, row, grouped, shown>>
  BY DEF CheckFails, Stop
<1>2. case.input \notin Unusable /\ pass \in Nat /\ Len(Passes) \in Nat
  BY <1>1, PassesLength DEF MainInv
<1>3. ExitHonest' /\ ~Reported'
  BY <1>1, <1>2 DEF ExitHonest, Reported
<1> QED
  BY <1>1, <1>3 DEF MainInv

LEMMA DeduplicateKeeps ==
  ASSUME MainInv, Deduplicate
  PROVE  MainInv'
<1>1. /\ stage = "checks" /\ pass > Len(Passes) /\ stage' = "filter"
      /\ warnings' = Deduplicated(warnings)
      /\ UNCHANGED <<case, pass, found, row, grouped, shown, status>>
  BY DEF Deduplicate
<1>2. warnings \in Seq(Warnings) /\ found = warnings /\ row = 1
  BY <1>1 DEF MainInv
<1>3. warnings' \in Seq(Warnings) /\ Unlike(warnings') /\ KeysOf(warnings') = KeysOf(found)
  BY <1>1, <1>2, DeduplicatedFacts
<1>4. row \in 1 .. Len(warnings') + 1
  BY <1>2, <1>3, WarningFacts
<1>5. Unlike(warnings)' /\ (KeysOf(warnings) = KeysOf(found))'
  BY <1>1, <1>3 DEF Unlike, KeysOf, Key
<1>6. ExitHonest' /\ ~Reported'
  BY <1>1 DEF ExitHonest, Reported
<1>7. /\ case.input \notin Unusable /\ pass > Len(Passes)
      /\ row = 1 /\ shown = <<>> /\ grouped = {}
      /\ case \in Cases /\ pass \in 1 .. Len(Passes) + 1
      /\ found \in Seq(Warnings) /\ shown \in Seq(Entries)
  BY <1>1 DEF MainInv
<1> QED
  BY ONLY <1>1, <1>3, <1>4, <1>5, <1>6, <1>7 DEF MainInv

LEMMA BacktraceKeeps ==
  ASSUME MainInv, Backtrace
  PROVE  MainInv'
<1>1. /\ stage = "filter" /\ options.backtrace /\ stage' = "exit" /\ status' = 0
      /\ UNCHANGED <<case, pass, warnings, found, row, grouped, shown>>
  BY DEF Backtrace, Stop
<1>2. case.input \notin Unusable /\ pass > Len(Passes) /\ pass \in Nat /\ Len(Passes) \in Nat
  BY <1>1, PassesLength DEF MainInv
<1>3. ExitHonest'
  BY <1>1, <1>2 DEF ExitHonest, options
<1>4. ~Reported'
  BY <1>1 DEF Reported, options
<1> QED
  BY <1>1, <1>3, <1>4 DEF MainInv

LEMMA FilterKeeps ==
  ASSUME MainInv, Filter
  PROVE  MainInv'
<1> DEFINE kept == {n \in DOMAIN warnings : Wanted(warnings[n])}
           sorted == {p \in kept \X kept : Before(warnings[p[1]], warnings[p[2]])}
<1>1. /\ stage = "filter" /\ ~options.backtrace /\ stage' = "report"
      /\ warnings' = Arranged(warnings, kept,
                              IF options.json THEN Ascending(kept) ELSE sorted)
      /\ UNCHANGED <<case, pass, found, row, grouped, shown, status>>
  BY DEF Filter
<1>2. /\ warnings' \in Seq(Warnings) /\ Unlike(warnings') /\ KeysOf(warnings') = Asked
      /\ ~options.json => InOrder(warnings')
  BY <1>1, FilterFacts
<1> HIDE DEF kept, sorted
<1>3. row = 1 /\ shown = <<>> /\ grouped = {}
  BY <1>1 DEF MainInv
<1>4. Listed'
  <2>1. Asked' = Asked
    BY <1>1 DEF Asked, Wanted, options
  <2>2. options' = options
    BY <1>1 DEF options
  <2> QED
    BY <1>2, <2>1, <2>2 DEF Listed, Unlike, KeysOf, InOrder, Key
<1>5. Told'
  <2>1. 1 .. 1 - 1 = {} /\ DOMAIN <<>> = {}
    OBVIOUS
  <2>2. \A ws, json : Rows(ws, json, 1, <<>>)
    BY ONLY <2>1 DEF Rows
  <2>3. Rows(warnings', options'.json, 1, <<>>)
    BY ONLY <2>2
  <2>4. row' = 1 /\ shown' = <<>>
    BY <1>1, <1>3
  <2>5. Told' <=> Rows(warnings', options'.json, row', shown')
    BY DEF Told, options
  <2> QED
    BY ONLY <2>3, <2>4, <2>5
<1>6. (grouped = Groups(warnings, row))'
  BY <1>1, <1>3 DEF Groups
<1>7. row \in 1 .. Len(warnings') + 1
  BY <1>2, <1>3, WarningFacts
<1>8. ~options'.backtrace
  BY <1>1 DEF options
<1> QED
  BY <1>1, <1>2, <1>4, <1>5, <1>6, <1>7, <1>8 DEF MainInv, Reported, ExitHonest

(* One row of the report, in either format.                                *)
LEMMA RowKeeps ==
  ASSUME MainInv, stage = "report", row <= Len(warnings), row' = row + 1,
         UNCHANGED <<case, stage, pass, warnings, found, status>>,
         \/ Speaks(warnings, options.json, row)
              /\ shown' = Append(shown, Says(warnings, options.json, row))
         \/ ~Speaks(warnings, options.json, row) /\ shown' = shown,
         ~options.json => grouped' = Groups(warnings, row + 1)
  PROVE  MainInv'
<1>1. /\ warnings \in Seq(Warnings) /\ Unlike(warnings) /\ shown \in Seq(Entries)
      /\ row \in 1 .. Len(warnings) + 1 /\ Len(warnings) \in Nat
      /\ Rows(warnings, options.json, row, shown)
  BY WarningFacts DEF MainInv, Listed, Told
<1>2. row \in 1 .. Len(warnings) /\ row + 1 \in 1 .. Len(warnings) + 1
  BY <1>1
<1>3. shown' \in Seq(Entries) /\ Rows(warnings, options.json, row + 1, shown')
  BY <1>1, <1>2, RowsMore
<1>4. options' = options
  BY DEF options
<1>5. Told'
  <2>1. Told' <=> Rows(warnings', options'.json, row', shown')
    BY DEF Told, options
  <2>2. warnings' = warnings /\ row' = row + 1
    OBVIOUS
  <2> QED
    BY ONLY <1>3, <1>4, <2>1, <2>2
<1>6. Listed'
  <2>1. Asked' = Asked
    BY <1>4 DEF Asked, Wanted
  <2> QED
    BY <1>4, <2>1 DEF MainInv, Listed, Unlike, KeysOf, InOrder, Key
<1>7. (~options.json => grouped = Groups(warnings, row))'
  BY <1>4 DEF Groups
<1> QED
  BY <1>2, <1>3, <1>4, <1>5, <1>6, <1>7 DEF MainInv, Reported, ExitHonest

LEMMA ReportJsonKeeps ==
  ASSUME MainInv, ReportJson
  PROVE  MainInv'
<1>1. /\ stage = "report" /\ options.json /\ row <= Len(warnings) /\ row' = row + 1
      /\ shown' = Append(shown, Entry(warnings[row], 1))
      /\ UNCHANGED <<case, stage, pass, warnings, found, status>>
  BY DEF ReportJson
<1>2. Speaks(warnings, options.json, row)
      /\ Says(warnings, options.json, row) = Entry(warnings[row], 1)
  BY <1>1 DEF Speaks, Says
<1> QED
  BY <1>1, <1>2, RowKeeps

LEMMA ReportTextKeeps ==
  ASSUME MainInv, ReportText
  PROVE  MainInv'
<1> DEFINE kind == warnings[row].kind
<1>1. /\ stage = "report" /\ ~options.json /\ row <= Len(warnings) /\ row' = row + 1
      /\ \/ InGroup(kind) /\ UNCHANGED <<shown, grouped>>
         \/ /\ ~InGroup(kind) /\ kind \in Groupable
            /\ shown' = Append(shown, Entry(warnings[row], Occurrences(kind)))
            /\ grouped' = grouped \cup {kind}
         \/ /\ kind \notin Groupable
            /\ shown' = Append(shown, Entry(warnings[row], 1))
            /\ grouped' = grouped
      /\ UNCHANGED <<case, stage, pass, warnings, found, status>>
  BY DEF ReportText
<1>2. grouped = Groups(warnings, row) /\ row \in Nat /\ row >= 1 /\ (row + 1) - 1 = row
  BY <1>1, WarningFacts DEF MainInv
<1>3. Occurrences(kind) = Cardinality(Same(warnings, kind))
  BY DEF Occurrences, Same
<1>4. \A k : k \in 1 .. (row + 1) - 1 <=> k \in 1 .. row - 1 \/ k = row
  BY <1>2
<1>5. Groups(warnings, row + 1) = IF kind \in Groupable THEN grouped \cup {kind} ELSE grouped
  BY <1>2, <1>4 DEF Groups
<1>6. Speaks(warnings, options.json, row) <=> ~InGroup(kind)
  BY <1>1, <1>2 DEF Speaks, InGroup, Groups
<1>7. Says(warnings, options.json, row) =
        Entry(warnings[row], IF kind \notin Groupable THEN 1 ELSE Occurrences(kind))
  BY <1>1, <1>3 DEF Says
<1> HIDE DEF kind
<1>8. \/ Speaks(warnings, options.json, row)
           /\ shown' = Append(shown, Says(warnings, options.json, row))
      \/ ~Speaks(warnings, options.json, row) /\ shown' = shown
  BY <1>1, <1>6, <1>7 DEF InGroup
<1>9. grouped' = Groups(warnings, row + 1)
  <2>1. InGroup(kind) => grouped \cup {kind} = grouped /\ kind \in Groupable
    BY DEF InGroup
  <2> QED
    BY <1>1, <1>5, <2>1
<1> QED
  BY <1>1, <1>8, <1>9, RowKeeps

LEMMA FinishKeeps ==
  ASSUME MainInv, Finish
  PROVE  MainInv'
<1>1. /\ stage = "report" /\ row > Len(warnings) /\ stage' = "exit"
      /\ status' = (IF \E w \in ToSet(warnings) : w.kind \in Critical THEN 1 ELSE 0)
      /\ UNCHANGED <<case, pass, warnings, found, row, grouped, shown>>
  BY DEF Finish, Stop
<1>2. /\ case.input \notin Unusable /\ pass > Len(Passes) /\ pass \in Nat /\ Len(Passes) \in Nat
      /\ ~options.backtrace /\ Listed /\ Told
  BY <1>1, PassesLength DEF MainInv
<1>3. (\E w \in ToSet(warnings) : w.kind \in Critical)
        <=> (\E w \in ToSet(found) : w.kind \in Critical)
  <2>1. KeysOf(warnings) = Asked /\ \A v, w : Key(v) = Key(w) => v.kind = w.kind
    BY <1>2 DEF Listed, Key
  <2>2. ASSUME NEW w \in ToSet(warnings), w.kind \in Critical
        PROVE  \E v \in ToSet(found) : v.kind \in Critical
    <3>1. Key(w) \in KeysOf(warnings)
      BY DEF ToSet, KeysOf
    <3>2. PICK v \in ToSet(found) : Key(v) = Key(w)
      BY <2>1, <3>1 DEF Asked
    <3>3. v.kind \in Critical
      BY <2>1, <2>2, <3>2
    <3> QED
      BY <3>3
  <2>3. ASSUME NEW w \in ToSet(found), w.kind \in Critical
        PROVE  \E v \in ToSet(warnings) : v.kind \in Critical
    <3>1. Key(w) \in Asked
      BY <2>3, CriticalWanted DEF Asked
    <3>2. PICK n \in DOMAIN warnings : Key(warnings[n]) = Key(w)
      BY <2>1, <3>1 DEF KeysOf
    <3>3. warnings[n].kind \in Critical /\ warnings[n] \in ToSet(warnings)
      BY <2>1, <2>3, <3>2 DEF ToSet
    <3> QED
      BY <3>3
  <2> QED
    BY <2>2, <2>3
<1>4. ExitHonest'
  BY <1>1, <1>2, <1>3 DEF ExitHonest, options
<1>5. Listed' /\ Told'
  <2>1. options' = options /\ Asked' = Asked
    BY <1>1 DEF options, Asked, Wanted
  <2>2. Listed' = Listed
    BY <1>1, <2>1 DEF Listed, Unlike, KeysOf, InOrder, Key
  <2>3. Told' = Told
    BY <1>1, <2>1 DEF Told, Rows, Speaks, Says, Same, Entry, Key
  <2> QED
    BY <1>2, <2>2, <2>3
<1> QED
  BY <1>1, <1>4, <1>5 DEF MainInv

LEMMA MainKeeps ==
  ASSUME MainInv, [MainNext]_mainVars
  PROVE  MainInv'
<1>1. CASE UNCHANGED mainVars
  <2>1. Asked' = Asked /\ options' = options
    BY <1>1 DEF mainVars, Asked, Wanted, options
  <2>2. Listed' = Listed
    BY <1>1, <2>1 DEF mainVars, Listed, Unlike, KeysOf, InOrder, Key
  <2>3. Told' = Told
    BY <1>1, <2>1 DEF mainVars, Told, Rows, Speaks, Says, Same, Entry, Key
  <2> QED
    BY <1>1, <2>1, <2>2, <2>3 DEF mainVars, MainInv, Reported, ExitHonest,
         KeysOf, Unlike, Key, Groups
<1> QED
  BY <1>1, ReadKeeps, RunCheckKeeps, CheckFailsKeeps, DeduplicateKeeps, BacktraceKeeps,
     FilterKeeps, ReportJsonKeeps, ReportTextKeeps, FinishKeeps DEF MainNext

-----------------------------------------------------------------------------
(***************************************************************************)
(* What the report says.                                                   *)
(***************************************************************************)

OfKind(keys, kind) == {k \in keys : k[1] = kind}

(* A place found has its own entry, or is counted in that of its kind.     *)
Stands(keys, json, sh, k) ==
  IF json \/ k[1] \notin Groupable
  THEN \E n \in DOMAIN sh :
         /\ Key(sh[n]) = k /\ sh[n].for = 1
         /\ \A m \in DOMAIN sh : Key(sh[m]) = k => m = n
  ELSE \E n \in DOMAIN sh :
         /\ {m \in DOMAIN sh : sh[m].kind = k[1]} = {n}
         /\ sh[n].for = Cardinality(OfKind(keys, k[1]))
         /\ sh[n].line <= k[2]

(* Among different warnings a kind has as many members as places.          *)
LEMMA PlacesOfKind ==
  ASSUME NEW ws \in Seq(Warnings), Unlike(ws), NEW kind
  PROVE  Cardinality(OfKind(KeysOf(ws), kind)) = Cardinality(Same(ws, kind))
<1> DEFINE S == Same(ws, kind)
           T == OfKind(KeysOf(ws), kind)
           f == [n \in S |-> Key(ws[n])]
<1>1. \A n \in S : n \in DOMAIN ws /\ ws[n].kind = kind
  BY DEF Same
<1>2. \A n \in DOMAIN ws : Key(ws[n])[1] = ws[n].kind
  BY DEF Key
<1>3. \A n \in S : Key(ws[n]) \in T
  BY <1>1, <1>2 DEF OfKind, KeysOf
<1>4. \A k \in T : \E n \in S : k = Key(ws[n])
  BY <1>2 DEF OfKind, KeysOf, Same
<1>5. \A m, n \in S : Key(ws[m]) = Key(ws[n]) => m = n
  BY <1>1 DEF Unlike
<1>6. IsFiniteSet(S)
  <2>1. DOMAIN ws = 1 .. Len(ws) /\ Len(ws) \in Int /\ 1 \in Int
    BY WarningFacts
  <2>2. IsFiniteSet(DOMAIN ws) /\ S \in SUBSET DOMAIN ws
    BY <2>1, FS_Interval DEF Same
  <2> QED
    BY <2>2, FS_Subset
<1> HIDE DEF S, T
<1>7. f \in Bijection(S, T)
  BY <1>3, <1>4, <1>5 DEF Bijection, Injection, Surjection, IsInjective
<1>8. ExistsBijection(S, T)
  BY <1>7 DEF ExistsBijection
<1> QED
  BY <1>6, <1>8, FS_Bijection DEF S, T

LEMMA AllStand ==
  ASSUME NEW ws \in Seq(Warnings), Unlike(ws), NEW json, ~json => InOrder(ws),
         NEW sh \in Seq(Entries), Rows(ws, json, Len(ws) + 1, sh)
  PROVE  /\ \A n \in DOMAIN sh : Key(sh[n]) \in KeysOf(ws)
         /\ \A k \in KeysOf(ws) : Stands(KeysOf(ws), json, sh, k)
<1>1. Len(ws) \in Nat /\ (Len(ws) + 1) - 1 = Len(ws) /\ DOMAIN ws = 1 .. Len(ws)
  BY WarningFacts
<1>2. \A n \in DOMAIN sh : \E j \in DOMAIN ws : Speaks(ws, json, j) /\ sh[n] = Says(ws, json, j)
  BY <1>1 DEF Rows
<1>3. \A j \in DOMAIN ws : Speaks(ws, json, j) => \E n \in DOMAIN sh : sh[n] = Says(ws, json, j)
  BY <1>1 DEF Rows
<1>4. \A m, n \in DOMAIN sh : Key(sh[m]) = Key(sh[n]) => m = n
  BY DEF Rows
<1>5. ASSUME NEW j \in DOMAIN ws
      PROVE  /\ Key(Says(ws, json, j)) = Key(ws[j])
             /\ Says(ws, json, j).kind = ws[j].kind /\ Says(ws, json, j).line = ws[j].line
             /\ json \/ ws[j].kind \notin Groupable => Says(ws, json, j).for = 1
             /\ ~json /\ ws[j].kind \in Groupable
                  => Says(ws, json, j).for = Cardinality(OfKind(KeysOf(ws), ws[j].kind))
  BY SaysFacts, PlacesOfKind
<1>6. \A j \in DOMAIN ws : Key(ws[j])[1] = ws[j].kind /\ Key(ws[j])[2] = ws[j].line
  BY DEF Key
<1>7. ASSUME NEW n \in DOMAIN sh
      PROVE  Key(sh[n]) \in KeysOf(ws)
  <2>1. PICK j \in DOMAIN ws : sh[n] = Says(ws, json, j)
    BY <1>2
  <2>2. Key(sh[n]) = Key(ws[j])
    BY <1>5, <2>1
  <2> QED
    BY <2>2 DEF KeysOf
<1>8. ASSUME NEW k \in KeysOf(ws)
      PROVE  Stands(KeysOf(ws), json, sh, k)
  <2>1. PICK j \in DOMAIN ws : k = Key(ws[j])
    BY DEF KeysOf
  <2>2. k[1] = ws[j].kind /\ k[2] = ws[j].line
    BY <1>6, <2>1
  <2>3. CASE json \/ k[1] \notin Groupable
    <3>1. Speaks(ws, json, j)
      BY <2>2, <2>3 DEF Speaks
    <3>2. PICK n \in DOMAIN sh : sh[n] = Says(ws, json, j)
      BY <1>3, <3>1
    <3>3. Key(sh[n]) = k /\ sh[n].for = 1
      BY <1>5, <2>1, <2>2, <2>3, <3>2
    <3> QED
      BY <1>4, <2>3, <3>3 DEF Stands
  <2>4. CASE ~json /\ k[1] \in Groupable
    <3> DEFINE S == Same(ws, k[1])
    <3>1. /\ S \in SUBSET Nat /\ j \in S /\ S \in SUBSET DOMAIN ws
          /\ \A x \in S : ws[x].kind = k[1]
          /\ \A x \in DOMAIN ws : ws[x].kind = k[1] => x \in S
      BY <1>1, <2>2 DEF Same
    <3> HIDE DEF S
    <3>2. PICK h \in S : \A x \in S : h <= x
      BY <3>1, LeastNat
    <3>3. h \in DOMAIN ws /\ ws[h].kind = k[1]
      BY <3>1
    <3>4. \A m \in 1 .. h - 1 : ws[m].kind # ws[h].kind
      BY <1>1, <3>1, <3>2, <3>3
    <3>5. PICK n \in DOMAIN sh : sh[n] = Says(ws, json, h)
      BY <1>3, <3>3, <3>4 DEF Speaks
    <3>6. sh[n].kind = k[1] /\ sh[n].for = Cardinality(OfKind(KeysOf(ws), k[1]))
          /\ sh[n].line = ws[h].line
      BY <1>5, <2>4, <3>3, <3>5
    <3>7. sh[n].line <= k[2]
      <4>1. CASE h = j
        <5>1. ws[j].line \in Nat
          BY WarningFacts
        <5> QED
          BY <2>2, <3>6, <4>1, <5>1
      <4>2. CASE h # j
        <5>1. h < j
          BY <1>1, <3>1, <3>2, <3>3, <4>2
        <5>2. ws[h].line < ws[j].line
          BY <2>2, <2>4, <3>3, <5>1 DEF InOrder
        <5>3. ws[h].line \in Nat /\ ws[j].line \in Nat
          BY <3>3, WarningFacts
        <5> QED
          BY <2>2, <3>6, <5>2, <5>3
      <4> QED
        BY <4>1, <4>2
    <3>8. ASSUME NEW m \in DOMAIN sh, sh[m].kind = k[1]
          PROVE  m = n
      <4>1. PICK l \in DOMAIN ws : Speaks(ws, json, l) /\ sh[m] = Says(ws, json, l)
        BY <1>2
      <4>2. ws[l].kind = k[1]
        BY <1>5, <3>8, <4>1
      <4>3. \A x \in 1 .. l - 1 : ws[x].kind # ws[l].kind
        BY <2>4, <4>1, <4>2 DEF Speaks
      <4>4. h <= l
        BY <3>1, <3>2, <4>2
      <4>5. ~(h \in 1 .. l - 1)
        BY <3>3, <4>2, <4>3
      <4>6. h = l
        BY <1>1, <3>3, <4>4, <4>5
      <4> QED
        BY <1>4, <3>5, <4>1, <4>6
    <3>9. {m \in DOMAIN sh : sh[m].kind = k[1]} = {n}
      BY <3>6, <3>8
    <3> QED
      BY <2>4, <3>6, <3>7, <3>9 DEF Stands
  <2> QED
    BY <2>3, <2>4
<1> QED
  BY <1>7, <1>8

LEMMA ReportWhole ==
  ASSUME MainInv
  PROVE  NothingHidden
<1> SUFFICES ASSUME Reported
             PROVE  /\ \A n \in DOMAIN shown : Key(shown[n]) \in Asked
                    /\ \A k \in Asked : Stands(Asked, options.json, shown, k)
  BY DEF NothingHidden, Asked, Stands, OfKind
<1>1. /\ warnings \in Seq(Warnings) /\ shown \in Seq(Entries) /\ Unlike(warnings)
      /\ KeysOf(warnings) = Asked /\ (~options.json => InOrder(warnings))
      /\ Rows(warnings, options.json, row, shown)
      /\ row \in 1 .. Len(warnings) + 1 /\ row > Len(warnings)
  BY DEF MainInv, Listed, Told
<1>2. row = Len(warnings) + 1
  <2>1. Len(warnings) \in Nat
    BY <1>1, WarningFacts
  <2> QED
    BY <1>1, <2>1
<1> QED
  BY <1>1, <1>2, AllStand

-----------------------------------------------------------------------------
(* A run of main keeps its types, the warnings it reports differ in kind    *)
(* or line and are those of the rules that the options ask for, and the     *)
(* entries printed so far are those of the rows before the one it is at.    *)
THEOREM MainTypes == MainSpec => []MainInv
<1>1. MainInit => MainInv
  BY MainBegins
<1>2. MainInv /\ [MainNext]_mainVars => MainInv'
  BY MainKeeps
<1> QED
  BY <1>1, <1>2, PTL DEF MainSpec

(* The report of format_report hides nothing and shows nothing twice: every *)
(* place a rule found something at and the options ask for has one entry of *)
(* its own, or is counted in the one entry of its groupable kind, which     *)
(* names the first line; whatever the rules find and in whatever order.     *)
THEOREM NothingIsHidden == MainSpec => []NothingHidden
BY MainTypes, ReportWhole, PTL

(* The exit status of main is 2 for a source that cannot be read, 1 for     *)
(* something critical or a rule that fails, 0 otherwise; --strict,          *)
(* --padding and --json do not change it.                                   *)
THEOREM ExitIsHonest == MainSpec => []ExitHonest
<1>1. MainInv => ExitHonest
  BY DEF MainInv
<1> QED
  BY <1>1, MainTypes, PTL

-----------------------------------------------------------------------------
(***************************************************************************)
(* Storage: sequences of whatever they hold.                               *)
(***************************************************************************)

LEMMA SequenceFacts ==
  ASSUME NEW ds, IsSequence(ds)
  PROVE  /\ Len(ds) \in Nat /\ DOMAIN ds = 1 .. Len(ds)
         /\ \A k \in 1 .. Len(ds) : ds[k] \in ToSet(ds)
         /\ \A d \in ToSet(ds) : \E k \in 1 .. Len(ds) : ds[k] = d
BY DEF IsSequence, ToSet

LEMMA SequenceIs ==
  ASSUME NEW A, NEW t \in Seq(A)
  PROVE  IsSequence(t)
<1> DEFINE S == ToSet(t)
<1>1. \A k \in 1 .. Len(t) : t[k] \in S
  BY DEF ToSet
<1> HIDE DEF S
<1>2. t \in Seq(S)
  BY <1>1
<1> QED
  BY <1>2 DEF S, IsSequence

LEMMA SequenceBuilt ==
  ASSUME NEW n \in Nat, NEW f, DOMAIN f = 1 .. n, f = [k \in 1 .. n |-> f[k]]
  PROVE  IsSequence(f) /\ Len(f) = n
<1> DEFINE S == ToSet(f)
<1>1. \A k \in 1 .. n : f[k] \in S
  BY DEF ToSet
<1> HIDE DEF S
<1>2. f \in Seq(S) /\ Len(f) = n
  BY <1>1
<1> QED
  BY <1>2 DEF S, IsSequence

LEMMA SequenceJoined ==
  ASSUME NEW s, NEW t, IsSequence(s), IsSequence(t)
  PROVE  IsSequence(s \o t) /\ ToSet(s \o t) = ToSet(s) \cup ToSet(t)
<1> DEFINE S == ToSet(s)
           T == ToSet(t)
           A == S \cup T
<1>1. s \in Seq(S) /\ t \in Seq(T)
  BY DEF IsSequence
<1> HIDE DEF S, T
<1>2. s \in Seq(A) /\ t \in Seq(A)
  BY <1>1
<1> HIDE DEF A
<1>3. /\ s \o t \in Seq(A) /\ Len(s \o t) = Len(s) + Len(t)
      /\ Len(s) \in Nat /\ Len(t) \in Nat /\ DOMAIN s = 1 .. Len(s) /\ DOMAIN t = 1 .. Len(t)
      /\ \A k \in 1 .. Len(s) : (s \o t)[k] = s[k]
      /\ \A k \in 1 .. Len(t) : (s \o t)[Len(s) + k] = t[k]
  BY <1>2
<1>4. DOMAIN (s \o t) = 1 .. Len(s) + Len(t)
  BY <1>3
<1>5. ASSUME NEW k \in 1 .. Len(s) + Len(t)
      PROVE  (s \o t)[k] \in ToSet(s) \cup ToSet(t)
  <2>1. CASE k \in 1 .. Len(s)
    BY <1>3, <2>1 DEF ToSet
  <2>2. CASE k \notin 1 .. Len(s)
    <3>1. k - Len(s) \in 1 .. Len(t) /\ Len(s) + (k - Len(s)) = k
      BY <1>3, <2>2
    <3>2. (s \o t)[k] = t[k - Len(s)]
      BY <1>3, <3>1
    <3> QED
      BY <1>3, <3>1, <3>2 DEF ToSet
  <2> QED
    BY <2>1, <2>2
<1>6. ASSUME NEW k \in 1 .. Len(s)
      PROVE  s[k] \in ToSet(s \o t)
  <2>1. k \in 1 .. Len(s) + Len(t)
    BY <1>3
  <2> QED
    BY <1>3, <1>4, <2>1 DEF ToSet
<1>7. ASSUME NEW k \in 1 .. Len(t)
      PROVE  t[k] \in ToSet(s \o t)
  <2>1. Len(s) + k \in 1 .. Len(s) + Len(t)
    BY <1>3
  <2> QED
    BY <1>3, <1>4, <2>1 DEF ToSet
<1>8. ToSet(s \o t) = ToSet(s) \cup ToSet(t)
  <2>1. ToSet(s \o t) = {(s \o t)[k] : k \in 1 .. Len(s) + Len(t)}
    BY <1>4 DEF ToSet
  <2>2. ToSet(s) = {s[k] : k \in 1 .. Len(s)} /\ ToSet(t) = {t[k] : k \in 1 .. Len(t)}
    BY <1>3 DEF ToSet
  <2>3. ToSet(s \o t) \subseteq ToSet(s) \cup ToSet(t)
    BY <1>5, <2>1
  <2>4. ToSet(s) \cup ToSet(t) \subseteq ToSet(s \o t)
    BY <1>6, <1>7, <2>2
  <2> QED
    BY <2>3, <2>4
<1>9. A = ToSet(s \o t)
  BY <1>8 DEF A, S, T
<1> QED
  BY <1>3, <1>8, <1>9 DEF IsSequence

LEMMA SequenceLonger ==
  ASSUME NEW s, NEW x, IsSequence(s)
  PROVE  /\ IsSequence(Append(s, x)) /\ Len(Append(s, x)) = Len(s) + 1
         /\ \A k \in 1 .. Len(s) : Append(s, x)[k] = s[k]
         /\ Append(s, x)[Len(s) + 1] = x
<1> DEFINE A == ToSet(s) \cup {x}
           t == Append(s, x)
<1>1. s \in Seq(A) /\ x \in A /\ Len(s) \in Nat
  BY DEF IsSequence
<1> HIDE DEF A
<1>2. /\ t \in Seq(A) /\ Len(t) = Len(s) + 1
      /\ \A k \in 1 .. Len(s) : t[k] = s[k]
      /\ t[Len(s) + 1] = x
  BY <1>1
<1> HIDE DEF t
<1>4. IsSequence(t)
  BY <1>2, SequenceIs
<1> QED
  BY <1>2, <1>4 DEF t

-----------------------------------------------------------------------------
(***************************************************************************)
(* Storage: the levels a scope goes through, one for each declaration.     *)
(***************************************************************************)

ScopeLevels == [primary : Int, secondary : Int, extended : Int]
AllDeclarations(ds) == IsSequence(ds) /\ \A d \in ToSet(ds) : Declaration(d)

LEMMA DeclaredFacts ==
  ASSUME NEW lv \in ScopeLevels, NEW d, Declaration(d)
  PROVE  /\ Declared(lv, d) \in ScopeLevels
         /\ WordSize(d) >= 0 /\ DataWordSize(d) >= 0 =>
              /\ Declared(lv, d).primary >= lv.primary
              /\ Combined(Declared(lv, d)) >= Combined(lv)
         /\ ~d.eq /\ Direct(d) => Declared(lv, d).primary = lv.primary + WordSize(d)
         /\ ~d.eq /\ ~Direct(d) => Declared(lv, d).primary >= lv.primary
<1> DEFINE pointer == IF IsTemplate(d) THEN 0 ELSE PointerWords(d)
           data == IF Direct(d) THEN 0 ELSE DataWordSize(d)
           x == IF Direct(d) THEN WordSize(d) ELSE pointer
           y == IF d.ind = "ext" THEN 0 ELSE data
           z == IF d.ind = "ext" THEN data ELSE 0
           new == [primary |-> lv.primary + x, secondary |-> lv.secondary + y,
                   extended |-> lv.extended + z]
<1>1. /\ x \in Int /\ y \in Int /\ z \in Int
      /\ lv.primary \in Int /\ lv.secondary \in Int /\ lv.extended \in Int
      /\ WordSize(d) >= 0 /\ DataWordSize(d) >= 0 => x >= 0 /\ y >= 0
      /\ Direct(d) => x = WordSize(d)
      /\ ~Direct(d) => x >= 0
  BY DEF Declaration, ScopeLevels, PointerWords
<1>2. Declared(lv, d) = IF d.eq THEN lv ELSE new
  BY DEF Declared
<1> HIDE DEF x, y, z
<1>3. /\ new \in ScopeLevels /\ new.primary = lv.primary + x
      /\ x >= 0 => new.primary >= lv.primary
      /\ x >= 0 /\ y >= 0 => Combined(new) >= Combined(lv)
      /\ Combined(lv) >= Combined(lv) /\ lv.primary >= lv.primary
  BY <1>1 DEF ScopeLevels, Combined
<1> HIDE DEF new
<1> QED
  BY <1>1, <1>2, <1>3

LevelsMet(ds, r) ==
  /\ r \in [0 .. Len(ds) -> ScopeLevels] /\ r[0] = EmptyLevel
  /\ \A k \in 1 .. Len(ds) : r[k] = Declared(r[k - 1], ds[k])
  /\ r[Len(ds)] = FoldLeft(Declared, EmptyLevel, ds)
Levels(ds) == CHOOSE r : LevelsMet(ds, r)

LEMMA LevelsFacts ==
  ASSUME NEW ds, AllDeclarations(ds)
  PROVE  LevelsMet(ds, Levels(ds))
<1> DEFINE n == Len(ds)
           A == ScopeLevels
           e == EmptyLevel
           op(r, c) == Declared(r, c)
           F == [x \in (1 .. n) \X A |-> op(x[2], ds[x[1]])]
           Eq(h) == h = [s \in SUBSET DOMAIN ds |->
                           IF s = {} THEN e ELSE op(h[s \ {Max(s)}], ds[Max(s)])]
<1>1. FoldLeft(Declared, EmptyLevel, ds) = (CHOOSE h : Eq(h))[DOMAIN ds]
  BY DEF FoldLeft, MapThenFoldSet
<1>2. n \in Nat /\ DOMAIN ds = 1 .. n /\ e \in A
  BY SequenceFacts DEF AllDeclarations, EmptyLevel, ScopeLevels
<1>3. \A k \in 1 .. n, r \in A : op(r, ds[k]) \in A
  <2> SUFFICES ASSUME NEW k \in 1 .. n, NEW r \in A PROVE op(r, ds[k]) \in A
    OBVIOUS
  <2>1. Declaration(ds[k])
    BY <1>2, SequenceFacts DEF AllDeclarations
  <2> QED
    BY <2>1, DeclaredFacts
<1> HIDE DEF op
<1>4. F \in Steps(A, n)
  BY <1>3 DEF Steps
<1>5. \A k \in 1 .. n, r \in A : F[<<k, r>>] = op(r, ds[k])
  OBVIOUS
<1> HIDE DEF n, A, e, F
<1>6. PICK g : IsFold(A, e, n, F, g)
  BY <1>2, <1>4, FoldExists
<1>7. Eq(g)
  <2>1. ASSUME NEW s \in SUBSET (1 .. n)
        PROVE  g[s] = IF s = {} THEN e ELSE op(g[s \ {Max(s)}], ds[Max(s)])
    <3>1. CASE s # {}
      <4>1. Max(s) \in 1 .. n
        BY <1>2, <3>1, MaxFacts
      <4>2. g[s \ {Max(s)}] \in A
        BY <1>6 DEF IsFold
      <4> QED
        BY <1>5, <1>6, <3>1, <4>1, <4>2 DEF IsFold
    <3> QED
      BY <1>6, <3>1 DEF IsFold
  <2> QED
    BY <1>2, <1>6, <2>1 DEF IsFold
<1> DEFINE h == CHOOSE x : Eq(x)
<1>8. Eq(h)
  <2> HIDE DEF Eq
  <2> QED
    BY <1>7
<1>9. Follows(A, e, n, F, h)
  <2> HIDE DEF h
  <2>1. h[{}] = e
    BY <1>8
  <2>2. ASSUME NEW s \in SUBSET (1 .. n), s # {}, h[s \ {Max(s)}] \in A
        PROVE  h[s] = F[<<Max(s), h[s \ {Max(s)}]>>]
    <3>1. Max(s) \in 1 .. n
      BY <1>2, <2>2, MaxFacts
    <3>2. h[s] = op(h[s \ {Max(s)}], ds[Max(s)])
      BY <1>2, <1>8, <2>2
    <3> QED
      BY <1>5, <2>2, <3>1, <3>2
  <2> QED
    BY <2>1, <2>2 DEF Follows
<1>10. FoldLeft(Declared, EmptyLevel, ds) = h[DOMAIN ds]
  BY <1>1 DEF h
<1> HIDE DEF h
<1>11. PICK r : IsLoop(A, e, n, F, r) /\ r[n] = h[1 .. n]
  BY ONLY <1>2, <1>4, <1>9, FoldRuns
<1>12. \A k \in 1 .. n : r[k] = op(r[k - 1], ds[k])
  <2> SUFFICES ASSUME NEW k \in 1 .. n PROVE r[k] = op(r[k - 1], ds[k])
    OBVIOUS
  <2>1. r[k - 1] \in A /\ r[k] = F[<<k, r[k - 1]>>]
    BY <1>2, <1>11 DEF IsLoop
  <2> QED
    BY <1>5, <2>1
<1>13. LevelsMet(ds, r)
  BY <1>2, <1>10, <1>11, <1>12 DEF LevelsMet, IsLoop, n, A, e, op
<1> QED
  BY <1>13 DEF Levels

LEMMA LevelsRise ==
  ASSUME NEW ds, AllDeclarations(ds), NoneTakesAway(ds),
         NEW k \in 0 .. Len(ds), NEW j \in 0 .. k
  PROVE  /\ Levels(ds)[j].primary <= Levels(ds)[k].primary
         /\ Combined(Levels(ds)[j]) <= Combined(Levels(ds)[k])
<1> DEFINE lv(m) == Levels(ds)[m]
           S == {m \in 0 .. Len(ds) : j <= m => /\ lv(j).primary <= lv(m).primary
                                               /\ Combined(lv(j)) <= Combined(lv(m))}
<1>1. /\ Len(ds) \in Nat /\ LevelsMet(ds, Levels(ds))
      /\ \A m \in 1 .. Len(ds) : ds[m] \in ToSet(ds) /\ Declaration(ds[m])
  BY LevelsFacts, SequenceFacts DEF AllDeclarations
<1>2. \A m \in 0 .. Len(ds) : /\ lv(m) \in ScopeLevels
                              /\ lv(m).primary \in Int /\ Combined(lv(m)) \in Int
  BY <1>1 DEF LevelsMet, ScopeLevels, Combined
<1>3. \A m \in 1 .. Len(ds) : /\ lv(m - 1).primary <= lv(m).primary
                              /\ Combined(lv(m - 1)) <= Combined(lv(m))
  <2> SUFFICES ASSUME NEW m \in 1 .. Len(ds)
               PROVE  /\ lv(m - 1).primary <= lv(m).primary
                      /\ Combined(lv(m - 1)) <= Combined(lv(m))
    OBVIOUS
  <2>1. /\ m - 1 \in 0 .. Len(ds) /\ m \in 0 .. Len(ds)
        /\ lv(m) = Declared(lv(m - 1), ds[m])
    BY <1>1 DEF LevelsMet
  <2>2. WordSize(ds[m]) >= 0 /\ DataWordSize(ds[m]) >= 0
    BY <1>1 DEF NoneTakesAway
  <2> HIDE DEF lv
  <2>3. /\ Declared(lv(m - 1), ds[m]).primary >= lv(m - 1).primary
        /\ Combined(Declared(lv(m - 1), ds[m])) >= Combined(lv(m - 1))
    BY <1>1, <1>2, <2>1, <2>2, DeclaredFacts
  <2> QED
    BY <1>2, <2>1, <2>3
<1> HIDE DEF lv
<1>4. j \in 0 .. Len(ds) /\ k \in Nat /\ j <= k
  OBVIOUS
<1>5. 0 \in S
  BY <1>1, <1>2, <1>4
<1>6. \A m \in 1 .. Len(ds) : m - 1 \in S => m \in S
  <2> SUFFICES ASSUME NEW m \in 1 .. Len(ds), m - 1 \in S, j <= m
               PROVE  lv(j).primary <= lv(m).primary /\ Combined(lv(j)) <= Combined(lv(m))
    OBVIOUS
  <2>1. m - 1 \in 0 .. Len(ds) /\ m \in 0 .. Len(ds)
    OBVIOUS
  <2>2. CASE j = m
    BY <1>2, <1>4, <2>2
  <2>3. CASE j <= m - 1
    <3>1. lv(j).primary <= lv(m - 1).primary /\ Combined(lv(j)) <= Combined(lv(m - 1))
      BY <2>3
    <3>2. /\ lv(m - 1).primary <= lv(m).primary
          /\ Combined(lv(m - 1)) <= Combined(lv(m))
          /\ lv(j).primary \in Int /\ Combined(lv(j)) \in Int
          /\ lv(m - 1).primary \in Int /\ Combined(lv(m - 1)) \in Int
          /\ lv(m).primary \in Int /\ Combined(lv(m)) \in Int
      BY <1>2, <1>3, <1>4, <2>1
    <3> QED
      BY ONLY <3>1, <3>2
  <2> QED
    BY <1>4, <2>2, <2>3
<1>7. 0 .. Len(ds) \subseteq S
  <2> HIDE DEF S
  <2> QED
    BY <1>1, <1>5, <1>6, UpTo
<1> QED
  BY <1>4, <1>7 DEF lv

-----------------------------------------------------------------------------
(***************************************************************************)
(* Storage: bytes laid out one item after the other.                       *)
(***************************************************************************)

LEMMA AlignFacts ==
  ASSUME NEW x \in Int, NEW n \in {1, 2}
  PROVE  /\ AlignOffset(x, n) \in Int /\ x <= AlignOffset(x, n)
         /\ n = 1 => AlignOffset(x, n) = x
         /\ \A w \in Int : x <= 2 * w => AlignOffset(x, n) <= 2 * w
         /\ \A y \in Int : x <= y => AlignOffset(x, n) <= AlignOffset(y, 2)
<1>1. x % 1 = 0
  OBVIOUS
<1>2. x % 2 \in {0, 1}
  OBVIOUS
<1>3. PICK h \in Int : x = 2 * h + (x % 2)
  OBVIOUS
<1> QED
  BY <1>1, <1>2, <1>3 DEF AlignOffset

LEMMA AlignRises ==
  ASSUME NEW x \in Int, NEW y \in Int, x <= y
  PROVE  AlignOffset(x, 2) <= AlignOffset(y, 2)
BY AlignFacts

(* Two layouts with the same bytes in them, at x and at y.                 *)
LEMMA SameUseful ==
  ASSUME NEW b \in Int, NEW p \in Int, NEW c \in Int, NEW q \in Int,
         NEW x \in Int, NEW y \in Int, NEW z \in Int, x <= y, b - p = c - q
  PROVE  /\ x + z <= y + z
         /\ (x + z) - (p + (x - b)) = (y + z) - (q + (y - c))
OBVIOUS

Spaces == [bytes : Int, pad : Int]
Nothing == [bytes |-> 0, pad |-> 0]
Space(l, at, d) == [bytes |-> at + ByteSize(d), pad |-> l.pad + (at - l.bytes)]
PlacedAt(l, d) == IF Direct(d) THEN AlignOffset(l.bytes, Alignment(d)) ELSE l.bytes
RepackedAt(l, d) == AlignOffset(l.bytes, IF ByteSize(d) > 1 THEN 2 ELSE 1)

LEMMA PlacedFacts ==
  ASSUME NEW l \in Spaces, NEW d, Declaration(d)
  PROVE  /\ PlacedAt(l, d) \in Int /\ Placed(l, d) = Space(l, PlacedAt(l, d), d)
         /\ Placed(l, d) \in Spaces
<1>1. /\ l.bytes \in Int /\ l.pad \in Int /\ ByteSize(d) \in Int
      /\ Alignment(d) \in {1, 2}
  BY DEF Spaces, Declaration, Alignment
<1>2. PlacedAt(l, d) \in Int
  BY <1>1, AlignFacts DEF PlacedAt
<1>3. Placed(l, d) = Space(l, PlacedAt(l, d), d)
  BY DEF Placed, Space, PlacedAt
<1> QED
  BY <1>1, <1>2, <1>3 DEF Space, Spaces

LEMMA RepackedFacts ==
  ASSUME NEW l \in Spaces, NEW d, Declaration(d)
  PROVE  /\ RepackedAt(l, d) \in Int /\ Repacked(l, d) = Space(l, RepackedAt(l, d), d)
         /\ Repacked(l, d) \in Spaces
<1>1. l.bytes \in Int /\ l.pad \in Int /\ ByteSize(d) \in Int
  BY DEF Spaces, Declaration
<1>2. RepackedAt(l, d) \in Int
  BY <1>1, AlignFacts DEF RepackedAt
<1>3. Repacked(l, d) = Space(l, RepackedAt(l, d), d)
  BY DEF Repacked, Space, RepackedAt
<1> QED
  BY <1>1, <1>2, <1>3 DEF Space, Spaces

LaidOut(ds, q) ==
  /\ q \in [0 .. Len(ds) -> Spaces] /\ q[0] = Nothing
  /\ \A k \in 1 .. Len(ds) : q[k] = Placed(q[k - 1], ds[k])
  /\ q[Len(ds)] = FoldLeft(Placed, Nothing, ds)

LEMMA LaidOutExists ==
  ASSUME NEW ds, AllDeclarations(ds)
  PROVE  \E q : LaidOut(ds, q)
<1> DEFINE n == Len(ds)
           A == Spaces
           e == Nothing
           op(r, c) == Placed(r, c)
           F == [x \in (1 .. n) \X A |-> op(x[2], ds[x[1]])]
           Eq(h) == h = [s \in SUBSET DOMAIN ds |->
                           IF s = {} THEN e ELSE op(h[s \ {Max(s)}], ds[Max(s)])]
<1>1. FoldLeft(Placed, Nothing, ds) = (CHOOSE h : Eq(h))[DOMAIN ds]
  BY DEF FoldLeft, MapThenFoldSet
<1>2. n \in Nat /\ DOMAIN ds = 1 .. n /\ e \in A
  BY SequenceFacts DEF AllDeclarations, Nothing, Spaces
<1>3. \A k \in 1 .. n, r \in A : op(r, ds[k]) \in A
  <2> SUFFICES ASSUME NEW k \in 1 .. n, NEW r \in A PROVE op(r, ds[k]) \in A
    OBVIOUS
  <2>1. Declaration(ds[k])
    BY <1>2, SequenceFacts DEF AllDeclarations
  <2> QED
    BY <2>1, PlacedFacts
<1> HIDE DEF op
<1>4. F \in Steps(A, n)
  BY <1>3 DEF Steps
<1>5. \A k \in 1 .. n, r \in A : F[<<k, r>>] = op(r, ds[k])
  OBVIOUS
<1> HIDE DEF n, A, e, F
<1>6. PICK g : IsFold(A, e, n, F, g)
  BY <1>2, <1>4, FoldExists
<1>7. Eq(g)
  <2>1. ASSUME NEW s \in SUBSET (1 .. n)
        PROVE  g[s] = IF s = {} THEN e ELSE op(g[s \ {Max(s)}], ds[Max(s)])
    <3>1. CASE s # {}
      <4>1. Max(s) \in 1 .. n
        BY <1>2, <3>1, MaxFacts
      <4>2. g[s \ {Max(s)}] \in A
        BY <1>6 DEF IsFold
      <4> QED
        BY <1>5, <1>6, <3>1, <4>1, <4>2 DEF IsFold
    <3> QED
      BY <1>6, <3>1 DEF IsFold
  <2> QED
    BY <1>2, <1>6, <2>1 DEF IsFold
<1> DEFINE h == CHOOSE x : Eq(x)
<1>8. Eq(h)
  <2> HIDE DEF Eq
  <2> QED
    BY <1>7
<1>9. Follows(A, e, n, F, h)
  <2> HIDE DEF h
  <2>1. h[{}] = e
    BY <1>8
  <2>2. ASSUME NEW s \in SUBSET (1 .. n), s # {}, h[s \ {Max(s)}] \in A
        PROVE  h[s] = F[<<Max(s), h[s \ {Max(s)}]>>]
    <3>1. Max(s) \in 1 .. n
      BY <1>2, <2>2, MaxFacts
    <3>2. h[s] = op(h[s \ {Max(s)}], ds[Max(s)])
      BY <1>2, <1>8, <2>2
    <3> QED
      BY <1>5, <2>2, <3>1, <3>2
  <2> QED
    BY <2>1, <2>2 DEF Follows
<1>10. FoldLeft(Placed, Nothing, ds) = h[DOMAIN ds]
  BY <1>1 DEF h
<1> HIDE DEF h
<1>11. PICK r : IsLoop(A, e, n, F, r) /\ r[n] = h[1 .. n]
  BY ONLY <1>2, <1>4, <1>9, FoldRuns
<1>12. \A k \in 1 .. n : r[k] = op(r[k - 1], ds[k])
  <2> SUFFICES ASSUME NEW k \in 1 .. n PROVE r[k] = op(r[k - 1], ds[k])
    OBVIOUS
  <2>1. r[k - 1] \in A /\ r[k] = F[<<k, r[k - 1]>>]
    BY <1>2, <1>11 DEF IsLoop
  <2> QED
    BY <1>5, <2>1
<1>13. LaidOut(ds, r)
  BY <1>2, <1>10, <1>11, <1>12 DEF LaidOut, IsLoop, n, A, e, op
<1> QED
  BY <1>13

PackedOut(ds, q) ==
  /\ q \in [0 .. Len(ds) -> Spaces] /\ q[0] = Nothing
  /\ \A k \in 1 .. Len(ds) : q[k] = Repacked(q[k - 1], ds[k])
  /\ q[Len(ds)] = FoldLeft(Repacked, Nothing, ds)

LEMMA PackedOutExists ==
  ASSUME NEW ds, AllDeclarations(ds)
  PROVE  \E q : PackedOut(ds, q)
<1> DEFINE n == Len(ds)
           A == Spaces
           e == Nothing
           op(r, c) == Repacked(r, c)
           F == [x \in (1 .. n) \X A |-> op(x[2], ds[x[1]])]
           Eq(h) == h = [s \in SUBSET DOMAIN ds |->
                           IF s = {} THEN e ELSE op(h[s \ {Max(s)}], ds[Max(s)])]
<1>1. FoldLeft(Repacked, Nothing, ds) = (CHOOSE h : Eq(h))[DOMAIN ds]
  BY DEF FoldLeft, MapThenFoldSet
<1>2. n \in Nat /\ DOMAIN ds = 1 .. n /\ e \in A
  BY SequenceFacts DEF AllDeclarations, Nothing, Spaces
<1>3. \A k \in 1 .. n, r \in A : op(r, ds[k]) \in A
  <2> SUFFICES ASSUME NEW k \in 1 .. n, NEW r \in A PROVE op(r, ds[k]) \in A
    OBVIOUS
  <2>1. Declaration(ds[k])
    BY <1>2, SequenceFacts DEF AllDeclarations
  <2> QED
    BY <2>1, RepackedFacts
<1> HIDE DEF op
<1>4. F \in Steps(A, n)
  BY <1>3 DEF Steps
<1>5. \A k \in 1 .. n, r \in A : F[<<k, r>>] = op(r, ds[k])
  OBVIOUS
<1> HIDE DEF n, A, e, F
<1>6. PICK g : IsFold(A, e, n, F, g)
  BY <1>2, <1>4, FoldExists
<1>7. Eq(g)
  <2>1. ASSUME NEW s \in SUBSET (1 .. n)
        PROVE  g[s] = IF s = {} THEN e ELSE op(g[s \ {Max(s)}], ds[Max(s)])
    <3>1. CASE s # {}
      <4>1. Max(s) \in 1 .. n
        BY <1>2, <3>1, MaxFacts
      <4>2. g[s \ {Max(s)}] \in A
        BY <1>6 DEF IsFold
      <4> QED
        BY <1>5, <1>6, <3>1, <4>1, <4>2 DEF IsFold
    <3> QED
      BY <1>6, <3>1 DEF IsFold
  <2> QED
    BY <1>2, <1>6, <2>1 DEF IsFold
<1> DEFINE h == CHOOSE x : Eq(x)
<1>8. Eq(h)
  <2> HIDE DEF Eq
  <2> QED
    BY <1>7
<1>9. Follows(A, e, n, F, h)
  <2> HIDE DEF h
  <2>1. h[{}] = e
    BY <1>8
  <2>2. ASSUME NEW s \in SUBSET (1 .. n), s # {}, h[s \ {Max(s)}] \in A
        PROVE  h[s] = F[<<Max(s), h[s \ {Max(s)}]>>]
    <3>1. Max(s) \in 1 .. n
      BY <1>2, <2>2, MaxFacts
    <3>2. h[s] = op(h[s \ {Max(s)}], ds[Max(s)])
      BY <1>2, <1>8, <2>2
    <3> QED
      BY <1>5, <2>2, <3>1, <3>2
  <2> QED
    BY <2>1, <2>2 DEF Follows
<1>10. FoldLeft(Repacked, Nothing, ds) = h[DOMAIN ds]
  BY <1>1 DEF h
<1> HIDE DEF h
<1>11. PICK r : IsLoop(A, e, n, F, r) /\ r[n] = h[1 .. n]
  BY ONLY <1>2, <1>4, <1>9, FoldRuns
<1>12. \A k \in 1 .. n : r[k] = op(r[k - 1], ds[k])
  <2> SUFFICES ASSUME NEW k \in 1 .. n PROVE r[k] = op(r[k - 1], ds[k])
    OBVIOUS
  <2>1. r[k - 1] \in A /\ r[k] = F[<<k, r[k - 1]>>]
    BY <1>2, <1>11 DEF IsLoop
  <2> QED
    BY <1>5, <2>1
<1>13. PackedOut(ds, r)
  BY <1>2, <1>10, <1>11, <1>12 DEF PackedOut, IsLoop, n, A, e, op
<1> QED
  BY <1>13

(* Word-aligned items of two bytes or more have no more padding laid out   *)
(* than repacked.                                                          *)
LEMMA RepackedIsWorse ==
  ASSUME NEW ds, AllDeclarations(ds),
         \A k \in 1 .. Len(ds) : Alignment(ds[k]) = 2 => ByteSize(ds[k]) > 1
  PROVE  FoldLeft(Placed, Nothing, ds).pad <= FoldLeft(Repacked, Nothing, ds).pad
<1>1. PICK q : LaidOut(ds, q)
  BY LaidOutExists
<1>2. PICK r : PackedOut(ds, r)
  BY PackedOutExists
<1>3. /\ Len(ds) \in Nat
      /\ \A k \in 1 .. Len(ds) : Declaration(ds[k]) /\ ds[k] \in ToSet(ds)
  BY SequenceFacts DEF AllDeclarations
<1> DEFINE S == {k \in 0 .. Len(ds) : /\ q[k].bytes <= r[k].bytes
                                     /\ q[k].bytes - q[k].pad = r[k].bytes - r[k].pad}
<1>4. \A k \in 0 .. Len(ds) : /\ q[k] \in Spaces /\ r[k] \in Spaces
                              /\ q[k].bytes \in Int /\ q[k].pad \in Int
                              /\ r[k].bytes \in Int /\ r[k].pad \in Int
  BY <1>1, <1>2 DEF LaidOut, PackedOut, Spaces
<1>5. 0 \in S
  BY <1>1, <1>2, <1>3 DEF LaidOut, PackedOut, Nothing
<1>6. \A k \in 1 .. Len(ds) : k - 1 \in S => k \in S
  <2> SUFFICES ASSUME NEW k \in 1 .. Len(ds), k - 1 \in S PROVE k \in S
    OBVIOUS
  <2> DEFINE l == q[k - 1]
             m == r[k - 1]
             d == ds[k]
  <2>1. /\ k \in 0 .. Len(ds) /\ k - 1 \in 0 .. Len(ds)
        /\ l \in Spaces /\ m \in Spaces /\ Declaration(d)
        /\ l.bytes \in Int /\ l.pad \in Int /\ m.bytes \in Int /\ m.pad \in Int
        /\ l.bytes <= m.bytes /\ l.bytes - l.pad = m.bytes - m.pad
        /\ Alignment(d) = 2 => ByteSize(d) > 1
    BY <1>3, <1>4
  <2>2. q[k] = Placed(l, d) /\ r[k] = Repacked(m, d)
    BY <1>1, <1>2 DEF LaidOut, PackedOut
  <2> HIDE DEF l, m, d
  <2>3. /\ q[k] = Space(l, PlacedAt(l, d), d) /\ r[k] = Space(m, RepackedAt(m, d), d)
        /\ PlacedAt(l, d) \in Int /\ RepackedAt(m, d) \in Int /\ ByteSize(d) \in Int
    BY <2>1, <2>2, PlacedFacts, RepackedFacts DEF Declaration
  <2>4. PlacedAt(l, d) <= RepackedAt(m, d)
    <3>1. m.bytes <= RepackedAt(m, d)
      BY <2>1, AlignFacts DEF RepackedAt
    <3>2. CASE ~Direct(d) \/ Alignment(d) = 1
      <4>1. PlacedAt(l, d) = l.bytes
        BY <2>1, <3>2, AlignFacts DEF PlacedAt
      <4> QED
        BY <2>1, <2>3, <3>1, <4>1
    <3>3. CASE Direct(d) /\ Alignment(d) = 2
      <4>1. PlacedAt(l, d) = AlignOffset(l.bytes, 2)
        BY <3>3 DEF PlacedAt
      <4>2. RepackedAt(m, d) = AlignOffset(m.bytes, 2)
        BY <2>1, <3>3 DEF RepackedAt
      <4> QED
        BY <2>1, <4>1, <4>2, AlignRises
    <3>4. Alignment(d) \in {1, 2}
      BY DEF Alignment
    <3> QED
      BY <3>2, <3>3, <3>4
  <2>5. /\ q[k].bytes = PlacedAt(l, d) + ByteSize(d)
        /\ q[k].pad = l.pad + (PlacedAt(l, d) - l.bytes)
        /\ r[k].bytes = RepackedAt(m, d) + ByteSize(d)
        /\ r[k].pad = m.pad + (RepackedAt(m, d) - m.bytes)
    BY <2>3 DEF Space
  <2>6. /\ q[k].bytes <= r[k].bytes
        /\ q[k].bytes - q[k].pad = r[k].bytes - r[k].pad
    <3> DEFINE x == PlacedAt(l, d)
               y == RepackedAt(m, d)
               z == ByteSize(d)
               b == l.bytes
               p == l.pad
               c == m.bytes
               u == m.pad
    <3>1. /\ b \in Int /\ p \in Int /\ c \in Int /\ u \in Int
          /\ x \in Int /\ y \in Int /\ z \in Int /\ x <= y /\ b - p = c - u
      BY <2>1, <2>3, <2>4
    <3>2. /\ q[k].bytes = x + z /\ q[k].pad = p + (x - b)
          /\ r[k].bytes = y + z /\ r[k].pad = u + (y - c)
      BY <2>5
    <3> HIDE DEF x, y, z, b, p, c, u
    <3>3. x + z <= y + z /\ (x + z) - (p + (x - b)) = (y + z) - (u + (y - c))
      BY <3>1, SameUseful
    <3> QED
      BY <3>2, <3>3
  <2> QED
    BY <2>1, <2>6
<1>7. 0 .. Len(ds) \subseteq S
  <2> HIDE DEF S
  <2> QED
    BY <1>3, <1>5, <1>6, UpTo
<1>8. Len(ds) \in S /\ Len(ds) \in 0 .. Len(ds)
  BY <1>3, <1>7
<1>9. q[Len(ds)].pad <= r[Len(ds)].pad
  BY <1>4, <1>8
<1> QED
  BY <1>1, <1>2, <1>9 DEF LaidOut, PackedOut

(* The members a predicate keeps, in their order.                          *)
LEMMA KeptFacts ==
  ASSUME NEW ds, IsSequence(ds), NEW S \in SUBSET DOMAIN ds
  PROVE  LET a == Arranged(ds, S, Ascending(S))
         IN  /\ IsSequence(a) /\ \A d \in ToSet(a) : d \in ToSet(ds)
             /\ Arranges(a, ds, S, Ascending(S))
<1> DEFINE A == ToSet(ds)
           a == Arranged(ds, S, Ascending(S))
<1>1. ds \in Seq(A) /\ S \in SUBSET Nat
  BY SequenceFacts DEF IsSequence
<1>2. StrictOn(Ascending(S), S)
  BY <1>1, AscendingStrict
<1> HIDE DEF A
<1>3. a \in Seq(A) /\ Arranges(a, ds, S, Ascending(S))
  BY <1>1, <1>2, ArrangedFacts
<1> HIDE DEF a
<1>4. IsSequence(a)
  BY <1>3, SequenceIs
<1>5. \A d \in ToSet(a) : d \in A
  BY <1>3 DEF ToSet
<1> QED
  BY <1>3, <1>4, <1>5 DEF a, A

LEMMA WhereDirect ==
  ASSUME NEW ds, IsSequence(ds)
  PROVE  \E S \in SUBSET DOMAIN ds :
           /\ S = {n \in DOMAIN ds : Direct(ds[n])}
           /\ Where(ds, Direct) = Arranged(ds, S, Ascending(S))
BY DEF Where

(* Bytes put after bytes that fit, fit.                                    *)
LEMMA PlacedFits ==
  ASSUME NEW l \in Spaces, NEW d, Declaration(d), Direct(d), NEW w \in Int,
         l.bytes <= 2 * w, ByteSize(d) <= 2 * WordSize(d)
  PROVE  Placed(l, d).bytes <= 2 * (w + WordSize(d))
<1> DEFINE x == PlacedAt(l, d)
           y == ByteSize(d)
           z == WordSize(d)
<1>1. l.bytes \in Int /\ Alignment(d) \in {1, 2} /\ x = AlignOffset(l.bytes, Alignment(d))
  BY DEF Spaces, Alignment, PlacedAt
<1>2. x <= 2 * w
  <2> HIDE DEF x
  <2> QED
    BY <1>1, AlignFacts
<1>3. y \in Int /\ z \in Int /\ x \in Int /\ y <= 2 * z
  BY PlacedFacts DEF Declaration
<1>4. Placed(l, d).bytes = x + y
  BY PlacedFacts DEF Space
<1> HIDE DEF x, y, z
<1>5. x + y <= 2 * (w + z)
  BY <1>2, <1>3
<1> QED
  BY <1>4, <1>5 DEF x, y, z

LEMMA DirectFit ==
  ASSUME NEW ds, AllDeclarations(ds), Laid(ds)
  PROVE  Layout(Where(ds, Direct)).bytes <= 2 * Levels(ds)[Len(ds)].primary
<1> DEFINE n == Len(ds)
           lv(j) == Levels(ds)[j]
<1>1. /\ n \in Nat /\ DOMAIN ds = 1 .. n /\ LevelsMet(ds, Levels(ds)) /\ IsSequence(ds)
      /\ \A j \in 1 .. n : ds[j] \in ToSet(ds) /\ Declaration(ds[j])
  BY LevelsFacts, SequenceFacts DEF AllDeclarations
<1>2. PICK S \in SUBSET DOMAIN ds :
        /\ S = {j \in DOMAIN ds : Direct(ds[j])}
        /\ Where(ds, Direct) = Arranged(ds, S, Ascending(S))
  BY <1>1, WhereDirect
<1> DEFINE a == Arranged(ds, S, Ascending(S))
<1>3. /\ IsSequence(a) /\ \A d \in ToSet(a) : d \in ToSet(ds)
      /\ Arranges(a, ds, S, Ascending(S))
  BY <1>1, KeptFacts
<1>4. Layout(Where(ds, Direct)) = FoldLeft(Placed, Nothing, a)
  BY <1>2 DEF Layout, Nothing
<1> HIDE DEF a
<1>5. AllDeclarations(a) /\ Len(a) \in Nat
  BY <1>3, SequenceFacts DEF AllDeclarations
<1>6. PICK q : LaidOut(a, q)
  BY <1>5, LaidOutExists
<1>7. PICK pos \in [1 .. Len(a) -> S] :
        /\ \A k \in 1 .. Len(a) : a[k] = ds[pos[k]]
        /\ \A j \in S : \E k \in 1 .. Len(a) : pos[k] = j
        /\ \A j, k \in 1 .. Len(a) : j < k => <<pos[j], pos[k]>> \in Ascending(S)
  BY <1>3 DEF Arranges
<1>8. /\ \A k \in 1 .. Len(a) : pos[k] \in 1 .. n /\ Direct(ds[pos[k]])
      /\ \A j, k \in 1 .. Len(a) : j < k => pos[j] < pos[k]
      /\ \A j \in 1 .. n : Direct(ds[j]) => \E k \in 1 .. Len(a) : pos[k] = j
  BY <1>1, <1>2, <1>7 DEF Ascending
<1>9. \A j \in 0 .. n : lv(j) \in ScopeLevels /\ lv(j).primary \in Int
  BY <1>1 DEF LevelsMet, ScopeLevels
<1> DEFINE Reached(j, k) == \A m \in 1 .. Len(a) : pos[m] <= j <=> m <= k
           Fit(j, k) == Reached(j, k) /\ q[k].bytes <= 2 * lv(j).primary
           T == {j \in 0 .. n : \E k \in 0 .. Len(a) : Fit(j, k)}
<1>10. 0 \in T
  <2>1. Reached(0, 0)
    BY <1>8
  <2>2. q[0].bytes = 0 /\ lv(0).primary = 0
    BY <1>1, <1>6 DEF LaidOut, LevelsMet, Nothing, EmptyLevel
  <2>3. Fit(0, 0) /\ 0 \in 0 .. Len(a) /\ 0 \in 0 .. n
    BY <1>1, <1>5, <2>1, <2>2
  <2> HIDE DEF Fit
  <2> QED
    BY <2>3
<1>11. \A j \in 1 .. n : j - 1 \in T => j \in T
  <2> SUFFICES ASSUME NEW j \in 1 .. n, j - 1 \in T PROVE j \in T
    OBVIOUS
  <2>1. PICK k \in 0 .. Len(a) : Fit(j - 1, k)
    OBVIOUS
  <2>2. /\ j - 1 \in 0 .. n /\ j \in 0 .. n /\ j \in Nat
        /\ lv(j) = Declared(lv(j - 1), ds[j])
        /\ Declaration(ds[j]) /\ ds[j] \in ToSet(ds)
    BY <1>1 DEF LevelsMet
  <2>3. ~ds[j].eq /\ (Direct(ds[j]) => ByteSize(ds[j]) <= 2 * WordSize(ds[j]))
    BY <2>2 DEF Laid, InItsWords
  <2>4. CASE Direct(ds[j])
    <3>1. PICK m \in 1 .. Len(a) : pos[m] = j
      BY <1>8, <2>4
    <3>2. m > k
      <4>1. ~(pos[m] <= j - 1)
        BY <2>2, <3>1
      <4> QED
        BY <1>5, <2>1, <4>1
    <3>3. k + 1 \in 1 .. Len(a) /\ ~(k + 1 <= k)
      BY <1>5, <3>2
    <3>4. pos[k + 1] \in 1 .. n /\ ~(pos[k + 1] <= j - 1)
      BY <1>8, <2>1, <3>3
    <3>5. m = k + 1
      <4>1. k + 1 < m => pos[k + 1] < j
        BY <1>8, <3>1, <3>3
      <4> QED
        BY <1>5, <2>2, <3>2, <3>3, <3>4, <4>1
    <3>6. Reached(j, k + 1)
      <4> SUFFICES ASSUME NEW h \in 1 .. Len(a) PROVE pos[h] <= j <=> h <= k + 1
        OBVIOUS
      <4>1. pos[h] \in 1 .. n /\ h \in Nat /\ k \in Nat
        BY <1>5, <1>8
      <4>2. CASE h <= k
        <5>1. pos[h] <= j - 1
          BY <2>1, <4>2
        <5> QED
          BY <2>2, <4>1, <4>2, <5>1
      <4>3. CASE h = k + 1
        BY <2>2, <3>1, <3>5, <4>1, <4>3
      <4>4. CASE k + 1 < h
        <5>1. pos[k + 1] < pos[h]
          BY <1>8, <3>3, <4>4
        <5> QED
          BY <2>2, <3>1, <3>5, <4>1, <4>4, <5>1
      <4> QED
        BY <4>1, <4>2, <4>3, <4>4
    <3>7. q[k + 1].bytes <= 2 * lv(j).primary
      <4> DEFINE l == q[k]
                 d == ds[j]
                 w == lv(j - 1).primary
      <4>1. q[k + 1] = Placed(l, d)
        BY <1>6, <1>7, <3>1, <3>3, <3>5 DEF LaidOut
      <4>2. l \in Spaces /\ l.bytes <= 2 * w /\ w \in Int
        BY <1>6, <1>9, <2>1, <2>2 DEF LaidOut
      <4>3. lv(j).primary = w + WordSize(d)
        BY <1>9, <2>2, <2>3, <2>4, DeclaredFacts
      <4>4. Direct(d) /\ Declaration(d) /\ ByteSize(d) <= 2 * WordSize(d)
        BY <2>2, <2>3, <2>4
      <4> HIDE DEF l, d, w, lv
      <4>5. Placed(l, d).bytes <= 2 * (w + WordSize(d))
        BY <4>2, <4>4, PlacedFits
      <4> QED
        BY <4>1, <4>3, <4>5
    <3>8. Fit(j, k + 1) /\ k + 1 \in 0 .. Len(a)
      BY <3>3, <3>6, <3>7
    <3> HIDE DEF Fit
    <3> QED
      BY <2>2, <3>8
  <2>5. CASE ~Direct(ds[j])
    <3>1. Reached(j, k)
      <4> SUFFICES ASSUME NEW h \in 1 .. Len(a) PROVE pos[h] <= j <=> h <= k
        OBVIOUS
      <4>1. pos[h] \in 1 .. n /\ pos[h] # j
        BY <1>8, <2>5
      <4>2. pos[h] <= j <=> pos[h] <= j - 1
        BY <2>2, <4>1
      <4> QED
        BY <2>1, <4>2
    <3>2. lv(j).primary >= lv(j - 1).primary
      BY <1>9, <2>2, <2>3, <2>5, DeclaredFacts
    <3>3. /\ q[k].bytes \in Int /\ lv(j).primary \in Int /\ lv(j - 1).primary \in Int
          /\ q[k].bytes <= 2 * lv(j - 1).primary
      BY <1>6, <1>9, <2>1, <2>2 DEF LaidOut, Spaces
    <3>4. q[k].bytes <= 2 * lv(j).primary
      BY <3>2, <3>3
    <3>5. Fit(j, k)
      BY <3>1, <3>4
    <3> HIDE DEF Fit
    <3> QED
      BY <2>2, <3>5
  <2> QED
    BY <2>4, <2>5
<1>12. n \in T
  <2> HIDE DEF T
  <2>1. 0 .. n \subseteq T
    BY <1>1, <1>10, <1>11, UpTo
  <2> QED
    BY <1>1, <2>1
<1>13. PICK k \in 0 .. Len(a) : Fit(n, k)
  BY <1>12
<1>14. k = Len(a)
  <2> SUFFICES ASSUME k # Len(a) PROVE FALSE
    OBVIOUS
  <2>1. Len(a) \in 1 .. Len(a) /\ ~(Len(a) <= k)
    BY <1>5
  <2>2. pos[Len(a)] \in 1 .. n
    BY <1>8, <2>1
  <2>3. pos[Len(a)] <= n
    BY <1>1, <2>2
  <2> QED
    BY <1>13, <2>1, <2>3
<1>15. q[Len(a)].bytes <= 2 * lv(n).primary /\ q[Len(a)] = FoldLeft(Placed, Nothing, a)
  BY <1>6, <1>13, <1>14 DEF LaidOut
<1> QED
  BY <1>4, <1>15

-----------------------------------------------------------------------------
(***************************************************************************)
(* Storage: the advice.                                                    *)
(***************************************************************************)

LEMMA ReorderedFacts ==
  ASSUME NEW ds, AllDeclarations(ds)
  PROVE  AllDeclarations(Reordered(ds))
<1> DEFINE S == DOMAIN ds
           A == ToSet(ds)
           size == [n \in S |-> ByteSize(ds[n])]
           name == [n \in S |-> ds[n].name]
           Less(m, n) == \/ size[m] > size[n]
                         \/ size[m] = size[n] /\ name[m] < name[n]
                         \/ size[m] = size[n] /\ name[m] = name[n] /\ m < n
           R == {p \in S \X S : \/ Larger(ds[p[1]], ds[p[2]])
                                \/ Alike(ds[p[1]], ds[p[2]]) /\ p[1] < p[2]}
<1>1. /\ S = 1 .. Len(ds) /\ Len(ds) \in Nat /\ ds \in Seq(A)
      /\ \A n \in S : ds[n] \in A /\ Declaration(ds[n])
  BY SequenceFacts DEF AllDeclarations, IsSequence
<1>2. size \in [S -> Int] /\ name \in [S -> Int]
  BY <1>1 DEF Declaration
<1>3. ASSUME NEW m \in S, NEW n \in S
      PROVE  <<m, n>> \in R <=> Less(m, n)
  <2>1. /\ <<m, n>> \in S \X S
        /\ <<m, n>>[1] = m /\ <<m, n>>[2] = n
    OBVIOUS
  <2>2. <<m, n>> \in R <=> \/ Larger(ds[m], ds[n])
                           \/ Alike(ds[m], ds[n]) /\ m < n
    BY <2>1
  <2>3. /\ Larger(ds[m], ds[n]) <=> \/ size[m] > size[n]
                                    \/ size[m] = size[n] /\ name[m] < name[n]
        /\ Alike(ds[m], ds[n]) <=> size[m] = size[n] /\ name[m] = name[n]
    BY DEF Larger, Alike
  <2> QED
    BY <2>2, <2>3
<1> HIDE DEF size, name, R
<1>4. \A n \in S : n \in Nat /\ size[n] \in Int /\ name[n] \in Int
  BY <1>1, <1>2
<1>5. \A m \in S : ~Less(m, m)
  BY <1>4
<1>6. ASSUME NEW l \in S, NEW m \in S, NEW n \in S, Less(l, m), Less(m, n)
      PROVE  Less(l, n)
  BY <1>4, <1>6
<1>7. ASSUME NEW m \in S, NEW n \in S, m # n
      PROVE  Less(m, n) \/ Less(n, m)
  BY <1>4, <1>7
<1> HIDE DEF Less
<1>8. StrictOn(R, S)
  BY <1>3, <1>5, <1>6, <1>7 DEF StrictOn
<1> DEFINE a == Arranged(ds, S, R)
<1> HIDE DEF A
<1>9. a \in Seq(A)
  BY <1>1, <1>8, ArrangedFacts
<1>10. Reordered(ds) = a
  BY DEF Reordered, R
<1> HIDE DEF a
<1>11. IsSequence(a) /\ \A d \in ToSet(a) : d \in A
  BY <1>9, SequenceIs DEF ToSet
<1> QED
  BY <1>10, <1>11 DEF AllDeclarations, A

Advising(x) ==
  \E d : AllDeclarations(Fields(d)) /\ Advised(d) /\ x = Advice(d)

LEMMA AdviceHolds ==
  ASSUME NEW x, Advising(x),
         \A k \in DOMAIN x.order : Alignment(x.order[k]) = 2 => ByteSize(x.order[k]) > 1
  PROVE  Layout(x.order).pad <= x.to /\ x.to < x.from
<1>1. PICK d : AllDeclarations(Fields(d)) /\ Advised(d) /\ x = Advice(d)
  BY DEF Advising
<1> DEFINE os == Reordered(Fields(d))
<1>2. /\ x.order = os /\ x.from = Layout(Fields(d)).pad /\ x.to = PromisedPad(Fields(d))
      /\ x.to < x.from
  BY <1>1 DEF Advice, Advised
<1>3. AllDeclarations(os)
  BY <1>1, ReorderedFacts
<1>4. PromisedPad(Fields(d)) = FoldLeft(Repacked, Nothing, os).pad
      /\ Layout(os) = FoldLeft(Placed, Nothing, os)
  BY DEF PromisedPad, Layout, Nothing
<1> HIDE DEF os
<1>5. \A k \in 1 .. Len(os) : Alignment(os[k]) = 2 => ByteSize(os[k]) > 1
  BY <1>2, <1>3, SequenceFacts DEF AllDeclarations
<1>6. FoldLeft(Placed, Nothing, os).pad <= FoldLeft(Repacked, Nothing, os).pad
  BY <1>3, <1>5, RepackedIsWorse
<1> QED
  BY <1>2, <1>4, <1>6

LEMMA WhereStructure ==
  ASSUME NEW ds, IsSequence(ds)
  PROVE  IsSequence(Where(ds, IsStructure)) /\ ToSet(Where(ds, IsStructure)) \subseteq ToSet(ds)
<1>1. PICK S \in SUBSET DOMAIN ds :
        Where(ds, IsStructure) = Arranged(ds, S, Ascending(S))
  BY DEF Where
<1> QED
  BY <1>1, KeptFacts

LEMMA WhereAdvised ==
  ASSUME NEW ds, IsSequence(ds)
  PROVE  /\ IsSequence(Where(ds, Advised)) /\ ToSet(Where(ds, Advised)) \subseteq ToSet(ds)
         /\ \A k \in DOMAIN Where(ds, Advised) : Advised(Where(ds, Advised)[k])
<1>1. PICK S \in SUBSET DOMAIN ds :
        /\ S = {n \in DOMAIN ds : Advised(ds[n])}
        /\ Where(ds, Advised) = Arranged(ds, S, Ascending(S))
  BY DEF Where
<1> DEFINE a == Arranged(ds, S, Ascending(S))
<1>2. /\ IsSequence(a) /\ ToSet(a) \subseteq ToSet(ds)
      /\ Arranges(a, ds, S, Ascending(S))
  BY KeptFacts
<1> HIDE DEF a
<1>3. \A k \in 1 .. Len(a) : \E n \in S : a[k] = ds[n]
  BY <1>2 DEF Arranges
<1>4. \A n \in S : Advised(ds[n])
  BY <1>1
<1>5. \A k \in 1 .. Len(a) : Advised(a[k])
  BY <1>3, <1>4
<1>6. \A k \in DOMAIN a : Advised(a[k])
  BY <1>2, <1>5, SequenceFacts
<1> QED
  BY <1>1, <1>2, <1>6 DEF a

-----------------------------------------------------------------------------
(***************************************************************************)
(* Storage: what is warned of and counted, at any moment of the run.       *)
(***************************************************************************)

DeclsOf(n) == program[Scopes[n]]

(* How many declarations of a scope the overflow rules have passed, and of *)
(* how many scopes there are a layout and a row.                           *)
Seen(n) ==
  IF rule # "declare" \/ n < scope THEN Len(DeclsOf(n))
  ELSE IF n = scope THEN position - 1 ELSE 0
Past ==
  IF rule \in {"declare", "templates"} THEN 0
  ELSE IF rule = "padding" THEN scope - 1 ELSE 3
Summed == IF rule = "summary" THEN scope - 1 ELSE IF rule = "done" THEN 3 ELSE 0

Has(ws, kind, s) == \E w \in ToSet(ws) : w.kind = kind /\ w.scope = s
Exceeds(ds, limit, k) == \E j \in 1 .. k : Levels(ds)[j].primary > limit
Exceeds32K(ds, k) == \E j \in 1 .. k : Combined(Levels(ds)[j]) > COMBINED_LIMIT

StorageTypes ==
  /\ program \in Programs /\ scope \in 1 .. 3
  /\ rule \in {"declare", "templates", "padding", "summary", "done"}
  /\ rule = "templates" => scope = 1
  /\ rule = "declare" => position \in 1 .. Len(DeclsOf(scope)) + 1
  /\ IsSequence(issued) /\ IsSequence(layouts) /\ IsSequence(rows) /\ IsSequence(advice)
LevelRight ==
  rule = "declare" => level = Levels(DeclsOf(scope))[position - 1]
OverflowsTold ==
  \A n \in 1 .. 3 :
    LET s == Scopes[n]
    IN  /\ Has(issued, Overflow(s), s) <=> Exceeds(DeclsOf(n), Limit[s], Seen(n))
        /\ Has(issued, "SECONDARY_OVERFLOW", s) <=>
             s # "SUBLOCAL" /\ Exceeds32K(DeclsOf(n), Seen(n))
LayoutsRight ==
  /\ Len(layouts) = Past
  /\ \A n \in 1 .. Past : layouts[n] = Layout(Where(DeclsOf(n), Direct))
RowsRight ==
  /\ Len(rows) = Summed
  /\ \A n \in 1 .. Summed : rows[n] = Levels(DeclsOf(n))[Len(DeclsOf(n))]
AdviceRight == \A n \in 1 .. Len(advice) : Advising(advice[n])

StorageInv ==
  /\ StorageTypes /\ LevelRight /\ OverflowsTold
  /\ LayoutsRight /\ RowsRight /\ AdviceRight

LEMMA ScopesFacts ==
  /\ Len(Scopes) = 3 /\ DOMAIN Scopes = 1 .. 3
  /\ Scopes[1] = "GLOBAL" /\ Scopes[2] = "LOCAL" /\ Scopes[3] = "SUBLOCAL"
  /\ \A n \in 1 .. 3 : Scopes[n] \in ToSet(Scopes)
  /\ \A m, n \in 1 .. 3 : Scopes[m] = Scopes[n] => m = n
<1>1. /\ Len(Scopes) = 3 /\ DOMAIN Scopes = 1 .. 3
      /\ Scopes[1] = "GLOBAL" /\ Scopes[2] = "LOCAL" /\ Scopes[3] = "SUBLOCAL"
  BY DEF Scopes
<1>2. \A n \in 1 .. 3 : n = 1 \/ n = 2 \/ n = 3
  OBVIOUS
<1> QED
  BY <1>1, <1>2 DEF ToSet

LEMMA ProgramFacts ==
  ASSUME program \in Programs, NEW n \in 1 .. 3
  PROVE  /\ AllDeclarations(DeclsOf(n)) /\ Len(DeclsOf(n)) \in Nat
         /\ \A d \in ToSet(DeclsOf(n)) : AllDeclarations(Fields(d))
<1>1. Scopes[n] \in ToSet(Scopes)
  BY ScopesFacts
<1>2. AllDeclarations(DeclsOf(n)) /\ \A d \in ToSet(DeclsOf(n)) : AllDeclarations(Fields(d))
  BY <1>1, StorageAssumption DEF DeclsOf, AllDeclarations
<1> QED
  BY <1>2, SequenceFacts DEF AllDeclarations

OverflowKinds ==
  {"GLOBAL_OVERFLOW", "LOCAL_OVERFLOW", "SUBLOCAL_OVERFLOW", "SECONDARY_OVERFLOW"}
Quiet(ws) == IsSequence(ws) /\ \A w \in ToSet(ws) : w.kind \notin OverflowKinds

LEMMA OverflowFacts ==
  ASSUME NEW n \in 1 .. 3
  PROVE  /\ Overflow(Scopes[n]) \in OverflowKinds
         /\ Overflow(Scopes[n]) # "SECONDARY_OVERFLOW"
<1>1. /\ Overflow("GLOBAL") = "GLOBAL_OVERFLOW" /\ Overflow("LOCAL") = "LOCAL_OVERFLOW"
      /\ Overflow("SUBLOCAL") = "SUBLOCAL_OVERFLOW"
  BY DEF Overflow
<1>2. n = 1 \/ n = 2 \/ n = 3
  OBVIOUS
<1> QED
  BY <1>1, <1>2, ScopesFacts DEF OverflowKinds

LEMMA HasJoined ==
  ASSUME NEW v, NEW w, IsSequence(v), IsSequence(w), NEW kind, NEW s
  PROVE  Has(v \o w, kind, s) <=> Has(v, kind, s) \/ Has(w, kind, s)
BY SequenceJoined DEF Has

(* Warnings of other kinds change nothing in what is told of overflows.    *)
LEMMA QuietKeeps ==
  ASSUME NEW v, IsSequence(v), NEW w, Quiet(w), NEW n \in 1 .. 3
  PROVE  /\ IsSequence(v \o w)
         /\ Has(v \o w, Overflow(Scopes[n]), Scopes[n]) <=> Has(v, Overflow(Scopes[n]), Scopes[n])
         /\ Has(v \o w, "SECONDARY_OVERFLOW", Scopes[n])
              <=> Has(v, "SECONDARY_OVERFLOW", Scopes[n])
<1>1. /\ ~Has(w, Overflow(Scopes[n]), Scopes[n])
      /\ ~Has(w, "SECONDARY_OVERFLOW", Scopes[n])
  BY OverflowFacts DEF Has, Quiet, OverflowKinds
<1> QED
  BY <1>1, HasJoined, SequenceJoined DEF Quiet

LEMMA QuietJoined ==
  ASSUME NEW v, Quiet(v), NEW w, Quiet(w)
  PROVE  Quiet(v \o w)
BY SequenceJoined DEF Quiet

LEMMA NoWarning == Quiet(<<>>)
<1>1. <<>> \in Seq({}) /\ DOMAIN <<>> = {}
  OBVIOUS
<1>2. ToSet(<<>>) = {}
  BY <1>1 DEF ToSet
<1> QED
  BY <1>1, <1>2, SequenceIs DEF Quiet

LEMMA OneWarning ==
  ASSUME NEW w, w.kind \notin OverflowKinds
  PROVE  Quiet(<<w>>)
<1>1. <<w>> \in Seq({w})
  OBVIOUS
<1>2. ToSet(<<w>>) = {w}
  BY DEF ToSet
<1> QED
  BY <1>1, <1>2, SequenceIs DEF Quiet

LEMMA ManyWarnings ==
  ASSUME NEW n \in Nat, NEW f, f = [k \in 1 .. n |-> f[k]],
         \A k \in 1 .. n : f[k].kind \notin OverflowKinds
  PROVE  Quiet(f)
<1>1. DOMAIN f = 1 .. n
  OBVIOUS
<1>2. IsSequence(f)
  BY <1>1, SequenceBuilt
<1> QED
  BY <1>1, <1>2 DEF Quiet, ToSet

LEMMA StorageBegins == StorageInit => StorageInv
<1> SUFFICES ASSUME StorageInit PROVE StorageInv
  OBVIOUS
<1> USE DEF StorageInit
<1>1. IsSequence(<<>>) /\ Len(<<>>) = 0
  BY NoWarning DEF Quiet
<1>2. \A n \in 1 .. 3 : /\ AllDeclarations(DeclsOf(n)) /\ Len(DeclsOf(n)) \in Nat
                        /\ Levels(DeclsOf(n))[0] = EmptyLevel
  BY ProgramFacts, LevelsFacts DEF LevelsMet
<1>3. StorageTypes
  BY <1>1, <1>2 DEF StorageTypes
<1>4. LevelRight
  BY <1>2 DEF LevelRight
<1>5. \A n \in 1 .. 3 : Seen(n) = 0
  BY DEF Seen
<1>6. \A kind, s : ~Has(<<>>, kind, s)
  BY DEF Has, ToSet
<1>7. OverflowsTold
  BY <1>5, <1>6 DEF OverflowsTold, Exceeds, Exceeds32K
<1>8. LayoutsRight
  BY <1>1 DEF LayoutsRight, Past
<1>9. RowsRight
  BY <1>1 DEF RowsRight, Summed
<1>10. AdviceRight
  BY <1>1 DEF AdviceRight
<1> QED
  BY <1>3, <1>4, <1>7, <1>8, <1>9, <1>10 DEF StorageInv

LEMMA ToldKeeps ==
  ASSUME OverflowsTold, IsSequence(issued), NEW w, Quiet(w), issued' = issued \o w,
         program' = program, \A n \in 1 .. 3 : Seen(n)' = Seen(n)
  PROVE  OverflowsTold' /\ IsSequence(issued)'
<1>1. IsSequence(issued \o w)
  BY SequenceJoined DEF Quiet
<1>2. ASSUME NEW n \in 1 .. 3
      PROVE  LET s == Scopes[n]
             IN  /\ Has(issued', Overflow(s), s) <=>
                      Exceeds(DeclsOf(n)', Limit[s], Seen(n)')
                 /\ Has(issued', "SECONDARY_OVERFLOW", s) <=>
                      s # "SUBLOCAL" /\ Exceeds32K(DeclsOf(n)', Seen(n)')
  <2>1. DeclsOf(n)' = DeclsOf(n) /\ Seen(n)' = Seen(n)
    BY DEF DeclsOf
  <2>2. /\ Has(issued', Overflow(Scopes[n]), Scopes[n])
             <=> Has(issued, Overflow(Scopes[n]), Scopes[n])
        /\ Has(issued', "SECONDARY_OVERFLOW", Scopes[n])
             <=> Has(issued, "SECONDARY_OVERFLOW", Scopes[n])
    BY QuietKeeps
  <2>3. /\ Has(issued, Overflow(Scopes[n]), Scopes[n])
             <=> Exceeds(DeclsOf(n), Limit[Scopes[n]], Seen(n))
        /\ Has(issued, "SECONDARY_OVERFLOW", Scopes[n])
             <=> Scopes[n] # "SUBLOCAL" /\ Exceeds32K(DeclsOf(n), Seen(n))
    BY DEF OverflowsTold
  <2> QED
    BY <2>1, <2>2, <2>3
<1>3. OverflowsTold'
  BY <1>2 DEF OverflowsTold
<1> QED
  BY <1>1, <1>3

LEMMA WarnFacts ==
  ASSUME scope \in 1 .. 3, NEW kind, NEW ok \in BOOLEAN
  PROVE  /\ IsSequence(Warn(kind, ok))
         /\ \A k, s : Has(Warn(kind, ok), k, s) <=> ~ok /\ k = kind /\ s = Scopes[scope]
<1> DEFINE w == [kind |-> kind, scope |-> Scopes[scope], at |-> position]
<1>1. CASE ok
  <2>1. Warn(kind, ok) = <<>> /\ ToSet(<<>>) = {} /\ IsSequence(<<>>)
    BY <1>1, NoWarning DEF Warn, ToSet, Quiet
  <2> QED
    BY <1>1, <2>1 DEF Has
<1>2. CASE ~ok
  <2>1. Warn(kind, ok) = <<w>>
    BY <1>2 DEF Warn
  <2>2. w.kind = kind /\ w.scope = Scopes[scope]
    OBVIOUS
  <2> HIDE DEF w
  <2>3. <<w>> \in Seq({w}) /\ DOMAIN <<w>> = {1} /\ <<w>>[1] = w
    OBVIOUS
  <2>4. ToSet(<<w>>) = {w}
    BY <2>3 DEF ToSet
  <2>5. IsSequence(<<w>>)
    BY <2>3, SequenceIs
  <2> QED
    BY <1>2, <2>1, <2>2, <2>4, <2>5 DEF Has
<1> QED
  BY <1>1, <1>2

LEMMA DeclareKeeps ==
  ASSUME StorageInv, Declare
  PROVE  StorageInv'
<1> DEFINE ds == DeclsOf(scope)
           d == ds[position]
           t == Scopes[scope]
           over == level'.primary > Limit[t]
           over32K == t # "SUBLOCAL" /\ Combined(level') > COMBINED_LIMIT
           w0 == Warn("SUBLOCAL_INDIRECT", t # "SUBLOCAL" \/ Direct(d))
           w1 == Warn(Overflow(t), level'.primary <= Limit[t])
           w2 == Warn("SECONDARY_OVERFLOW", t = "SUBLOCAL" \/ Combined(level') <= COMBINED_LIMIT)
<1>1. /\ rule = "declare" /\ position <= Len(ds) /\ level' = Declared(level, d)
      /\ issued' = (issued \o w0) \o (w1 \o w2)
      /\ position' = position + 1
      /\ program' = program /\ rule' = rule /\ scope' = scope
      /\ layouts' = layouts /\ advice' = advice /\ rows' = rows
  BY DEF Declare, Decls, DeclsOf, Overflows
<1>2. /\ program \in Programs /\ scope \in 1 .. 3 /\ IsSequence(issued)
      /\ IsSequence(layouts) /\ IsSequence(rows) /\ IsSequence(advice)
      /\ position \in 1 .. Len(ds) + 1 /\ level = Levels(ds)[position - 1]
  BY <1>1 DEF StorageInv, StorageTypes, LevelRight
<1>3. /\ AllDeclarations(ds) /\ Len(ds) \in Nat /\ LevelsMet(ds, Levels(ds))
      /\ position \in 1 .. Len(ds)
      /\ \A n \in 1 .. 3 : Len(DeclsOf(n)) \in Nat /\ DeclsOf(n)' = DeclsOf(n)
  <2>1. \A n \in 1 .. 3 : AllDeclarations(DeclsOf(n)) /\ Len(DeclsOf(n)) \in Nat
    BY <1>2, ProgramFacts
  <2>2. \A n \in 1 .. 3 : DeclsOf(n)' = DeclsOf(n)
    BY <1>1 DEF DeclsOf
  <2> QED
    BY <1>1, <1>2, <2>1, <2>2, LevelsFacts
<1>4. level' = Levels(ds)[position] /\ level' \in ScopeLevels
  BY <1>1, <1>2, <1>3 DEF LevelsMet
<1>5. level'.primary \in Int /\ Combined(level') \in Int /\ COMBINED_LIMIT \in Int
      /\ \A n \in 1 .. 3 : Limit[Scopes[n]] \in Int
  <2>1. \A s \in ToSet(Scopes) : s \in {"GLOBAL", "LOCAL", "SUBLOCAL"}
    BY DEF Scopes, ToSet
  <2>2. \A s \in ToSet(Scopes) : Limit[s] \in Int
    BY <2>1 DEF Limit
  <2> QED
    BY <1>4, <2>2, ScopesFacts DEF ScopeLevels, Combined, COMBINED_LIMIT
<1>6. StorageTypes' /\ LevelRight'
  <2>1. position' - 1 = position /\ position' \in 1 .. Len(ds) + 1
    BY <1>1, <1>3
  <2>2. IsSequence(issued')
    <3>1. /\ (t # "SUBLOCAL" \/ Direct(d)) \in BOOLEAN
          /\ (level'.primary <= Limit[t]) \in BOOLEAN
          /\ (t = "SUBLOCAL" \/ Combined(level') <= COMBINED_LIMIT) \in BOOLEAN
      BY DEF Direct
    <3>2. IsSequence(w0) /\ IsSequence(w1) /\ IsSequence(w2)
      BY <1>2, <3>1, WarnFacts
    <3> HIDE DEF w0, w1, w2
    <3>3. IsSequence(issued \o w0) /\ IsSequence(w1 \o w2)
      BY <1>2, <3>2, SequenceJoined
    <3> QED
      BY <1>1, <3>3, SequenceJoined
  <2>3. DeclsOf(scope)' = ds
    BY <1>1 DEF DeclsOf
  <2>4. StorageTypes'
    BY <1>1, <1>2, <2>1, <2>2, <2>3 DEF StorageTypes
  <2>5. LevelRight'
    BY <1>4, <2>1, <2>3 DEF LevelRight
  <2> QED
    BY <2>4, <2>5
<1>7. OverflowsTold'
  <2>1. ASSUME NEW n \in 1 .. 3
        PROVE  LET s == Scopes[n]
               IN  /\ Has(issued', Overflow(s), s) <=>
                        Exceeds(DeclsOf(n)', Limit[s], Seen(n)')
                   /\ Has(issued', "SECONDARY_OVERFLOW", s) <=>
                        s # "SUBLOCAL" /\ Exceeds32K(DeclsOf(n)', Seen(n)')
    <3> DEFINE s == Scopes[n]
    <3>1. /\ Has(issued, Overflow(s), s) <=> Exceeds(DeclsOf(n), Limit[s], Seen(n))
          /\ Has(issued, "SECONDARY_OVERFLOW", s)
               <=> s # "SUBLOCAL" /\ Exceeds32K(DeclsOf(n), Seen(n))
      BY DEF StorageInv, OverflowsTold
    <3>2. /\ IsSequence(issued) /\ IsSequence(w0) /\ IsSequence(w1) /\ IsSequence(w2)
          /\ \A k : /\ ~Has(w0, k, s) \/ k = "SUBLOCAL_INDIRECT"
                    /\ Has(w1, k, s) <=> over /\ k = Overflow(t) /\ s = t
                    /\ Has(w2, k, s) <=> over32K /\ k = "SECONDARY_OVERFLOW" /\ s = t
      <4>1. /\ (level'.primary <= Limit[t]) \in BOOLEAN
            /\ (level'.primary <= Limit[t]) <=> ~over
            /\ (t = "SUBLOCAL" \/ Combined(level') <= COMBINED_LIMIT) <=> ~over32K
        BY <1>2, <1>5
      <4> HIDE DEF over, over32K
      <4> QED
        BY <1>2, <4>1, WarnFacts
    <3>3. /\ Overflow(s) \in OverflowKinds /\ Overflow(s) # "SECONDARY_OVERFLOW"
          /\ Overflow(t) # "SECONDARY_OVERFLOW"
          /\ "SUBLOCAL_INDIRECT" \notin OverflowKinds
          /\ "SECONDARY_OVERFLOW" \in OverflowKinds
          /\ (s = t <=> n = scope)
      BY <1>2, OverflowFacts, ScopesFacts DEF OverflowKinds
    <3> HIDE DEF w0, w1, w2, over, over32K
    <3>4. \A k : Has(issued', k, s) <=>
            Has(issued, k, s) \/ Has(w0, k, s) \/ Has(w1, k, s) \/ Has(w2, k, s)
      <4>1. IsSequence(issued \o w0) /\ IsSequence(w1 \o w2)
        BY <3>2, SequenceJoined
      <4> QED
        BY <1>1, <3>2, <4>1, HasJoined
    <3> HIDE DEF s, t
    <3>5. /\ Has(issued', Overflow(s), s) <=> Has(issued, Overflow(s), s) \/ (n = scope /\ over)
          /\ Has(issued', "SECONDARY_OVERFLOW", s) <=>
               Has(issued, "SECONDARY_OVERFLOW", s) \/ (n = scope /\ over32K)
      BY <3>2, <3>3, <3>4
    <3>6. CASE n # scope
      <4>1. Seen(n)' = Seen(n) /\ DeclsOf(n)' = DeclsOf(n)
        BY <1>1, <1>3, <3>6 DEF Seen
      <4> QED
        BY <3>1, <3>5, <3>6, <4>1 DEF s
    <3>7. CASE n = scope
      <4>1. Seen(n) = position - 1 /\ Seen(n)' = position /\ DeclsOf(n)' = DeclsOf(n)
            /\ DeclsOf(n) = ds /\ s = t
        BY <1>1, <1>2, <1>3, <3>7 DEF Seen, s, t
      <4>2. Exceeds(ds, Limit[t], position) <=> Exceeds(ds, Limit[t], position - 1) \/ over
        BY <1>3, <1>4 DEF Exceeds, over
      <4>3. t # "SUBLOCAL" /\ Exceeds32K(ds, position)
              <=> (t # "SUBLOCAL" /\ Exceeds32K(ds, position - 1)) \/ over32K
        BY <1>3, <1>4 DEF Exceeds32K, over32K
      <4> QED
        BY <3>1, <3>5, <3>7, <4>1, <4>2, <4>3 DEF s
    <3> QED
      BY <3>6, <3>7
  <2> QED
    BY <2>1 DEF OverflowsTold
<1>8. LayoutsRight' /\ RowsRight' /\ AdviceRight'
  <2>1. LayoutsRight /\ RowsRight /\ AdviceRight
    BY DEF StorageInv
  <2> QED
    BY <1>1, <2>1 DEF LayoutsRight, RowsRight, AdviceRight, Past, Summed
<1> QED
  BY <1>6, <1>7, <1>8 DEF StorageInv

LEMMA WhereLarge ==
  ASSUME NEW ds, IsSequence(ds)
  PROVE  IsSequence(Where(ds, Large))
<1>1. PICK S \in SUBSET DOMAIN ds :
        Where(ds, Large) = Arranged(ds, S, Ascending(S))
  BY DEF Where
<1> QED
  BY <1>1, KeptFacts

LEMMA WhereUnresolved ==
  ASSUME NEW ds, IsSequence(ds)
  PROVE  IsSequence(Where(ds, Unresolved))
<1>1. PICK S \in SUBSET DOMAIN ds :
        Where(ds, Unresolved) = Arranged(ds, S, Ascending(S))
  BY DEF Where
<1> QED
  BY <1>1, KeptFacts

LEMMA LeaveScopeKeeps ==
  ASSUME StorageInv, LeaveScope
  PROVE  StorageInv'
<1> DEFINE ds == DeclsOf(scope)
<1>1. /\ rule = "declare" /\ position > Len(ds) /\ issued' = issued \o UpperWarnings
      /\ level' = EmptyLevel /\ position' = 1
      /\ IF scope < 3 THEN scope' = scope + 1 /\ rule' = rule
                      ELSE scope' = 1 /\ rule' = "templates"
      /\ program' = program /\ layouts' = layouts /\ advice' = advice /\ rows' = rows
  BY ScopesFacts DEF LeaveScope, Decls, DeclsOf
<1>2. /\ program \in Programs /\ scope \in 1 .. 3 /\ IsSequence(issued)
      /\ IsSequence(layouts) /\ IsSequence(rows) /\ IsSequence(advice)
      /\ position \in 1 .. Len(ds) + 1
  BY <1>1 DEF StorageInv, StorageTypes
<1>3. \A n \in 1 .. 3 : /\ AllDeclarations(DeclsOf(n)) /\ Len(DeclsOf(n)) \in Nat
                        /\ Levels(DeclsOf(n))[0] = EmptyLevel
  BY <1>2, ProgramFacts, LevelsFacts DEF LevelsMet
<1>4. \A n \in 1 .. 3 : DeclsOf(n)' = DeclsOf(n)
  BY <1>1 DEF DeclsOf
<1>5. position - 1 = Len(ds)
  BY <1>1, <1>2, <1>3
<1>6. Quiet(UpperWarnings)
  <2> DEFINE large == Where(Decls, Large)
             f == [k \in DOMAIN large |-> UpperWarning(large[k])]
  <2>1. CASE Scopes[scope] = "SUBLOCAL"
    BY <2>1, NoWarning DEF UpperWarnings
  <2>2. CASE Scopes[scope] # "SUBLOCAL"
    <3>1. Decls = ds
      BY DEF Decls, DeclsOf
    <3>2. IsSequence(large)
      BY <1>2, <1>3, <3>1, WhereLarge DEF AllDeclarations
    <3>3. UpperWarnings = f
      BY <2>2 DEF UpperWarnings
    <3> HIDE DEF large
    <3>4. /\ Len(large) \in Nat /\ f = [k \in 1 .. Len(large) |-> f[k]]
          /\ \A k \in 1 .. Len(large) : f[k].kind = "UPPER_32K_WITHOUT_PTR"
      BY <3>2, SequenceFacts DEF UpperWarning
    <3> HIDE DEF f
    <3>5. Quiet(f)
      BY <3>4, ManyWarnings DEF OverflowKinds
    <3> QED
      BY <3>3, <3>5
  <2> QED
    BY <2>1, <2>2
<1>7. \A n \in 1 .. 3 : Seen(n)' = Seen(n)
  <2> SUFFICES ASSUME NEW n \in 1 .. 3 PROVE Seen(n)' = Seen(n)
    OBVIOUS
  <2>1. Seen(n) = IF n <= scope THEN Len(DeclsOf(n)) ELSE 0
    BY <1>1, <1>2, <1>5 DEF Seen
  <2>2. CASE scope < 3
    <3>1. rule' = "declare" /\ scope' = scope + 1 /\ position' = 1
      BY <1>1, <2>2
    <3>2. Seen(n)' = IF n < scope + 1 THEN Len(DeclsOf(n)) ELSE 0
      BY <1>4, <3>1 DEF Seen
    <3> QED
      BY <1>2, <2>1, <3>2
  <2>3. CASE ~(scope < 3)
    <3>1. rule' = "templates" /\ scope = 3
      BY <1>1, <1>2, <2>3
    <3>2. Seen(n)' = Len(DeclsOf(n))
      BY <1>4, <3>1 DEF Seen
    <3> QED
      BY <1>2, <2>1, <3>1, <3>2
  <2> QED
    BY <2>2, <2>3
<1>8. OverflowsTold' /\ IsSequence(issued)'
  BY <1>1, <1>2, <1>6, <1>7, ToldKeeps DEF StorageInv
<1>9. /\ scope' \in 1 .. 3
      /\ rule' = "declare" \/ (rule' = "templates" /\ scope' = 1)
  BY <1>1, <1>2
<1>10. /\ Len(DeclsOf(scope)') \in Nat
       /\ Levels(DeclsOf(scope)')[0] = EmptyLevel
  <2>1. PICK m \in 1 .. 3 : m = scope'
    BY <1>9
  <2>2. DeclsOf(scope)' = DeclsOf(m)
    BY <1>1, <2>1 DEF DeclsOf
  <2> QED
    BY <1>3, <2>2
<1>11. StorageTypes'
  BY <1>1, <1>2, <1>8, <1>9, <1>10 DEF StorageTypes
<1>12. LevelRight'
  BY <1>1, <1>10 DEF LevelRight
<1>13. LayoutsRight' /\ RowsRight' /\ AdviceRight'
  <2>1. LayoutsRight /\ RowsRight /\ AdviceRight
    BY DEF StorageInv
  <2>2. Past = 0 /\ Past' = 0 /\ Summed = 0 /\ Summed' = 0
    BY <1>1, <1>9 DEF Past, Summed
  <2> QED
    BY <1>1, <1>4, <2>1, <2>2 DEF LayoutsRight, RowsRight, AdviceRight
<1> QED
  BY <1>8, <1>11, <1>12, <1>13 DEF StorageInv

LEMMA TemplatesFinite ==
  ASSUME program \in Programs
  PROVE  Cardinality(LocalTemplates) \in Nat
<1> DEFINE ds == program["LOCAL"]
           D == {n \in DOMAIN ds : Unresolved(ds[n])}
           f == [n \in D |-> ds[n].marker]
<1>1. ds = DeclsOf(2)
  BY ScopesFacts DEF DeclsOf
<1>2. DOMAIN ds = 1 .. Len(ds) /\ Len(ds) \in Nat
  BY <1>1, ProgramFacts, SequenceFacts DEF AllDeclarations
<1>3. IsFiniteSet(DOMAIN ds)
  <2>1. 1 \in Int /\ Len(ds) \in Int
    BY <1>2
  <2> QED
    BY <1>2, <2>1, FS_Interval
<1>4. IsFiniteSet(D)
  BY <1>3, FS_Subset
<1>5. LocalTemplates = {ds[n].marker : n \in D}
  BY DEF LocalTemplates, ToSet
<1>6. IsFiniteSet({ds[n].marker : n \in D})
  <2>1. {ds[n].marker : n \in D} = {f[n] : n \in D}
    OBVIOUS
  <2>2. f \in Surjection(D, {f[n] : n \in D})
    BY DEF Surjection
  <2> HIDE DEF f, D
  <2>3. IsFiniteSet({f[n] : n \in D})
    BY <1>4, <2>2, FS_Surjection
  <2> QED
    BY <2>1, <2>3
<1> QED
  BY <1>5, <1>6, FS_CardinalityType

LEMMA CheckTemplatesKeeps ==
  ASSUME StorageInv, CheckTemplates
  PROVE  StorageInv'
<1> DEFINE n == Cardinality(LocalTemplates)
           gs == GlobalTemplates
           f == [k \in 1 .. n |->
                   [kind |-> "UNRESOLVED_TEMPLATE", scope |-> "LOCAL", at |-> 0]]
           g == [k \in DOMAIN gs |->
                   [kind |-> "UNRESOLVED_TEMPLATE", scope |-> "GLOBAL", at |-> gs[k].name]]
<1>1. /\ rule = "templates" /\ issued' = (issued \o f) \o g /\ rule' = "padding"
      /\ program' = program /\ scope' = scope /\ position' = position /\ level' = level
      /\ layouts' = layouts /\ advice' = advice /\ rows' = rows
  BY DEF CheckTemplates
<1>2. /\ program \in Programs /\ scope = 1 /\ IsSequence(issued)
      /\ IsSequence(layouts) /\ IsSequence(rows) /\ IsSequence(advice)
  BY <1>1 DEF StorageInv, StorageTypes
<1>3. n \in Nat
  BY <1>2, TemplatesFinite
<1>4. IsSequence(gs)
  <2>1. program["GLOBAL"] = DeclsOf(1)
    BY ScopesFacts DEF DeclsOf
  <2>2. IsSequence(program["GLOBAL"])
    BY <1>2, <2>1, ProgramFacts DEF AllDeclarations
  <2> QED
    BY <2>2, WhereUnresolved DEF GlobalTemplates
<1> HIDE DEF n, gs
<1>5. Quiet(f)
  <2>1. f = [k \in 1 .. n |-> f[k]] /\ \A k \in 1 .. n : f[k].kind = "UNRESOLVED_TEMPLATE"
    OBVIOUS
  <2> HIDE DEF f
  <2> QED
    BY <1>3, <2>1, ManyWarnings DEF OverflowKinds
<1>6. Quiet(g)
  <2>1. /\ Len(gs) \in Nat /\ g = [k \in 1 .. Len(gs) |-> g[k]]
        /\ \A k \in 1 .. Len(gs) : g[k].kind = "UNRESOLVED_TEMPLATE"
    BY <1>4, SequenceFacts
  <2> HIDE DEF g
  <2> QED
    BY <2>1, ManyWarnings DEF OverflowKinds
<1> HIDE DEF f, g
<1>7. /\ IsSequence((issued \o f) \o g)
      /\ \A m \in 1 .. 3 :
           LET s == Scopes[m]
           IN  /\ Has(issued', Overflow(s), s) <=> Has(issued, Overflow(s), s)
               /\ Has(issued', "SECONDARY_OVERFLOW", s) <=> Has(issued, "SECONDARY_OVERFLOW", s)
  <2>1. IsSequence(issued \o f)
    BY <1>2, <1>5, SequenceJoined DEF Quiet
  <2> QED
    BY <1>1, <1>2, <1>5, <1>6, <2>1, QuietKeeps, SequenceJoined DEF Quiet
<1>8. \A m \in 1 .. 3 : DeclsOf(m)' = DeclsOf(m) /\ Seen(m)' = Seen(m)
  BY <1>1 DEF Seen, DeclsOf
<1>9. OverflowsTold'
  BY <1>7, <1>8 DEF StorageInv, OverflowsTold
<1>10. StorageTypes'
  BY <1>1, <1>2, <1>7 DEF StorageTypes
<1>11. LevelRight'
  BY <1>1 DEF LevelRight
<1>12. LayoutsRight' /\ RowsRight' /\ AdviceRight'
  <2>1. LayoutsRight /\ RowsRight /\ AdviceRight
    BY DEF StorageInv
  <2>2. Past = 0 /\ Past' = 0 /\ Summed = 0 /\ Summed' = 0
    BY <1>1, <1>2 DEF Past, Summed
  <2> QED
    BY <1>1, <1>8, <2>1, <2>2 DEF LayoutsRight, RowsRight, AdviceRight
<1> QED
  BY <1>9, <1>10, <1>11, <1>12 DEF StorageInv

LEMMA ByNameFacts ==
  ASSUME NEW ds, IsSequence(ds)
  PROVE  IsSequence(ByName(ds)) /\ ToSet(ByName(ds)) \subseteq ToSet(ds)
<1> DEFINE Namesakes(n) == {m \in DOMAIN ds : ds[m].name = ds[n].name}
           firsts == {n \in DOMAIN ds : n = Min(Namesakes(n))}
           lasts == [n \in DOMAIN ds |-> ds[Max(Namesakes(n))]]
           a == Arranged(lasts, firsts, Ascending(firsts))
<1>1. Len(ds) \in Nat /\ DOMAIN ds = 1 .. Len(ds)
  BY SequenceFacts
<1>2. \A n \in DOMAIN ds : Max(Namesakes(n)) \in DOMAIN ds
  <2> SUFFICES ASSUME NEW n \in DOMAIN ds PROVE Max(Namesakes(n)) \in DOMAIN ds
    OBVIOUS
  <2>1. n \in Namesakes(n) /\ Namesakes(n) \subseteq DOMAIN ds
    OBVIOUS
  <2> HIDE DEF Namesakes
  <2>2. Max(Namesakes(n)) \in Namesakes(n)
    BY <1>1, <2>1, MaxFacts
  <2> QED
    BY <2>1, <2>2
<1>3. \A n \in DOMAIN ds : lasts[n] \in ToSet(ds)
  BY <1>2 DEF ToSet
<1>4. firsts \in SUBSET DOMAIN lasts /\ DOMAIN lasts = 1 .. Len(ds)
  BY <1>1
<1>5. lasts = [k \in 1 .. Len(ds) |-> lasts[k]]
  BY <1>1
<1>6. ByName(ds) = a
  BY DEF ByName
<1> HIDE DEF lasts, firsts
<1>7. IsSequence(lasts)
  BY <1>1, <1>4, <1>5, SequenceBuilt
<1>8. IsSequence(a) /\ \A d \in ToSet(a) : d \in ToSet(lasts)
  BY <1>4, <1>7, KeptFacts
<1>9. \A d \in ToSet(lasts) : d \in ToSet(ds)
  BY <1>1, <1>3, <1>4 DEF ToSet
<1> HIDE DEF a
<1> QED
  BY <1>6, <1>8, <1>9

LEMMA WasteFacts ==
  ASSUME NEW n \in 1 .. 3
  PROVE  PaddingWaste(Scopes[n]) \in
           {"PADDING_WASTE_GLOBAL", "PADDING_WASTE_LOCAL", "PADDING_WASTE_SUBLOCAL"}
<1>1. /\ PaddingWaste("GLOBAL") = "PADDING_WASTE_GLOBAL"
      /\ PaddingWaste("LOCAL") = "PADDING_WASTE_LOCAL"
      /\ PaddingWaste("SUBLOCAL") = "PADDING_WASTE_SUBLOCAL"
  BY DEF PaddingWaste
<1>2. n = 1 \/ n = 2 \/ n = 3
  OBVIOUS
<1> QED
  BY <1>1, <1>2, ScopesFacts

LEMMA CheckPaddingKeeps ==
  ASSUME StorageInv, CheckPadding
  PROVE  StorageInv'
<1> DEFINE ds == DeclsOf(scope)
           s == Scopes[scope]
           primary == Where(ds, Direct)
           structures == ByName(Where(primary, IsStructure))
           advised == Where(structures, Advised)
           laid == Layout(primary)
           f == [k \in DOMAIN advised |-> Advice(advised[k])]
           g == [k \in DOMAIN advised |->
                   [kind |-> "PADDING_WASTE_STRUCT", scope |-> s, at |-> advised[k].name]]
           h == IF laid.pad = 0 /\ structures = <<>> THEN <<>>
                ELSE <<[kind |-> PaddingWaste(s), scope |-> s, at |-> primary[1].name]>>
<1>1. /\ rule = "padding" /\ layouts' = Append(layouts, laid)
      /\ advice' = advice \o f /\ issued' = (issued \o g) \o h
      /\ IF scope < 3 THEN scope' = scope + 1 /\ rule' = rule
                      ELSE scope' = 1 /\ rule' = "summary"
      /\ program' = program /\ position' = position /\ level' = level /\ rows' = rows
  <2>1. Decls = ds
    BY DEF Decls, DeclsOf
  <2> QED
    BY <2>1, ScopesFacts DEF CheckPadding
<1>2. /\ program \in Programs /\ scope \in 1 .. 3 /\ IsSequence(issued)
      /\ IsSequence(layouts) /\ IsSequence(rows) /\ IsSequence(advice)
      /\ LayoutsRight /\ RowsRight /\ AdviceRight /\ OverflowsTold
  BY DEF StorageInv, StorageTypes
<1>3. /\ IsSequence(ds) /\ \A d \in ToSet(ds) : AllDeclarations(Fields(d))
  BY <1>2, ProgramFacts DEF AllDeclarations
<1>4. IsSequence(primary) /\ ToSet(primary) \subseteq ToSet(ds)
  <2>1. PICK S \in SUBSET DOMAIN ds : primary = Arranged(ds, S, Ascending(S))
    BY <1>3, WhereDirect
  <2> QED
    BY <1>3, <2>1, KeptFacts
<1>5. IsSequence(structures) /\ ToSet(structures) \subseteq ToSet(primary)
  <2> DEFINE es == Where(primary, IsStructure)
  <2>1. IsSequence(es) /\ ToSet(es) \subseteq ToSet(primary)
    BY <1>4, WhereStructure
  <2> HIDE DEF es, primary
  <2>2. IsSequence(ByName(es)) /\ ToSet(ByName(es)) \subseteq ToSet(es)
    BY <2>1, ByNameFacts
  <2> QED
    BY <2>1, <2>2 DEF es
<1>6. /\ IsSequence(advised) /\ ToSet(advised) \subseteq ToSet(structures)
      /\ \A k \in DOMAIN advised : Advised(advised[k])
  BY <1>5, WhereAdvised
<1>7. /\ Len(advised) \in Nat /\ DOMAIN advised = 1 .. Len(advised)
      /\ \A k \in 1 .. Len(advised) : advised[k] \in ToSet(ds) /\ Advised(advised[k])
  BY <1>4, <1>5, <1>6, SequenceFacts
<1> HIDE DEF advised, structures
<1>8. IsSequence(f) /\ \A x \in ToSet(f) : Advising(x)
  <2>1. DOMAIN f = 1 .. Len(advised) /\ f = [k \in 1 .. Len(advised) |-> f[k]]
    BY <1>7
  <2>2. \A k \in 1 .. Len(advised) : Advising(f[k])
    <3> SUFFICES ASSUME NEW k \in 1 .. Len(advised) PROVE Advising(f[k])
      OBVIOUS
    <3>1. f[k] = Advice(advised[k])
      BY <1>7
    <3>2. AllDeclarations(Fields(advised[k])) /\ Advised(advised[k])
      BY <1>3, <1>7
    <3> QED
      BY <3>1, <3>2 DEF Advising
  <2> HIDE DEF f
  <2>3. IsSequence(f)
    BY <1>7, <2>1, SequenceBuilt
  <2> QED
    BY <2>1, <2>2, <2>3 DEF ToSet
<1>9. Quiet(g)
  <2>1. /\ g = [k \in 1 .. Len(advised) |-> g[k]]
        /\ \A k \in 1 .. Len(advised) : g[k].kind = "PADDING_WASTE_STRUCT"
    BY <1>7
  <2> HIDE DEF g
  <2> QED
    BY <1>7, <2>1, ManyWarnings DEF OverflowKinds
<1>10. Quiet(h)
  <2> DEFINE w == [kind |-> PaddingWaste(s), scope |-> s, at |-> primary[1].name]
  <2>1. w.kind = PaddingWaste(s)
    OBVIOUS
  <2>2. PaddingWaste(s) \in
          {"PADDING_WASTE_GLOBAL", "PADDING_WASTE_LOCAL", "PADDING_WASTE_SUBLOCAL"}
    BY <1>2, WasteFacts
  <2> HIDE DEF w
  <2>3. Quiet(<<w>>)
    BY <2>1, <2>2, OneWarning DEF OverflowKinds
  <2>4. h = <<>> \/ h = <<w>>
    BY DEF w
  <2> HIDE DEF h
  <2> QED
    BY <2>3, <2>4, NoWarning
<1> HIDE DEF f, g, h, laid, primary
<1>11. Quiet(g \o h) /\ issued' = issued \o (g \o h)
  <2>1. IsSequence(issued) /\ IsSequence(g) /\ IsSequence(h)
    BY <1>2, <1>9, <1>10 DEF Quiet
  <2>2. (issued \o g) \o h = issued \o (g \o h)
    BY <2>1 DEF IsSequence
  <2> QED
    BY <1>1, <1>9, <1>10, <2>2, QuietJoined
<1>12. \A n \in 1 .. 3 : DeclsOf(n)' = DeclsOf(n) /\ Seen(n)' = Seen(n)
  BY <1>1 DEF Seen, DeclsOf
<1>13. OverflowsTold' /\ IsSequence(issued)'
  BY <1>1, <1>2, <1>11, <1>12, ToldKeeps
<1>14. /\ IsSequence(layouts') /\ Len(layouts') = Len(layouts) + 1
       /\ \A k \in 1 .. Len(layouts) : layouts'[k] = layouts[k]
       /\ layouts'[Len(layouts) + 1] = laid
  BY <1>1, <1>2, SequenceLonger
<1>15. /\ IsSequence(advice') /\ \A n \in 1 .. Len(advice') : Advising(advice'[n])
  <2>1. IsSequence(advice') /\ ToSet(advice') = ToSet(advice) \cup ToSet(f)
    BY <1>1, <1>2, <1>8, SequenceJoined
  <2>2. \A x \in ToSet(advice) : Advising(x)
    BY <1>2, SequenceFacts DEF AdviceRight
  <2>3. \A n \in 1 .. Len(advice') : advice'[n] \in ToSet(advice')
    BY <2>1, SequenceFacts
  <2> QED
    BY <1>8, <2>1, <2>2, <2>3
<1>16. /\ scope' \in 1 .. 3
       /\ \/ rule' = "padding" /\ scope' = scope + 1
          \/ rule' = "summary" /\ scope' = 1 /\ scope = 3
  BY <1>1, <1>2
<1>17. Past = scope - 1 /\ Past' = scope /\ Summed = 0 /\ Summed' = 0
  <2>1. Past = scope - 1 /\ Summed = 0
    BY <1>1 DEF Past, Summed
  <2>2. scope \in Int
    BY <1>2
  <2>3. CASE rule' = "padding" /\ scope' = scope + 1
    <3>1. Past' = scope' - 1 /\ Summed' = 0
      BY <2>3 DEF Past, Summed
    <3> QED
      BY ONLY <2>1, <2>2, <2>3, <3>1
  <2>4. CASE rule' = "summary" /\ scope' = 1 /\ scope = 3
    <3>1. Past' = 3 /\ Summed' = scope' - 1
      BY <2>4 DEF Past, Summed
    <3> QED
      BY ONLY <2>1, <2>4, <3>1
  <2> QED
    BY <1>16, <2>3, <2>4
<1>18. StorageTypes'
  BY <1>1, <1>2, <1>13, <1>14, <1>15, <1>16 DEF StorageTypes
<1>19. LevelRight'
  BY <1>16 DEF LevelRight
<1>20. LayoutsRight'
  <2>1. laid = Layout(Where(DeclsOf(scope), Direct))
    BY DEF laid, primary
  <2>2. Len(layouts) = scope - 1
        /\ \A n \in 1 .. scope - 1 : layouts[n] = Layout(Where(DeclsOf(n), Direct))
    BY <1>2, <1>17 DEF LayoutsRight
  <2> HIDE DEF ds
  <2>3. ASSUME NEW n \in 1 .. scope
        PROVE  layouts'[n] = Layout(Where(DeclsOf(n), Direct))
    <3>1. CASE n = scope
      BY <1>2, <1>14, <2>1, <2>2, <3>1
    <3>2. CASE n # scope
      <4>1. n \in 1 .. scope - 1
        BY <1>2, <3>2
      <4> QED
        BY <1>14, <2>2, <4>1
    <3> QED
      BY <3>1, <3>2
  <2>4. \A n \in 1 .. scope : n \in 1 .. 3
    BY <1>2
  <2>5. \A n \in 1 .. scope : layouts'[n] = Layout(Where(DeclsOf(n)', Direct))
    BY <1>12, <2>3, <2>4
  <2>6. Len(layouts') = scope
    BY <1>2, <1>14, <2>2
  <2> QED
    BY <1>17, <2>5, <2>6 DEF LayoutsRight
<1>21. RowsRight'
  <2>1. Len(rows) = 0
    BY <1>2, <1>17 DEF RowsRight
  <2> QED
    BY <1>1, <1>17, <2>1 DEF RowsRight
<1>22. AdviceRight'
  BY <1>15 DEF AdviceRight
<1> QED
  BY <1>13, <1>18, <1>19, <1>20, <1>21, <1>22 DEF StorageInv

LEMMA SummariseKeeps ==
  ASSUME StorageInv, Summarise
  PROVE  StorageInv'
<1> DEFINE ds == DeclsOf(scope)
           summed == FoldLeft(Declared, EmptyLevel, ds)
<1>1. /\ rule = "summary" /\ rows' = Append(rows, summed)
      /\ IF scope < 3 THEN scope' = scope + 1 /\ rule' = rule
                      ELSE scope' = scope /\ rule' = "done"
      /\ program' = program /\ position' = position /\ level' = level
      /\ issued' = issued /\ layouts' = layouts /\ advice' = advice
  <2>1. Decls = ds
    BY DEF Decls, DeclsOf
  <2> QED
    BY <2>1, ScopesFacts DEF Summarise
<1>2. /\ program \in Programs /\ scope \in 1 .. 3 /\ IsSequence(issued)
      /\ IsSequence(layouts) /\ IsSequence(rows) /\ IsSequence(advice)
      /\ LayoutsRight /\ RowsRight /\ AdviceRight /\ OverflowsTold
  BY DEF StorageInv, StorageTypes
<1>3. summed = Levels(ds)[Len(ds)]
  BY <1>2, ProgramFacts, LevelsFacts DEF LevelsMet
<1> HIDE DEF summed
<1>4. /\ IsSequence(rows') /\ Len(rows') = Len(rows) + 1
      /\ \A k \in 1 .. Len(rows) : rows'[k] = rows[k]
      /\ rows'[Len(rows) + 1] = summed
  BY <1>1, <1>2, SequenceLonger
<1>5. /\ scope' \in 1 .. 3
      /\ (rule' = "summary" /\ scope' = scope + 1) \/ (rule' = "done" /\ scope = 3)
  BY <1>1, <1>2
<1>6. Past = 3 /\ Past' = 3 /\ Summed = scope - 1 /\ Summed' = scope
  <2>1. Past = 3 /\ Summed = scope - 1
    BY <1>1 DEF Past, Summed
  <2>2. scope \in Int
    BY <1>2
  <2>3. CASE rule' = "summary" /\ scope' = scope + 1
    <3>1. Past' = 3 /\ Summed' = scope' - 1
      BY <2>3 DEF Past, Summed
    <3> QED
      BY ONLY <2>1, <2>2, <2>3, <3>1
  <2>4. CASE rule' = "done" /\ scope = 3
    <3>1. Past' = 3 /\ Summed' = 3
      BY <2>4 DEF Past, Summed
    <3> QED
      BY ONLY <2>1, <2>4, <3>1
  <2> QED
    BY <1>5, <2>3, <2>4
<1>7. \A n \in 1 .. 3 : DeclsOf(n)' = DeclsOf(n) /\ Seen(n)' = Seen(n)
  BY <1>1, <1>5 DEF Seen, DeclsOf
<1>8. OverflowsTold'
  BY <1>1, <1>2, <1>7 DEF OverflowsTold
<1>9. StorageTypes'
  BY <1>1, <1>2, <1>4, <1>5 DEF StorageTypes
<1>10. LevelRight'
  BY <1>5 DEF LevelRight
<1>11. LayoutsRight'
  BY <1>1, <1>2, <1>6, <1>7 DEF LayoutsRight
<1>12. RowsRight'
  <2>1. Len(rows) = scope - 1
        /\ \A n \in 1 .. scope - 1 : rows[n] = Levels(DeclsOf(n))[Len(DeclsOf(n))]
    BY <1>2, <1>6 DEF RowsRight
  <2>2. ASSUME NEW n \in 1 .. scope
        PROVE  rows'[n] = Levels(DeclsOf(n))[Len(DeclsOf(n))]
    <3>1. CASE n = scope
      BY <1>2, <1>3, <1>4, <2>1, <3>1
    <3>2. CASE n # scope
      <4>1. n \in 1 .. scope - 1
        BY <1>2, <3>2
      <4> QED
        BY <1>4, <2>1, <4>1
    <3> QED
      BY <3>1, <3>2
  <2>3. \A n \in 1 .. scope : n \in 1 .. 3
    BY <1>2
  <2>4. \A n \in 1 .. scope : rows'[n] = Levels(DeclsOf(n)')[Len(DeclsOf(n)')]
    BY <1>7, <2>2, <2>3
  <2>5. Len(rows') = scope
    BY <1>2, <1>4, <2>1
  <2> QED
    BY <1>6, <2>4, <2>5 DEF RowsRight
<1>13. AdviceRight'
  BY <1>1, <1>2 DEF AdviceRight
<1> QED
  BY <1>8, <1>9, <1>10, <1>11, <1>12, <1>13 DEF StorageInv

LEMMA StorageKeeps ==
  ASSUME StorageInv, [StorageNext]_storageVars
  PROVE  StorageInv'
<1>1. CASE Declare
  BY <1>1, DeclareKeeps
<1>2. CASE LeaveScope
  BY <1>2, LeaveScopeKeeps
<1>3. CASE CheckTemplates
  BY <1>3, CheckTemplatesKeeps
<1>4. CASE CheckPadding
  BY <1>4, CheckPaddingKeeps
<1>5. CASE Summarise
  BY <1>5, SummariseKeeps
<1>6. CASE UNCHANGED storageVars
  <2>1. /\ program' = program /\ rule' = rule /\ scope' = scope /\ position' = position
        /\ level' = level /\ issued' = issued /\ layouts' = layouts /\ advice' = advice
        /\ rows' = rows
    BY <1>6 DEF storageVars
  <2>2. StorageTypes' /\ LevelRight'
    BY <2>1 DEF StorageInv, StorageTypes, LevelRight, DeclsOf
  <2>3. \A n \in 1 .. 3 : DeclsOf(n)' = DeclsOf(n) /\ Seen(n)' = Seen(n)
    BY <2>1 DEF Seen, DeclsOf
  <2>4. Past' = Past /\ Summed' = Summed
    BY <2>1 DEF Past, Summed
  <2>5. OverflowsTold'
    BY <2>1, <2>3 DEF StorageInv, OverflowsTold
  <2>6. LayoutsRight' /\ RowsRight' /\ AdviceRight'
    <3>1. LayoutsRight /\ RowsRight /\ AdviceRight
      BY DEF StorageInv
    <3>2. \A n \in 1 .. Past : n \in 1 .. 3
      BY DEF StorageInv, StorageTypes, Past
    <3>3. \A n \in 1 .. Summed : n \in 1 .. 3
      BY DEF StorageInv, StorageTypes, Summed
    <3> QED
      BY <2>1, <2>3, <2>4, <3>1, <3>2, <3>3 DEF LayoutsRight, RowsRight, AdviceRight
  <2> QED
    BY <2>2, <2>5, <2>6 DEF StorageInv
<1> QED
  BY <1>1, <1>2, <1>3, <1>4, <1>5, <1>6 DEF StorageNext

LEMMA StorageInvHolds == StorageSpec => []StorageInv
<1>1. StorageInv /\ [StorageNext]_storageVars => StorageInv'
  BY StorageKeeps
<1> QED
  BY StorageBegins, <1>1, PTL DEF StorageSpec

LEMMA LimitFacts ==
  ASSUME NEW n \in 1 .. 3
  PROVE  Limit[Scopes[n]] \in Nat /\ COMBINED_LIMIT \in Nat
<1>1. \A s \in ToSet(Scopes) : s \in {"GLOBAL", "LOCAL", "SUBLOCAL"}
  BY DEF Scopes, ToSet
<1>2. \A s \in ToSet(Scopes) : Limit[s] \in Nat
  BY <1>1 DEF Limit
<1> QED
  BY <1>2, ScopesFacts DEF COMBINED_LIMIT

(* What the levels of one scope say of its last one, the row.              *)
LEMMA LastExceeds ==
  ASSUME NEW ds, AllDeclarations(ds), NEW limit \in Nat
  PROVE  LET final == Levels(ds)[Len(ds)]
         IN  /\ final.primary > limit => Exceeds(ds, limit, Len(ds))
             /\ Combined(final) > COMBINED_LIMIT => Exceeds32K(ds, Len(ds))
             /\ NoneTakesAway(ds) =>
                  /\ Exceeds(ds, limit, Len(ds)) => final.primary > limit
                  /\ Exceeds32K(ds, Len(ds)) => Combined(final) > COMBINED_LIMIT
<1> DEFINE n == Len(ds)
           lv(k) == Levels(ds)[k]
<1>1. n \in Nat /\ LevelsMet(ds, Levels(ds))
  BY LevelsFacts, SequenceFacts DEF AllDeclarations
<1>2. /\ \A k \in 0 .. n : lv(k).primary \in Int /\ Combined(lv(k)) \in Int
      /\ lv(0).primary = 0 /\ Combined(lv(0)) = 0
  BY <1>1 DEF LevelsMet, ScopeLevels, Combined, EmptyLevel
<1>3. COMBINED_LIMIT = 32768
  BY DEF COMBINED_LIMIT
<1>4. NoneTakesAway(ds) =>
        \A j \in 1 .. n : lv(j).primary <= lv(n).primary /\ Combined(lv(j)) <= Combined(lv(n))
  <2> SUFFICES ASSUME NoneTakesAway(ds), NEW j \in 1 .. n
               PROVE  lv(j).primary <= lv(n).primary /\ Combined(lv(j)) <= Combined(lv(n))
    OBVIOUS
  <2>1. n \in 0 .. Len(ds) /\ j \in 0 .. n
    BY <1>1
  <2> QED
    BY <2>1, LevelsRise
<1>5. /\ Exceeds(ds, limit, n) <=> \E j \in 1 .. n : lv(j).primary > limit
      /\ Exceeds32K(ds, n) <=> \E j \in 1 .. n : Combined(lv(j)) > COMBINED_LIMIT
  BY DEF Exceeds, Exceeds32K
<1>6. n = 0 \/ n \in 1 .. n
  BY <1>1
<1>7. 1 .. n \subseteq 0 .. n /\ n \in 0 .. n
  BY <1>1
<1> DEFINE first(k) == lv(k).primary
           both(k) == Combined(lv(k))
<1>8. /\ \A k \in 0 .. n : first(k) \in Int /\ both(k) \in Int
      /\ first(0) = 0 /\ both(0) = 0
      /\ NoneTakesAway(ds) => \A j \in 1 .. n : first(j) <= first(n) /\ both(j) <= both(n)
      /\ Exceeds(ds, limit, n) <=> \E j \in 1 .. n : first(j) > limit
      /\ Exceeds32K(ds, n) <=> \E j \in 1 .. n : both(j) > COMBINED_LIMIT
  BY <1>2, <1>4, <1>5
<1> HIDE DEF first, both, n
<1>9. /\ first(n) > limit => Exceeds(ds, limit, n)
      /\ both(n) > COMBINED_LIMIT => Exceeds32K(ds, n)
      /\ NoneTakesAway(ds) =>
           /\ Exceeds(ds, limit, n) => first(n) > limit
           /\ Exceeds32K(ds, n) => both(n) > COMBINED_LIMIT
  BY <1>3, <1>6, <1>7, <1>8
<1> QED
  BY <1>9 DEF first, both, n

(* The report and the summary agree in every run over every program: the   *)
(* row format_storage_summary prints for a scope is over its limit only if *)
(* an overflow warning was issued while its declarations were counted, and *)
(* such a warning means a row over the limit unless a declaration of       *)
(* negative size took words away again.                                    *)
THEOREM OverflowsAgreeHolds == StorageSpec => []OverflowsAgree
<1>1. StorageInv => OverflowsAgree
  <2> SUFFICES ASSUME StorageInv, rule = "done", NEW n \in 1 .. 3
               PROVE  LET s == Scopes[n]
                          over == rows[n].primary > Limit[s]
                          over32K == Combined(rows[n]) > COMBINED_LIMIT /\ s # "SUBLOCAL"
                      IN  /\ over => OverWarned(Overflow(s), s)
                          /\ over32K => OverWarned("SECONDARY_OVERFLOW", s)
                          /\ NoneTakesAway(program[s]) =>
                               /\ OverWarned(Overflow(s), s) => over
                               /\ OverWarned("SECONDARY_OVERFLOW", s) => over32K
    BY ScopesFacts DEF OverflowsAgree
  <2> DEFINE s == Scopes[n]
             ds == DeclsOf(n)
             limit == Limit[s]
             final == Levels(ds)[Len(ds)]
  <2>1. AllDeclarations(ds) /\ limit \in Nat
    BY ProgramFacts, LimitFacts DEF StorageInv, StorageTypes
  <2>2. rows[n] = final
    <3>1. Summed = 3
      BY DEF Summed
    <3> QED
      BY <3>1 DEF StorageInv, RowsRight
  <2>3. program[s] = ds /\ Seen(n) = Len(ds)
    BY DEF DeclsOf, Seen
  <2>4. /\ Has(issued, Overflow(s), s) <=> Exceeds(ds, limit, Len(ds))
        /\ Has(issued, "SECONDARY_OVERFLOW", s)
             <=> s # "SUBLOCAL" /\ Exceeds32K(ds, Len(ds))
    BY <2>3 DEF StorageInv, OverflowsTold
  <2>5. \A kind : OverWarned(kind, s) <=> Has(issued, kind, s)
    BY DEF OverWarned, Has
  <2>6. /\ final.primary > limit => Exceeds(ds, limit, Len(ds))
        /\ Combined(final) > COMBINED_LIMIT => Exceeds32K(ds, Len(ds))
        /\ NoneTakesAway(ds) =>
             /\ Exceeds(ds, limit, Len(ds)) => final.primary > limit
             /\ Exceeds32K(ds, Len(ds)) => Combined(final) > COMBINED_LIMIT
    BY <2>1, LastExceeds
  <2> HIDE DEF s, ds, limit, final
  <2>7. /\ final.primary > limit => OverWarned(Overflow(s), s)
        /\ Combined(final) > COMBINED_LIMIT /\ s # "SUBLOCAL"
             => OverWarned("SECONDARY_OVERFLOW", s)
        /\ NoneTakesAway(ds) =>
             /\ OverWarned(Overflow(s), s) => final.primary > limit
             /\ OverWarned("SECONDARY_OVERFLOW", s) =>
                  Combined(final) > COMBINED_LIMIT /\ s # "SUBLOCAL"
    BY <2>4, <2>5, <2>6
  <2> QED
    BY <2>2, <2>3, <2>7 DEF s, limit
<1> QED
  BY <1>1, StorageInvHolds, PTL

(* In every run over every program the bytes that _simulate_scope_layout   *)
(* needs for the direct declarations of a scope, padding between them      *)
(* included, fit in the words that ScopeStack.declare counts for it.       *)
THEOREM LayoutFitsHolds == StorageSpec => []LayoutFits
<1>1. StorageInv => LayoutFits
  <2> SUFFICES ASSUME StorageInv, rule = "done", NEW n \in 1 .. 3,
                      Laid(program[Scopes[n]])
               PROVE  layouts[n].bytes <= 2 * rows[n].primary
    BY ScopesFacts DEF LayoutFits
  <2> DEFINE ds == DeclsOf(n)
  <2>1. AllDeclarations(ds) /\ Laid(ds)
    BY ProgramFacts DEF StorageInv, StorageTypes, DeclsOf
  <2>2. Past = 3 /\ Summed = 3
    BY DEF Past, Summed
  <2>3. layouts[n] = Layout(Where(ds, Direct)) /\ rows[n] = Levels(ds)[Len(ds)]
    BY <2>2 DEF StorageInv, LayoutsRight, RowsRight
  <2> HIDE DEF ds
  <2> QED
    BY <2>1, <2>3, DirectFit
<1> QED
  BY <1>1, StorageInvHolds, PTL

(* No advice of _suggest_reorder is worthless, for every structure of      *)
(* every program: fields laid out again in the order it gives waste no     *)
(* more than the padding it promises, which is less than they waste now,   *)
(* where each word-aligned field has two bytes or more.                    *)
THEOREM SavingsRealHolds == StorageSpec => []SavingsReal
<1>1. StorageInv => SavingsReal
  <2> SUFFICES ASSUME StorageInv, NEW n \in DOMAIN advice,
                      \A k \in DOMAIN advice[n].order :
                        Alignment(advice[n].order[k]) = 2 => ByteSize(advice[n].order[k]) > 1
               PROVE  /\ Layout(advice[n].order).pad <= advice[n].to
                      /\ advice[n].to < advice[n].from
    BY DEF SavingsReal
  <2>1. n \in 1 .. Len(advice)
    BY SequenceFacts DEF StorageInv, StorageTypes
  <2>2. Advising(advice[n])
    BY <2>1 DEF StorageInv, AdviceRight
  <2> QED
    BY <2>2, AdviceHolds
<1> QED
  BY <1>1, StorageInvHolds, PTL
===============================================================================

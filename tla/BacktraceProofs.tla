--------------------------- MODULE BacktraceProofs ---------------------------
(***************************************************************************)
(* Proofs about Backtrace for every finite set of names: its types, that   *)
(* it keeps the promise of CallPath, and that its legs are shortest.       *)
(***************************************************************************)
EXTENDS Backtrace, FiniteSetTheorems, SequenceTheorems, TLAPS

-----------------------------------------------------------------------------
(* Call graphs and paths.                                                  *)

(* Only names call and are called.                                         *)
LEMMA CallsAreNames ==
  ASSUME TypeOK
  PROVE  /\ DOMAIN graph \subseteq Names
         /\ \A n \in DOMAIN graph : graph[n] \subseteq Names
         /\ \A n : Callees(graph, n) \subseteq Names
         /\ \A n : Callers(graph, n) \subseteq Names
         /\ \A w : Known(graph, w) => w \in Names
  <1>1. PICK D \in SUBSET Names : graph \in [D -> SUBSET Names]
    BY DEF TypeOK
  <1>2. DOMAIN graph = D /\ \A n \in D : graph[n] \subseteq Names
    BY <1>1
  <1> QED
    BY <1>2 DEF Callees, Callers, Known

(* A path grows by a callee of its last frame.                             *)
LEMMA PathAppend ==
  ASSUME NEW g, NEW p \in Seq(Names), p # <<>>, IsCallPath(g, p),
         NEW t \in Names, t \in Callees(g, p[Len(p)])
  PROVE  IsCallPath(g, Append(p, t))
  <1>1. Len(Append(p, t)) = Len(p) + 1 /\ Len(p) \in Nat \ {0}
    OBVIOUS
  <1>2. \A i \in 1 .. Len(p) : Append(p, t)[i] = p[i]
    OBVIOUS
  <1>3. Append(p, t)[Len(p) + 1] = t
    OBVIOUS
  <1> SUFFICES ASSUME NEW i \in 1 .. Len(p)
               PROVE  Append(p, t)[i + 1] \in Callees(g, Append(p, t)[i])
    BY <1>1 DEF IsCallPath
  <1>4. CASE i = Len(p)
    BY <1>1, <1>2, <1>3, <1>4
  <1>5. CASE i < Len(p)
    <2>1. i \in 1 .. Len(p) - 1 /\ i + 1 \in 1 .. Len(p)
      BY <1>1, <1>5
    <2>2. p[i + 1] \in Callees(g, p[i])
      BY <2>1 DEF IsCallPath
    <2> QED
      BY <1>2, <2>1, <2>2
  <1> QED
    BY <1>1, <1>4, <1>5

(* A path grows at its front by a caller of its first frame.               *)
LEMMA PathPrepend ==
  ASSUME NEW g, NEW p \in Seq(Names), p # <<>>, IsCallPath(g, p),
         NEW c \in Names, c \in Callers(g, p[1])
  PROVE  IsCallPath(g, <<c>> \o p)
  <1> DEFINE r == <<c>> \o p
  <1>1. Len(r) = Len(p) + 1 /\ Len(p) \in Nat \ {0}
    OBVIOUS
  <1>2. r[1] = c /\ \A i \in 1 .. Len(p) : r[i + 1] = p[i]
    OBVIOUS
  <1>3. p[1] \in Callees(g, c)
    BY DEF Callers, Callees
  <1> HIDE DEF r
  <1> SUFFICES ASSUME NEW i \in 1 .. Len(p)
               PROVE  r[i + 1] \in Callees(g, r[i])
    BY <1>1 DEF IsCallPath, r
  <1>4. CASE i = 1
    BY <1>1, <1>2, <1>3, <1>4
  <1>5. CASE i > 1
    <2>1. i - 1 \in 1 .. Len(p) - 1
      BY <1>1, <1>5
    <2>2. p[(i - 1) + 1] \in Callees(g, p[i - 1])
      BY <2>1 DEF IsCallPath
    <2>3. r[i + 1] = p[i] /\ r[(i - 1) + 1] = p[i - 1]
      BY <1>1, <1>2, <2>1
    <2>4. (i - 1) + 1 = i
      OBVIOUS
    <2> QED
      BY <2>2, <2>3, <2>4
  <1> QED
    BY <1>4, <1>5

(* What the frames of joined paths are: the second loses its first frame.  *)
LEMMA JoinedFrames ==
  ASSUME NEW p \in Seq(Names), p # <<>>, NEW q \in Seq(Names), q # <<>>,
         p[Len(p)] = q[1]
  PROVE  /\ p \o Tail(q) \in Seq(Names)
         /\ Len(p \o Tail(q)) = Len(p) + Len(q) - 1
         /\ \A i \in 1 .. Len(p) : (p \o Tail(q))[i] = p[i]
         /\ \A i \in 1 .. Len(q) : (p \o Tail(q))[Len(p) + i - 1] = q[i]
  <1>1. Len(p) \in Nat \ {0} /\ Len(q) \in Nat \ {0}
    OBVIOUS
  <1>2. Tail(q) \in Seq(Names) /\ Len(Tail(q)) = Len(q) - 1
    OBVIOUS
  <1>3. \A j \in 1 .. Len(q) - 1 : Tail(q)[j] = q[j + 1]
    OBVIOUS
  <1>4. Len(p \o Tail(q)) = Len(p) + Len(q) - 1
    BY <1>1, <1>2
  <1>5. \A i \in 1 .. Len(p) : (p \o Tail(q))[i] = p[i]
    BY <1>1, <1>2
  <1>6. ASSUME NEW i \in 1 .. Len(q)
        PROVE  (p \o Tail(q))[Len(p) + i - 1] = q[i]
    <2>1. CASE i = 1
      BY <1>1, <1>5, <2>1
    <2>2. CASE i > 1
      <3>1. i - 1 \in 1 .. Len(q) - 1
        BY <1>1, <2>2
      <3>2. (p \o Tail(q))[Len(p) + (i - 1)] = Tail(q)[i - 1]
        BY <1>1, <1>2, <3>1
      <3>3. Tail(q)[i - 1] = q[(i - 1) + 1]
        BY <1>3, <3>1
      <3>4. (i - 1) + 1 = i /\ Len(p) + (i - 1) = Len(p) + i - 1
        BY <1>1
      <3> QED
        BY <3>2, <3>3, <3>4
    <2> QED
      BY <1>1, <2>1, <2>2
  <1> QED
    BY <1>2, <1>4, <1>5, <1>6

(* Two call paths join where one ends and the other starts.                *)
LEMMA PathJoin ==
  ASSUME NEW g, NEW p \in Seq(Names), p # <<>>, IsCallPath(g, p),
         NEW q \in Seq(Names), q # <<>>, IsCallPath(g, q), p[Len(p)] = q[1]
  PROVE  IsCallPath(g, p \o Tail(q))
  <1> DEFINE r == p \o Tail(q)
  <1>1. Len(p) \in Nat \ {0} /\ Len(q) \in Nat \ {0}
    OBVIOUS
  <1>2. /\ Len(r) = Len(p) + Len(q) - 1
        /\ \A i \in 1 .. Len(p) : r[i] = p[i]
        /\ \A i \in 1 .. Len(q) : r[Len(p) + i - 1] = q[i]
    BY JoinedFrames
  <1> HIDE DEF r
  <1> SUFFICES ASSUME NEW i \in 1 .. Len(p) + Len(q) - 2
               PROVE  r[i + 1] \in Callees(g, r[i])
    BY <1>1, <1>2 DEF IsCallPath, r
  <1>3. CASE i < Len(p)
    <2>1. i \in 1 .. Len(p) - 1 /\ i \in 1 .. Len(p) /\ i + 1 \in 1 .. Len(p)
      BY <1>1, <1>3
    <2>2. p[i + 1] \in Callees(g, p[i])
      BY <2>1 DEF IsCallPath
    <2> QED
      BY <1>2, <2>1, <2>2
  <1>4. CASE i >= Len(p)
    <2> DEFINE j == i - Len(p) + 1
    <2>1. /\ j \in 1 .. Len(q) - 1 /\ j \in 1 .. Len(q)
          /\ j + 1 \in 1 .. Len(q)
          /\ Len(p) + j - 1 = i /\ Len(p) + (j + 1) - 1 = i + 1
      BY <1>1, <1>4
    <2> HIDE DEF j
    <2>2. q[j + 1] \in Callees(g, q[j])
      BY <2>1 DEF IsCallPath
    <2>3. r[Len(p) + j - 1] = q[j] /\ r[Len(p) + (j + 1) - 1] = q[j + 1]
      BY <1>2, <2>1
    <2> QED
      BY <2>1, <2>2, <2>3
  <1> QED
    BY <1>1, <1>3, <1>4

(* What a procedure calls directly it reaches, and what it reaches calls,  *)
(* it reaches.                                                             *)
LEMMA ReachesMore ==
  ASSUME TypeOK, NEW s, NEW n, NEW t, t \in Callees(graph, n),
         n = s \/ (n \in Names /\ Reaches(graph, s, n))
  PROVE  Reaches(graph, s, t)
  BY DEF Reaches

(* A set that holds what s calls and what its members call confines s.     *)
LEMMA Confined ==
  ASSUME NEW s, NEW t, NEW V \in SUBSET Names, Callees(graph, s) \subseteq V,
         \A n \in V : Callees(graph, n) \subseteq V, t \notin V
  PROVE  ~Reaches(graph, s, t)
  BY DEF Reaches

-----------------------------------------------------------------------------
(* Types.                                                                  *)

(* Iterating over a finite set of names takes finitely many steps.         *)
LEMMA CountNames ==
  ASSUME NEW S \in SUBSET Names
  PROVE  Cardinality(S) \in Nat
  BY BacktraceAssumption, FS_Subset, FS_CardinalityType

LEMMA TypeInit == Init => TypeOK
  <1> SUFFICES ASSUME Init PROVE TypeOK
    OBVIOUS
  <1>1. graph \in [{} -> SUBSET Names]
    BY DEF Init
  <1>2. \E D \in SUBSET Names : graph \in [D -> SUBSET Names]
    BY <1>1
  <1>3. leg \in 0 .. Len(parts)
    BY DEF Init
  <1> QED
    BY <1>2, <1>3 DEF Init, TypeOK, Phases

(* While a request is being resolved, current is the part last reached.    *)
LEMMA CurrentFrame ==
  ASSUME TypeOK, DownInv, phase \in {"leg", "search", "up"}
  PROVE  /\ down # <<>> /\ Len(down) \in Nat \ {0}
         /\ Current \in Names /\ Current = parts[leg]
         /\ down[1] \in Names /\ down[1] = parts[1]
         /\ leg \in 1 .. Len(parts) /\ Len(parts) \in Nat /\ leg + 1 \in Nat
  <1>1. leg \in 1 .. Len(parts) /\ MeetsParts(leg)
    BY DEF DownInv
  <1>2. down \in Seq(Names) /\ parts \in Seq(Words)
    BY DEF TypeOK
  <1>3. PICK f \in [1 .. leg -> 1 .. Len(down)] :
          /\ f[1] = 1 /\ f[leg] = Len(down)
          /\ \A i \in 1 .. leg : down[f[i]] = parts[i]
    BY <1>1 DEF MeetsParts
  <1>4. 1 \in 1 .. leg /\ leg \in 1 .. leg
    BY <1>1, <1>2
  <1>5. Len(down) \in 1 .. Len(down) /\ Len(down) \in Nat
    BY <1>2, <1>3, <1>4
  <1>6. down[Len(down)] = parts[leg] /\ down[1] = parts[1]
    BY <1>3, <1>4
  <1>7. down # <<>> /\ 1 \in 1 .. Len(down)
    BY <1>2, <1>5
  <1> QED
    BY <1>1, <1>2, <1>5, <1>6, <1>7 DEF Current

(* The path taken off the queue leads from current to its node.            *)
LEMMA OldestPath ==
  ASSUME TypeOK, SearchInv, Searching
  PROVE  /\ Oldest \in Seq(Names) /\ Oldest # <<>> /\ Oldest[1] = Current
         /\ IsCallPath(graph, Oldest) /\ Node \in visited /\ Node \in Names
         /\ Len(Oldest) \in Nat \ {0}
         /\ Tail(queue) \in Seq(Seq(Names))
         /\ Node = Current \/ Reaches(graph, Current, Node)
  <1>1. queue \in Seq(Seq(Names)) /\ queue # <<>>
    BY DEF TypeOK, Searching
  <1>2. 1 \in 1 .. Len(queue) /\ Oldest = queue[1] /\ Oldest \in Seq(Names)
    BY <1>1 DEF Oldest
  <1>3. GoodPath(Oldest)
    BY <1>2 DEF SearchInv, Searching
  <1>4. Tail(queue) \in Seq(Seq(Names))
    BY <1>1
  <1>5. Len(Oldest) \in Nat \ {0}
    BY <1>2, <1>3 DEF GoodPath
  <1>6. Len(Oldest) = 1 => Node = Current
    BY <1>3 DEF GoodPath, Node
  <1> QED
    BY <1>2, <1>3, <1>4, <1>5, <1>6 DEF GoodPath, Node, TypeOK

LEMMA FunctionIsSeq ==
  ASSUME NEW T, NEW n \in Nat, NEW e \in [1 .. n -> T]
  PROVE  e \in Seq(T) /\ Len(e) = n
  OBVIOUS

(* The paths one round of the search queues: the path extended by every    *)
(* member of S, in the order o.                                            *)
Extended(p, o, S) == [i \in 1 .. Cardinality(S) |-> Append(p, o[i])]

LEMMA NewPaths ==
  ASSUME NEW S \in SUBSET Names, NEW o \in Orders(S), NEW p \in Seq(Names)
  PROVE  /\ Extended(p, o, S) \in Seq(Seq(Names))
         /\ \A i \in 1 .. Len(Extended(p, o, S)) :
               o[i] \in S /\ Extended(p, o, S)[i] = Append(p, o[i])
         /\ \A x \in S : \E i \in 1 .. Len(Extended(p, o, S)) : o[i] = x
  <1> DEFINE n == Cardinality(S)
             e == Extended(p, o, S)
  <1>1. n \in Nat
    BY CountNames
  <1>2. /\ \A i \in 1 .. n : o[i] \in S
        /\ \A x \in S : \E i \in 1 .. n : o[i] = x
    BY DEF Orders
  <1> HIDE DEF n
  <1>3. \A i \in 1 .. n : o[i] \in Names
    BY <1>2
  <1>4. ASSUME NEW i \in 1 .. n PROVE Append(p, o[i]) \in Seq(Names)
    <2>1. o[i] \in Names
      BY <1>3
    <2> QED
      BY <2>1
  <1>5. e = [i \in 1 .. n |-> Append(p, o[i])]
    BY DEF n, Extended
  <1> HIDE DEF e
  <1> DEFINE T == Seq(Names)
  <1>6. e \in [1 .. n -> T] /\ \A i \in 1 .. n : e[i] = Append(p, o[i])
    BY <1>4, <1>5
  <1> HIDE DEF T
  <1>7. e \in Seq(T) /\ Len(e) = n
    BY <1>1, <1>6, FunctionIsSeq
  <1> QED
    BY <1>2, <1>6, <1>7 DEF T, n, e

LEMMA TypeStep == BacktraceInv /\ [Next]_vars => TypeOK'
  <1> SUFFICES ASSUME TypeOK, DownInv, SearchInv, QuietInv, [Next]_vars
               PROVE  TypeOK'
    BY DEF BacktraceInv
  <1> USE DEF Phases
  <1>a. /\ parts \in Seq(Words) /\ down \in Seq(Names)
        /\ queue \in Seq(Seq(Names)) /\ visited \in SUBSET Names
        /\ leg \in 0 .. Len(parts) /\ Len(parts) \in Nat
    BY DEF TypeOK
  <1>b. ASSUME GiveUp PROVE TypeOK'
    BY <1>b DEF TypeOK, GiveUp
  <1>1. ASSUME NEW n \in Names, NEW walked \in SUBSET Names,
               Declare(n, walked)
        PROVE  TypeOK'
    <2>1. PICK D \in SUBSET Names : graph \in [D -> SUBSET Names]
      BY DEF TypeOK
    <2>2. WithProc(graph, n, walked) \in [D \cup {n} -> SUBSET Names]
      BY <2>1 DEF WithProc
    <2>3. \E E \in SUBSET Names : graph' \in [E -> SUBSET Names]
      BY <1>1, <2>2 DEF Declare
    <2> QED
      BY <1>1, <2>3 DEF Declare, TypeOK
  <1>2. ASSUME NEW w \in Requests, Ask(w) PROVE TypeOK'
    <2>1. PICK k \in 0 .. MaxParts : w \in [1 .. k -> Words]
      BY DEF Requests
    <2>2. w \in Seq(Words) /\ Len(w) \in Nat
      BY <2>1, BacktraceAssumption
    <2>3. leg = 0
      BY <1>2 DEF Ask, QuietInv
    <2> QED
      BY <1>2, <2>2, <2>3 DEF Ask, TypeOK
  <1>3. CASE Reject
    BY <1>b, <1>3 DEF Reject
  <1>4. CASE Start
    <2>1. Len(parts) > 0 /\ Known(graph, parts[1])
      BY <1>4, <1>a DEF Start, Acceptable
    <2>2. parts[1] \in Names
      BY <2>1, CallsAreNames
    <2>3. <<parts[1]>> \in Seq(Names) /\ 1 \in 0 .. Len(parts)
      BY <2>1, <2>2, <1>a
    <2> QED
      BY <1>4, <2>3 DEF Start, TypeOK
  <1>5. CASE DirectCall
    <2>1. Target \in Names
      BY <1>5, CallsAreNames DEF DirectCall
    <2>2. leg + 1 \in 0 .. Len(parts)
      BY <1>5, <1>a DEF DirectCall, MoreParts
    <2>3. Append(down, Target) \in Seq(Names)
      BY <1>a, <2>1
    <2> QED
      BY <1>5, <2>2, <2>3 DEF DirectCall, TypeOK
  <1>6. CASE SamePart
    BY <1>b, <1>6 DEF SamePart
  <1>7. CASE StartSearch
    <2>1. Current \in Names
      BY <1>7, CurrentFrame DEF StartSearch, MoreParts
    <2>2. <<<<Current>>>> \in Seq(Seq(Names)) /\ {Current} \subseteq Names
      BY <2>1
    <2> QED
      BY <1>7, <2>2 DEF StartSearch, TypeOK
  <1>8. CASE Found
    <2>1. Target \in Names
      BY <1>8, CallsAreNames DEF Found
    <2>2. leg + 1 \in 0 .. Len(parts)
      BY <1>8, <1>a DEF Found, Searching, SearchInv
    <2>3. Oldest \in Seq(Names) /\ Oldest # <<>>
      BY <1>8, OldestPath DEF Found
    <2>4. down \o Append(Tail(Oldest), Target) \in Seq(Names)
      BY <1>a, <2>1, <2>3
    <2> QED
      BY <1>8, <2>2, <2>4 DEF Found, TypeOK
  <1>9. CASE Expand
    <2> DEFINE new == Callees(graph, Node) \ visited
    <2>1. new \in SUBSET Names
      BY CallsAreNames
    <2>2. PICK o \in Orders(new) :
            queue' = Tail(queue) \o
                       [i \in 1 .. Cardinality(new) |-> Append(Oldest, o[i])]
      BY <1>9 DEF Expand
    <2>3. visited' = visited \cup new
      BY <1>9 DEF Expand
    <2>4. Oldest \in Seq(Names) /\ Tail(queue) \in Seq(Seq(Names))
      BY <1>9, OldestPath DEF Expand
    <2> DEFINE more == Extended(Oldest, o, new)
    <2>5. queue' = Tail(queue) \o more
      BY <2>2 DEF Extended
    <2> HIDE DEF new
    <2>6. more \in Seq(Seq(Names))
      BY <2>1, <2>2, <2>4, NewPaths
    <2> HIDE DEF more
    <2> DEFINE T == Seq(Names)
    <2>7. Tail(queue) \in Seq(T) /\ more \in Seq(T)
      BY <2>4, <2>6
    <2> HIDE DEF T
    <2>8. Tail(queue) \o more \in Seq(T)
      BY <2>7
    <2>9. queue' \in Seq(Seq(Names))
      BY <2>5, <2>8 DEF T
    <2>10. visited' \subseteq Names
      BY <1>a, <2>1, <2>3
    <2>11. UNCHANGED <<graph, parts, phase, leg, down, up, answer>>
      BY <1>9 DEF Expand
    <2> QED
      BY <2>9, <2>10, <2>11 DEF TypeOK
  <1>10. CASE Exhausted
    BY <1>b, <1>10 DEF Exhausted
  <1>11. CASE GoUp
    <2>1. <<down[1]>> \in Seq(Names)
      BY <1>11, CurrentFrame DEF GoUp
    <2> QED
      BY <1>11, <2>1 DEF GoUp, TypeOK
  <1>12. ASSUME NEW c \in Names, Climb(c) PROVE TypeOK'
    <2>1. <<c>> \o up \in Seq(Names)
      BY DEF TypeOK
    <2> QED
      BY <1>12, <2>1 DEF Climb, TypeOK
  <1>13. CASE Stop
    <2>1. down # <<>>
      BY <1>13, CurrentFrame DEF Stop
    <2>2. up \o Tail(down) \in Seq(Names)
      BY <1>a, <2>1 DEF TypeOK
    <2> QED
      BY <1>13, <2>2 DEF Stop, TypeOK
  <1>14. CASE UNCHANGED vars
    BY <1>14 DEF vars, TypeOK
  <1> QED
    BY <1>1, <1>2, <1>3, <1>4, <1>5, <1>6, <1>7, <1>8, <1>9, <1>10, <1>11,
       <1>12, <1>13, <1>14 DEF Next, Program, Resolve

-----------------------------------------------------------------------------
(* Downwards.                                                              *)

LEMMA DownKept ==
  ASSUME DownInv, phase \in {"leg", "search", "up"},
         UNCHANGED <<graph, parts, leg, down>>
  PROVE  DownInv'
  BY DEF DownInv, Acceptable, MeetsParts, LegFound

(* down goes on to the next part: the frames before stay, the last one is  *)
(* the part.                                                               *)
LEMMA MeetsNext ==
  ASSUME TypeOK, DownInv, phase \in {"leg", "search", "up"},
         leg < Len(parts), leg' = leg + 1, parts' = parts,
         Len(down') \in Nat, Len(down') > Len(down),
         \A i \in 1 .. Len(down) : down'[i] = down[i],
         down'[Len(down')] = parts[leg + 1]
  PROVE  MeetsParts(leg)'
  <1>1. /\ leg \in 1 .. Len(parts) /\ Len(parts) \in Nat
        /\ Len(down) \in Nat \ {0}
    BY CurrentFrame
  <1>2. PICK f \in [1 .. leg -> 1 .. Len(down)] :
          /\ f[1] = 1 /\ f[leg] = Len(down)
          /\ \A i \in 1 .. leg : down[f[i]] = parts[i]
          /\ \A i \in 1 .. leg - 1 : f[i] < f[i + 1]
    BY DEF DownInv, MeetsParts
  <1> DEFINE n == leg + 1
             h == [i \in 1 .. n |-> IF i = n THEN Len(down') ELSE f[i]]
  <1>3. \A i \in 1 .. leg : i \in 1 .. n /\ i # n /\ f[i] \in 1 .. Len(down)
    BY <1>1, <1>2
  <1>4. n \in 1 .. n /\ 1 \in 1 .. leg /\ leg \in 1 .. leg /\ n - 1 = leg
    BY <1>1
  <1>5. h[n] = Len(down') /\ \A i \in 1 .. leg : h[i] = f[i]
    BY <1>3, <1>4
  <1>6. h \in [1 .. n -> 1 .. Len(down')]
    BY <1>1, <1>2
  <1> HIDE DEF h
  <1>7. h[1] = 1
    BY <1>2, <1>4, <1>5
  <1>8. ASSUME NEW i \in 1 .. n PROVE down'[h[i]] = parts[i]
    <2>1. CASE i = n
      BY <1>5, <2>1
    <2>2. CASE i # n
      <3>1. i \in 1 .. leg
        BY <1>1, <2>2
      <3> QED
        BY <1>2, <1>3, <1>5, <3>1
    <2> QED
      BY <2>1, <2>2
  <1>9. ASSUME NEW i \in 1 .. n - 1 PROVE h[i] < h[i + 1]
    <2>1. i \in 1 .. leg
      BY <1>4
    <2>2. CASE i = leg
      BY <1>1, <1>2, <1>5, <2>1, <2>2
    <2>3. CASE i # leg
      <3>1. i \in 1 .. leg - 1 /\ i + 1 \in 1 .. leg
        BY <1>1, <2>1, <2>3
      <3> QED
        BY <1>2, <1>5, <2>1, <3>1
    <2> QED
      BY <2>2, <2>3
  <1>10. leg' = n /\ parts' = parts
    OBVIOUS
  <1> HIDE DEF n
  <1> QED
    BY <1>5, <1>6, <1>7, <1>8, <1>9, <1>10 DEF MeetsParts

(* A leg is done: down has grown to a call path that ends in the target.   *)
LEMMA DownNext ==
  ASSUME TypeOK, DownInv, phase \in {"leg", "search", "up"},
         leg < Len(parts), leg' = leg + 1, UNCHANGED <<graph, parts>>,
         Len(down') \in Nat, Len(down') > Len(down),
         \A i \in 1 .. Len(down) : down'[i] = down[i],
         down'[Len(down')] = Target, IsCallPath(graph, down'),
         LegFound(Current, Target)
  PROVE  DownInv'
  <1>1. /\ leg \in 1 .. Len(parts) /\ Len(parts) \in Nat
        /\ Current = parts[leg] /\ Target = parts[leg + 1]
    BY CurrentFrame DEF Target
  <1>2. MeetsParts(leg)'
    BY <1>1, MeetsNext
  <1>3. leg' \in 1 .. Len(parts)
    BY <1>1
  <1>4. ASSUME NEW i \in 1 .. leg' - 1
        PROVE  LegFound(parts[i], parts[i + 1])
    <2>1. CASE i = leg
      BY <1>1, <2>1
    <2>2. CASE i # leg
      <3>1. i \in 1 .. leg - 1
        BY <1>1, <2>2
      <3> QED
        BY <3>1 DEF DownInv
    <2> QED
      BY <2>1, <2>2
  <1>5. Acceptable
    BY DEF DownInv
  <1>6. Acceptable'
    BY <1>5 DEF Acceptable
  <1>7. (\A i \in 1 .. leg - 1 : LegFound(parts[i], parts[i + 1]))'
    BY <1>4 DEF LegFound
  <1> QED
    BY <1>2, <1>3, <1>6, <1>7 DEF DownInv

LEMMA DownDirect == BacktraceInv /\ DirectCall => DownInv'
  <1> SUFFICES ASSUME TypeOK, DownInv, DirectCall PROVE DownInv'
    BY DEF BacktraceInv
  <1>1. /\ phase = "leg" /\ leg < Len(parts) /\ leg' = leg + 1
        /\ UNCHANGED <<graph, parts>>
        /\ down' = Append(down, Target) /\ Target \in Callees(graph, Current)
    BY DEF DirectCall, MoreParts
  <1>2. Target \in Names
    BY <1>1, CallsAreNames
  <1>3. /\ down \in Seq(Names) /\ down # <<>> /\ IsCallPath(graph, down)
        /\ Len(down) \in Nat
    BY <1>1, CurrentFrame DEF TypeOK, DownInv
  <1>4. IsCallPath(graph, down')
    BY <1>1, <1>2, <1>3, PathAppend DEF Current
  <1>5. /\ Len(down') = Len(down) + 1 /\ down'[Len(down')] = Target
        /\ \A i \in 1 .. Len(down) : down'[i] = down[i]
    BY <1>1, <1>2, <1>3
  <1>6. LegFound(Current, Target)
    BY <1>1 DEF LegFound
  <1>7. Len(down') \in Nat /\ Len(down') > Len(down)
    BY <1>3, <1>5
  <1> QED
    BY <1>1, <1>4, <1>5, <1>6, <1>7, DownNext

LEMMA DownFound == BacktraceInv /\ Found => DownInv'
  <1> SUFFICES ASSUME TypeOK, DownInv, SearchInv, Found PROVE DownInv'
    BY DEF BacktraceInv
  <1> DEFINE q == Append(Oldest, Target)
  <1>1. /\ phase = "search" /\ Searching /\ leg' = leg + 1
        /\ UNCHANGED <<graph, parts>>
        /\ down' = down \o Append(Tail(Oldest), Target)
        /\ Target \in Callees(graph, Node)
    BY DEF Found, Searching
  <1>2. leg < Len(parts) /\ Target # Current
    BY <1>1 DEF SearchInv
  <1>3. Target \in Names
    BY <1>1, CallsAreNames
  <1>4. /\ down \in Seq(Names) /\ down # <<>> /\ IsCallPath(graph, down)
        /\ Len(down) \in Nat \ {0}
    BY <1>1, CurrentFrame DEF TypeOK, DownInv
  <1>5. /\ Oldest \in Seq(Names) /\ Oldest # <<>> /\ Oldest[1] = Current
        /\ IsCallPath(graph, Oldest) /\ Node \in Names
        /\ Len(Oldest) \in Nat \ {0}
        /\ Node = Current \/ Reaches(graph, Current, Node)
    BY <1>1, OldestPath
  <1>6. IsCallPath(graph, q)
    BY <1>1, <1>3, <1>5, PathAppend DEF Node
  <1>7. /\ q \in Seq(Names) /\ q # <<>> /\ Len(q) = Len(Oldest) + 1
        /\ q[1] = Current /\ q[Len(q)] = Target
    BY <1>3, <1>5
  <1>8. down' = down \o Tail(q)
    BY <1>1, <1>5, HeadTailAppend
  <1> HIDE DEF q
  <1>9. down[Len(down)] = q[1]
    BY <1>7 DEF Current
  <1>10. IsCallPath(graph, down')
    BY <1>4, <1>6, <1>7, <1>8, <1>9, PathJoin
  <1>11. /\ Len(down') = Len(down) + Len(q) - 1
         /\ \A i \in 1 .. Len(down) : down'[i] = down[i]
         /\ \A i \in 1 .. Len(q) : down'[Len(down) + i - 1] = q[i]
    BY <1>4, <1>7, <1>8, <1>9, JoinedFrames
  <1>12. Len(q) \in 1 .. Len(q) /\ Len(q) > 1
    BY <1>5, <1>7
  <1>13. down'[Len(down')] = Target
    BY <1>7, <1>11, <1>12
  <1>14. Len(down') \in Nat /\ Len(down') > Len(down)
    BY <1>4, <1>5, <1>7, <1>11
  <1>15. Reaches(graph, Current, Target)
    BY <1>1, <1>5, ReachesMore
  <1>16. LegFound(Current, Target)
    BY <1>2, <1>15 DEF LegFound
  <1> QED
    BY <1>1, <1>2, <1>10, <1>11, <1>13, <1>14, <1>16, DownNext

LEMMA DownStart == BacktraceInv /\ Start => DownInv'
  <1> SUFFICES ASSUME TypeOK, Start PROVE DownInv'
    BY DEF BacktraceInv
  <1>1. /\ Acceptable /\ down' = <<parts[1]>> /\ leg' = 1
        /\ UNCHANGED <<graph, parts>>
    BY DEF Start
  <1>2. parts # <<>> /\ parts \in Seq(Words)
    BY <1>1 DEF Acceptable, TypeOK
  <1>3. leg' \in 1 .. Len(parts)
    BY <1>1, <1>2
  <1>4. Len(down') = 1 /\ down'[1] = parts[1]
    BY <1>1
  <1>5. MeetsParts(leg)'
    <2> DEFINE f == [i \in {1} |-> 1]
    <2>1. f \in [1 .. 1 -> 1 .. 1] /\ f[1] = 1
      BY SMT
    <2> HIDE DEF f
    <2>2. \A i \in 1 .. 1 : down'[f[i]] = parts[i]
      BY <1>4, <2>1
    <2>3. \A i \in 1 .. 1 - 1 : f[i] < f[i + 1]
      OBVIOUS
    <2> QED
      BY <1>1, <1>4, <2>1, <2>2, <2>3 DEF MeetsParts
  <1>6. IsCallPath(graph, down)'
    BY <1>4 DEF IsCallPath
  <1>7. Acceptable'
    BY <1>1 DEF Acceptable
  <1>8. (\A i \in 1 .. leg - 1 : LegFound(parts[i], parts[i + 1]))'
    BY <1>1
  <1> QED
    BY <1>1, <1>3, <1>5, <1>6, <1>7, <1>8 DEF DownInv

LEMMA DownStep == BacktraceInv /\ [Next]_vars => DownInv'
  <1> SUFFICES ASSUME BacktraceInv, [Next]_vars PROVE DownInv'
    OBVIOUS
  <1>a. DownInv
    BY DEF BacktraceInv
  <1>b. ASSUME GiveUp PROVE DownInv'
    BY <1>b DEF DownInv, GiveUp
  <1>1. ASSUME NEW n \in Names, NEW walked \in SUBSET Names,
               Declare(n, walked)
        PROVE  DownInv'
    BY <1>1 DEF Declare, DownInv
  <1>2. ASSUME NEW w \in Requests, Ask(w) PROVE DownInv'
    BY <1>2 DEF Ask, DownInv
  <1>3. CASE Reject
    BY <1>b, <1>3 DEF Reject
  <1>4. CASE Start
    BY <1>4, DownStart
  <1>5. CASE DirectCall
    BY <1>5, DownDirect
  <1>6. CASE SamePart
    BY <1>b, <1>6 DEF SamePart
  <1>7. CASE StartSearch
    BY <1>a, <1>7, DownKept DEF StartSearch, MoreParts
  <1>8. CASE Found
    BY <1>8, DownFound
  <1>9. CASE Expand
    <2>1. phase = "search" /\ UNCHANGED <<graph, parts, leg, down>>
      BY <1>9 DEF Expand, Searching
    <2> QED
      BY <1>a, <2>1, DownKept
  <1>10. CASE Exhausted
    BY <1>b, <1>10 DEF Exhausted
  <1>11. CASE GoUp
    BY <1>a, <1>11, DownKept DEF GoUp
  <1>12. ASSUME NEW c \in Names, Climb(c) PROVE DownInv'
    BY <1>a, <1>12, DownKept DEF Climb
  <1>13. CASE Stop
    BY <1>13 DEF Stop, DownInv
  <1>14. CASE UNCHANGED vars
    BY <1>a, <1>14 DEF vars, DownInv, Acceptable, MeetsParts, LegFound
  <1> QED
    BY <1>1, <1>2, <1>3, <1>4, <1>5, <1>6, <1>7, <1>8, <1>9, <1>10, <1>11,
       <1>12, <1>13, <1>14 DEF Next, Program, Resolve

-----------------------------------------------------------------------------
(* The search.                                                             *)

(* A queue after its head is taken and e is added at its end.              *)
LEMMA DropAndAdd ==
  ASSUME NEW T, NEW s \in Seq(T), s # <<>>, NEW e \in Seq(T)
  PROVE  /\ Len(s) \in Nat \ {0} /\ Len(e) \in Nat
         /\ Len(Tail(s) \o e) = Len(s) - 1 + Len(e)
         /\ \A i \in 1 .. Len(s) - 1 : (Tail(s) \o e)[i] = s[i + 1]
         /\ \A i \in 1 .. Len(e) : (Tail(s) \o e)[Len(s) - 1 + i] = e[i]
  <1>1. Len(s) \in Nat \ {0} /\ Len(e) \in Nat
    OBVIOUS
  <1>2. /\ Tail(s) \in Seq(T) /\ Len(Tail(s)) = Len(s) - 1
        /\ \A i \in 1 .. Len(s) - 1 : Tail(s)[i] = s[i + 1]
    OBVIOUS
  <1>3. /\ Len(Tail(s) \o e) = Len(Tail(s)) + Len(e)
        /\ \A i \in 1 .. Len(Tail(s)) : (Tail(s) \o e)[i] = Tail(s)[i]
        /\ \A i \in 1 .. Len(e) : (Tail(s) \o e)[Len(Tail(s)) + i] = e[i]
    BY <1>1, <1>2
  <1> QED
    BY <1>1, <1>2, <1>3

(* A queued path stays good as the set of visited procedures grows.        *)
LEMMA GoodPathKept ==
  ASSUME NEW q, GoodPath(q), visited \subseteq visited',
         UNCHANGED <<graph, down>>
  PROVE  /\ q # <<>> /\ q[1] = Current' /\ IsCallPath(graph', q)
         /\ q[Len(q)] \in visited'
         /\ Len(q) > 1 => Reaches(graph', Current', q[Len(q)])
  BY DEF GoodPath, Current

(* The path to a procedure the node calls is good.                         *)
LEMMA GoodPathNew ==
  ASSUME TypeOK, SearchInv, Searching, UNCHANGED <<graph, down>>,
         NEW x \in Names, x \in Callees(graph, Node), x \in visited',
         NEW q, q = Append(Oldest, x)
  PROVE  /\ q # <<>> /\ q[1] = Current' /\ IsCallPath(graph', q)
         /\ q[Len(q)] \in visited' /\ q[Len(q)] = x
         /\ Len(q) > 1 => Reaches(graph', Current', q[Len(q)])
  <1>1. /\ Oldest \in Seq(Names) /\ Oldest # <<>> /\ Oldest[1] = Current
        /\ IsCallPath(graph, Oldest) /\ Node \in Names
        /\ Len(Oldest) \in Nat \ {0}
        /\ Node = Current \/ Reaches(graph, Current, Node)
    BY OldestPath
  <1>2. IsCallPath(graph, q)
    BY <1>1, PathAppend DEF Node
  <1>3. q # <<>> /\ q[1] = Current /\ q[Len(q)] = x
    BY <1>1
  <1>4. Reaches(graph, Current, x)
    BY <1>1, ReachesMore
  <1>5. Current' = Current /\ graph' = graph
    BY DEF Current
  <1> QED
    BY <1>2, <1>3, <1>4, <1>5

(* What Expand does to the queue: its head goes, and the head extended by  *)
(* each procedure that is new comes to its end.                            *)
LEMMA ExpandedQueue ==
  ASSUME BacktraceInv, Expand
  PROVE  \E k \in Nat :
           /\ Len(queue) = k + 1 /\ Len(queue') \in Nat /\ k <= Len(queue')
           /\ \A i \in 1 .. k : queue'[i] = queue[i + 1]
           /\ \A i \in 1 .. Len(queue') : i > k =>
                \E x \in Callees(graph, Node) \ visited : queue'[i] = Append(Oldest, x)
           /\ \A x \in Callees(graph, Node) \ visited :
                \E i \in 1 .. Len(queue') : queue'[i] = Append(Oldest, x)
  <1> DEFINE new == Callees(graph, Node) \ visited
  <1>1. TypeOK /\ SearchInv /\ Searching
    BY DEF BacktraceInv, Expand
  <1>2. PICK o \in Orders(new) :
          queue' = Tail(queue) \o
                     [i \in 1 .. Cardinality(new) |-> Append(Oldest, o[i])]
    BY DEF Expand
  <1> DEFINE more == Extended(Oldest, o, new)
  <1>3. queue' = Tail(queue) \o more
    BY <1>2 DEF Extended
  <1>4. new \in SUBSET Names
    BY <1>1, CallsAreNames
  <1>5. queue \in Seq(Seq(Names)) /\ queue # <<>> /\ Oldest \in Seq(Names)
    BY <1>1, OldestPath DEF Searching, TypeOK
  <1> DEFINE T == Seq(Names)
             k == Len(queue) - 1
  <1>6. /\ more \in Seq(T)
        /\ \A i \in 1 .. Len(more) : o[i] \in new /\ more[i] = Append(Oldest, o[i])
        /\ \A x \in new : \E i \in 1 .. Len(more) : o[i] = x
    <2> HIDE DEF new, k
    <2> QED
      BY <1>2, <1>4, <1>5, NewPaths
  <1> HIDE DEF more, T
  <1>7. /\ k \in Nat /\ Len(queue) = k + 1 /\ Len(more) \in Nat
        /\ Len(queue') = k + Len(more)
        /\ \A i \in 1 .. k : queue'[i] = queue[i + 1]
        /\ \A i \in 1 .. Len(more) : queue'[k + i] = more[i]
    <2>1. queue \in Seq(T)
      BY <1>5 DEF T
    <2> QED
      BY <1>3, <1>5, <1>6, <2>1, DropAndAdd
  <1> HIDE DEF k
  <1>8. Len(queue') \in Nat /\ k <= Len(queue')
    BY <1>7
  <1>9. ASSUME NEW i \in 1 .. Len(queue'), i > k
        PROVE  \E x \in new : queue'[i] = Append(Oldest, x)
    <2>1. i - k \in 1 .. Len(more) /\ k + (i - k) = i
      BY <1>7, <1>9
    <2>2. queue'[i] = Append(Oldest, o[i - k]) /\ o[i - k] \in new
      BY <1>6, <1>7, <2>1
    <2> QED
      BY <2>2
  <1>10. ASSUME NEW x \in new
         PROVE  \E i \in 1 .. Len(queue') : queue'[i] = Append(Oldest, x)
    <2>1. PICK j \in 1 .. Len(more) : o[j] = x
      BY <1>6
    <2>2. k + j \in 1 .. Len(queue') /\ queue'[k + j] = more[j]
      BY <1>7
    <2> QED
      BY <1>6, <2>1, <2>2
  <1> HIDE DEF new
  <1>11. /\ k \in Nat /\ Len(queue) = k + 1
         /\ \A i \in 1 .. k : queue'[i] = queue[i + 1]
    BY <1>7
  <1>12. /\ \A i \in 1 .. Len(queue') : i > k =>
              \E x \in new : queue'[i] = Append(Oldest, x)
         /\ \A x \in new : \E i \in 1 .. Len(queue') : queue'[i] = Append(Oldest, x)
    BY <1>9, <1>10
  <1> QED
    BY <1>8, <1>11, <1>12 DEF new

LEMMA SearchExpand == BacktraceInv /\ Expand => SearchInv'
  <1> SUFFICES ASSUME BacktraceInv, Expand PROVE SearchInv'
    OBVIOUS
  <1>0. TypeOK /\ SearchInv
    BY DEF BacktraceInv
  <1> DEFINE new == Callees(graph, Node) \ visited
  <1>1. /\ phase = "search" /\ Searching /\ Target \notin Callees(graph, Node)
        /\ visited' = visited \cup new
        /\ UNCHANGED <<graph, parts, phase, leg, down>>
    BY DEF Expand, Searching
  <1>2. PICK k \in Nat :
          /\ Len(queue) = k + 1 /\ Len(queue') \in Nat /\ k <= Len(queue')
          /\ \A i \in 1 .. k : queue'[i] = queue[i + 1]
          /\ \A i \in 1 .. Len(queue') : i > k =>
               \E x \in new : queue'[i] = Append(Oldest, x)
          /\ \A x \in new :
               \E i \in 1 .. Len(queue') : queue'[i] = Append(Oldest, x)
    BY ExpandedQueue
  <1>3. new \in SUBSET Names
    BY <1>0, CallsAreNames
  <1>4. queue # <<>> /\ Oldest \in Seq(Names)
    BY <1>0, <1>1, OldestPath DEF Searching
  <1>8. Current' = Current /\ Target' = Target /\ graph' = graph
    BY <1>1 DEF Current, Target
  <1>9. /\ leg < Len(parts) /\ Target # Current /\ Current \in visited
        /\ Target \notin Callees(graph, Current) /\ Target \notin visited
        /\ \A i \in 1 .. Len(queue) : GoodPath(queue[i])
        /\ \A n \in visited : Callees(graph, n) \subseteq visited \/ Pending(n)
    BY <1>0, <1>1 DEF SearchInv
  <1>10. Target \notin visited'
    BY <1>1, <1>9
  <1>11. ASSUME NEW i \in 1 .. Len(queue')
         PROVE  GoodPath(queue[i])'
    <2>1. CASE i <= k
      <3>1. i + 1 \in 1 .. Len(queue) /\ queue'[i] = queue[i + 1]
        BY <1>2, <2>1
      <3>2. GoodPath(queue[i + 1])
        BY <1>9, <3>1
      <3>3. visited \subseteq visited'
        BY <1>1
      <3> QED
        BY <1>1, <3>1, <3>2, <3>3, GoodPathKept DEF GoodPath
    <2>2. CASE i > k
      <3>1. PICK x \in new : queue'[i] = Append(Oldest, x)
        BY <1>2, <2>2
      <3>2. x \in Names /\ x \in Callees(graph, Node) /\ x \in visited'
        BY <1>1, <1>3
      <3> QED
        BY <1>0, <1>1, <3>1, <3>2, GoodPathNew DEF GoodPath
    <2> QED
      BY <1>2, <2>1, <2>2
  <1>12. ASSUME NEW n \in visited'
         PROVE  Callees(graph, n) \subseteq visited'
                \/ \E i \in 1 .. Len(queue') : queue'[i][Len(queue'[i])] = n
    <2>1. CASE n \in new
      <3>1. PICK i \in 1 .. Len(queue') : queue'[i] = Append(Oldest, n)
        BY <1>2, <2>1
      <3>2. Append(Oldest, n)[Len(Append(Oldest, n))] = n
        BY <1>4
      <3> QED
        BY <3>1, <3>2
    <2>2. CASE n \in visited /\ Callees(graph, n) \subseteq visited
      BY <1>1, <2>2
    <2>3. CASE n \in visited /\ Pending(n)
      <3>1. PICK i \in 1 .. Len(queue) : queue[i][Len(queue[i])] = n
        BY <2>3 DEF Pending
      <3>2. CASE i = 1
        <4>1. n = Node
          BY <1>4, <3>1, <3>2 DEF Node, Oldest
        <4> QED
          BY <1>1, <4>1
      <3>3. CASE i # 1
        <4>1. i - 1 \in 1 .. k /\ (i - 1) + 1 = i
          BY <1>2, <3>3
        <4>2. i - 1 \in 1 .. Len(queue') /\ queue'[i - 1] = queue[i]
          BY <1>2, <4>1
        <4> QED
          BY <3>1, <4>2
      <3> QED
        BY <3>2, <3>3
    <2> QED
      BY <1>1, <1>9, <2>1, <2>2, <2>3
  <1>13. (\A n \in visited : Callees(graph, n) \subseteq visited \/ Pending(n))'
    BY <1>8, <1>12 DEF Pending
  <1> QED
    BY <1>1, <1>8, <1>9, <1>10, <1>11, <1>13 DEF SearchInv

LEMMA SearchStart == BacktraceInv /\ StartSearch => SearchInv'
  <1> SUFFICES ASSUME TypeOK, DownInv, StartSearch PROVE SearchInv'
    BY DEF BacktraceInv
  <1>1. /\ phase = "leg" /\ leg < Len(parts) /\ queue' = <<<<Current>>>>
        /\ visited' = {Current} /\ Target # Current
        /\ Target \notin Callees(graph, Current)
        /\ UNCHANGED <<graph, parts, leg, down>>
    BY DEF StartSearch, MoreParts
  <1>2. Current' = Current /\ Target' = Target
    BY <1>1 DEF Current, Target
  <1>3. Len(queue') = 1 /\ queue'[1] = <<Current>>
    BY <1>1
  <1>4. GoodPath(<<Current>>)'
    BY <1>1, <1>2 DEF GoodPath, IsCallPath
  <1>5. (\A i \in 1 .. Len(queue) : GoodPath(queue[i]))'
    BY <1>1, <1>2, <1>3 DEF GoodPath, IsCallPath
  <1>6. Pending(Current)'
    BY <1>2, <1>3 DEF Pending
  <1>7. (\A n \in visited : Callees(graph, n) \subseteq visited \/ Pending(n))'
    BY <1>1, <1>2, <1>6
  <1> QED
    BY <1>1, <1>2, <1>5, <1>7 DEF SearchInv

LEMMA SearchStep == BacktraceInv /\ [Next]_vars => SearchInv'
  <1> SUFFICES ASSUME BacktraceInv, [Next]_vars PROVE SearchInv'
    OBVIOUS
  <1>a. SearchInv
    BY DEF BacktraceInv
  <1>b. ASSUME GiveUp PROVE SearchInv'
    BY <1>b DEF SearchInv, GiveUp
  <1>1. CASE Program
    BY <1>1 DEF Program, Declare, Ask, SearchInv
  <1>2. CASE Reject \/ SamePart \/ Exhausted
    BY <1>b, <1>2 DEF Reject, SamePart, Exhausted
  <1>3. CASE Start \/ Found \/ GoUp \/ Stop
    BY <1>3 DEF Start, Found, GoUp, Stop, SearchInv
  <1>4. CASE DirectCall
    BY <1>4 DEF DirectCall, MoreParts, SearchInv
  <1>5. CASE StartSearch
    BY <1>5, SearchStart
  <1>6. CASE Expand
    BY <1>6, SearchExpand
  <1>7. ASSUME NEW c \in Names, Climb(c) PROVE SearchInv'
    BY <1>7 DEF Climb, SearchInv
  <1>8. CASE UNCHANGED vars
    BY <1>a, <1>8 DEF vars, SearchInv, GoodPath, Pending, Current, Target
  <1> QED
    BY <1>1, <1>2, <1>3, <1>4, <1>5, <1>6, <1>7, <1>8 DEF Next, Resolve

-----------------------------------------------------------------------------
(* Upwards, and the invariant.                                             *)

LEMMA ClimbMore ==
  ASSUME TypeOK, ClimbInv, NEW c \in Names, Climb(c)
  PROVE  ClimbInv'
  <1>1. /\ leg = Len(parts) /\ up # <<>> /\ up[Len(up)] = down[1]
        /\ IsCallPath(graph, up)
        /\ \A i, j \in 1 .. Len(up) : up[i] = up[j] => i = j
        /\ c \in Callers(graph, up[1]) /\ c \notin OnPath
        /\ up' = <<c>> \o up /\ up \in Seq(Names)
        /\ UNCHANGED <<graph, parts, leg, down>>
    BY DEF Climb, ClimbInv, TypeOK
  <1>2. /\ Len(up) \in Nat \ {0} /\ Len(up') = Len(up) + 1
        /\ up'[1] = c /\ \A i \in 1 .. Len(up) : up'[i + 1] = up[i]
    BY <1>1
  <1>3. IsCallPath(graph, up')
    BY <1>1, PathPrepend
  <1>4. \A i \in 1 .. Len(up) : up[i] # c
    BY <1>1 DEF OnPath
  <1>5. \A i \in 2 .. Len(up') : i - 1 \in 1 .. Len(up) /\ up'[i] = up[i - 1]
    <2> TAKE i \in 2 .. Len(up')
    <2>1. i - 1 \in 1 .. Len(up) /\ (i - 1) + 1 = i
      BY <1>2
    <2>2. up'[(i - 1) + 1] = up[i - 1]
      BY <1>2, <2>1
    <2> QED
      BY <2>1, <2>2
  <1>6. ASSUME NEW i \in 1 .. Len(up'), NEW j \in 1 .. Len(up'),
               up'[i] = up'[j]
        PROVE  i = j
    <2>1. CASE i = 1 \/ j = 1
      BY <1>2, <1>4, <1>5, <1>6, <2>1
    <2>2. CASE i # 1 /\ j # 1
      <3>1. i \in 2 .. Len(up') /\ j \in 2 .. Len(up')
        BY <1>2, <2>2
      <3>2. up[i - 1] = up[j - 1]
        BY <1>5, <1>6, <3>1
      <3>3. i - 1 = j - 1
        BY <1>1, <1>5, <3>1, <3>2
      <3> QED
        BY <1>2, <3>3
    <2> QED
      BY <2>1, <2>2
  <1>7. up' # <<>> /\ up'[Len(up')] = down[1]
    <2>1. up'[Len(up) + 1] = up[Len(up)]
      BY <1>2
    <2> QED
      BY <1>1, <1>2, <2>1
  <1> QED
    BY <1>1, <1>3, <1>6, <1>7 DEF ClimbInv

LEMMA ClimbStep == BacktraceInv /\ [Next]_vars => ClimbInv'
  <1> SUFFICES ASSUME BacktraceInv, [Next]_vars PROVE ClimbInv'
    OBVIOUS
  <1>a. TypeOK /\ DownInv /\ ClimbInv
    BY DEF BacktraceInv
  <1>b. ASSUME GiveUp PROVE ClimbInv'
    BY <1>b DEF ClimbInv, GiveUp
  <1>1. CASE Program
    BY <1>1 DEF Program, Declare, Ask, ClimbInv
  <1>2. CASE Reject \/ SamePart \/ Exhausted
    BY <1>b, <1>2 DEF Reject, SamePart, Exhausted
  <1>3. CASE Start \/ StartSearch \/ Found \/ Stop
    BY <1>3 DEF Start, StartSearch, Found, Stop, ClimbInv
  <1>4. CASE DirectCall
    BY <1>4 DEF DirectCall, MoreParts, ClimbInv
  <1>5. CASE Expand
    BY <1>5 DEF Expand, Searching, ClimbInv
  <1>6. CASE GoUp
    <2>1. leg = Len(parts) /\ up' = <<down[1]>> /\ UNCHANGED <<parts, leg, down>>
      BY <1>6 DEF GoUp
    <2>2. IsCallPath(graph, up)'
      BY <2>1 DEF IsCallPath
    <2>3. \A i, j \in 1 .. Len(up') : up'[i] = up'[j] => i = j
      BY <2>1
    <2>4. up' # <<>> /\ up'[Len(up')] = down[1]
      BY <2>1
    <2> QED
      BY <2>1, <2>2, <2>3, <2>4 DEF ClimbInv
  <1>7. ASSUME NEW c \in Names, Climb(c) PROVE ClimbInv'
    BY <1>a, <1>7, ClimbMore
  <1>8. CASE UNCHANGED vars
    BY <1>a, <1>8 DEF vars, ClimbInv
  <1> QED
    BY <1>1, <1>2, <1>3, <1>4, <1>5, <1>6, <1>7, <1>8 DEF Next, Resolve

LEMMA QuietStep == BacktraceInv /\ [Next]_vars => QuietInv'
  BY DEF BacktraceInv, QuietInv, Next, Program, Resolve, vars, GiveUp,
         Declare, Ask, Reject, Start, DirectCall, SamePart, StartSearch,
         MoreParts, Found, Expand, Searching, Exhausted, GoUp, Climb, Stop

LEMMA InvInit == Init => BacktraceInv
  <1>1. Init => DownInv /\ SearchInv /\ ClimbInv /\ QuietInv
    BY DEF Init, DownInv, SearchInv, ClimbInv, QuietInv
  <1> QED
    BY <1>1, TypeInit DEF BacktraceInv

LEMMA InvStep == BacktraceInv /\ [Next]_vars => BacktraceInv'
  BY TypeStep, DownStep, SearchStep, ClimbStep, QuietStep DEF BacktraceInv

LEMMA Invariance == Spec => []BacktraceInv
  BY InvInit, InvStep, PTL DEF Spec

(* The resolver's state keeps its types whatever the program and the       *)
(* request (backtrace.py:78-198).                                          *)
THEOREM TypeCorrect == Spec => []TypeOK
  <1>1. BacktraceInv => TypeOK
    BY DEF BacktraceInv
  <1> QED
    BY <1>1, Invariance, PTL

-----------------------------------------------------------------------------
(* Every step keeps the promise.                                           *)

LEMMA StageOf ==
  /\ phase = "build" => Stage = "open"
  /\ phase = "done" => Stage = "answered"
  /\ phase \in {"check", "leg", "search", "up"} => Stage = "asked"
  BY DEF Stage

(* The request is resolvable when its parts are known and its legs exist.  *)
LEMMA ResolvableIs ==
  Promise!Resolvable <=>
    /\ Acceptable
    /\ \A i \in 1 .. Len(parts) - 1 : LegFound(parts[i], parts[i + 1])
  BY DEF Promise!Resolvable, Acceptable, LegFound, Promise!Leg,
         Promise!Known, Known, Promise!Callees, Callees,
         Promise!Reaches, Reaches

(* None is right as soon as the leg to be done does not exist.             *)
LEMMA NoLeg ==
  ASSUME TypeOK, DownInv, phase \in {"leg", "search"}, leg < Len(parts),
         ~LegFound(Current, Target)
  PROVE  ~Promise!Resolvable
  <1>1. leg \in 1 .. Len(parts) - 1 /\ Current = parts[leg]
    BY CurrentFrame
  <1> QED
    BY <1>1, ResolvableIs DEF Target

LEMMA RefuseSame == BacktraceInv /\ SamePart => ~Promise!Resolvable
  <1> SUFFICES ASSUME TypeOK, DownInv, SamePart PROVE ~Promise!Resolvable
    BY DEF BacktraceInv
  <1> QED
    BY NoLeg DEF SamePart, MoreParts, LegFound

LEMMA RefuseExhausted == BacktraceInv /\ Exhausted => ~Promise!Resolvable
  <1> SUFFICES ASSUME TypeOK, DownInv, SearchInv, Exhausted
               PROVE  ~Promise!Resolvable
    BY DEF BacktraceInv
  <1>1. phase = "search" /\ queue = <<>> /\ visited \in SUBSET Names
    BY DEF Exhausted, TypeOK
  <1>2. \A n : ~Pending(n)
    BY <1>1 DEF Pending
  <1>3. /\ leg < Len(parts) /\ Target \notin Callees(graph, Current)
        /\ Current \in visited /\ Target \notin visited
        /\ \A n \in visited : Callees(graph, n) \subseteq visited
    BY <1>1, <1>2 DEF SearchInv
  <1>4. ~Reaches(graph, Current, Target)
    BY <1>1, <1>3, Confined
  <1> QED
    BY <1>1, <1>3, <1>4, NoLeg DEF LegFound

(* The frames of the answer: the climb, then down without its first frame. *)
LEMMA AnswerFrames ==
  ASSUME BacktraceInv, Stop
  PROVE  /\ answer' \in Seq(Names) /\ IsCallPath(graph, answer')
         /\ Len(up) \in Nat \ {0} /\ Len(down) \in Nat \ {0}
         /\ Len(answer') = Len(up) + Len(down) - 1
         /\ \A i \in 1 .. Len(up) : answer'[i] = up[i]
         /\ \A i \in 1 .. Len(down) : answer'[Len(up) + i - 1] = down[i]
  <1>1. TypeOK /\ DownInv /\ ClimbInv
    BY DEF BacktraceInv
  <1>2. phase = "up" /\ answer' = up \o Tail(down)
    BY DEF Stop
  <1>3. /\ up \in Seq(Names) /\ up # <<>> /\ up[Len(up)] = down[1]
        /\ IsCallPath(graph, up)
    BY <1>1, <1>2 DEF TypeOK, ClimbInv
  <1>4. /\ down \in Seq(Names) /\ down # <<>> /\ IsCallPath(graph, down)
        /\ Len(down) \in Nat \ {0}
    BY <1>1, <1>2, CurrentFrame DEF TypeOK, DownInv
  <1>5. IsCallPath(graph, answer')
    BY <1>2, <1>3, <1>4, PathJoin
  <1>6. Len(up) \in Nat \ {0}
    BY <1>3
  <1> QED
    BY <1>2, <1>3, <1>4, <1>5, <1>6, JoinedFrames

LEMMA AnswerVisits ==
  ASSUME BacktraceInv, Stop
  PROVE  Promise!Visits(answer', Len(up), parts)
  <1> DEFINE n == Len(parts)
             k == Len(up)
  <1>1. TypeOK /\ DownInv /\ phase = "up" /\ leg = n
    BY DEF BacktraceInv, Stop, ClimbInv
  <1>2. /\ k \in Nat \ {0} /\ Len(down) \in Nat \ {0}
        /\ Len(answer') = k + Len(down) - 1
        /\ \A i \in 1 .. Len(down) : answer'[k + i - 1] = down[i]
    BY AnswerFrames
  <1>3. n \in Nat /\ n \in 1 .. n /\ 1 \in 1 .. n
    BY <1>1, CurrentFrame
  <1>4. PICK f \in [1 .. n -> 1 .. Len(down)] :
          /\ f[1] = 1 /\ f[n] = Len(down)
          /\ \A i \in 1 .. n : down[f[i]] = parts[i]
          /\ \A i \in 1 .. n - 1 : f[i] < f[i + 1]
    BY <1>1 DEF DownInv, MeetsParts
  <1> DEFINE h == [i \in 1 .. n |-> k + f[i] - 1]
  <1> HIDE DEF n, k
  <1>5. \A i \in 1 .. n : f[i] \in 1 .. Len(down) /\ h[i] = k + f[i] - 1
    BY <1>4
  <1>6. h \in [1 .. n -> k .. Len(answer')]
    <2>1. ASSUME NEW i \in 1 .. n PROVE k + f[i] - 1 \in k .. Len(answer')
      BY <1>2, <1>5
    <2> QED
      BY <2>1
  <1> HIDE DEF h
  <1>7. h[1] = k /\ h[n] = Len(answer')
    <2>1. h[1] = k + f[1] - 1 /\ h[n] = k + f[n] - 1
      BY <1>3, <1>5
    <2>2. f[1] = 1 /\ f[n] = Len(down)
      BY <1>4
    <2> QED
      BY <1>2, <2>1, <2>2
  <1>8. \A i \in 1 .. n : answer'[h[i]] = parts[i]
    BY <1>2, <1>4, <1>5
  <1>9. ASSUME NEW i \in 1 .. n - 1 PROVE h[i] < h[i + 1]
    <2>1. i \in 1 .. n /\ i + 1 \in 1 .. n
      BY <1>3
    <2>2. f[i] < f[i + 1] /\ f[i] \in Nat /\ f[i + 1] \in Nat
      BY <1>4, <1>5, <2>1
    <2>3. h[i] = k + f[i] - 1 /\ h[i + 1] = k + f[i + 1] - 1
      BY <1>5, <2>1
    <2> QED
      BY <1>2, <2>2, <2>3
  <1> QED
    BY <1>6, <1>7, <1>8, <1>9 DEF Promise!Visits, n, k

LEMMA AnswerClimbs ==
  ASSUME BacktraceInv, Stop
  PROVE  Promise!ClimbedTo(answer', Len(up))
  <1>1. /\ Len(up) \in Nat \ {0}
        /\ \A i \in 1 .. Len(up) : answer'[i] = up[i]
    BY AnswerFrames
  <1>2. /\ \A i, j \in 1 .. Len(up) : up[i] = up[j] => i = j
        /\ Callers(graph, up[1]) \subseteq OnPath
    BY DEF BacktraceInv, ClimbInv, Stop
  <1>3. 1 \in 1 .. Len(up)
    BY <1>1
  <1>4. \A x : Promise!Callers(graph, x) = Callers(graph, x)
    BY DEF Promise!Callers, Callers
  <1>5. OnPath = {answer'[i] : i \in 1 .. Len(up)}
    BY <1>1 DEF OnPath
  <1> QED
    BY <1>1, <1>2, <1>3, <1>4, <1>5
    DEF Promise!ClimbedTo, Promise!Root, Promise!CutShort

LEMMA StopAnswers ==
  BacktraceInv /\ Stop => Promise!Resolvable /\ Promise!Answers(answer')
  <1> SUFFICES ASSUME BacktraceInv, Stop
               PROVE  Promise!Resolvable /\ Promise!Answers(answer')
    OBVIOUS
  <1>1. Promise!Resolvable
    BY ResolvableIs DEF BacktraceInv, Stop, DownInv, ClimbInv
  <1>2. /\ answer' \in Seq(Names) /\ IsCallPath(graph, answer')
        /\ Len(up) \in 1 .. Len(answer')
    BY AnswerFrames
  <1>3. Promise!IsCallPath(graph, answer')
    BY <1>2 DEF Promise!IsCallPath, IsCallPath, Promise!Callees, Callees
  <1> QED
    BY <1>1, <1>2, <1>3, AnswerVisits, AnswerClimbs DEF Promise!Answers

LEMMA RefineInit == Init => Promise!Init
  BY StageOf DEF Init, Promise!Init

LEMMA RefineStep ==
  BacktraceInv /\ [Next]_vars => [Promise!Next]_Promise!cvars
  <1> SUFFICES ASSUME BacktraceInv, [Next]_vars
               PROVE  Promise!Next \/ UNCHANGED Promise!cvars
    OBVIOUS
  <1>a. ASSUME phase \in {"check", "leg", "search", "up"}, GiveUp,
               ~Promise!Resolvable
        PROVE  Promise!Next
    <2>1. Stage = "asked" /\ Stage' = "answered"
      BY <1>a DEF GiveUp, Stage
    <2> QED
      BY <1>a, <2>1 DEF GiveUp, Promise!Reply, Promise!Next
  <1>b. ASSUME phase \in {"check", "leg", "search", "up"},
               phase' \in {"check", "leg", "search", "up"},
               UNCHANGED <<graph, parts, answer>>
        PROVE  UNCHANGED Promise!cvars
    BY <1>b DEF Stage, Promise!cvars
  <1>1. ASSUME NEW n \in Names, NEW walked \in SUBSET Names,
               Declare(n, walked)
        PROVE  Promise!Next
    <2>1. walked \in SUBSET Names /\ Stage = "open" /\ Stage' = "open"
      BY <1>1 DEF Declare, Stage
    <2>2. graph' = Promise!WithProc(graph, n, walked)
      BY <1>1 DEF Declare, WithProc, Promise!WithProc
    <2> QED
      BY <1>1, <2>1, <2>2 DEF Declare, Promise!Declare, Promise!Next
  <1>2. ASSUME NEW w \in Requests, Ask(w) PROVE Promise!Next
    <2>1. w \in Seq(Words)
      BY BacktraceAssumption DEF Requests
    <2>2. Stage = "open" /\ Stage' = "asked"
      BY <1>2 DEF Ask, Stage
    <2> QED
      BY <1>2, <2>1, <2>2 DEF Ask, Promise!Ask, Promise!Next
  <1>3. CASE Reject
    BY <1>a, <1>3, ResolvableIs DEF Reject
  <1>4. CASE Start
    BY <1>b, <1>4 DEF Start
  <1>5. CASE DirectCall \/ StartSearch
    BY <1>b, <1>5 DEF DirectCall, StartSearch, MoreParts
  <1>6. CASE SamePart
    BY <1>a, <1>6, RefuseSame DEF SamePart, MoreParts
  <1>7. CASE Found
    BY <1>b, <1>7 DEF Found, Searching
  <1>8. CASE Expand
    BY <1>b, <1>8 DEF Expand, Searching
  <1>9. CASE Exhausted
    BY <1>a, <1>9, RefuseExhausted DEF Exhausted
  <1>10. CASE GoUp
    BY <1>b, <1>10 DEF GoUp
  <1>11. ASSUME NEW c \in Names, Climb(c) PROVE UNCHANGED Promise!cvars
    BY <1>b, <1>11 DEF Climb
  <1>12. CASE Stop
    <2>1. Stage = "asked" /\ Stage' = "answered"
      BY <1>12 DEF Stop, Stage
    <2> QED
      BY <1>12, <2>1, StopAnswers DEF Stop, Promise!Reply, Promise!Next
  <1>13. CASE UNCHANGED vars
    BY <1>13 DEF vars, Stage, Promise!cvars
  <1> QED
    BY <1>1, <1>2, <1>3, <1>4, <1>5, <1>6, <1>7, <1>8, <1>9, <1>10, <1>11,
       <1>12, <1>13 DEF Next, Program, Resolve

(* resolve_backtrace_path implements CallPath: the answer is a call path   *)
(* through the requested procedures, from a root caller or from inside a   *)
(* cycle of callers where the climb was cut short, and None exactly when   *)
(* there is none to find (backtrace.py:78-198).                            *)
THEOREM PromiseKept == Spec => KeepsPromise
  BY RefineInit, RefineStep, Invariance, PTL
  DEF Spec, KeepsPromise, Promise!Spec

-----------------------------------------------------------------------------
(* The search finds shortest paths.                                        *)

(* There is a call path of at most k frames from current to n.             *)
Near(n, k) ==
  \E j \in 1 .. k : \E p \in [1 .. j -> Names] :
    p[1] = Current /\ p[j] = n /\ IsCallPath(graph, p)

(* What a breadth-first search keeps: the queue is in the order of its     *)
(* paths' lengths, which differ by one at most; whatever is as near as the *)
(* oldest path is long is visited; and no queued path could be shorter.    *)
BreadthInv ==
  phase = "search" =>
    /\ \A i, j \in 1 .. Len(queue) : i < j => Len(queue[i]) <= Len(queue[j])
    /\ \A j \in 1 .. Len(queue) : Len(queue[j]) <= Len(Oldest) + 1
    /\ queue # <<>> => \A n \in Names : Near(n, Len(Oldest)) => n \in visited
    /\ \A j \in 1 .. Len(queue) : ~Near(queue[j][Len(queue[j])], Len(queue[j]) - 1)

LEMMA NearFirst ==
  ASSUME NEW n, Near(n, 1)
  PROVE  n = Current
  BY DEF Near

LEMMA NearMore ==
  ASSUME NEW n, NEW k \in Nat, NEW m \in Nat, k <= m, Near(n, k)
  PROVE  Near(n, m)
  BY DEF Near

(* The last call of a path.                                                *)
LEMMA NearLast ==
  ASSUME NEW n, NEW k \in Nat, k >= 1, Near(n, k + 1), ~Near(n, k)
  PROVE  \E m \in Names : Near(m, k) /\ n \in Callees(graph, m)
  <1>1. PICK j \in 1 .. k + 1 : \E p \in [1 .. j -> Names] :
          p[1] = Current /\ p[j] = n /\ IsCallPath(graph, p)
    BY DEF Near
  <1>2. PICK p \in [1 .. j -> Names] :
          p[1] = Current /\ p[j] = n /\ IsCallPath(graph, p)
    BY <1>1
  <1>3. j \notin 1 .. k
    BY <1>2 DEF Near
  <1>4. j = k + 1
    BY <1>3
  <1> DEFINE q == [i \in 1 .. k |-> p[i]]
  <1>5. /\ \A i \in 1 .. k : i \in 1 .. j
        /\ k \in 1 .. k /\ 1 \in 1 .. k
    BY <1>4
  <1>6. q \in [1 .. k -> Names] /\ \A i \in 1 .. k : q[i] = p[i]
    BY <1>5
  <1>7. Len(p) = j /\ Len(q) = k
    <2>1. j \in Nat
      OBVIOUS
    <2> HIDE DEF q
    <2> QED
      BY <1>2, <1>6, <2>1, FunctionIsSeq
  <1> HIDE DEF q
  <1>8. \A i \in 1 .. k : p[i + 1] \in Callees(graph, p[i])
    BY <1>2, <1>4, <1>7 DEF IsCallPath
  <1>9. IsCallPath(graph, q)
    <2> SUFFICES ASSUME NEW i \in 1 .. k - 1
                 PROVE  q[i + 1] \in Callees(graph, q[i])
      BY <1>7 DEF IsCallPath
    <2>1. i \in 1 .. k /\ i + 1 \in 1 .. k
      OBVIOUS
    <2> QED
      BY <1>6, <1>8, <2>1
  <1>10. p[k] \in Names /\ Near(p[k], k)
    BY <1>2, <1>5, <1>6, <1>9 DEF Near
  <1>11. n \in Callees(graph, p[k])
    BY <1>2, <1>4, <1>5, <1>8
  <1> QED
    BY <1>10, <1>11

LEMMA BreadthStart == BacktraceInv /\ StartSearch => BreadthInv'
  <1> SUFFICES ASSUME BacktraceInv, StartSearch PROVE BreadthInv'
    OBVIOUS
  <1>1. queue' = <<<<Current>>>> /\ visited' = {Current} /\ UNCHANGED <<graph, down>>
    BY DEF StartSearch
  <1>2. Len(queue') = 1 /\ queue'[1] = <<Current>> /\ Oldest' = <<Current>>
    BY <1>1 DEF Oldest
  <1>3. Len(<<Current>>) = 1 /\ <<Current>>[1] = Current
    OBVIOUS
  <1>4. \A n, k : Near(n, k)' <=> Near(n, k)
    BY <1>1 DEF Near, Current
  <1>5. \A n : ~Near(n, 1 - 1)
    BY DEF Near
  <1>6. \A n \in Names : Near(n, 1)' => n \in visited'
    BY <1>1, <1>4, NearFirst
  <1>7. \A j \in 1 .. 1 : j = 1
    OBVIOUS
  <1>8. queue'[1] = <<Current>> /\ Len(Oldest') = 1 /\ Len(queue'[1]) = 1
    BY <1>2, <1>3
  <1>9. \A n : ~Near(n, 1 - 1)'
    BY <1>4, <1>5
  <1>10. \A i, j \in 1 .. Len(queue') : i < j => Len(queue'[i]) <= Len(queue'[j])
    BY <1>2, <1>7
  <1>11. \A j \in 1 .. Len(queue') : Len(queue'[j]) <= Len(Oldest') + 1
    BY <1>2, <1>7, <1>8
  <1>12. \A n \in Names : Near(n, Len(Oldest))' => n \in visited'
    BY <1>6, <1>8
  <1>13. \A j \in 1 .. Len(queue') : ~Near(queue[j][Len(queue[j])], Len(queue[j]) - 1)'
    BY <1>2, <1>7, <1>8, <1>9
  <1> QED
    BY <1>10, <1>11, <1>12, <1>13 DEF BreadthInv

LEMMA BreadthExpand == BacktraceInv /\ BreadthInv /\ Expand => BreadthInv'
  <1> SUFFICES ASSUME BacktraceInv, BreadthInv, Expand PROVE BreadthInv'
    OBVIOUS
  <1> DEFINE new == Callees(graph, Node) \ visited
             d == Len(Oldest)
             L(i) == Len(queue'[i])
  <1>1. /\ TypeOK /\ SearchInv /\ phase = "search" /\ Searching
        /\ visited' = visited \cup new /\ UNCHANGED <<graph, down, phase>>
        /\ TypeOK' /\ SearchInv'
    BY TypeStep, SearchExpand DEF Expand, Searching, BacktraceInv, Next, Resolve
  <1>2. PICK k \in Nat :
          /\ Len(queue) = k + 1 /\ Len(queue') \in Nat /\ k <= Len(queue')
          /\ \A i \in 1 .. k : queue'[i] = queue[i + 1]
          /\ \A i \in 1 .. Len(queue') : i > k =>
               \E x \in new : queue'[i] = Append(Oldest, x)
    BY ExpandedQueue
  <1>3. /\ Oldest \in Seq(Names) /\ d \in Nat /\ d >= 1 /\ queue # <<>>
        /\ Oldest = queue[1] /\ queue \in Seq(Seq(Names)) /\ queue' \in Seq(Seq(Names))
    BY <1>1, OldestPath DEF Oldest, Searching, TypeOK
  <1>4. /\ \A i, j \in 1 .. Len(queue) : i < j => Len(queue[i]) <= Len(queue[j])
        /\ \A j \in 1 .. Len(queue) : Len(queue[j]) <= d + 1
        /\ \A n \in Names : Near(n, d) => n \in visited
        /\ \A j \in 1 .. Len(queue) : ~Near(queue[j][Len(queue[j])], Len(queue[j]) - 1)
    BY <1>1, <1>3 DEF BreadthInv
  <1>5. \A n, m : Near(n, m)' <=> Near(n, m)
    BY <1>1 DEF Near, Current
  <1>6. new \subseteq Names
    BY <1>1, CallsAreNames
  <1> HIDE DEF d
  <1>7. ASSUME NEW i \in 1 .. k
        PROVE  /\ L(i) = Len(queue[i + 1]) /\ i + 1 \in 1 .. Len(queue)
               /\ L(i) \in Nat /\ d <= L(i) /\ L(i) <= d + 1
    <2>1. i + 1 \in 1 .. Len(queue) /\ 1 \in 1 .. Len(queue) /\ 1 < i + 1
      BY <1>2
    <2>2. Len(queue[i + 1]) \in Nat
      BY <1>3, <2>1
    <2> QED
      BY <1>2, <1>3, <1>4, <2>1, <2>2 DEF d
  <1>8. ASSUME NEW i \in 1 .. Len(queue'), i > k
        PROVE  /\ L(i) = d + 1
               /\ \E x \in new : queue'[i][L(i)] = x
    <2>1. PICK x \in new : queue'[i] = Append(Oldest, x)
      BY <1>2, <1>8
    <2>2. Len(Append(Oldest, x)) = d + 1 /\ Append(Oldest, x)[d + 1] = x
      BY <1>3, <1>6, <2>1 DEF d
    <2> QED
      BY <2>1, <2>2
  <1>9. \A i \in 1 .. Len(queue') : L(i) \in Nat /\ d <= L(i) /\ L(i) <= d + 1
    <2> TAKE i \in 1 .. Len(queue')
    <2>1. i \in 1 .. k \/ i > k
      BY <1>2
    <2>2. d + 1 \in Nat /\ d <= d + 1
      BY <1>3
    <2> QED
      BY <1>7, <1>8, <2>1, <2>2
  <1>10. ASSUME NEW i \in 1 .. Len(queue'), NEW j \in 1 .. Len(queue'), i < j
         PROVE  L(i) <= L(j)
    <2>1. CASE j \in 1 .. k
      <3>1. i \in 1 .. k /\ i + 1 < j + 1
        BY <1>2, <1>10, <2>1
      <3> QED
        BY <1>4, <1>7, <2>1, <3>1
    <2>2. CASE j > k
      BY <1>8, <1>9, <2>2
    <2> QED
      BY <1>2, <2>1, <2>2
  <1>11. ASSUME NEW j \in 1 .. Len(queue')
         PROVE  ~Near(queue'[j][L(j)], L(j) - 1)
    <2>1. CASE j \in 1 .. k
      BY <1>2, <1>4, <1>7, <2>1
    <2>2. CASE j > k
      <3>1. PICK x \in new : queue'[j][L(j)] = x
        BY <1>8, <2>2
      <3>2. x \notin visited /\ x \in Names
        BY <1>6
      <3>3. L(j) - 1 = d
        BY <1>3, <1>8, <2>2
      <3> QED
        BY <1>4, <3>1, <3>2, <3>3
    <2> QED
      BY <1>2, <2>1, <2>2
  <1>12. queue' # <<>> =>
           /\ 1 \in 1 .. Len(queue') /\ Oldest' = queue'[1] /\ Len(Oldest') = L(1)
    BY <1>3 DEF Oldest
  <1>13. ASSUME NEW j \in 1 .. Len(queue') PROVE L(j) <= Len(Oldest') + 1
    <2>1. queue' # <<>>
      BY <1>3
    <2> QED
      BY <1>3, <1>9, <1>12, <2>1
  <1>14. ASSUME queue' # <<>>, NEW n \in Names, Near(n, Len(Oldest'))
         PROVE  n \in visited'
    <2>1. Len(Oldest') = d \/ Len(Oldest') = d + 1
      BY <1>3, <1>9, <1>12, <1>14
    <2>2. CASE Near(n, d)
      BY <1>1, <1>4, <2>2
    <2>3. CASE ~Near(n, d)
      <3>1. Len(Oldest') = d + 1 /\ Near(n, d + 1)
        BY <1>14, <2>1, <2>3
      <3>2. PICK m \in Names : Near(m, d) /\ n \in Callees(graph, m)
        BY <1>3, <2>3, <3>1, NearLast
      <3>3. m \in visited'
        BY <1>1, <1>4, <3>2
      <3>4. Callees(graph, m) \subseteq visited' \/ Pending(m)'
        BY <1>1, <3>3 DEF SearchInv
      <3>5. ~Pending(m)'
        <4> SUFFICES ASSUME NEW j \in 1 .. Len(queue'), queue'[j][L(j)] = m
                     PROVE  FALSE
          BY DEF Pending
        <4>1. L(1) <= L(j)
          BY <1>9, <1>10, <1>12, <1>14
        <4>2. L(j) - 1 \in Nat /\ d <= L(j) - 1
          BY <1>3, <1>9, <1>12, <1>14, <3>1, <4>1
        <4>3. Near(m, L(j) - 1)
          BY <1>3, <3>2, <4>2, NearMore
        <4> QED
          BY <1>11, <4>3
      <3> QED
        BY <3>2, <3>4, <3>5
    <2> QED
      BY <2>2, <2>3
  <1> QED
    BY <1>5, <1>10, <1>11, <1>13, <1>14 DEF BreadthInv

LEMMA BreadthStep == BacktraceInv /\ BreadthInv /\ [Next]_vars => BreadthInv'
  <1> SUFFICES ASSUME BacktraceInv, BreadthInv, [Next]_vars PROVE BreadthInv'
    OBVIOUS
  <1>1. CASE Program
    BY <1>1 DEF Program, Declare, Ask, BreadthInv
  <1>2. CASE Reject \/ SamePart \/ Exhausted
    BY <1>2 DEF Reject, SamePart, Exhausted, GiveUp, BreadthInv
  <1>3. CASE Start \/ Found \/ GoUp \/ Stop
    BY <1>3 DEF Start, Found, GoUp, Stop, BreadthInv
  <1>4. CASE DirectCall
    BY <1>4 DEF DirectCall, MoreParts, BreadthInv
  <1>5. CASE StartSearch
    BY <1>5, BreadthStart
  <1>6. CASE Expand
    BY <1>6, BreadthExpand
  <1>7. ASSUME NEW c \in Names, Climb(c) PROVE BreadthInv'
    BY <1>7 DEF Climb, BreadthInv
  <1>8. CASE UNCHANGED vars
    BY <1>8 DEF vars, BreadthInv, Near, Current, Oldest
  <1> QED
    BY <1>1, <1>2, <1>3, <1>4, <1>5, <1>6, <1>7, <1>8 DEF Next, Resolve

ShortestStep ==
  phase = "search" /\ phase' = "leg"
    => ~ShorterPath(Current, Target, Len(down') - Len(down))

LEMMA ShortestFound == BacktraceInv /\ BreadthInv /\ [Next]_vars => ShortestStep
  <1> SUFFICES ASSUME BacktraceInv, BreadthInv, [Next]_vars,
                      phase = "search", phase' = "leg",
                      ShorterPath(Current, Target, Len(down') - Len(down))
               PROVE  FALSE
    BY DEF ShortestStep
  <1>1. Found
    BY DEF Next, Program, Resolve, vars, Declare, Ask, Reject, Start, DirectCall,
           SamePart, StartSearch, MoreParts, Expand, Exhausted, GiveUp, GoUp, Climb, Stop
  <1>2. TypeOK /\ SearchInv /\ Searching
    BY <1>1 DEF BacktraceInv, Found
  <1>3. /\ Oldest \in Seq(Names) /\ Oldest # <<>> /\ Len(Oldest) \in Nat \ {0}
        /\ down \in Seq(Names)
    BY <1>2, OldestPath DEF TypeOK
  <1>4. down' = down \o Append(Tail(Oldest), Target) /\ Target \in Names
    BY <1>1, <1>2, CallsAreNames DEF Found
  <1>5. Len(down') - Len(down) = Len(Oldest)
    <2> DEFINE tail == Append(Tail(Oldest), Target)
    <2>1. tail \in Seq(Names) /\ Len(tail) = Len(Oldest)
      BY <1>3, <1>4
    <2> HIDE DEF tail
    <2>2. Len(down \o tail) = Len(down) + Len(Oldest) /\ Len(down) \in Nat
      BY <1>3, <2>1
    <2>3. down' = down \o tail
      BY <1>4 DEF tail
    <2> QED
      BY <1>3, <2>2, <2>3
  <1>6. Near(Target, Len(Oldest))
    <2>1. \A k \in 2 .. Len(Oldest) : k \in 1 .. Len(Oldest)
      BY <1>3
    <2> QED
      BY <1>5, <2>1 DEF ShorterPath, Near
  <1>7. Target \in visited
    BY <1>2, <1>4, <1>6 DEF BreadthInv, Searching
  <1> QED
    BY <1>2, <1>7 DEF SearchInv

(* Whatever order the sets are iterated in, the call path the search adds  *)
(* between two parts is a shortest one (find_path_down,                    *)
(* backtrace.py:78-93).                                                   *)
THEOREM LegsAreShortest == Spec => ShortestLegs
  <1>1. Init => BreadthInv
    BY DEF Init, BreadthInv
  <1>2. BacktraceInv /\ BreadthInv /\ [Next]_vars => [ShortestStep]_vars
    BY ShortestFound
  <1>3. Spec => [][ShortestStep]_vars
    BY <1>1, <1>2, BreadthStep, Invariance, PTL DEF Spec
  <1> QED
    BY <1>3 DEF ShortestLegs, ShortestStep
=============================================================================

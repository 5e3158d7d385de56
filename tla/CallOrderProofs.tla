--------------------------- MODULE CallOrderProofs ---------------------------
(***************************************************************************)
(* Proofs about the two searches of CallOrder, for every call graph: one   *)
(* visited set is enough to decide recursion, and to list the callees of a *)
(* name before it.                                                         *)
(***************************************************************************)
EXTENDS CallOrder, SequenceTheorems, TLAPS

Frames == Names \X Nat

SearchType ==
  /\ calls \in [Known1 -> Seq(Names)]
  /\ phase \in {"recursion", "order", "done"}
  /\ root \in Nat \ {0}
  /\ stack \in Seq(Frames)
  /\ visited \subseteq Names
  /\ recursive \subseteq Names
  /\ order \in Seq(Names)

OnStack == {stack[k][1] : k \in 1 .. Len(stack)}

(* The names a search has put behind it: the target of _reaches is never   *)
(* one of them, the visited set holds it only as the root.                 *)
Answered == IF phase = "recursion" THEN visited \ {Declared[root]} ELSE visited

(* The calls in progress: distinct names, each reached from those below.   *)
StackInv ==
  /\ \A k \in 1 .. Len(stack) :
       /\ stack[k][1] \in visited
       /\ stack[k][2] \in 1 .. Len(CalleesOf(stack[k][1])) + 1
  /\ \A k, l \in 1 .. Len(stack) :
       k < l => /\ stack[k][1] # stack[l][1]
                /\ Reaches(Graph, stack[k][1], stack[l][1])
  /\ phase = "recursion" /\ stack # <<>> =>
       root <= Len(Declared) /\ stack[1][1] = Declared[root]

(* Callees the loops are past, and all callees of a name that was left,    *)
(* have been answered for.                                                 *)
ScannedInv ==
  phase # "recursion" \/ stack # <<>> =>
    /\ \A k \in 1 .. Len(stack) : \A j \in 1 .. stack[k][2] - 1 :
         CalleesOf(stack[k][1])[j] \in Answered
    /\ \A n \in visited \ OnStack : Callees(Graph, n) \subseteq Answered

(* The list holds the names that were left, and a callee that is not yet   *)
(* listed when its caller is, was entered before the caller and reaches it.*)
OrderInv ==
  phase # "recursion" =>
    /\ ToSet(order) = visited \ OnStack
    /\ IsInjective(order)
    /\ visited \subseteq Known1 \cup UNION {Graph[n] : n \in Known1}
    /\ \A i \in 1 .. root - 1 : i <= Len(Declared) => Declared[i] \in visited
    /\ \A i \in 1 .. Len(order) : \A m \in Callees(Graph, order[i]) :
         (\E j \in 1 .. i - 1 : order[j] = m) \/ Reaches(Graph, m, order[i])

MarkedInv ==
  phase = "recursion" =>
    /\ recursive \subseteq {Declared[i] : i \in 1 .. root - 1}
    /\ root <= Len(Declared) + 1
    /\ order = <<>>

DoneInv == phase = "done" => stack = <<>> /\ root > Len(Declared)

IInv == /\ SearchType /\ StackInv /\ ScannedInv /\ OrderInv
        /\ MarkedInv /\ DoneInv /\ RecursionExact

-----------------------------------------------------------------------------
(***************************************************************************)
(* Call graphs.                                                            *)
(***************************************************************************)

LEMMA CalleesFacts ==
  ASSUME SearchType, NEW n
  PROVE  /\ CalleesOf(n) \in Seq(Names)
         /\ Len(CalleesOf(n)) \in Nat
         /\ Callees(Graph, n) =
              {CalleesOf(n)[j] : j \in 1 .. Len(CalleesOf(n))}
         /\ Callees(Graph, n) \subseteq Names
         /\ Callees(Graph, n) \subseteq UNION {Graph[m] : m \in Known1}
<1>1. DOMAIN Graph = Known1 /\ \A m \in Known1 : Graph[m] = ToSet(calls[m])
  BY DEF Graph
<1>2. CASE n \in Known1
  <2>1. calls[n] \in Seq(Names) /\ CalleesOf(n) = calls[n]
    BY <1>2 DEF SearchType, CalleesOf
  <2>2. Callees(Graph, n) = ToSet(calls[n]) /\ Callees(Graph, n) = Graph[n]
    BY <1>1, <1>2 DEF Callees
  <2>3. Len(calls[n]) \in Nat /\ DOMAIN calls[n] = 1 .. Len(calls[n])
    BY <2>1, LenProperties
  <2>4. \A j \in 1 .. Len(calls[n]) : calls[n][j] \in Names
    BY <2>1, ElementOfSeq
  <2>5. ToSet(calls[n]) = {calls[n][j] : j \in 1 .. Len(calls[n])}
    BY <2>3 DEF ToSet
  <2> QED
    BY <1>2, <2>1, <2>2, <2>3, <2>4, <2>5
<1>3. CASE n \notin Known1
  <2>1. CalleesOf(n) = <<>> /\ Callees(Graph, n) = {}
    BY <1>1, <1>3 DEF CalleesOf, Callees
  <2> QED
    BY <2>1
<1> QED
  BY <1>2, <1>3

LEMMA DirectCall ==
  ASSUME NEW g, NEW s, NEW t \in Callees(g, s)
  PROVE  Reaches(g, s, t)
BY DEF Reaches

LEMMA CallFurther ==
  ASSUME NEW g, NEW s, NEW m, NEW t, Reaches(g, s, m), t \in Callees(g, m)
  PROVE  Reaches(g, s, t)
BY DEF Reaches

(* A set that holds what s calls and what its members call bounds what s   *)
(* reaches.                                                                *)
LEMMA ClosedSet ==
  ASSUME NEW g, NEW s, NEW t, NEW S \in SUBSET Names, t \notin S,
         Callees(g, s) \subseteq S, \A n \in S : Callees(g, n) \subseteq S
  PROVE  ~Reaches(g, s, t)
BY DEF Reaches

LEMMA DeclaredFacts ==
  /\ Len(Declared) \in Nat
  /\ DOMAIN Declared = 1 .. Len(Declared)
  /\ \A i \in 1 .. Len(Declared) : Declared[i] \in Names /\ Declared[i] \in Known1
  /\ \A i, j \in 1 .. Len(Declared) : Declared[i] = Declared[j] => i = j
  /\ \A n \in Known1 : \E i \in 1 .. Len(Declared) : n = Declared[i]
<1>1. Declared \in Seq(Names)
  BY CallOrderAssumption
<1>2. Len(Declared) \in Nat /\ DOMAIN Declared = 1 .. Len(Declared)
  BY <1>1, LenProperties
<1> QED
  BY <1>1, <1>2, ElementOfSeq, CallOrderAssumption DEF Known1

(* No step changes a call.                                                 *)
LEMMA SameCalls ==
  ASSUME calls' = calls
  PROVE  /\ Graph' = Graph
         /\ \A n : CalleesOf(n)' = CalleesOf(n)
BY DEF Graph, CalleesOf

-----------------------------------------------------------------------------
(***************************************************************************)
(* The stack.                                                              *)
(***************************************************************************)

LEMMA StackFacts ==
  ASSUME SearchType
  PROVE  /\ Len(stack) \in Nat
         /\ stack # <<>> <=> Len(stack) > 0
         /\ \A k \in 1 .. Len(stack) : /\ stack[k] \in Frames
                                       /\ stack[k] = <<stack[k][1], stack[k][2]>>
                                       /\ stack[k][1] \in Names
                                       /\ stack[k][2] \in Nat
<1>1. stack \in Seq(Frames)
  BY DEF SearchType
<1>2. Len(stack) \in Nat /\ (stack # <<>> <=> Len(stack) > 0)
  BY <1>1, EmptySeq
<1>3. \A k \in 1 .. Len(stack) : stack[k] \in Frames
  BY <1>1, ElementOfSeq
<1> QED
  BY <1>2, <1>3 DEF Frames

LEMMA TopFacts ==
  ASSUME SearchType, stack # <<>>
  PROVE  /\ Len(stack) \in Nat \ {0}
         /\ Frame = stack[Len(stack)]
         /\ Caller = stack[Len(stack)][1] /\ Caller \in Names
         /\ Frame[2] \in Nat
         /\ Frame = <<Caller, Frame[2]>>
BY StackFacts DEF Frame, Caller, Last

LEMMA FrontFacts ==
  ASSUME SearchType, stack # <<>>
  PROVE  /\ Front(stack) \in Seq(Frames)
         /\ Len(Front(stack)) = Len(stack) - 1
         /\ \A k \in 1 .. Len(stack) - 1 : Front(stack)[k] = stack[k]
<1> DEFINE n == Len(stack)
           s == SubSeq(stack, 1, n - 1)
<1>1. n \in Nat \ {0} /\ 1 \in Int /\ n - 1 \in Int
  BY TopFacts
<1>2. \A k \in 1 .. n - 1 : stack[k] \in Frames
  BY <1>1, StackFacts
<1>3. Front(stack) = s
  BY DEF Front
<1>4. /\ s \in Seq(Frames)
      /\ Len(s) = IF 1 <= n - 1 THEN n - 1 - 1 + 1 ELSE 0
      /\ \A i \in 1 .. n - 1 - 1 + 1 : s[i] = stack[1 + i - 1]
  <2> HIDE DEF n
  <2> QED
    BY <1>1, <1>2, SubSeqProperties
<1> HIDE DEF n, s
<1>5. Len(s) = n - 1 /\ \A k \in 1 .. n - 1 : s[k] = stack[k]
  BY <1>1, <1>4
<1> QED
  BY <1>3, <1>4, <1>5 DEF n

LEMMA NextCalleeFacts ==
  ASSUME SearchType, stack # <<>>
  PROVE  /\ NextCallee \in Seq(Frames)
         /\ Len(NextCallee) = Len(stack)
         /\ \A k \in 1 .. Len(stack) - 1 : NextCallee[k] = stack[k]
         /\ NextCallee[Len(stack)] = <<Caller, Frame[2] + 1>>
<1>1. <<Caller, Frame[2] + 1>> \in Frames
  BY TopFacts DEF Frames
<1> QED
  BY <1>1, FrontFacts, TopFacts, AppendProperties DEF NextCallee

(* The callee at the top of the stack, and what Exhausted says of the name *)
(* there: its loop is past every callee.                                   *)
LEMMA TopCallees ==
  ASSUME SearchType, StackInv, stack # <<>>
  PROVE  /\ Caller \in visited
         /\ HasCallee => /\ Frame[2] \in 1 .. Len(CalleesOf(Caller))
                         /\ Callee \in Names
                         /\ Callee \in Callees(Graph, Caller)
         /\ ~HasCallee => Frame[2] = Len(CalleesOf(Caller)) + 1
<1> DEFINE n == Len(stack)
<1>1. n \in 1 .. n /\ Caller = stack[n][1] /\ Frame = stack[n]
  BY TopFacts
<1>2. Caller \in visited /\ Frame[2] \in 1 .. Len(CalleesOf(Caller)) + 1
  BY <1>1 DEF StackInv
<1>3. Len(CalleesOf(Caller)) \in Nat
  BY CalleesFacts
<1>4. ASSUME HasCallee
      PROVE  /\ Frame[2] \in 1 .. Len(CalleesOf(Caller))
             /\ Callee \in Callees(Graph, Caller) /\ Callee \in Names
  <2>1. Frame[2] \in 1 .. Len(CalleesOf(Caller))
    BY <1>2, <1>3, <1>4 DEF HasCallee
  <2>2. Callee = CalleesOf(Caller)[Frame[2]]
    BY DEF Callee
  <2> QED
    BY <2>1, <2>2, CalleesFacts
<1>5. ~HasCallee => Frame[2] = Len(CalleesOf(Caller)) + 1
  BY <1>2, <1>3 DEF HasCallee
<1> QED
  BY <1>2, <1>4, <1>5

(* The stack after a round of the loop, seen frame by frame: the top frame *)
(* moves on, and a callee that was not visited is entered above it.        *)
LEMMA DescendFacts ==
  ASSUME SearchType, StackInv, Descend
  PROVE  /\ stack' \in Seq(Frames)
         /\ \A k \in 1 .. Len(stack) - 1 : stack'[k] = stack[k]
         /\ stack'[Len(stack)] = <<Caller, Frame[2] + 1>>
         /\ \/ Callee \in visited /\ Len(stack') = Len(stack)
            \/ /\ Callee \notin visited /\ Len(stack') = Len(stack) + 1
               /\ stack'[Len(stack) + 1] = <<Callee, 1>>
<1>1. stack # <<>> /\ HasCallee
  BY DEF Descend, HasCallee
<1>2. Len(stack) \in Nat \ {0} /\ <<Callee, 1>> \in Frames
  BY <1>1, TopFacts, TopCallees DEF Frames
<1>3. CASE Callee \in visited
  <2>1. stack' = NextCallee
    BY <1>3 DEF Descend
  <2> QED
    BY <1>1, <1>3, <2>1, NextCalleeFacts
<1>4. CASE Callee \notin visited
  <2>1. stack' = Append(NextCallee, <<Callee, 1>>)
    BY <1>4 DEF Descend
  <2>2. NextCallee \in Seq(Frames) /\ Len(NextCallee) = Len(stack)
    BY <1>1, NextCalleeFacts
  <2>3. /\ stack' \in Seq(Frames) /\ Len(stack') = Len(stack) + 1
        /\ \A i \in 1 .. Len(stack) : stack'[i] = NextCallee[i]
        /\ stack'[Len(stack) + 1] = <<Callee, 1>>
    BY <1>2, <2>1, <2>2, AppendProperties
  <2> QED
    BY <1>1, <1>2, <1>4, <2>3, NextCalleeFacts
<1> QED
  BY <1>3, <1>4

(* The names of the frames after a round, and the names that were left.    *)
LEMMA DescendNames ==
  ASSUME SearchType, StackInv, Descend
  PROVE  /\ \A k \in 1 .. Len(stack) : stack'[k][1] = stack[k][1]
         /\ visited' = visited \cup {Callee}
         /\ visited' \ OnStack' = visited \ OnStack
         /\ Callee \in Answered' /\ Answered \subseteq Answered'
<1>1. stack # <<>> /\ HasCallee
  BY DEF Descend, HasCallee
<1>2. Len(stack) \in Nat \ {0} /\ Caller = stack[Len(stack)][1]
  BY <1>1, TopFacts
<1>3. \A k \in 1 .. Len(stack) : stack'[k][1] = stack[k][1]
  BY <1>2, DescendFacts
<1>4. visited' = visited \cup {Callee}
  BY DEF Descend
<1>5. visited' \ OnStack' = visited \ OnStack
  <2>1. CASE Callee \in visited
    <3>1. Len(stack') = Len(stack) /\ visited' = visited
      BY <2>1, <1>4, DescendFacts
    <3> QED
      BY <1>3, <3>1 DEF OnStack
  <2>2. CASE Callee \notin visited
    <3>1. /\ Len(stack') = Len(stack) + 1
          /\ stack'[Len(stack) + 1][1] = Callee
      BY <2>2, DescendFacts
    <3>2. OnStack' = OnStack \cup {Callee}
      <4>1. 1 .. Len(stack') = (1 .. Len(stack)) \cup {Len(stack) + 1}
        BY <1>2, <3>1
      <4> QED
        BY <1>3, <3>1, <4>1 DEF OnStack
    <3> QED
      BY <1>4, <2>2, <3>2
  <2> QED
    BY <2>1, <2>2
<1>6. Callee \in Answered' /\ Answered \subseteq Answered'
  <2>1. UNCHANGED <<phase, root>> /\ (phase = "recursion" => Callee # Declared[root])
    BY DEF Descend
  <2> QED
    BY <1>4, <2>1 DEF Answered
<1> QED
  BY <1>3, <1>4, <1>5, <1>6

(* The stack after a call returned.                                        *)
LEMMA ReturnFacts ==
  ASSUME SearchType, StackInv, Exhausted, stack' = Front(stack)
  PROVE  /\ stack' \in Seq(Frames)
         /\ Len(stack') = Len(stack) - 1
         /\ \A k \in 1 .. Len(stack') : stack'[k] = stack[k]
         /\ OnStack = OnStack' \cup {Caller}
         /\ Caller \notin OnStack'
         /\ Len(stack) = 1 => OnStack' = {}
         /\ stack' = <<>> <=> Len(stack) = 1
<1>1. stack # <<>>
  BY DEF Exhausted
<1>2. Len(stack) \in Nat \ {0} /\ Caller = stack[Len(stack)][1]
  BY <1>1, TopFacts
<1>3. /\ stack' \in Seq(Frames)
      /\ Len(stack') = Len(stack) - 1
      /\ \A k \in 1 .. Len(stack') : stack'[k] = stack[k]
  BY <1>1, FrontFacts
<1>4. OnStack' = {stack[k][1] : k \in 1 .. Len(stack) - 1}
  BY <1>3 DEF OnStack
<1>5. OnStack = OnStack' \cup {Caller}
  <2>1. 1 .. Len(stack) = (1 .. Len(stack) - 1) \cup {Len(stack)}
    BY <1>2
  <2> QED
    BY <1>2, <1>4, <2>1 DEF OnStack
<1>6. Caller \notin OnStack'
  <2>1. \A k \in 1 .. Len(stack) - 1 : stack[k][1] # stack[Len(stack)][1]
    BY <1>2 DEF StackInv
  <2> QED
    BY <1>2, <1>4, <2>1
<1>7. Len(stack) = 1 => OnStack' = {}
  BY <1>4
<1>8. stack' = <<>> <=> Len(stack) = 1
  BY <1>2, <1>3, EmptySeq
<1> QED
  BY <1>3, <1>5, <1>6, <1>7, <1>8

-----------------------------------------------------------------------------
(***************************************************************************)
(* The steps.                                                              *)
(***************************************************************************)

LEMMA InitIInv == Init => IInv
<1> SUFFICES ASSUME Init PROVE IInv
  OBVIOUS
<1>1. /\ calls \in [Known1 -> SeqOf(Names, MaxOut)]
      /\ phase = "recursion" /\ root = 1
      /\ stack = <<>> /\ visited = {}
      /\ recursive = {} /\ order = <<>>
  BY DEF Init
<1>2. SeqOf(Names, MaxOut) \subseteq Seq(Names)
  BY CallOrderAssumption DEF SeqOf
<1>3. SearchType
  BY <1>1, <1>2 DEF SearchType
<1>4. Len(stack) = 0
  BY <1>1
<1>5. StackInv /\ ScannedInv /\ OrderInv /\ MarkedInv /\ DoneInv
  BY <1>1, <1>4, DeclaredFacts
     DEF StackInv, ScannedInv, OrderInv, MarkedInv, DoneInv
<1>6. RecursionExact
  BY <1>1 DEF RecursionExact
<1> QED
  BY <1>3, <1>5, <1>6 DEF IInv

LEMMA DescendStack ==
  ASSUME IInv, Descend
  PROVE  StackInv'
<1> USE DEF IInv
<1>1. /\ stack # <<>> /\ HasCallee /\ calls' = calls
      /\ UNCHANGED <<phase, root>>
  BY DEF Descend, HasCallee
<1>2. Len(stack) \in Nat \ {0} /\ Caller = stack[Len(stack)][1]
  BY <1>1, TopFacts
<1>3. /\ Frame[2] \in 1 .. Len(CalleesOf(Caller))
      /\ Callee \in Callees(Graph, Caller)
      /\ Len(CalleesOf(Caller)) \in Nat /\ Len(CalleesOf(Callee)) \in Nat
  BY <1>1, TopCallees, CalleesFacts
<1>4. ASSUME NEW k \in 1 .. Len(stack')
      PROVE  /\ stack'[k][1] \in visited'
             /\ stack'[k][2] \in 1 .. Len(CalleesOf(stack'[k][1])) + 1
  <2>1. CASE k < Len(stack)
    <3>1. k \in 1 .. Len(stack) /\ stack'[k] = stack[k]
      BY <1>2, <2>1, DescendFacts
    <3>2. /\ stack[k][1] \in visited
          /\ stack[k][2] \in 1 .. Len(CalleesOf(stack[k][1])) + 1
      BY <3>1 DEF StackInv
    <3> QED
      BY <3>1, <3>2, DescendNames
  <2>2. CASE k = Len(stack)
    <3>1. stack'[k] = <<Caller, Frame[2] + 1>> /\ Caller \in visited
      BY <1>1, <2>2, DescendFacts, TopCallees
    <3> QED
      BY <1>3, <3>1, DescendNames
  <2>3. CASE k > Len(stack)
    <3>1. stack'[k] = <<Callee, 1>>
      BY <1>2, <2>3, DescendFacts
    <3> QED
      BY <1>3, <3>1, DescendNames
  <2> QED
    BY <1>2, <2>1, <2>2, <2>3, DescendFacts
<1>5. ASSUME NEW k \in 1 .. Len(stack'), NEW l \in 1 .. Len(stack'), k < l
      PROVE  /\ stack'[k][1] # stack'[l][1]
             /\ Reaches(Graph, stack'[k][1], stack'[l][1])
  <2>1. Len(stack') \in Nat /\ k \in 1 .. Len(stack) /\ stack'[k][1] = stack[k][1]
    BY <1>2, <1>5, DescendFacts, DescendNames
  <2>2. CASE l <= Len(stack)
    <3>1. l \in 1 .. Len(stack) /\ stack'[l][1] = stack[l][1]
      BY <1>2, <2>2, DescendNames
    <3> QED
      BY <1>5, <2>1, <3>1 DEF StackInv
  <2>3. CASE l > Len(stack)
    <3>1. stack'[l][1] = Callee /\ Callee \notin visited
      BY <1>2, <2>1, <2>3, DescendFacts
    <3>2. stack[k][1] \in visited
      BY <2>1 DEF StackInv
    <3>3. CASE k = Len(stack)
      BY <1>2, <1>3, <2>1, <3>1, <3>2, <3>3, DirectCall
    <3>4. CASE k < Len(stack)
      <4>1. Reaches(Graph, stack[k][1], Caller)
        BY <1>2, <2>1, <3>4 DEF StackInv
      <4> QED
        BY <1>3, <2>1, <3>1, <3>2, <4>1, CallFurther
    <3> QED
      BY <1>2, <2>1, <3>3, <3>4
  <2> QED
    BY <1>2, <2>1, <2>2, <2>3
<1>6. phase = "recursion" => root <= Len(Declared) /\ stack'[1][1] = Declared[root]
  BY <1>1, <1>2, DescendNames DEF StackInv
<1> QED
  BY <1>1, <1>4, <1>5, <1>6, SameCalls DEF StackInv

LEMMA DescendScanned ==
  ASSUME IInv, Descend
  PROVE  ScannedInv'
<1> USE DEF IInv
<1>1. stack # <<>> /\ HasCallee /\ calls' = calls
  BY DEF Descend, HasCallee
<1>2. Len(stack) \in Nat \ {0} /\ Frame[2] \in Nat /\ Frame = stack[Len(stack)]
  BY <1>1, TopFacts
<1>3. /\ \A k \in 1 .. Len(stack) : \A j \in 1 .. stack[k][2] - 1 :
           CalleesOf(stack[k][1])[j] \in Answered
      /\ \A n \in visited \ OnStack : Callees(Graph, n) \subseteq Answered
  BY <1>1 DEF ScannedInv
<1>4. ASSUME NEW k \in 1 .. Len(stack'), NEW j \in 1 .. stack'[k][2] - 1
      PROVE  CalleesOf(stack'[k][1])[j] \in Answered'
  <2>1. CASE k < Len(stack)
    BY <1>2, <1>3, <2>1, DescendFacts, DescendNames
  <2>2. CASE k = Len(stack)
    <3>1. stack'[k] = <<Caller, Frame[2] + 1>> /\ Caller = stack[k][1]
      BY <1>1, <2>2, DescendFacts, TopFacts
    <3>2. CASE j = Frame[2]
      BY <3>1, <3>2, DescendNames DEF Callee
    <3>3. CASE j # Frame[2]
      <4>1. j \in 1 .. stack[k][2] - 1
        BY <1>2, <2>2, <3>1, <3>3
      <4> QED
        BY <1>2, <1>3, <2>2, <3>1, <4>1, DescendNames
    <3> QED
      BY <3>2, <3>3
  <2>3. CASE k > Len(stack)
    <3>1. stack'[k] = <<Callee, 1>>
      BY <1>2, <2>3, DescendFacts
    <3> QED
      BY <3>1
  <2> QED
    BY <1>2, <2>1, <2>2, <2>3, DescendFacts
<1>5. \A n \in visited' \ OnStack' : Callees(Graph, n) \subseteq Answered'
  BY <1>3, DescendNames
<1> QED
  BY <1>1, <1>4, <1>5, SameCalls DEF ScannedInv

LEMMA DescendIInv ==
  ASSUME IInv, Descend
  PROVE  IInv'
<1> USE DEF IInv
<1>1. /\ stack # <<>> /\ HasCallee /\ calls' = calls
      /\ UNCHANGED <<phase, root, recursive, order>>
  BY DEF Descend, HasCallee
<1>2. visited' = visited \cup {Callee} /\ visited' \ OnStack' = visited \ OnStack
  BY DescendNames
<1>3. SearchType'
  BY <1>1, <1>2, TopCallees, DescendFacts DEF SearchType
<1>4. OrderInv'
  <2>1. /\ Callee \in Callees(Graph, Caller)
        /\ Callees(Graph, Caller) \subseteq UNION {Graph[n] : n \in Known1}
    BY <1>1, TopCallees, CalleesFacts
  <2> QED
    BY <1>1, <1>2, <2>1, SameCalls DEF OrderInv
<1>5. MarkedInv' /\ RecursionExact'
  BY <1>1, SameCalls DEF MarkedInv, RecursionExact
<1>6. DoneInv'
  BY <1>1 DEF DoneInv
<1> QED
  BY <1>3, <1>4, <1>5, <1>6, DescendStack, DescendScanned

(* What a return keeps of the stack, whichever search it belongs to.       *)
LEMMA ReturnStack ==
  ASSUME IInv, Exhausted, stack' = Front(stack),
         UNCHANGED <<calls, phase, visited>>,
         stack' # <<>> => root' = root
  PROVE  StackInv'
<1> USE DEF IInv
<1>1. stack # <<>> /\ Len(stack) \in Nat
  BY StackFacts DEF Exhausted
<1>2. /\ Len(stack') = Len(stack) - 1
      /\ \A k \in 1 .. Len(stack') : stack'[k] = stack[k] /\ k \in 1 .. Len(stack)
  BY <1>1, ReturnFacts
<1>3. \A k \in 1 .. Len(stack') :
        /\ stack'[k][1] \in visited
        /\ stack'[k][2] \in 1 .. Len(CalleesOf(stack'[k][1])) + 1
  BY <1>2 DEF StackInv
<1>4. \A k, l \in 1 .. Len(stack') :
        k < l => /\ stack'[k][1] # stack'[l][1]
                 /\ Reaches(Graph, stack'[k][1], stack'[l][1])
  BY <1>2 DEF StackInv
<1>5. phase = "recursion" /\ stack' # <<>> =>
        root <= Len(Declared) /\ stack'[1][1] = Declared[root]
  <2> SUFFICES ASSUME phase = "recursion", stack' # <<>>
               PROVE  root <= Len(Declared) /\ stack'[1][1] = Declared[root]
    OBVIOUS
  <2>1. 1 \in 1 .. Len(stack')
    BY <1>1, <1>2, ReturnFacts
  <2>2. stack'[1] = stack[1]
    BY <1>2, <2>1
  <2> QED
    BY <1>1, <2>2 DEF StackInv
<1> QED
  BY <1>3, <1>4, <1>5, SameCalls DEF StackInv

LEMMA ReturnScanned ==
  ASSUME IInv, Exhausted, stack' = Front(stack),
         UNCHANGED <<calls, phase, visited>>
  PROVE  /\ \A k \in 1 .. Len(stack') : \A j \in 1 .. stack'[k][2] - 1 :
              CalleesOf(stack'[k][1])[j] \in Answered
         /\ \A n \in visited \ OnStack' : Callees(Graph, n) \subseteq Answered
         /\ Callees(Graph, Caller) \subseteq Answered
<1> USE DEF IInv
<1>1. stack # <<>> /\ ~HasCallee
  BY DEF Exhausted
<1>2. Len(stack) \in Nat \ {0} /\ Frame = stack[Len(stack)] /\ Caller = Frame[1]
  BY <1>1, TopFacts
<1>3. /\ \A k \in 1 .. Len(stack) : \A j \in 1 .. stack[k][2] - 1 :
           CalleesOf(stack[k][1])[j] \in Answered
      /\ \A n \in visited \ OnStack : Callees(Graph, n) \subseteq Answered
  BY <1>1 DEF ScannedInv
<1>4. \A k \in 1 .. Len(stack') : stack'[k] = stack[k] /\ k \in 1 .. Len(stack)
  BY <1>2, ReturnFacts
<1>5. Callees(Graph, Caller) \subseteq Answered
  <2>1. Frame[2] = Len(CalleesOf(Caller)) + 1 /\ Len(CalleesOf(Caller)) \in Nat
    BY <1>1, TopCallees, CalleesFacts
  <2>2. \A j \in 1 .. Len(CalleesOf(Caller)) : CalleesOf(Caller)[j] \in Answered
    BY <1>2, <1>3, <2>1
  <2> QED
    BY <2>2, CalleesFacts
<1>6. \A n \in visited \ OnStack' : Callees(Graph, n) \subseteq Answered
  BY <1>3, <1>5, ReturnFacts
<1> QED
  BY <1>3, <1>4, <1>5, <1>6

(* A search that ends with an empty stack leaves a set behind that is      *)
(* closed under calls and misses the target.                               *)
LEMMA NotFoundIInv ==
  ASSUME IInv, NotFound
  PROVE  IInv'
<1> USE DEF IInv
<1>1. /\ phase = "recursion" /\ Exhausted /\ stack' = Front(stack) /\ stack # <<>>
      /\ UNCHANGED <<calls, phase, visited, recursive, order>>
  BY DEF NotFound, Exhausted
<1>2. Len(stack) \in Nat \ {0} /\ root \in Nat \ {0}
  BY <1>1, TopFacts DEF SearchType
<1>3. root' = IF Len(stack) = 1 THEN root + 1 ELSE root
  BY DEF NotFound
<1>4. root <= Len(Declared) /\ stack[1][1] = Declared[root]
  BY <1>1 DEF StackInv
<1>5. SearchType'
  BY <1>1, <1>2, <1>3, ReturnFacts DEF SearchType
<1>6. stack' # <<>> => root' = root
  BY <1>1, <1>3, ReturnFacts
<1>7. StackInv'
  BY <1>1, <1>6, ReturnStack
<1>8. ScannedInv'
  <2>1. CASE stack' = <<>>
    BY <1>1, <2>1 DEF ScannedInv
  <2>2. CASE stack' # <<>>
    <3>1. Answered' = Answered
      BY <1>1, <1>6, <2>2 DEF Answered
    <3> QED
      BY <1>1, <3>1, ReturnScanned, SameCalls DEF ScannedInv
  <2> QED
    BY <2>1, <2>2
<1>9. MarkedInv'
  BY <1>1, <1>2, <1>3, <1>4, DeclaredFacts DEF MarkedInv
<1>10. RecursionExact'
  <2>1. CASE Len(stack) # 1
    BY <1>1, <1>3, <2>1, SameCalls DEF RecursionExact
  <2>2. CASE Len(stack) = 1
    <3> DEFINE t == Declared[root]
    <3>1. ~Reaches(Graph, t, t)
      <4>1. /\ Callees(Graph, t) \subseteq visited \ {t}
            /\ \A n \in visited : Callees(Graph, n) \subseteq visited \ {t}
        <5>1. OnStack' = {} /\ Caller = t /\ Answered = visited \ {t}
          BY <1>1, <1>4, <2>2, ReturnFacts, TopFacts DEF Answered
        <5> QED
          BY <1>1, <5>1, ReturnScanned
      <4>2. visited \ {t} \in SUBSET Names
        BY DEF SearchType
      <4> HIDE DEF t
      <4> QED
        BY <4>1, <4>2, ClosedSet
    <3>2. t \notin recursive
      BY <1>1, <1>2, <1>4, DeclaredFacts DEF MarkedInv
    <3>3. root' = root + 1
      BY <1>3, <2>2
    <3>4. ASSUME NEW i \in 1 .. Len(Declared), i < root'
          PROVE  Declared[i] \in recursive <=> Reaches(Graph, Declared[i], Declared[i])
      <4>1. CASE i = root
        BY <3>1, <3>2, <4>1
      <4>2. CASE i # root
        BY <1>2, <3>3, <3>4, <4>2 DEF RecursionExact
      <4> QED
        BY <4>1, <4>2
    <3> QED
      BY <1>1, <3>4, SameCalls DEF RecursionExact
  <2> QED
    BY <2>1, <2>2
<1>11. OrderInv' /\ DoneInv'
  BY <1>1 DEF OrderInv, DoneInv
<1> QED
  BY <1>5, <1>7, <1>8, <1>9, <1>10, <1>11

(* The target was found: the top of the stack calls it and was reached     *)
(* from it.                                                                *)
LEMMA FoundTargetIInv ==
  ASSUME IInv, FoundTarget
  PROVE  IInv'
<1> USE DEF IInv
<1> DEFINE t == Declared[root]
<1>1. /\ phase = "recursion" /\ stack # <<>> /\ HasCallee /\ Callee = t
      /\ recursive' = recursive \cup {t} /\ stack' = <<>> /\ root' = root + 1
      /\ UNCHANGED <<calls, phase, visited, order>>
  BY DEF FoundTarget, HasCallee
<1>2. Len(stack) \in Nat \ {0} /\ root \in Nat \ {0} /\ Caller = stack[Len(stack)][1]
  BY <1>1, TopFacts DEF SearchType
<1>3. root <= Len(Declared) /\ stack[1][1] = t
  BY <1>1 DEF StackInv
<1>4. Reaches(Graph, t, t)
  <2>1. t \in Callees(Graph, Caller)
    BY <1>1, TopCallees
  <2>2. CASE Len(stack) = 1
    BY <1>2, <1>3, <2>1, <2>2, DirectCall
  <2>3. CASE Len(stack) # 1
    <3> DEFINE n == Len(stack)
    <3>1. 1 \in 1 .. n /\ n \in 1 .. n /\ 1 < n
      <4>1. n \in Nat /\ n # 0 /\ n # 1
        BY <1>2, <2>3
      <4> HIDE DEF n
      <4> QED
        BY <4>1
    <3>2. Reaches(Graph, stack[1][1], stack[Len(stack)][1])
      BY <3>1 DEF StackInv
    <3> QED
      BY <1>2, <1>3, <2>1, <3>2, CallFurther
  <2> QED
    BY <2>2, <2>3
<1>5. t \in Names /\ root \in 1 .. Len(Declared)
  BY <1>2, <1>3, DeclaredFacts
<1>6. SearchType'
  BY <1>1, <1>2, <1>5 DEF SearchType
<1>7. Len(stack') = 0
  BY <1>1
<1>8. StackInv'
  BY <1>1, <1>7 DEF StackInv
<1>9. ScannedInv' /\ OrderInv' /\ DoneInv'
  BY <1>1 DEF ScannedInv, OrderInv, DoneInv
<1>10. MarkedInv'
  BY <1>1, <1>2, <1>5, DeclaredFacts DEF MarkedInv
<1>11. RecursionExact'
  <2>1. ASSUME NEW i \in 1 .. Len(Declared), i < root'
        PROVE  Declared[i] \in recursive' <=> Reaches(Graph, Declared[i], Declared[i])
    <3>1. CASE i = root
      BY <1>1, <1>4, <3>1
    <3>2. CASE i # root
      <4>1. i < root /\ Declared[i] # Declared[root]
        BY <1>1, <1>2, <1>5, <2>1, <3>2, DeclaredFacts
      <4> QED
        BY <1>1, <4>1 DEF RecursionExact
    <3> QED
      BY <3>1, <3>2
  <2> QED
    BY <1>1, <2>1, SameCalls DEF RecursionExact
<1> QED
  BY <1>6, <1>8, <1>9, <1>10, <1>11

(* A stack of one frame.                                                   *)
LEMMA OneFrame ==
  ASSUME NEW n \in Names, stack' = <<<<n, 1>>>>
  PROVE  /\ stack' \in Seq(Frames) /\ Len(stack') = 1 /\ stack' # <<>>
         /\ stack'[1] = <<n, 1>> /\ OnStack' = {n}
<1>1. <<n, 1>> \in Frames
  BY DEF Frames
<1>2. stack' \in Seq(Frames) /\ Len(stack') = 1 /\ stack'[1] = <<n, 1>>
  BY <1>1
<1>3. stack' # <<>>
  BY <1>2
<1>4. OnStack' = {n}
  BY <1>2 DEF OnStack
<1> QED
  BY <1>2, <1>3, <1>4

LEMMA StartSearchIInv ==
  ASSUME IInv, StartSearch
  PROVE  IInv'
<1> USE DEF IInv
<1> DEFINE t == Declared[root]
<1>1. /\ phase = "recursion" /\ root <= Len(Declared)
      /\ stack' = <<<<t, 1>>>> /\ visited' = {t}
      /\ UNCHANGED <<calls, phase, root, recursive, order>>
  BY DEF StartSearch
<1>2. t \in Names
  BY <1>1, DeclaredFacts DEF SearchType
<1> HIDE DEF t
<1>3. /\ stack' \in Seq(Frames) /\ Len(stack') = 1 /\ stack' # <<>>
      /\ stack'[1] = <<t, 1>> /\ OnStack' = {t}
  BY <1>1, <1>2, OneFrame
<1>4. SearchType'
  BY <1>1, <1>2, <1>3 DEF SearchType
<1>5. StackInv'
  <2>1. Len(CalleesOf(t)) \in Nat
    BY CalleesFacts
  <2> QED
    BY <1>1, <1>3, <2>1, SameCalls DEF StackInv, t
<1>6. ScannedInv'
  BY <1>1, <1>3 DEF ScannedInv
<1>7. OrderInv' /\ DoneInv' /\ MarkedInv'
  BY <1>1 DEF OrderInv, DoneInv, MarkedInv
<1>8. RecursionExact'
  BY <1>1, SameCalls DEF RecursionExact
<1> QED
  BY <1>4, <1>5, <1>6, <1>7, <1>8

LEMMA SortIInv ==
  ASSUME IInv, Sort
  PROVE  IInv'
<1> USE DEF IInv
<1>1. /\ phase = "recursion" /\ stack = <<>> /\ root > Len(Declared)
      /\ phase' = "order" /\ root' = 1 /\ visited' = {}
      /\ UNCHANGED <<calls, stack, recursive, order>>
  BY DEF Sort
<1>2. Len(stack') = 0 /\ OnStack' = {}
  <2>1. Len(stack') = 0
    BY <1>1
  <2> QED
    BY <2>1 DEF OnStack
<1>3. SearchType'
  BY <1>1 DEF SearchType
<1>4. StackInv' /\ ScannedInv' /\ MarkedInv' /\ DoneInv'
  BY <1>1, <1>2 DEF StackInv, ScannedInv, MarkedInv, DoneInv
<1>5. OrderInv'
  <2>1. order' = <<>> /\ DOMAIN order' = {} /\ Len(order') = 0
    BY <1>1 DEF MarkedInv
  <2>2. ToSet(order') = {} /\ IsInjective(order')
    BY <2>1 DEF ToSet, IsInjective
  <2> QED
    BY <1>1, <1>2, <2>1, <2>2 DEF OrderInv
<1>6. RecursionExact'
  <2>1. \A i \in 1 .. Len(Declared) : i < root
    BY <1>1, DeclaredFacts DEF SearchType
  <2> QED
    BY <1>1, <2>1, SameCalls DEF RecursionExact
<1> QED
  BY <1>3, <1>4, <1>5, <1>6

LEMMA VisitIInv ==
  ASSUME IInv, Visit
  PROVE  IInv'
<1> USE DEF IInv
<1> DEFINE t == Declared[root]
<1>1. /\ phase = "order" /\ stack = <<>> /\ root <= Len(Declared)
      /\ stack' = IF t \in visited THEN <<>> ELSE <<<<t, 1>>>>
      /\ visited' = visited \cup {t}
      /\ root' = root + 1
      /\ UNCHANGED <<calls, phase, recursive, order>>
  BY DEF Visit
<1>2. root \in 1 .. Len(Declared) /\ t \in Names /\ t \in Known1
  BY <1>1, DeclaredFacts DEF SearchType
<1>3. \A i \in 1 .. root' - 1 : i <= Len(Declared) => Declared[i] \in visited'
  BY <1>1, <1>2 DEF OrderInv
<1> HIDE DEF t
<1>4. Len(stack) = 0 /\ OnStack = {}
  <2>1. Len(stack) = 0
    BY <1>1
  <2> QED
    BY <2>1 DEF OnStack
<1>5. /\ stack' \in Seq(Frames)
      /\ visited' \ OnStack' = visited
      /\ \/ Len(stack') = 0
         \/ Len(stack') = 1 /\ stack'[1] = <<t, 1>>
  <2>1. CASE t \in visited
    <3>1. stack' = <<>> /\ Len(stack') = 0 /\ visited' = visited
      BY <1>1, <2>1
    <3>2. OnStack' = {}
      BY <3>1 DEF OnStack
    <3> QED
      BY <3>1, <3>2
  <2>2. CASE t \notin visited
    <3>1. stack' = <<<<t, 1>>>>
      BY <1>1, <2>2
    <3>2. /\ stack' \in Seq(Frames) /\ Len(stack') = 1
          /\ stack'[1] = <<t, 1>> /\ OnStack' = {t}
      BY <1>2, <3>1, OneFrame
    <3> QED
      BY <1>1, <2>2, <3>2
  <2> QED
    BY <2>1, <2>2
<1>6. SearchType'
  BY <1>1, <1>2, <1>5 DEF SearchType
<1>7. StackInv'
  <2>1. Len(CalleesOf(t)) \in Nat
    BY CalleesFacts
  <2>2. /\ \A k \in 1 .. Len(stack') : /\ stack'[k][1] \in visited'
                                       /\ stack'[k][2] \in 1 .. Len(CalleesOf(stack'[k][1])) + 1
        /\ ~\E k, l \in 1 .. Len(stack') : k < l
    BY <1>1, <1>5, <2>1
  <2> QED
    BY <1>1, <2>2, SameCalls DEF StackInv
<1>8. ScannedInv'
  <2>1. Answered = visited /\ Answered' = visited'
    BY <1>1 DEF Answered
  <2>2. \A n \in visited : Callees(Graph, n) \subseteq visited'
    BY <1>1, <1>4, <2>1 DEF ScannedInv
  <2>3. \A k \in 1 .. Len(stack') : stack'[k][2] = 1
    BY <1>5
  <2> QED
    BY <1>1, <1>5, <2>1, <2>2, <2>3, SameCalls DEF ScannedInv
<1>9. OrderInv'
  <2>1. /\ ToSet(order) = visited' \ OnStack' /\ IsInjective(order)
        /\ visited' \subseteq Known1 \cup UNION {Graph[n] : n \in Known1}
        /\ \A i \in 1 .. Len(order) : \A m \in Callees(Graph, order[i]) :
             (\E j \in 1 .. i - 1 : order[j] = m) \/ Reaches(Graph, m, order[i])
    BY <1>1, <1>2, <1>4, <1>5 DEF OrderInv
  <2> QED
    BY <1>1, <1>3, <2>1, SameCalls DEF OrderInv
<1>10. MarkedInv' /\ DoneInv'
  BY <1>1 DEF MarkedInv, DoneInv
<1>11. RecursionExact'
  <2>1. \A i \in 1 .. Len(Declared) :
          Declared[i] \in recursive <=> Reaches(Graph, Declared[i], Declared[i])
    BY <1>1 DEF RecursionExact
  <2> QED
    BY <1>1, <2>1, SameCalls DEF RecursionExact
<1> QED
  BY <1>6, <1>7, <1>8, <1>9, <1>10, <1>11

(* When a name is left every callee of it was entered: the callees still   *)
(* unlisted are on the stack with it.                                      *)
LEMMA LeaveCallees ==
  ASSUME IInv, Leave, NEW m \in Callees(Graph, Caller)
  PROVE  m \in ToSet(order) \/ Reaches(Graph, m, Caller)
<1> USE DEF IInv
<1>1. /\ phase = "order" /\ Exhausted /\ stack # <<>> /\ stack' = Front(stack)
      /\ UNCHANGED <<calls, phase, visited>>
  BY DEF Leave, Exhausted
<1>2. Len(stack) \in Nat \ {0} /\ Caller = stack[Len(stack)][1]
  BY <1>1, TopFacts
<1>3. m \in visited
  <2>1. Answered = visited
    BY <1>1 DEF Answered
  <2> QED
    BY <1>1, <2>1, ReturnScanned
<1>4. CASE m \notin OnStack
  BY <1>1, <1>3, <1>4 DEF OrderInv
<1>5. CASE m \in OnStack
  <2>1. PICK k \in 1 .. Len(stack) : stack[k][1] = m
    BY <1>5 DEF OnStack
  <2>2. CASE k = Len(stack)
    BY <1>2, <2>1, <2>2, DirectCall
  <2>3. CASE k < Len(stack)
    BY <1>2, <2>1, <2>3 DEF StackInv
  <2> QED
    BY <1>2, <2>2, <2>3
<1> QED
  BY <1>4, <1>5

LEMMA LeaveIInv ==
  ASSUME IInv, Leave
  PROVE  IInv'
<1> USE DEF IInv
<1> DEFINE n == Len(order)
<1>1. /\ phase = "order" /\ Exhausted /\ stack # <<>> /\ stack' = Front(stack)
      /\ order' = Append(order, Caller)
      /\ UNCHANGED <<calls, phase, root, visited, recursive>>
  BY DEF Leave, Exhausted
<1>2. Caller \in Names /\ Caller \in visited /\ order \in Seq(Names) /\ n \in Nat
  BY <1>1, TopFacts, TopCallees, LenProperties DEF SearchType
<1>3. /\ order' \in Seq(Names) /\ Len(order') = n + 1
      /\ \A i \in 1 .. n : order'[i] = order[i]
      /\ order'[n + 1] = Caller
  BY <1>1, <1>2, AppendProperties
<1>4. DOMAIN order = 1 .. n /\ DOMAIN order' = 1 .. (n + 1)
  BY <1>2, <1>3, LenProperties
<1>5. OnStack = OnStack' \cup {Caller} /\ Caller \notin OnStack'
  BY <1>1, ReturnFacts
<1>6. /\ ToSet(order) = visited \ OnStack /\ IsInjective(order)
      /\ \A i \in 1 .. n : \A m \in Callees(Graph, order[i]) :
           (\E j \in 1 .. i - 1 : order[j] = m) \/ Reaches(Graph, m, order[i])
  BY <1>1 DEF OrderInv
<1> HIDE DEF n
<1>7. ToSet(order') = ToSet(order) \cup {Caller}
  <2>1. 1 .. (n + 1) = (1 .. n) \cup {n + 1}
    BY <1>2
  <2> QED
    BY <1>3, <1>4, <2>1 DEF ToSet
<1>8. IsInjective(order')
  <2> SUFFICES ASSUME NEW i \in 1 .. (n + 1), NEW j \in 1 .. (n + 1),
                      order'[i] = order'[j]
               PROVE  i = j
    BY <1>4 DEF IsInjective
  <2>1. \A k \in 1 .. n : order'[k] # Caller
    BY <1>3, <1>4, <1>5, <1>6 DEF ToSet
  <2>2. CASE i \in 1 .. n /\ j \in 1 .. n
    BY <1>3, <1>4, <1>6, <2>2 DEF IsInjective
  <2> QED
    BY <1>2, <1>3, <2>1, <2>2
<1>9. ASSUME NEW i \in 1 .. (n + 1), NEW m \in Callees(Graph, order'[i])
      PROVE  (\E j \in 1 .. i - 1 : order'[j] = m) \/ Reaches(Graph, m, order'[i])
  <2>1. CASE i = n + 1
    <3>1. m \in ToSet(order) \/ Reaches(Graph, m, Caller)
      BY <1>3, <2>1, LeaveCallees
    <3>2. ASSUME m \in ToSet(order) PROVE \E j \in 1 .. i - 1 : order'[j] = m
      <4>1. PICK j \in 1 .. n : order[j] = m
        BY <1>4, <3>2 DEF ToSet
      <4> QED
        BY <1>2, <1>3, <2>1, <4>1
    <3> QED
      BY <1>3, <2>1, <3>1, <3>2
  <2>2. CASE i # n + 1
    <3>1. i \in 1 .. n /\ order'[i] = order[i]
      BY <1>2, <1>3, <2>2
    <3>2. (\E j \in 1 .. i - 1 : order[j] = m) \/ Reaches(Graph, m, order[i])
      BY <1>6, <3>1
    <3>3. \A j \in 1 .. i - 1 : order'[j] = order[j]
      BY <1>2, <1>3, <3>1
    <3> QED
      BY <3>1, <3>2, <3>3
  <2> QED
    BY <2>1, <2>2
<1>10. SearchType'
  BY <1>1, <1>3, ReturnFacts DEF SearchType
<1>11. StackInv'
  BY <1>1, ReturnStack
<1>12. ScannedInv'
  <2>1. Answered' = Answered
    BY <1>1 DEF Answered
  <2> QED
    BY <1>1, <2>1, ReturnScanned, SameCalls DEF ScannedInv
<1>13. OrderInv'
  <2>1. ToSet(order') = visited \ OnStack'
    BY <1>2, <1>5, <1>6, <1>7
  <2>2. /\ visited \subseteq Known1 \cup UNION {Graph[k] : k \in Known1}
        /\ \A i \in 1 .. root - 1 : i <= Len(Declared) => Declared[i] \in visited
    BY <1>1 DEF OrderInv
  <2> QED
    BY <1>1, <1>3, <1>8, <1>9, <2>1, <2>2, SameCalls DEF OrderInv
<1>14. MarkedInv' /\ DoneInv' /\ RecursionExact'
  BY <1>1, SameCalls DEF MarkedInv, DoneInv, RecursionExact
<1> QED
  BY <1>10, <1>11, <1>12, <1>13, <1>14

LEMMA FinishIInv ==
  ASSUME IInv, Finish
  PROVE  IInv'
<1> USE DEF IInv
<1>1. /\ phase = "order" /\ stack = <<>> /\ root > Len(Declared) /\ phase' = "done"
      /\ UNCHANGED <<calls, root, stack, visited, recursive, order>>
  BY DEF Finish
<1>2. SearchType'
  BY <1>1 DEF SearchType
<1>3. Answered' = Answered /\ OnStack' = OnStack
  BY <1>1 DEF Answered, OnStack
<1>4. StackInv' /\ ScannedInv'
  BY <1>1, <1>3, SameCalls DEF StackInv, ScannedInv
<1>5. OrderInv' /\ MarkedInv' /\ DoneInv' /\ RecursionExact'
  BY <1>1, <1>3, SameCalls DEF OrderInv, MarkedInv, DoneInv, RecursionExact
<1> QED
  BY <1>2, <1>4, <1>5

LEMMA StutterIInv ==
  ASSUME IInv, UNCHANGED vars
  PROVE  IInv'
<1> USE DEF IInv
<1>1. UNCHANGED <<calls, phase, root, stack, visited, recursive, order>>
  BY DEF vars
<1>2. Answered' = Answered /\ OnStack' = OnStack
  BY <1>1 DEF Answered, OnStack
<1>3. SearchType' /\ StackInv' /\ ScannedInv'
  BY <1>1, <1>2, SameCalls DEF SearchType, StackInv, ScannedInv
<1> QED
  BY <1>1, <1>2, <1>3, SameCalls DEF OrderInv, MarkedInv, DoneInv, RecursionExact

LEMMA StepIInv == IInv /\ [Next]_vars => IInv'
BY StartSearchIInv, FoundTargetIInv, DescendIInv, NotFoundIInv, SortIInv,
   VisitIInv, LeaveIInv, FinishIInv, StutterIInv DEF Next

LEMMA IInvAlways == Spec => []IInv
BY InitIInv, StepIInv, PTL DEF Spec

-----------------------------------------------------------------------------
(***************************************************************************)
(* The theorems.                                                           *)
(***************************************************************************)

(* Whatever the call graph, a procedure is marked recursive exactly when a *)
(* chain of calls leads from it back to it: no search is cut short by the  *)
(* visited set before it meets its target, and none outlives it            *)
(* (_detect_recursion, _reaches).                                          *)
THEOREM RecursionIsExact == Spec => []RecursionExact
<1>1. IInv => RecursionExact
  BY DEF IInv
<1> QED
  BY IInvAlways, <1>1, PTL

(* What the invariant says of a finished list.                             *)
LEMMA FinishedOrder == IInv => CalleesFirst
<1> SUFFICES ASSUME IInv, phase = "done" PROVE
               /\ IsInjective(order)
               /\ ToSet(order) = Known1 \cup UNION {Graph[n] : n \in Known1}
               /\ \A i, j \in DOMAIN order :
                    (i < j /\ order[j] \in Callees(Graph, order[i]))
                       => Reaches(Graph, order[j], order[i])
  BY DEF CalleesFirst
<1> USE DEF IInv
<1>1. stack = <<>> /\ root > Len(Declared) /\ OnStack = {}
  <2>1. stack = <<>> /\ root > Len(Declared) /\ Len(stack) = 0
    BY DEF DoneInv
  <2> QED
    BY <2>1 DEF OnStack
<1>2. /\ ToSet(order) = visited /\ IsInjective(order)
      /\ visited \subseteq Known1 \cup UNION {Graph[n] : n \in Known1}
      /\ \A i \in 1 .. root - 1 : i <= Len(Declared) => Declared[i] \in visited
      /\ \A i \in 1 .. Len(order) : \A m \in Callees(Graph, order[i]) :
           (\E j \in 1 .. i - 1 : order[j] = m) \/ Reaches(Graph, m, order[i])
  BY <1>1 DEF OrderInv
<1>3. Known1 \subseteq visited
  <2>1. \A i \in 1 .. Len(Declared) : i \in 1 .. root - 1
    BY <1>1, DeclaredFacts DEF SearchType
  <2> QED
    BY <1>2, <2>1, DeclaredFacts
<1>4. \A n \in Known1 : Graph[n] \subseteq visited
  <2>1. \A n \in visited : Callees(Graph, n) \subseteq visited
    BY <1>1 DEF ScannedInv, Answered
  <2>2. \A n \in Known1 : Callees(Graph, n) = Graph[n]
    BY DEF Callees, Graph
  <2> QED
    BY <1>3, <2>1, <2>2
<1>5. ASSUME NEW i \in DOMAIN order, NEW j \in DOMAIN order,
             i < j, order[j] \in Callees(Graph, order[i])
      PROVE  Reaches(Graph, order[j], order[i])
  <2>1. Len(order) \in Nat /\ DOMAIN order = 1 .. Len(order)
    BY LenProperties DEF SearchType
  <2>2. ~\E k \in 1 .. i - 1 : order[k] = order[j]
    BY <1>2, <1>5, <2>1 DEF IsInjective
  <2> QED
    BY <1>2, <1>5, <2>1, <2>2
<1> QED
  BY <1>2, <1>3, <1>4, <1>5

(* Whatever the call graph, topological_order lists every declared or      *)
(* called name once, and only a callee that calls back stands after its    *)
(* caller.                                                                 *)
THEOREM CalleesAreFirst == Spec => []CalleesFirst
BY IInvAlways, FinishedOrder, PTL
=============================================================================

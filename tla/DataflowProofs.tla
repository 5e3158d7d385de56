--------------------------- MODULE DataflowProofs ---------------------------
(***************************************************************************)
(* Proofs about Dataflow for every choice of variables, unit and bounds.   *)
(***************************************************************************)
EXTENDS Dataflow, SequenceTheorems, TLAPS

-----------------------------------------------------------------------------
(***************************************************************************)
(* What the operations on the analyser's state return.                     *)
(***************************************************************************)

(* Every tracked name is a name of the program.                            *)
LEMMA TrackedNames == Tracked \subseteq Names
BY DEF Tracked, Names

(* mark_assigned changes the assigned flag of its target only.             *)
LEMMA MarkAssignedFacts ==
  ASSUME NEW V \in DataflowState, NEW t \in Names
  PROVE  /\ MarkAssigned(V, t) \in DataflowState
         /\ \A v \in Tracked :
              /\ MarkAssigned(V, t)[v].assigned <=> (v = t \/ V[v].assigned)
              /\ MarkAssigned(V, t)[v].tainted <=> V[v].tainted
              /\ MarkAssigned(V, t)[v].taint_sources = V[v].taint_sources
BY DEF MarkAssigned, DataflowState, VarState

(* taint_from_address_of adds one source to its target.                    *)
LEMMA TaintFromAddressOfFacts ==
  ASSUME NEW V \in DataflowState, NEW t \in Names, NEW x \in Names
  PROVE  /\ TaintFromAddressOf(V, t, x) \in DataflowState
         /\ \A v \in Tracked :
              TaintFromAddressOf(V, t, x)[v].assigned <=> V[v].assigned
         /\ \A v \in Tracked \ {t} : TaintFromAddressOf(V, t, x)[v] = V[v]
         /\ t \in Tracked =>
              /\ TaintFromAddressOf(V, t, x)[t].tainted
              /\ x \in TaintFromAddressOf(V, t, x)[t].taint_sources
BY DEF TaintFromAddressOf, DataflowState, VarState

(* propagate_taint and transfer_points_to touch their target only.         *)
LEMMA PropagateTaintFacts ==
  ASSUME NEW V \in DataflowState, NEW t \in Names, NEW s \in Names
  PROVE  /\ PropagateTaint(V, t, s) \in DataflowState
         /\ \A v \in Tracked :
              PropagateTaint(V, t, s)[v].assigned <=> V[v].assigned
         /\ \A v \in Tracked : v # t \/ v = s =>
              /\ PropagateTaint(V, t, s)[v].tainted <=> V[v].tainted
              /\ PropagateTaint(V, t, s)[v].taint_sources = V[v].taint_sources
BY DEF PropagateTaint, IsTainted, DataflowState, VarState

LEMMA TransferPointsToFacts ==
  ASSUME NEW V \in DataflowState, NEW t \in Names, NEW s \in Names
  PROVE  /\ TransferPointsTo(V, t, s) \in DataflowState
         /\ \A v \in Tracked :
              TransferPointsTo(V, t, s)[v].assigned <=> V[v].assigned
         /\ \A v \in Tracked \ {t} : TransferPointsTo(V, t, s)[v] = V[v]
         /\ t \in Tracked /\ s \in Tracked =>
              /\ TransferPointsTo(V, t, s)[t].tainted <=> V[s].tainted
              /\ TransferPointsTo(V, t, s)[t].taint_sources = V[s].taint_sources
BY DEF TransferPointsTo, DataflowState, VarState

(* A copy t := s leaves t with the taint of s, and no other name changes.  *)
LEMMA CopiedFacts ==
  ASSUME vars \in DataflowState, NEW t \in Names, NEW s \in Names
  PROVE  /\ Copied(t, s) \in DataflowState
         /\ \A v \in Tracked :
              Copied(t, s)[v].assigned <=> (v = t \/ vars[v].assigned)
         /\ \A v \in Tracked \ {t} :
              /\ Copied(t, s)[v].tainted <=> vars[v].tainted
              /\ Copied(t, s)[v].taint_sources = vars[v].taint_sources
         /\ t \in Tracked /\ s \in Tracked =>
              /\ Copied(t, s)[t].tainted <=> vars[s].tainted
              /\ Copied(t, s)[t].taint_sources = vars[s].taint_sources
<1> DEFINE A == PropagateTaint(vars, t, s)
           B == TransferPointsTo(A, t, s)
<1>1. A \in DataflowState /\ \A v \in Tracked :
         /\ A[v].assigned <=> vars[v].assigned
         /\ v # t \/ v = s => /\ A[v].tainted <=> vars[v].tainted
                              /\ A[v].taint_sources = vars[v].taint_sources
  BY PropagateTaintFacts
<1>2. B \in DataflowState /\ \A v \in Tracked :
         /\ B[v].assigned <=> A[v].assigned
         /\ v # t => B[v] = A[v]
         /\ v = t /\ s \in Tracked =>
              /\ B[v].tainted <=> A[s].tainted
              /\ B[v].taint_sources = A[s].taint_sources
  <2> HIDE DEF A
  <2> QED BY <1>1, TransferPointsToFacts
<1>3. MarkAssigned(B, t) \in DataflowState /\ \A v \in Tracked :
         /\ MarkAssigned(B, t)[v].assigned <=> (v = t \/ B[v].assigned)
         /\ MarkAssigned(B, t)[v].tainted <=> B[v].tainted
         /\ MarkAssigned(B, t)[v].taint_sources = B[v].taint_sources
  <2> HIDE DEF B
  <2> QED BY <1>2, MarkAssignedFacts
<1>4. Copied(t, s) = MarkAssigned(B, t)
  BY DEF Copied
<1> HIDE DEF A, B
<1> QED BY <1>1, <1>2, <1>3, <1>4

LEMMA ClearTaintFacts ==
  ASSUME NEW V \in DataflowState, NEW t \in Tracked
  PROVE  /\ ClearTaint(V, t) \in DataflowState
         /\ \A v \in Tracked :
              /\ ClearTaint(V, t)[v].assigned <=> V[v].assigned
              /\ ClearTaint(V, t)[v].taint_sources = V[v].taint_sources
              /\ v # t => ClearTaint(V, t)[v].tainted <=> V[v].tainted
BY DEF ClearTaint, DataflowState, VarState

(* A join keeps the taint of both sides.                                   *)
LEMMA MergeFacts ==
  ASSUME NEW V \in DataflowState, NEW W \in DataflowState
  PROVE  /\ Merge(V, W) \in DataflowState
         /\ \A v \in Tracked :
              /\ Merge(V, W)[v].assigned <=> (V[v].assigned /\ W[v].assigned)
              /\ Merge(V, W)[v].tainted <=> (V[v].tainted \/ W[v].tainted)
              /\ Merge(V, W)[v].taint_sources =
                   V[v].taint_sources \cup W[v].taint_sources
BY DEF Merge, DataflowState, VarState

-----------------------------------------------------------------------------
(***************************************************************************)
(* What the operations on the reference return.                            *)
(***************************************************************************)
LEMMA StoreFacts ==
  ASSUME NEW P \in Path, NEW t \in Names,
         NEW addrs \in SUBSET Names, NEW froms \in SUBSET Names
  PROVE  /\ Store(P, t, addrs, froms) \in Path
         /\ Store(P, t, addrs, froms).dead <=> P.dead
         /\ ~P.dead =>
              /\ Store(P, t, addrs, froms).must = P.must \cup {t}
              /\ Store(P, t, addrs, froms).may[t] = ValueOf(P, addrs, froms)
              /\ \A v \in Names \ {t} :
                   Store(P, t, addrs, froms).may[v] = P.may[v]
<1>1. ValueOf(P, addrs, froms) \in SUBSET Names
  BY DEF ValueOf, Path
<1> QED BY <1>1 DEF Store, Path

LEMMA StopFacts ==
  ASSUME NEW P \in Path
  PROVE  Stop(P) \in Path /\ Stop(P).dead
BY DEF Stop, Path

LEMMA JoinFacts ==
  ASSUME NEW P \in Path, NEW Q \in Path
  PROVE  /\ Join(P, Q) \in Path
         /\ ~Join(P, Q).dead => ~P.dead \/ ~Q.dead
         /\ ~Join(P, Q).dead =>
              \A v \in Names : \A x \in Join(P, Q).may[v] :
                 \/ ~P.dead /\ x \in P.may[v]
                 \/ ~Q.dead /\ x \in Q.may[v]
         /\ ~Join(P, Q).dead =>
              \A v \in Names :
                 (~P.dead => v \in P.must) /\ (~Q.dead => v \in Q.must)
                   => v \in Join(P, Q).must
BY DEF Join, Path

(* The stack without its innermost frame.                                  *)
LEMMA PoppedFacts ==
  ASSUME stack \in Seq(Frame), stack # <<>>
  PROVE  /\ Top \in Frame
         /\ Popped \in Seq(Frame)
         /\ Len(Popped) = Len(stack) - 1
         /\ \A i \in 1 .. Len(Popped) : Popped[i] = stack[i]
<1>1. Len(stack) \in Nat /\ Len(stack) > 0
  BY EmptySeq
<1>2. Top \in Frame
  BY <1>1, ElementOfSeq DEF Top
<1>3. \A i \in 1 .. Len(stack) - 1 : stack[i] \in Frame
  BY <1>1, ElementOfSeq
<1> DEFINE front == SubSeq(stack, 1, Len(stack) - 1)
<1>4. /\ front \in Seq(Frame)
      /\ Len(front) = IF 1 <= Len(stack) - 1 THEN Len(stack) - 1 - 1 + 1 ELSE 0
      /\ \A i \in 1 .. Len(stack) - 1 - 1 + 1 : front[i] = stack[1 + i - 1]
  <2>1. 1 \in Int /\ Len(stack) - 1 \in Int
    BY <1>1
  <2> QED BY <1>3, <2>1, SubSeqProperties
<1>5. Popped = front
  BY DEF Popped
<1> HIDE DEF front
<1>6. Len(front) = Len(stack) - 1
  <2>1. ASSUME NEW n \in Nat, n > 0, NEW m, m = IF 1 <= n - 1 THEN n - 1 - 1 + 1 ELSE 0
        PROVE  m = n - 1
    BY <2>1
  <2> QED BY <1>1, <1>4, <2>1
<1>7. ASSUME NEW i \in 1 .. Len(front) PROVE front[i] = stack[i]
  <2>1. i \in 1 .. Len(stack) - 1 - 1 + 1 /\ 1 + i - 1 = i
    BY <1>1, <1>6
  <2> QED BY <1>4, <2>1
<1> QED BY <1>2, <1>4, <1>5, <1>6, <1>7

-----------------------------------------------------------------------------
(***************************************************************************)
(* Type correctness.                                                       *)
(***************************************************************************)
LEMMA CheckDerefsType ==
  ASSUME NEW V, NEW D \in SUBSET Names
  PROVE  CheckDerefs(V, D) \subseteq Warning
BY DEF CheckDerefs, Uninit, Warning, Kinds

LEMMA WildDerefsType ==
  ASSUME NEW P, NEW D \in SUBSET Names
  PROVE  WildDerefs(P, D) \subseteq Names
BY DEF WildDerefs

LEMMA WarningTypes ==
  ASSUME NEW srcs \in SUBSET Names
  PROVE  /\ Returned(srcs) \in Warning
         /\ \A t \in Names : Dangling(t, srcs) \in Warning
BY DEF Returned, Dangling, Warning, Kinds

(* Bookkeeping of a visit keeps the types of what it updates.              *)
LEMMA VisitedType ==
  ASSUME TypeOK, CanVisit,
         NEW issued \in SUBSET Warning, NEW wild \in SUBSET Names,
         NEW target \in SUBSET Names, Visited(issued, wild, target)
  PROVE  /\ warnings' \subseteq Warning
         /\ crashed' \in BOOLEAN
         /\ stack' \in Seq(Frame)
         /\ ready' \in BOOLEAN
         /\ size' \in 0 .. MaxStmts
         /\ last' \in Visit
<1>1. size' \in 0 .. MaxStmts
  BY DataflowAssumption DEF TypeOK, CanVisit, Visited
<1>2. last' \in Visit
  BY DEF Visited, Visit
<1> QED BY <1>1, <1>2 DEF TypeOK, Visited

LEMMA ExecuteType ==
  ASSUME TypeOK, NEW t \in Names, NEW addrs \in SUBSET Names,
         NEW froms \in SUBSET Names, NEW why \in SUBSET Reasons,
         Execute(t, addrs, froms, why)
  PROVE  /\ path' \in Path
         /\ leaves' \subseteq Leaf
         /\ blind' \subseteq Reasons
         /\ returned' \subseteq Names
<1>1. path' \in Path
  BY StoreFacts DEF TypeOK, Execute
<1>2. leaves' \subseteq Leaf
  BY DEF TypeOK, Execute, NewLeaves, Leaf
<1> QED BY <1>1, <1>2 DEF TypeOK, Execute

LEMMA ForkType ==
  ASSUME TypeOK, NEW kind \in {"THEN", "ELSE", "LOOP"}
  PROVE  Fork(kind) \in Frame
BY DEF TypeOK, Fork, Frame

LEMMA TypeInit == Init => TypeOK
<1> SUFFICES ASSUME NEW given \in SUBSET Locals, NEW inherited \in SUBSET Enclosing,
                    vars = [v \in Tracked |-> [assigned |-> v \in given,
                              tainted |-> FALSE, taint_sources |-> {}]],
                    path = [may |-> [v \in Names |-> IF v \in Enclosing
                                       THEN inherited ELSE {}],
                            must |-> given, dead |-> FALSE],
                    warnings = {}, crashed = FALSE, stack = <<>>, ready = TRUE,
                    size = 0, leaves = {}, blind = {}, returned = {},
                    last = [issued |-> {}, wild |-> {}, target |-> {}]
             PROVE  TypeOK
  BY DEF Init
<1>1. vars \in DataflowState
  BY DEF DataflowState, VarState
<1>2. path \in Path
  BY DEF Path, Names
<1>3. stack \in Seq(Frame)
  BY EmptySeq
<1>4. last \in Visit
  BY DEF Visit
<1>5. size \in 0 .. MaxStmts
  BY DataflowAssumption
<1> QED BY <1>1, <1>2, <1>3, <1>4, <1>5 DEF TypeOK

LEMMA TypeAssign == TypeOK /\ Assign => TypeOK'
<1> USE DEF Derefs
<1> SUFFICES ASSUME TypeOK, NEW t \in Names, NEW s \in Names,
                    \/ AddressAssign(t, s)
                    \/ UnseenAssign(t, s)
                    \/ \E D \in Derefs(s) : CopyAssign(t, s, D)
                    \/ \E D \in Derefs(s) : CopyTaintToGlobal(t, s, D)
                    \/ \E D \in Derefs(s), froms \in {{}, {s}} :
                          ExprAssign(t, froms, D)
                    \/ CopyTaintKeyError(t, s)
             PROVE  TypeOK'
  BY DEF Assign
<1>1. vars \in DataflowState
  BY DEF TypeOK
<1>2. CASE AddressAssign(t, s)
  <2>1. vars' \in DataflowState
    BY <1>1, <1>2, MarkAssignedFacts, TaintFromAddressOfFacts DEF AddressAssign
  <2> DEFINE issued == IF s \in Scoped /\ t \in Globals
                       THEN {Dangling(t, {s})} ELSE {}
  <2>2. issued \in SUBSET Warning
    BY WarningTypes
  <2>3. CanVisit /\ Visited(issued, {}, {t}) /\ Execute(t, {s}, {}, {})
    BY <1>2 DEF AddressAssign
  <2> HIDE DEF issued
  <2>4. /\ warnings' \subseteq Warning /\ crashed' \in BOOLEAN
         /\ stack' \in Seq(Frame) /\ ready' \in BOOLEAN
         /\ size' \in 0 .. MaxStmts /\ last' \in Visit
    BY <2>2, <2>3, VisitedType
  <2>5. /\ path' \in Path /\ leaves' \subseteq Leaf
         /\ blind' \subseteq Reasons /\ returned' \subseteq Names
    BY <2>3, ExecuteType
  <2> QED BY <2>1, <2>4, <2>5 DEF TypeOK
<1>3. CASE UnseenAssign(t, s)
  <2> DEFINE why == IF path.dead THEN {} ELSE {"UNSEEN"}
  <2>1. why \in SUBSET Reasons
    BY DEF Reasons
  <2>2. CanVisit /\ Visited({}, {}, {t}) /\ Execute(t, {s}, {}, why)
    BY <1>3 DEF UnseenAssign
  <2> HIDE DEF why
  <2>3. vars' \in DataflowState
    BY <1>1, <1>3 DEF UnseenAssign
  <2>4. /\ warnings' \subseteq Warning /\ crashed' \in BOOLEAN
         /\ stack' \in Seq(Frame) /\ ready' \in BOOLEAN
         /\ size' \in 0 .. MaxStmts /\ last' \in Visit
    BY <2>2, VisitedType
  <2>5. /\ path' \in Path /\ leaves' \subseteq Leaf
         /\ blind' \subseteq Reasons /\ returned' \subseteq Names
    BY <2>1, <2>2, ExecuteType
  <2> QED BY <2>3, <2>4, <2>5 DEF TypeOK
<1>4. ASSUME NEW D \in Derefs(s), CopyAssign(t, s, D) PROVE TypeOK'
  <2>1. vars' \in DataflowState
    BY <1>1, <1>4, CopiedFacts DEF CopyAssign
  <2> DEFINE why == IF s \notin Tracked /\ HoldsScoped(path, {s})
                    THEN {"UNTRACKED"} ELSE {}
  <2>2. why \in SUBSET Reasons
    BY DEF Reasons
  <2>3. /\ CanVisit
        /\ Visited(CheckDerefs(Copied(t, s), D), WildDerefs(path, D), {t})
        /\ Execute(t, {}, {s}, why)
    BY <1>4 DEF CopyAssign
  <2>4. /\ CheckDerefs(Copied(t, s), D) \in SUBSET Warning
        /\ WildDerefs(path, D) \in SUBSET Names
    BY <1>4, CheckDerefsType, WildDerefsType
  <2>4a. {t} \in SUBSET Names /\ {s} \in SUBSET Names /\ {} \in SUBSET Names
    OBVIOUS
  <2> HIDE DEF why
  <2>5. /\ warnings' \subseteq Warning /\ crashed' \in BOOLEAN
         /\ stack' \in Seq(Frame) /\ ready' \in BOOLEAN
         /\ size' \in 0 .. MaxStmts /\ last' \in Visit
    BY <2>3, <2>4, <2>4a, VisitedType, Zenon
  <2>6. /\ path' \in Path /\ leaves' \subseteq Leaf
         /\ blind' \subseteq Reasons /\ returned' \subseteq Names
    BY <2>2, <2>3, <2>4a, ExecuteType, Zenon
  <2> QED BY <2>1, <2>5, <2>6 DEF TypeOK
<1>5. ASSUME NEW D \in Derefs(s), CopyTaintToGlobal(t, s, D) PROVE TypeOK'
  <2>1. t \in Tracked /\ s \in Tracked
    BY <1>5 DEF CopyTaintToGlobal, StoresTaint, IsTainted
  <2>2. Copied(t, s) \in DataflowState
    BY <1>1, CopiedFacts
  <2>3. vars' \in DataflowState
    BY <1>5, <2>1, <2>2, ClearTaintFacts DEF CopyTaintToGlobal
  <2> DEFINE issued == {Dangling(t, Copied(t, s)[s].taint_sources)}
                         \cup CheckDerefs(Copied(t, s), D)
  <2>4. Copied(t, s)[s].taint_sources \in SUBSET Names
    BY <2>1, <2>2 DEF DataflowState, VarState
  <2>5. issued \in SUBSET Warning
    BY <1>5, <2>4, WarningTypes, CheckDerefsType
  <2>6. WildDerefs(path, D) \in SUBSET Names
    BY <1>5, WildDerefsType
  <2>7. /\ CanVisit
        /\ Visited(issued, WildDerefs(path, D), {t})
        /\ Execute(t, {}, {s}, {})
    BY <1>5 DEF CopyTaintToGlobal
  <2>7a. /\ {t} \in SUBSET Names /\ {s} \in SUBSET Names
         /\ {} \in SUBSET Names /\ {} \in SUBSET Reasons
    OBVIOUS
  <2> HIDE DEF issued
  <2>8. /\ warnings' \subseteq Warning /\ crashed' \in BOOLEAN
         /\ stack' \in Seq(Frame) /\ ready' \in BOOLEAN
         /\ size' \in 0 .. MaxStmts /\ last' \in Visit
    BY <2>5, <2>6, <2>7, <2>7a, VisitedType, Zenon
  <2>9. /\ path' \in Path /\ leaves' \subseteq Leaf
         /\ blind' \subseteq Reasons /\ returned' \subseteq Names
    BY <2>7, <2>7a, ExecuteType, Zenon
  <2> QED BY <2>3, <2>8, <2>9 DEF TypeOK
<1>6. ASSUME NEW D \in Derefs(s), NEW froms \in {{}, {s}},
             ExprAssign(t, froms, D)
      PROVE  TypeOK'
  <2>1. vars' \in DataflowState
    BY <1>1, <1>6, MarkAssignedFacts DEF ExprAssign
  <2> DEFINE why == IF HoldsScoped(path, froms) THEN {"ARITH"} ELSE {}
  <2>2. why \in SUBSET Reasons
    BY DEF Reasons
  <2>3. /\ CanVisit
        /\ Visited(CheckDerefs(vars', D), WildDerefs(path, D), {t})
        /\ Execute(t, {}, froms, why)
    BY <1>6 DEF ExprAssign
  <2>4. /\ CheckDerefs(vars', D) \in SUBSET Warning
        /\ WildDerefs(path, D) \in SUBSET Names
    BY <1>6, CheckDerefsType, WildDerefsType
  <2> HIDE DEF why
  <2>5. /\ warnings' \subseteq Warning /\ crashed' \in BOOLEAN
         /\ stack' \in Seq(Frame) /\ ready' \in BOOLEAN
         /\ size' \in 0 .. MaxStmts /\ last' \in Visit
    BY <2>3, <2>4, VisitedType
  <2>6. /\ path' \in Path /\ leaves' \subseteq Leaf
         /\ blind' \subseteq Reasons /\ returned' \subseteq Names
    BY <1>6, <2>2, <2>3, ExecuteType
  <2> QED BY <2>1, <2>5, <2>6 DEF TypeOK
<1>7. CASE CopyTaintKeyError(t, s)
  BY <1>7 DEF TypeOK, CopyTaintKeyError, reference
<1> QED BY <1>2, <1>3, <1>4, <1>5, <1>6, <1>7

LEMMA TypeReturn == TypeOK /\ Return => TypeOK'
<1> SUFFICES ASSUME TypeOK, NEW v \in Names,
                    \/ ReturnAddress(v)
                    \/ \E D \in Derefs(v) : ReturnName(v, D)
             PROVE  TypeOK'
  BY DEF Return
<1>1. vars \in DataflowState /\ path \in Path
  BY DEF TypeOK
<1>2. Stop(path) \in Path
  BY <1>1, StopFacts
<1>3. CASE ReturnAddress(v)
  <2> DEFINE issued == IF v \in Scoped THEN {Returned({v})} ELSE {}
  <2>1. issued \in SUBSET Warning
    BY WarningTypes
  <2>2. CanVisit /\ Visited(issued, {}, {})
    BY <1>3 DEF ReturnAddress
  <2> HIDE DEF issued
  <2>3. returned' \subseteq Names
    BY <1>3 DEF ReturnAddress, TypeOK
  <2>4. /\ warnings' \subseteq Warning /\ crashed' \in BOOLEAN
        /\ stack' \in Seq(Frame) /\ ready' \in BOOLEAN
        /\ size' \in 0 .. MaxStmts /\ last' \in Visit
    BY <2>1, <2>2, VisitedType
  <2> QED BY <1>2, <1>3, <2>3, <2>4 DEF ReturnAddress, TypeOK
<1>4. ASSUME NEW D \in Derefs(v), ReturnName(v, D) PROVE TypeOK'
  <2> DEFINE issued == (IF IsTainted(vars, v)
                        THEN {Returned(vars[v].taint_sources)} ELSE {})
                         \cup CheckDerefs(vars, D)
  <2>1. D \in SUBSET Names
    BY <1>4 DEF Derefs
  <2>2. IsTainted(vars, v) => vars[v].taint_sources \in SUBSET Names
    BY <1>1 DEF IsTainted, DataflowState, VarState
  <2>3. issued \in SUBSET Warning /\ WildDerefs(path, D) \in SUBSET Names
    BY <2>1, <2>2, WarningTypes, CheckDerefsType, WildDerefsType
  <2>4. CanVisit /\ Visited(issued, WildDerefs(path, D), {})
    BY <1>4 DEF ReturnName
  <2> HIDE DEF issued
  <2>5. returned' \subseteq Names
    BY <1>1, <1>4 DEF ReturnName, TypeOK, Path
  <2>6. blind' \subseteq Reasons
    BY <1>4 DEF ReturnName, TypeOK, Reasons
  <2>7. /\ warnings' \subseteq Warning /\ crashed' \in BOOLEAN
        /\ stack' \in Seq(Frame) /\ ready' \in BOOLEAN
        /\ size' \in 0 .. MaxStmts /\ last' \in Visit
    BY <2>3, <2>4, VisitedType
  <2> QED BY <1>2, <1>4, <2>5, <2>6, <2>7 DEF ReturnName, TypeOK
<1> QED BY <1>3, <1>4

LEMMA TypeEnter ==
  ASSUME TypeOK, NEW D \in AnyDeref, EnterIf(D) \/ EnterLoop(D)
  PROVE  TypeOK'
<1>1. PICK kind \in {"THEN", "LOOP"} : Enter(kind, D)
  BY DEF EnterIf, EnterLoop
<1>2. D \in SUBSET Names
  BY DEF AnyDeref
<1>3. stack' \in Seq(Frame)
  <2>1. Fork(kind) \in Frame /\ stack \in Seq(Frame)
    BY ForkType DEF TypeOK
  <2> QED BY <1>1, <2>1 DEF Enter
<1>4. /\ CheckDerefs(vars, D) \in SUBSET Warning
      /\ WildDerefs(path, D) \in SUBSET Names
  BY <1>2, CheckDerefsType, WildDerefsType
<1>5. last' \in Visit /\ warnings' \subseteq Warning
  BY <1>1, <1>4 DEF Enter, Visit, TypeOK
<1>6. size' \in 0 .. MaxStmts
  BY <1>1, DataflowAssumption DEF Enter, CanVisit, TypeOK
<1>7. leaves' \subseteq Leaf
  BY DEF EnterIf, EnterLoop, TypeOK
<1> QED BY <1>1, <1>3, <1>5, <1>6, <1>7 DEF Enter, TypeOK

LEMMA TypeBranches ==
  ASSUME TypeOK, EnterElse \/ LeaveIf \/ LeaveLoop
  PROVE  TypeOK'
<1>1. /\ stack \in Seq(Frame) /\ stack # <<>>
      /\ vars \in DataflowState /\ path \in Path
  BY DEF TypeOK, EnterElse, LeaveIf, LeaveLoop
<1>2. Top \in Frame /\ Popped \in Seq(Frame)
  BY <1>1, PoppedFacts
<1>3. /\ Top.vars \in DataflowState /\ Top.thenVars \in DataflowState
      /\ Top.path \in Path /\ Top.thenPath \in Path
  BY <1>2 DEF Frame
<1>4. [issued |-> {}, wild |-> {}, target |-> {}] \in Visit
  BY DEF Visit
<1>5. CASE EnterElse
  <2>1. [Top EXCEPT !.kind = "ELSE", !.thenVars = vars, !.thenPath = path] \in Frame
    BY <1>1, <1>2 DEF Frame
  <2>2. stack' \in Seq(Frame)
    BY <1>2, <1>5, <2>1 DEF EnterElse
  <2> QED BY <1>3, <1>4, <1>5, <2>2 DEF EnterElse, NoVisit, TypeOK
<1>6. CASE LeaveIf
  <2>1. vars' \in DataflowState
    <3>1. /\ Merge(Top.vars, vars) \in DataflowState
          /\ Merge(Top.vars, Top.thenVars) \in DataflowState
      BY <1>1, <1>3, MergeFacts
    <3>2. /\ Merge(Merge(Top.vars, vars), Top.vars) \in DataflowState
          /\ Merge(Merge(Top.vars, Top.thenVars), vars) \in DataflowState
      BY <1>1, <1>3, <3>1, MergeFacts
    <3> QED BY <1>6, <3>2 DEF LeaveIf
  <2>2. path' \in Path
    BY <1>1, <1>3, <1>6, JoinFacts DEF LeaveIf
  <2> QED BY <1>2, <1>4, <1>6, <2>1, <2>2 DEF LeaveIf, NoVisit, TypeOK
<1>7. CASE LeaveLoop
  <2>1. vars' \in DataflowState /\ path' \in Path
    BY <1>1, <1>3, <1>7, MergeFacts, JoinFacts DEF LeaveLoop
  <2> QED BY <1>2, <1>4, <1>7, <2>1 DEF LeaveLoop, NoVisit, TypeOK
<1> QED BY <1>5, <1>6, <1>7

LEMMA TypeIterate ==
  ASSUME TypeOK, NEW l \in leaves, Iterate(l)
  PROVE  TypeOK'
<1>1. l \in Leaf /\ path \in Path
  BY DEF TypeOK
<1>2. ValueOf(path, l.addrs, l.froms) \in SUBSET Names
  BY <1>1 DEF ValueOf, Leaf, Path
<1>3. path' \in Path
  BY <1>1, <1>2 DEF Iterate, Path, Leaf
<1>4. blind' \subseteq Reasons
  BY DEF Iterate, Reasons, TypeOK
<1> QED BY <1>3, <1>4 DEF Iterate, TypeOK

LEMMA TypeStep == TypeOK /\ [Next]_allvars => TypeOK'
<1> SUFFICES ASSUME TypeOK, [Next]_allvars PROVE TypeOK'
  OBVIOUS
<1>1. CASE Assign
  BY <1>1, TypeAssign
<1>2. CASE Return
  BY <1>2, TypeReturn
<1>3. ASSUME NEW D \in AnyDeref, EnterIf(D) \/ EnterLoop(D) PROVE TypeOK'
  BY <1>3, TypeEnter
<1>4. CASE EnterElse \/ LeaveIf \/ LeaveLoop
  BY <1>4, TypeBranches
<1>5. ASSUME NEW l \in leaves, Iterate(l) PROVE TypeOK'
  BY <1>5, TypeIterate
<1>6. CASE UNCHANGED allvars
  BY <1>6 DEF TypeOK, allvars, reference
<1> QED BY <1>1, <1>2, <1>3, <1>4, <1>5, <1>6 DEF Next

(* The analyser's state and the reference keep their types, whatever the   *)
(* program and its size.                                                   *)
THEOREM TypeCorrect == Spec => []TypeOK
BY TypeInit, TypeStep, PTL DEF Spec

-----------------------------------------------------------------------------
(***************************************************************************)
(* Wild dereferences.                                                      *)
(***************************************************************************)
LEMMA FollowStore ==
  ASSUME NEW V \in DataflowState, NEW W \in DataflowState, NEW P \in Path,
         NEW t \in Names, NEW addrs \in SUBSET Names,
         NEW froms \in SUBSET Names,
         MustFollows(V, P),
         \A v \in Tracked : W[v].assigned => v = t \/ V[v].assigned
  PROVE  MustFollows(W, Store(P, t, addrs, froms))
BY DEF MustFollows, Store, Path, DataflowState, VarState

LEMMA FollowJoin ==
  ASSUME NEW U \in DataflowState, NEW V \in DataflowState,
         NEW W \in DataflowState, NEW P \in Path, NEW Q \in Path,
         MustFollows(V, P), MustFollows(W, Q)
  PROVE  /\ MustFollows(Merge(V, W), Join(P, Q))
         /\ MustFollows(Merge(Merge(U, V), W), Join(P, Q))
<1>1. Merge(U, V) \in DataflowState
  BY MergeFacts
<1>2. \A v \in Tracked :
         /\ Merge(V, W)[v].assigned => V[v].assigned /\ W[v].assigned
         /\ Merge(Merge(U, V), W)[v].assigned => V[v].assigned /\ W[v].assigned
  BY <1>1, MergeFacts
<1>3. ASSUME ~Join(P, Q).dead, NEW v \in Tracked,
             V[v].assigned, W[v].assigned
      PROVE  v \in Join(P, Q).must
  <2>1. v \in Names
    BY TrackedNames
  <2>2. (~P.dead => v \in P.must) /\ (~Q.dead => v \in Q.must)
    BY <1>3 DEF MustFollows
  <2> QED BY <1>3, <2>1, <2>2, JoinFacts
<1> QED BY <1>2, <1>3 DEF MustFollows

LEMMA FollowPush ==
  ASSUME NEW stk \in Seq(Frame), SavedFollow(stk), NEW f \in Frame,
         MustFollows(f.vars, f.path), MustFollows(f.thenVars, f.thenPath)
  PROVE  SavedFollow(Append(stk, f))
BY DEF SavedFollow

LEMMA FollowPop ==
  ASSUME stack \in Seq(Frame), stack # <<>>, SavedFollow(stack)
  PROVE  /\ SavedFollow(Popped)
         /\ MustFollows(Top.vars, Top.path)
         /\ MustFollows(Top.thenVars, Top.thenPath)
<1>1. Len(stack) \in 1 .. Len(stack)
  BY EmptySeq
<1>2. \A i \in 1 .. Len(Popped) : i \in 1 .. Len(stack) /\ Popped[i] = stack[i]
  BY <1>1, PoppedFacts
<1> QED BY <1>1, <1>2 DEF SavedFollow, Top

LEMMA AssignedInit == Init => AssignedInv
<1> SUFFICES ASSUME NEW given \in SUBSET Locals, NEW inherited \in SUBSET Enclosing,
                    vars = [v \in Tracked |-> [assigned |-> v \in given,
                              tainted |-> FALSE, taint_sources |-> {}]],
                    path = [may |-> [v \in Names |-> IF v \in Enclosing
                                       THEN inherited ELSE {}],
                            must |-> given, dead |-> FALSE],
                    stack = <<>>
             PROVE  AssignedInv
  BY DEF Init
<1>1. MustFollows(vars, path)
  BY DEF MustFollows
<1>2. Len(stack) = 0
  BY EmptySeq
<1> QED BY <1>1, <1>2 DEF AssignedInv, SavedFollow

LEMMA AssignedStep == TypeOK /\ AssignedInv /\ [Next]_allvars => AssignedInv'
<1> SUFFICES ASSUME TypeOK, AssignedInv, [Next]_allvars PROVE AssignedInv'
  OBVIOUS
<1>0. /\ vars \in DataflowState /\ path \in Path /\ stack \in Seq(Frame)
      /\ MustFollows(vars, path) /\ SavedFollow(stack)
  BY DEF TypeOK, AssignedInv
<1>1. CASE Assign
  <2> SUFFICES ASSUME NEW t \in Names, NEW s \in Names,
                      \/ AddressAssign(t, s)
                      \/ UnseenAssign(t, s)
                      \/ \E D \in Derefs(s) : CopyAssign(t, s, D)
                      \/ \E D \in Derefs(s) : CopyTaintToGlobal(t, s, D)
                      \/ \E D \in Derefs(s), froms \in {{}, {s}} :
                            ExprAssign(t, froms, D)
                      \/ CopyTaintKeyError(t, s)
               PROVE  AssignedInv'
    BY <1>1 DEF Assign, Derefs
  <2>1. vars' \in DataflowState
    BY TypeStep DEF TypeOK
  <2>2. CASE CopyTaintKeyError(t, s)
    BY <2>2 DEF CopyTaintKeyError, reference, AssignedInv
  <2>3. ASSUME ~CopyTaintKeyError(t, s)
        PROVE  /\ \E addrs \in SUBSET Names, froms \in SUBSET Names :
                     path' = Store(path, t, addrs, froms)
               /\ stack' = stack
    BY <2>3 DEF AddressAssign, UnseenAssign, CopyAssign, CopyTaintToGlobal,
                ExprAssign, Visited, Execute
  <2>4. ASSUME ~CopyTaintKeyError(t, s)
        PROVE  \A v \in Tracked : vars'[v].assigned => v = t \/ vars[v].assigned
    <3>1. CASE AddressAssign(t, s)
      <4> DEFINE B == TaintFromAddressOf(vars, t, s)
      <4>1. B \in DataflowState /\ \A v \in Tracked : B[v].assigned <=> vars[v].assigned
        BY <1>0, TaintFromAddressOfFacts
      <4>2. vars' = MarkAssigned(B, t)
        BY <3>1 DEF AddressAssign
      <4>3. \A v \in Tracked :
               MarkAssigned(B, t)[v].assigned => v = t \/ B[v].assigned
        <5> HIDE DEF B
        <5> QED BY <4>1, MarkAssignedFacts
      <4> HIDE DEF B
      <4> QED BY <4>1, <4>2, <4>3
    <3>2. CASE UnseenAssign(t, s)
      BY <3>2 DEF UnseenAssign
    <3>3. ASSUME NEW D \in Derefs(s), CopyAssign(t, s, D)
          PROVE  \A v \in Tracked : vars'[v].assigned => v = t \/ vars[v].assigned
      BY <1>0, <3>3, CopiedFacts DEF CopyAssign
    <3>4. ASSUME NEW D \in Derefs(s), CopyTaintToGlobal(t, s, D)
          PROVE  \A v \in Tracked : vars'[v].assigned => v = t \/ vars[v].assigned
      <4>1. Copied(t, s) \in DataflowState
        BY <1>0, CopiedFacts
      <4>2. t \in Tracked /\ vars' = ClearTaint(Copied(t, s), t)
        BY <3>4 DEF CopyTaintToGlobal
      <4>3. \A v \in Tracked : vars'[v].assigned <=> Copied(t, s)[v].assigned
        BY <4>1, <4>2, ClearTaintFacts
      <4> QED BY <1>0, <4>3, CopiedFacts
    <3>5. ASSUME NEW D \in Derefs(s), NEW froms \in {{}, {s}},
                 ExprAssign(t, froms, D)
          PROVE  \A v \in Tracked : vars'[v].assigned => v = t \/ vars[v].assigned
      BY <1>0, <3>5, MarkAssignedFacts DEF ExprAssign
    <3> QED BY <2>4, <3>1, <3>2, <3>3, <3>4, <3>5
  <2>5. CASE ~CopyTaintKeyError(t, s)
    <3>1. MustFollows(vars', path')
      BY <1>0, <2>1, <2>3, <2>4, <2>5, FollowStore
    <3> QED BY <1>0, <2>3, <2>5, <3>1 DEF AssignedInv
  <2> QED BY <2>2, <2>5
<1>2. CASE Return
  <2>1. path' = Stop(path) /\ stack' = stack
    BY <1>2 DEF Return, ReturnAddress, ReturnName, Visited
  <2>2. MustFollows(vars', path')
    BY <1>0, <2>1, StopFacts DEF MustFollows
  <2> QED BY <1>0, <2>1, <2>2 DEF AssignedInv
<1>3. ASSUME NEW D \in AnyDeref, EnterIf(D) \/ EnterLoop(D) PROVE AssignedInv'
  <2>1. PICK kind \in {"THEN", "LOOP"} : Enter(kind, D)
    BY <1>3 DEF EnterIf, EnterLoop
  <2>2. /\ vars' = vars /\ path' = path
        /\ stack' = Append(stack, Fork(kind))
    BY <2>1 DEF Enter
  <2>3. /\ Fork(kind) \in Frame
        /\ Fork(kind).vars = vars /\ Fork(kind).thenVars = vars
        /\ Fork(kind).path = path /\ Fork(kind).thenPath = path
    BY ForkType DEF Fork
  <2> QED BY <1>0, <2>2, <2>3, FollowPush DEF AssignedInv
<1>4. CASE EnterElse \/ LeaveIf \/ LeaveLoop
  <2>1. stack # <<>>
    BY <1>4 DEF EnterElse, LeaveIf, LeaveLoop
  <2>2. Top \in Frame /\ Popped \in Seq(Frame)
    BY <1>0, <2>1, PoppedFacts
  <2>3. /\ Top.vars \in DataflowState /\ Top.thenVars \in DataflowState
        /\ Top.path \in Path /\ Top.thenPath \in Path
    BY <2>2 DEF Frame
  <2>4. /\ SavedFollow(Popped)
        /\ MustFollows(Top.vars, Top.path)
        /\ MustFollows(Top.thenVars, Top.thenPath)
    BY <1>0, <2>1, FollowPop
  <2>5. CASE EnterElse
    <3> DEFINE f == [Top EXCEPT !.kind = "ELSE", !.thenVars = vars,
                                !.thenPath = path]
    <3>1. /\ f \in Frame /\ f.vars = Top.vars /\ f.path = Top.path
          /\ f.thenVars = vars /\ f.thenPath = path
      BY <1>0, <2>2 DEF Frame
    <3>2. /\ stack' = Append(Popped, f)
          /\ vars' = Top.vars /\ path' = Top.path
      BY <2>5 DEF EnterElse
    <3> HIDE DEF f
    <3> QED BY <1>0, <2>2, <2>4, <3>1, <3>2, FollowPush DEF AssignedInv
  <2>6. CASE LeaveIf
    <3>1. MustFollows(vars', path')
      BY <1>0, <2>3, <2>4, <2>6, FollowJoin DEF LeaveIf
    <3> QED BY <2>4, <2>6, <3>1 DEF LeaveIf, AssignedInv
  <2>7. CASE LeaveLoop
    <3>1. MustFollows(vars', path')
      BY <1>0, <2>3, <2>4, <2>7, FollowJoin DEF LeaveLoop
    <3> QED BY <2>4, <2>7, <3>1 DEF LeaveLoop, AssignedInv
  <2> QED BY <1>4, <2>5, <2>6, <2>7
<1>5. ASSUME NEW l \in leaves, Iterate(l) PROVE AssignedInv'
  <2>1. path'.must = path.must /\ path'.dead = path.dead
    BY <1>0, <1>5 DEF Iterate, Path
  <2>2. vars' = vars /\ stack' = stack
    BY <1>5 DEF Iterate
  <2> QED BY <1>0, <2>1, <2>2 DEF AssignedInv, MustFollows
<1>6. CASE UNCHANGED allvars
  BY <1>6 DEF AssignedInv, allvars, reference, MustFollows, SavedFollow
<1> QED BY <1>1, <1>2, <1>3, <1>4, <1>5, <1>6 DEF Next

(* A pointer that is not assigned in the analyser's eyes gets its warning. *)
LEMMA WildIsUnassigned ==
  ASSUME MustFollows(vars, path), NEW W, NEW D, NEW target,
         \A v \in Tracked \ target : W[v].assigned => vars[v].assigned
  PROVE  \A v \in (WildDerefs(path, D) \cap Tracked) \ target :
           Uninit(v) \in CheckDerefs(W, D)
BY DEF MustFollows, WildDerefs, CheckDerefs

LEMMA UninitStep ==
  TypeOK /\ AssignedInv /\ UninitDerefReported /\ [Next]_allvars
    => UninitDerefReported'
<1> SUFFICES ASSUME TypeOK, AssignedInv, UninitDerefReported, [Next]_allvars
             PROVE  UninitDerefReported'
  OBVIOUS
<1>0. vars \in DataflowState /\ MustFollows(vars, path)
  BY DEF TypeOK, AssignedInv
<1> DEFINE Reported(issued, wild, target) ==
             \A v \in (wild \cap Tracked) \ target : Uninit(v) \in issued
<1>1. ASSUME NEW issued, NEW wild, NEW target,
             last' = [issued |-> issued, wild |-> wild, target |-> target],
             Reported(issued, wild, target)
      PROVE  UninitDerefReported'
  BY <1>1 DEF UninitDerefReported
<1>2. CASE Assign
  <2> SUFFICES ASSUME NEW t \in Names, NEW s \in Names,
                      \/ AddressAssign(t, s)
                      \/ UnseenAssign(t, s)
                      \/ \E D \in Derefs(s) : CopyAssign(t, s, D)
                      \/ \E D \in Derefs(s) : CopyTaintToGlobal(t, s, D)
                      \/ \E D \in Derefs(s), froms \in {{}, {s}} :
                            ExprAssign(t, froms, D)
                      \/ CopyTaintKeyError(t, s)
               PROVE  UninitDerefReported'
    BY <1>2 DEF Assign, Derefs
  <2>1. CASE AddressAssign(t, s) \/ UnseenAssign(t, s)
    BY <2>1 DEF AddressAssign, UnseenAssign, Visited, UninitDerefReported
  <2>2. /\ \A v \in Tracked \ {t} : Copied(t, s)[v].assigned => vars[v].assigned
        /\ \A v \in Tracked \ {t} :
              MarkAssigned(vars, t)[v].assigned => vars[v].assigned
    BY <1>0, CopiedFacts, MarkAssignedFacts
  <2>3. ASSUME NEW D \in Derefs(s), CopyAssign(t, s, D)
        PROVE  UninitDerefReported'
    <3>1. Reported(CheckDerefs(Copied(t, s), D), WildDerefs(path, D), {t})
      BY <1>0, <2>2, WildIsUnassigned
    <3> HIDE DEF Reported
    <3> QED BY <1>1, <2>3, <3>1 DEF CopyAssign, Visited
  <2>4. ASSUME NEW D \in Derefs(s), CopyTaintToGlobal(t, s, D)
        PROVE  UninitDerefReported'
    <3> DEFINE issued == {Dangling(t, Copied(t, s)[s].taint_sources)}
                           \cup CheckDerefs(Copied(t, s), D)
    <3>1. Reported(CheckDerefs(Copied(t, s), D), WildDerefs(path, D), {t})
      BY <1>0, <2>2, WildIsUnassigned
    <3>2. Reported(issued, WildDerefs(path, D), {t})
      BY <3>1
    <3>3. last' = [issued |-> issued, wild |-> WildDerefs(path, D),
                   target |-> {t}]
      BY <2>4 DEF CopyTaintToGlobal, Visited
    <3> HIDE DEF Reported, issued
    <3> QED BY <1>1, <3>2, <3>3
  <2>5. ASSUME NEW D \in Derefs(s), NEW froms \in {{}, {s}},
               ExprAssign(t, froms, D)
        PROVE  UninitDerefReported'
    <3>1. Reported(CheckDerefs(MarkAssigned(vars, t), D), WildDerefs(path, D), {t})
      BY <1>0, <2>2, WildIsUnassigned
    <3>2. last' = [issued |-> CheckDerefs(MarkAssigned(vars, t), D),
                   wild |-> WildDerefs(path, D), target |-> {t}]
      <4>1. vars' = MarkAssigned(vars, t)
        BY <2>5 DEF ExprAssign
      <4>2. last' = [issued |-> CheckDerefs(vars', D),
                     wild |-> WildDerefs(path, D), target |-> {t}]
        BY <2>5 DEF ExprAssign, Visited
      <4> QED BY <4>1, <4>2
    <3> HIDE DEF Reported
    <3> QED BY <1>1, <3>1, <3>2
  <2>6. CASE CopyTaintKeyError(t, s)
    BY <2>6 DEF CopyTaintKeyError, UninitDerefReported
  <2> QED BY <2>1, <2>3, <2>4, <2>5, <2>6
<1>3. CASE Return
  <2>1. ASSUME NEW v \in Names, ReturnAddress(v) PROVE UninitDerefReported'
    BY <2>1 DEF ReturnAddress, Visited, UninitDerefReported
  <2>2. ASSUME NEW v \in Names, NEW D \in Derefs(v), ReturnName(v, D)
        PROVE  UninitDerefReported'
    <3> DEFINE issued == (IF IsTainted(vars, v)
                          THEN {Returned(vars[v].taint_sources)} ELSE {})
                           \cup CheckDerefs(vars, D)
    <3>1. Reported(CheckDerefs(vars, D), WildDerefs(path, D), {})
      BY <1>0, WildIsUnassigned
    <3>2. Reported(issued, WildDerefs(path, D), {})
      BY <3>1
    <3>3. last' = [issued |-> issued, wild |-> WildDerefs(path, D),
                   target |-> {}]
      BY <2>2 DEF ReturnName, Visited
    <3> HIDE DEF Reported, issued
    <3> QED BY <1>1, <3>2, <3>3
  <2> QED BY <1>3, <2>1, <2>2 DEF Return
<1>4. ASSUME NEW D \in AnyDeref, EnterIf(D) \/ EnterLoop(D)
      PROVE  UninitDerefReported'
  <2>1. Reported(CheckDerefs(vars, D), WildDerefs(path, D), {})
    BY <1>0, WildIsUnassigned
  <2>2. last' = [issued |-> CheckDerefs(vars, D),
                 wild |-> WildDerefs(path, D), target |-> {}]
    BY <1>4 DEF EnterIf, EnterLoop, Enter
  <2> HIDE DEF Reported
  <2> QED BY <1>1, <2>1, <2>2
<1>5. CASE EnterElse \/ LeaveIf \/ LeaveLoop
  BY <1>5 DEF EnterElse, LeaveIf, LeaveLoop, NoVisit, UninitDerefReported
<1>6. ASSUME NEW l \in leaves, Iterate(l) PROVE UninitDerefReported'
  BY <1>6 DEF Iterate, UninitDerefReported
<1>7. CASE UNCHANGED allvars
  BY <1>7 DEF UninitDerefReported, allvars
<1> QED BY <1>2, <1>3, <1>4, <1>5, <1>6, <1>7 DEF Next

(* Every dereference that some path reaches with the pointer unassigned    *)
(* is reported, for every program the walk can visit: _check_derefs_in_expr*)
(* misses only the pointer its own statement assigns.                      *)
THEOREM WildDereferencesReported == Spec => []UninitDerefReported
<1>1. Init => UninitDerefReported
  BY DEF Init, UninitDerefReported
<1> QED BY <1>1, TypeInit, TypeStep, AssignedInit, AssignedStep, UninitStep, PTL
        DEF Spec

-----------------------------------------------------------------------------
(***************************************************************************)
(* Escaping addresses.                                                     *)
(***************************************************************************)

(* A warning only adds to what has been reported.                          *)
LEMMA ReportedGrows ==
  ASSUME NEW issued, warnings' = warnings \cup issued
  PROVE  /\ ReportedSources \subseteq ReportedSources'
         /\ \A w \in issued : w.sources \subseteq ReportedSources'
BY DEF ReportedSources

LEMMA SoundGrows ==
  ASSUME NEW R, NEW S, R \subseteq S
  PROVE  /\ \A V, P : Sound(V, P, R) => Sound(V, P, S)
         /\ \A stk : SavedSound(stk, R) => SavedSound(stk, S)
<1>1. ASSUME NEW V, NEW P, Sound(V, P, R) PROVE Sound(V, P, S)
  BY <1>1 DEF Sound, Covered, NoSilentEscape
<1> QED BY <1>1 DEF SavedSound

(* A store keeps the state sound when its target is left with the taint of *)
(* the stored addresses, and a global target has them reported.            *)
LEMMA SoundStore ==
  ASSUME NEW V \in DataflowState, NEW W \in DataflowState, NEW P \in Path,
         NEW t \in Names, NEW addrs \in SUBSET Names,
         NEW froms \in SUBSET Names, NEW R, NEW S, R \subseteq S,
         Sound(V, P, R),
         \A v \in Tracked \ {t} :
            /\ W[v].tainted <=> V[v].tainted
            /\ W[v].taint_sources = V[v].taint_sources,
         ~P.dead => \A x \in ValueOf(P, addrs, froms) \cap Scoped :
            /\ t \in Tracked => /\ x \in W[t].taint_sources
                                /\ W[t].tainted \/ x \in S
            /\ t \in Globals => x \in S
  PROVE  Sound(W, Store(P, t, addrs, froms), S)
<1> DEFINE Q == Store(P, t, addrs, froms)
<1>1. /\ ~Q.dead => ~P.dead
      /\ ~P.dead => /\ Q.may[t] = ValueOf(P, addrs, froms)
                    /\ \A v \in Names \ {t} : Q.may[v] = P.may[v]
  BY DEF Store, Path
<1>2. Tracked \subseteq Names /\ Globals \subseteq Names
  BY TrackedNames DEF Names
<1>3. ASSUME ~Q.dead, NEW v \in Tracked, NEW x \in Q.may[v] \cap Scoped
      PROVE  x \in W[v].taint_sources /\ (W[v].tainted \/ x \in S)
  <2> HIDE DEF Q
  <2>1. CASE v = t
    BY <1>1, <1>3, <2>1
  <2>2. CASE v # t
    <3>1. x \in V[v].taint_sources /\ (V[v].tainted \/ x \in R)
      BY <1>1, <1>2, <1>3, <2>2 DEF Sound, Covered
    <3> QED BY <2>2, <3>1
  <2> QED BY <2>1, <2>2
<1>4. ASSUME ~Q.dead, NEW g \in Globals, NEW x \in Q.may[g] \cap Scoped
      PROVE  x \in S
  <2> HIDE DEF Q
  <2>1. CASE g = t
    BY <1>1, <1>4, <2>1
  <2>2. CASE g # t
    BY <1>1, <1>2, <1>4, <2>2 DEF Sound, NoSilentEscape
  <2> QED BY <2>1, <2>2
<1> HIDE DEF Q
<1>5. Sound(W, Q, S)
  BY <1>3, <1>4 DEF Sound, Covered, NoSilentEscape
<1> QED BY <1>5 DEF Q

(* The join of two sound states is sound, with any state merged in first.  *)
LEMMA SoundJoin ==
  ASSUME NEW U \in DataflowState, NEW V \in DataflowState,
         NEW W \in DataflowState, NEW P \in Path, NEW Q \in Path, NEW R,
         Sound(V, P, R), Sound(W, Q, R)
  PROVE  /\ Sound(Merge(V, W), Join(P, Q), R)
         /\ Sound(Merge(Merge(U, V), W), Join(P, Q), R)
<1> DEFINE J == Join(P, Q)
<1>1. Merge(U, V) \in DataflowState
  BY MergeFacts
<1>2. \A v \in Tracked :
         /\ V[v].tainted \/ W[v].tainted => /\ Merge(V, W)[v].tainted
                                           /\ Merge(Merge(U, V), W)[v].tainted
         /\ V[v].taint_sources \cup W[v].taint_sources
              \subseteq Merge(V, W)[v].taint_sources
         /\ V[v].taint_sources \cup W[v].taint_sources
              \subseteq Merge(Merge(U, V), W)[v].taint_sources
  BY <1>1, MergeFacts
<1>3. ~J.dead => \A v \in Names : \A x \in J.may[v] :
                    \/ ~P.dead /\ x \in P.may[v]
                    \/ ~Q.dead /\ x \in Q.may[v]
  BY JoinFacts
<1> HIDE DEF J
<1>4. ASSUME ~J.dead, NEW v \in Tracked, NEW x \in J.may[v] \cap Scoped
      PROVE  /\ x \in V[v].taint_sources \cup W[v].taint_sources
             /\ V[v].tainted \/ W[v].tainted \/ x \in R
  <2>1. v \in Names
    BY TrackedNames
  <2>2. \/ ~P.dead /\ x \in P.may[v] \cap Scoped
        \/ ~Q.dead /\ x \in Q.may[v] \cap Scoped
    BY <1>3, <1>4, <2>1
  <2> QED BY <2>2 DEF Sound, Covered
<1>5. ASSUME ~J.dead, NEW g \in Globals, NEW x \in J.may[g] \cap Scoped
      PROVE  x \in R
  <2>1. g \in Names
    BY DEF Names
  <2>2. \/ ~P.dead /\ x \in P.may[g] \cap Scoped
        \/ ~Q.dead /\ x \in Q.may[g] \cap Scoped
    BY <1>3, <1>5, <2>1
  <2> QED BY <2>2 DEF Sound, NoSilentEscape
<1>6. Sound(Merge(V, W), J, R) /\ Sound(Merge(Merge(U, V), W), J, R)
  BY <1>2, <1>4, <1>5 DEF Sound, Covered, NoSilentEscape
<1> QED BY <1>6 DEF J

LEMMA SavedPush ==
  ASSUME NEW stk \in Seq(Frame), NEW R, SavedSound(stk, R), NEW f \in Frame,
         Sound(f.vars, f.path, R), Sound(f.thenVars, f.thenPath, R)
  PROVE  SavedSound(Append(stk, f), R)
BY DEF SavedSound

LEMMA SavedPop ==
  ASSUME stack \in Seq(Frame), stack # <<>>, NEW R, SavedSound(stack, R)
  PROVE  /\ SavedSound(Popped, R)
         /\ Sound(Top.vars, Top.path, R)
         /\ Sound(Top.thenVars, Top.thenPath, R)
<1>1. Len(stack) \in 1 .. Len(stack)
  BY EmptySeq
<1>2. \A i \in 1 .. Len(Popped) : i \in 1 .. Len(stack) /\ Popped[i] = stack[i]
  BY <1>1, PoppedFacts
<1> QED BY <1>1, <1>2 DEF SavedSound, Top

LEMMA TaintInit == Init => TaintInv
<1> SUFFICES ASSUME NEW given \in SUBSET Locals, NEW inherited \in SUBSET Enclosing,
                    vars = [v \in Tracked |-> [assigned |-> v \in given,
                              tainted |-> FALSE, taint_sources |-> {}]],
                    path = [may |-> [v \in Names |-> IF v \in Enclosing
                                       THEN inherited ELSE {}],
                            must |-> given, dead |-> FALSE],
                    stack = <<>>, returned = {}
             PROVE  TaintInv
  BY DEF Init
<1>1. \A v \in Tracked \cup Globals : path.may[v] = {}
  BY DataflowAssumption DEF Tracked, Names
<1>2. Sound(vars, path, ReportedSources)
  BY <1>1 DEF Sound, Covered, NoSilentEscape
<1>3. Len(stack) = 0
  BY EmptySeq
<1> QED BY <1>2, <1>3 DEF TaintInv, SavedSound

(* The visit of an assignment, from what it does to the taint of t.        *)
LEMMA TaintVisit ==
  ASSUME TypeOK, TaintInv, blind = {}, vars' \in DataflowState,
         NEW t \in Names, NEW addrs \in SUBSET Names,
         NEW froms \in SUBSET Names, NEW issued, NEW wild, NEW target, NEW why,
         Visited(issued, wild, target), Execute(t, addrs, froms, why),
         \A v \in Tracked \ {t} :
            /\ vars'[v].tainted <=> vars[v].tainted
            /\ vars'[v].taint_sources = vars[v].taint_sources,
         ~path.dead => \A x \in ValueOf(path, addrs, froms) \cap Scoped :
            /\ t \in Tracked => /\ x \in vars'[t].taint_sources
                                /\ vars'[t].tainted \/ x \in ReportedSources'
            /\ t \in Globals => x \in ReportedSources'
  PROVE  TaintInv'
<1>1. /\ vars \in DataflowState /\ path \in Path
      /\ Sound(vars, path, ReportedSources)
      /\ SavedSound(stack, ReportedSources)
      /\ returned \subseteq ReportedSources
  BY DEF TypeOK, TaintInv
<1>2. ReportedSources \subseteq ReportedSources'
  BY ReportedGrows DEF Visited
<1>3. Sound(vars', Store(path, t, addrs, froms), ReportedSources')
  <2> DEFINE R == ReportedSources
             S == ReportedSources'
             W == vars'
  <2> HIDE DEF R, S, W
  <2>1. Sound(W, Store(path, t, addrs, froms), S)
    BY <1>1, <1>2, SoundStore DEF R, S, W
  <2> QED BY <2>1 DEF S, W
<1>4. stack' = stack /\ returned' = returned
      /\ path' = Store(path, t, addrs, froms)
  BY DEF Visited, Execute
<1>5. SavedSound(stack', ReportedSources')
  BY <1>1, <1>2, <1>4, SoundGrows
<1> QED BY <1>1, <1>2, <1>3, <1>4, <1>5 DEF TaintInv

LEMMA TaintAssign == TypeOK /\ TaintInv /\ Assign => TaintInv'
<1> SUFFICES ASSUME TypeOK, TaintInv, blind' = {}, NEW t \in Names, NEW s \in Names,
                    \/ AddressAssign(t, s)
                    \/ UnseenAssign(t, s)
                    \/ \E D \in Derefs(s) : CopyAssign(t, s, D)
                    \/ \E D \in Derefs(s) : CopyTaintToGlobal(t, s, D)
                    \/ \E D \in Derefs(s), froms \in {{}, {s}} :
                          ExprAssign(t, froms, D)
                    \/ CopyTaintKeyError(t, s)
             PROVE  TaintInv'
  BY DEF Assign, Derefs, TaintInv
<1>0. /\ vars \in DataflowState /\ path \in Path
  BY DEF TypeOK
<1>1. blind = {} /\ Sound(vars, path, ReportedSources)
  BY DEF AddressAssign, UnseenAssign, CopyAssign, CopyTaintToGlobal,
         ExprAssign, CopyTaintKeyError, Execute, reference, TaintInv
<1>2. CASE AddressAssign(t, s)
  <2> DEFINE B == TaintFromAddressOf(vars, t, s)
             issued == IF s \in Scoped /\ t \in Globals
                       THEN {Dangling(t, {s})} ELSE {}
  <2>1. /\ B \in DataflowState
        /\ \A v \in Tracked \ {t} : B[v] = vars[v]
        /\ t \in Tracked => B[t].tainted /\ s \in B[t].taint_sources
    BY <1>0, TaintFromAddressOfFacts
  <2>2. /\ MarkAssigned(B, t) \in DataflowState
        /\ \A v \in Tracked :
             /\ MarkAssigned(B, t)[v].tainted <=> B[v].tainted
             /\ MarkAssigned(B, t)[v].taint_sources = B[v].taint_sources
    <3> HIDE DEF B
    <3> QED BY <2>1, MarkAssignedFacts
  <2>3. /\ vars' = MarkAssigned(B, t)
        /\ Visited(issued, {}, {t})
        /\ Execute(t, {s}, {}, {})
    BY <1>2 DEF AddressAssign
  <2>4. s \in Scoped /\ t \in Globals => s \in ReportedSources'
    <3>1. \A w \in issued : w.sources \subseteq ReportedSources'
      <4> HIDE DEF issued
      <4> QED BY <2>3, ReportedGrows DEF Visited
    <3> QED BY <3>1 DEF Dangling
  <2>5. ValueOf(path, {s}, {}) = {s}
    BY DEF ValueOf
  <2> HIDE DEF B, issued
  <2>6. vars' \in DataflowState
    BY <2>2, <2>3
  <2>7. \A v \in Tracked \ {t} :
           /\ vars'[v].tainted <=> vars[v].tainted
           /\ vars'[v].taint_sources = vars[v].taint_sources
    BY <2>1, <2>2, <2>3
  <2>8. t \in Tracked => vars'[t].tainted /\ s \in vars'[t].taint_sources
    BY <2>1, <2>2, <2>3
  <2> QED BY <1>1, <2>3, <2>4, <2>5, <2>6, <2>7, <2>8, TaintVisit
<1>3. CASE UnseenAssign(t, s)
  <2>1. path.dead /\ vars' = vars
    BY <1>3 DEF UnseenAssign, Execute
  <2>2. PICK why : Visited({}, {}, {t}) /\ Execute(t, {s}, {}, why)
    BY <1>3 DEF UnseenAssign
  <2> QED BY <1>0, <1>1, <2>1, <2>2, TaintVisit
<1>4. ASSUME NEW D \in Derefs(s), CopyAssign(t, s, D) PROVE TaintInv'
  <2>1. PICK why :
           /\ vars' = Copied(t, s)
           /\ Visited(CheckDerefs(Copied(t, s), D), WildDerefs(path, D), {t})
           /\ Execute(t, {}, {s}, why)
           /\ s \notin Tracked /\ HoldsScoped(path, {s}) => why # {}
    BY <1>4 DEF CopyAssign
  <2>2. s \in Tracked \/ ~HoldsScoped(path, {s})
    BY <2>1 DEF Execute
  <2>3. ReportedSources \subseteq ReportedSources'
    BY <2>1, ReportedGrows DEF Visited
  <2>4. /\ vars' \in DataflowState
        /\ \A v \in Tracked \ {t} :
             /\ vars'[v].tainted <=> vars[v].tainted
             /\ vars'[v].taint_sources = vars[v].taint_sources
        /\ t \in Tracked /\ s \in Tracked =>
             /\ vars'[t].tainted <=> vars[s].tainted
             /\ vars'[t].taint_sources = vars[s].taint_sources
    BY <1>0, <2>1, CopiedFacts
  <2>5. t \in Globals /\ s \in Tracked => ~vars[s].tainted
    <3>1. t \in Globals => ~IsTainted(Copied(t, s), s)
      BY <1>4 DEF CopyAssign, StoresTaint
    <3> QED BY <2>1, <2>4, <3>1 DEF IsTainted
  <2>6. ASSUME ~path.dead, NEW x \in ValueOf(path, {}, {s}) \cap Scoped
        PROVE  /\ t \in Tracked => /\ x \in vars'[t].taint_sources
                                   /\ vars'[t].tainted \/ x \in ReportedSources'
               /\ t \in Globals => x \in ReportedSources'
    <3>1. x \in path.may[s] \cap Scoped
      BY <2>6 DEF ValueOf
    <3>2. s \in Tracked
      BY <2>2, <2>6, <3>1 DEF HoldsScoped
    <3>3. /\ x \in vars[s].taint_sources
          /\ vars[s].tainted \/ x \in ReportedSources
      BY <1>1, <2>6, <3>1, <3>2 DEF Sound, Covered
    <3> QED BY <2>3, <2>4, <2>5, <3>2, <3>3
  <2> QED BY <1>1, <2>1, <2>4, <2>6, TaintVisit
<1>5. ASSUME NEW D \in Derefs(s), CopyTaintToGlobal(t, s, D) PROVE TaintInv'
  <2> DEFINE C == Copied(t, s)
             issued == {Dangling(t, C[s].taint_sources)} \cup CheckDerefs(C, D)
  <2>1. /\ t \in Tracked /\ s \in Tracked
        /\ vars' = ClearTaint(C, t)
        /\ Visited(issued, WildDerefs(path, D), {t})
        /\ Execute(t, {}, {s}, {})
    BY <1>5 DEF CopyTaintToGlobal, StoresTaint, IsTainted
  <2>2. /\ C \in DataflowState
        /\ C[s].taint_sources = vars[s].taint_sources
        /\ C[t].taint_sources = vars[s].taint_sources
        /\ \A v \in Tracked \ {t} :
             /\ C[v].tainted <=> vars[v].tainted
             /\ C[v].taint_sources = vars[v].taint_sources
    <3>1. s = t \/ s \in Tracked \ {t}
      BY <2>1
    <3> QED BY <1>0, <2>1, <3>1, CopiedFacts
  <2>3. vars[s].taint_sources \subseteq ReportedSources'
    <3>1. \A w \in issued : w.sources \subseteq ReportedSources'
      <4> HIDE DEF issued
      <4> QED BY <2>1, ReportedGrows DEF Visited
    <3>2. Dangling(t, C[s].taint_sources) \in issued
      OBVIOUS
    <3>3. Dangling(t, C[s].taint_sources).sources = vars[s].taint_sources
      BY <2>2 DEF Dangling
    <3> HIDE DEF C, issued
    <3> QED BY <3>1, <3>2, <3>3
  <2> HIDE DEF C, issued
  <2>4. /\ vars' \in DataflowState
        /\ vars'[t].taint_sources = vars[s].taint_sources
        /\ \A v \in Tracked \ {t} :
             /\ vars'[v].tainted <=> vars[v].tainted
             /\ vars'[v].taint_sources = vars[v].taint_sources
    BY <2>1, <2>2, ClearTaintFacts
  <2>5. ASSUME ~path.dead, NEW x \in ValueOf(path, {}, {s}) \cap Scoped
        PROVE  x \in vars[s].taint_sources
    <3>1. x \in path.may[s] \cap Scoped
      BY <2>5 DEF ValueOf
    <3> QED BY <1>1, <2>1, <2>5, <3>1 DEF Sound, Covered
  <2> QED BY <1>1, <2>1, <2>3, <2>4, <2>5, TaintVisit
<1>6. ASSUME NEW D \in Derefs(s), NEW froms \in {{}, {s}},
             ExprAssign(t, froms, D)
      PROVE  TaintInv'
  <2>1. PICK issued, why :
           /\ vars' = MarkAssigned(vars, t)
           /\ Visited(issued, WildDerefs(path, D), {t})
           /\ Execute(t, {}, froms, why)
           /\ HoldsScoped(path, froms) => why # {}
    BY <1>6 DEF ExprAssign
  <2>2. /\ vars' \in DataflowState
        /\ \A v \in Tracked \ {t} :
             /\ vars'[v].tainted <=> vars[v].tainted
             /\ vars'[v].taint_sources = vars[v].taint_sources
    BY <1>0, <2>1, MarkAssignedFacts
  <2>3. ~HoldsScoped(path, froms)
    BY <2>1 DEF Execute
  <2>4. ASSUME ~path.dead PROVE ValueOf(path, {}, froms) \cap Scoped = {}
    BY <2>3, <2>4 DEF ValueOf, HoldsScoped
  <2>5. froms \in SUBSET Names
    BY <1>6
  <2> QED BY <1>1, <2>1, <2>2, <2>4, <2>5, TaintVisit
<1>7. CASE CopyTaintKeyError(t, s)
  BY <1>7 DEF CopyTaintKeyError, reference, TaintInv, ReportedSources
<1> QED BY <1>2, <1>3, <1>4, <1>5, <1>6, <1>7

LEMMA TaintReturn == TypeOK /\ TaintInv /\ Return => TaintInv'
<1> SUFFICES ASSUME TypeOK, TaintInv, Return, blind' = {} PROVE TaintInv'
  BY DEF TaintInv
<1>1. /\ path \in Path /\ blind = {}
      /\ Sound(vars, path, ReportedSources)
      /\ SavedSound(stack, ReportedSources)
      /\ returned \subseteq ReportedSources
  BY DEF TypeOK, Return, ReturnAddress, ReturnName, TaintInv
<1>2. ASSUME NEW issued, NEW wild, Visited(issued, wild, {}), path' = Stop(path),
             returned' \subseteq returned \cup ReportedSources'
      PROVE  TaintInv'
  <2>1. ReportedSources \subseteq ReportedSources'
    BY <1>2, ReportedGrows DEF Visited
  <2>2. Sound(vars, path, ReportedSources)'
    BY <1>1, <1>2, StopFacts DEF Sound, Covered, NoSilentEscape
  <2>3. stack' = stack
    BY <1>2 DEF Visited
  <2>4. SavedSound(stack', ReportedSources')
    BY <1>1, <2>1, <2>3, SoundGrows
  <2> QED BY <1>1, <1>2, <2>1, <2>2, <2>4 DEF TaintInv
<1>3. ASSUME NEW x \in Names, ReturnAddress(x) PROVE TaintInv'
  <2> DEFINE issued == IF x \in Scoped THEN {Returned({x})} ELSE {}
  <2>1. /\ Visited(issued, {}, {}) /\ path' = Stop(path)
        /\ returned' = returned \cup (IF path.dead THEN {} ELSE {x} \cap Scoped)
    BY <1>3 DEF ReturnAddress
  <2>2. \A w \in issued : w.sources \subseteq ReportedSources'
    <3> HIDE DEF issued
    <3> QED BY <2>1, ReportedGrows DEF Visited
  <2>3. x \in Scoped => x \in ReportedSources'
    BY <2>2 DEF Returned
  <2> HIDE DEF issued
  <2> QED BY <1>2, <2>1, <2>3
<1>4. ASSUME NEW v \in Names, NEW D \in Derefs(v), ReturnName(v, D)
      PROVE  TaintInv'
  <2> DEFINE tainted == IF IsTainted(vars, v)
                        THEN {Returned(vars[v].taint_sources)} ELSE {}
             issued == tainted \cup CheckDerefs(vars, D)
  <2>1. /\ Visited(issued, WildDerefs(path, D), {}) /\ path' = Stop(path)
        /\ returned' = returned \cup
                          (IF path.dead THEN {} ELSE path.may[v] \cap Scoped)
        /\ v \in Tracked \/ ~HoldsScoped(path, {v})
    BY <1>4 DEF ReturnName
  <2>2. /\ \A w \in issued : w.sources \subseteq ReportedSources'
        /\ ReportedSources \subseteq ReportedSources'
    <3> HIDE DEF issued
    <3> QED BY <2>1, ReportedGrows DEF Visited
  <2>3. IsTainted(vars, v) => vars[v].taint_sources \subseteq ReportedSources'
    <3>1. ASSUME IsTainted(vars, v)
          PROVE  vars[v].taint_sources \subseteq ReportedSources'
      <4>1. Returned(vars[v].taint_sources) \in issued
        BY <3>1
      <4>2. Returned(vars[v].taint_sources).sources = vars[v].taint_sources
        BY DEF Returned
      <4> HIDE DEF issued
      <4> QED BY <2>2, <4>1, <4>2
    <3> QED BY <3>1
  <2> HIDE DEF tainted, issued
  <2>4. ASSUME ~path.dead, NEW x \in path.may[v] \cap Scoped
        PROVE  x \in ReportedSources'
    <3>1. v \in Tracked
      BY <2>1, <2>4 DEF HoldsScoped
    <3>2. /\ x \in vars[v].taint_sources
          /\ vars[v].tainted \/ x \in ReportedSources
      BY <1>1, <2>4, <3>1 DEF Sound, Covered
    <3> QED BY <2>2, <2>3, <3>1, <3>2 DEF IsTainted
  <2> QED BY <1>2, <2>1, <2>4
<1> QED BY <1>3, <1>4 DEF Return

LEMMA TaintBranches ==
  ASSUME TypeOK, TaintInv,
         \/ \E D \in AnyDeref : EnterIf(D) \/ EnterLoop(D)
         \/ EnterElse \/ LeaveIf \/ LeaveLoop
  PROVE  TaintInv'
<1> SUFFICES ASSUME blind' = {} PROVE TaintInv'
  BY DEF TaintInv
<1>1. /\ vars \in DataflowState /\ path \in Path /\ stack \in Seq(Frame)
      /\ Sound(vars, path, ReportedSources)
      /\ SavedSound(stack, ReportedSources)
      /\ returned \subseteq ReportedSources
      /\ returned' = returned
  BY DEF TypeOK, TaintInv, EnterIf, EnterLoop, Enter, EnterElse, LeaveIf, LeaveLoop
<1>2. ASSUME NEW D \in AnyDeref, EnterIf(D) \/ EnterLoop(D) PROVE TaintInv'
  <2>1. PICK kind \in {"THEN", "LOOP"} : Enter(kind, D)
    BY <1>2 DEF EnterIf, EnterLoop
  <2>2. /\ vars' = vars /\ path' = path
        /\ stack' = Append(stack, Fork(kind))
    BY <2>1 DEF Enter
  <2>3. ReportedSources \subseteq ReportedSources'
    BY <2>1, ReportedGrows DEF Enter
  <2>4. /\ Fork(kind) \in Frame
        /\ Fork(kind).vars = vars /\ Fork(kind).thenVars = vars
        /\ Fork(kind).path = path /\ Fork(kind).thenPath = path
    BY ForkType DEF Fork
  <2>5. /\ Sound(vars, path, ReportedSources')
        /\ SavedSound(stack, ReportedSources')
    BY <1>1, <2>3, SoundGrows
  <2>6. SavedSound(stack', ReportedSources')
    BY <1>1, <2>2, <2>4, <2>5, SavedPush
  <2> QED BY <1>1, <2>2, <2>3, <2>5, <2>6 DEF TaintInv
<1>3. CASE EnterElse \/ LeaveIf \/ LeaveLoop
  <2>0. stack # <<>> /\ ReportedSources' = ReportedSources
    BY <1>3 DEF EnterElse, LeaveIf, LeaveLoop, ReportedSources
  <2>1. Top \in Frame /\ Popped \in Seq(Frame)
    BY <1>1, <2>0, PoppedFacts
  <2>2. /\ Top.vars \in DataflowState /\ Top.thenVars \in DataflowState
        /\ Top.path \in Path /\ Top.thenPath \in Path
    BY <2>1 DEF Frame
  <2>3. /\ SavedSound(Popped, ReportedSources)
        /\ Sound(Top.vars, Top.path, ReportedSources)
        /\ Sound(Top.thenVars, Top.thenPath, ReportedSources)
    BY <1>1, <2>0, SavedPop
  <2>4. ASSUME Sound(vars', path', ReportedSources),
               SavedSound(stack', ReportedSources)
        PROVE  TaintInv'
    BY <1>1, <2>0, <2>4 DEF TaintInv
  <2>5. CASE EnterElse
    <3> DEFINE f == [Top EXCEPT !.kind = "ELSE", !.thenVars = vars,
                                !.thenPath = path]
    <3>1. /\ f \in Frame /\ f.vars = Top.vars /\ f.path = Top.path
          /\ f.thenVars = vars /\ f.thenPath = path
      BY <1>1, <2>1 DEF Frame
    <3>2. /\ stack' = Append(Popped, f)
          /\ vars' = Top.vars /\ path' = Top.path
      BY <2>5 DEF EnterElse
    <3> HIDE DEF f
    <3>3. SavedSound(stack', ReportedSources)
      BY <1>1, <2>1, <2>3, <3>1, <3>2, SavedPush
    <3> QED BY <2>3, <2>4, <3>2, <3>3
  <2>6. CASE LeaveIf
    <3>1. Sound(vars', path', ReportedSources)
      BY <1>1, <2>2, <2>3, <2>6, SoundJoin DEF LeaveIf
    <3> QED BY <2>3, <2>4, <2>6, <3>1 DEF LeaveIf
  <2>7. CASE LeaveLoop
    <3>1. Sound(vars', path', ReportedSources)
      BY <1>1, <2>2, <2>3, <2>7, SoundJoin DEF LeaveLoop
    <3> QED BY <2>3, <2>4, <2>7, <3>1 DEF LeaveLoop
  <2> QED BY <1>3, <2>5, <2>6, <2>7
<1> QED BY <1>2, <1>3

LEMMA TaintStep == TypeOK /\ TaintInv /\ [Next]_allvars => TaintInv'
<1> SUFFICES ASSUME TypeOK, TaintInv, [Next]_allvars PROVE TaintInv'
  OBVIOUS
<1>1. CASE Assign \/ Return
  BY <1>1, TaintAssign, TaintReturn
<1>2. CASE \/ \E D \in AnyDeref : EnterIf(D) \/ EnterLoop(D)
           \/ EnterElse \/ LeaveIf \/ LeaveLoop
  BY <1>2, TaintBranches
<1>3. ASSUME NEW l \in leaves, Iterate(l) PROVE TaintInv'
  BY <1>3 DEF Iterate, TaintInv
<1>4. CASE UNCHANGED allvars
  BY <1>4 DEF TaintInv, Sound, Covered, NoSilentEscape, SavedSound,
              ReportedSources, allvars, reference
<1> QED BY <1>1, <1>2, <1>3, <1>4 DEF Next

(* Unless the analyser was blind to a statement, every address of a local  *)
(* that a program of any length can leave in a global variable is named by *)
(* a DANGLING_POINTER_STORE or RETURN_LOCAL_ADDR warning.                  *)
THEOREM EscapesAlwaysReported == Spec => []EscapesReported
<1>1. TypeOK /\ TaintInv => EscapesReported
  <2> SUFFICES ASSUME TypeOK, TaintInv, blind = {}, NEW x \in Escaped
               PROVE  x \in ReportedSources
    BY DEF EscapesReported
  <2>1. ~path.dead /\ \E g \in Globals : x \in path.may[g] \cap Scoped
    BY DEF Escaped
  <2> QED BY <2>1 DEF TaintInv, Sound, NoSilentEscape
<1> QED BY <1>1, TypeInit, TypeStep, TaintInit, TaintStep, PTL DEF Spec

(* Likewise for every address of a local that a RETURN hands out.          *)
THEOREM ReturnsAlwaysReported == Spec => []ReturnsReported
<1>1. TaintInv => ReturnsReported
  BY DEF TaintInv, ReturnsReported
<1> QED BY <1>1, TypeInit, TypeStep, TaintInit, TaintStep, PTL DEF Spec

-----------------------------------------------------------------------------
(***************************************************************************)
(* Exceptions.                                                             *)
(***************************************************************************)

(* The KeyError of a global store is confined to SUBPROC bodies: a PROC's  *)
(* state tracks every global, so its analysis runs to the end.             *)
THEOREM ProcAnalysisCompletes ==
  ASSUME Unit = "PROC"
  PROVE  Spec => []AnalysisCompletes
<1>1. Init => AnalysisCompletes
  BY DEF Init, AnalysisCompletes
<1>2. AnalysisCompletes /\ [Next]_allvars => AnalysisCompletes'
  <2> SUFFICES ASSUME ~crashed, [Next]_allvars PROVE ~crashed'
    BY DEF AnalysisCompletes
  <2>1. CASE Assign
    <3>1. \A t \in Names, s \in Names : ~CopyTaintKeyError(t, s)
      BY DEF CopyTaintKeyError, StoresTaint, Tracked
    <3>2. \A issued, wild, target :
             Visited(issued, wild, target) => crashed' = crashed
      BY DEF Visited
    <3>3. PICK t \in Names :
            \/ \E x \in Names : AddressAssign(t, x) \/ UnseenAssign(t, x)
            \/ \E s \in Names : \E D \in Derefs(s) :
                 \/ CopyAssign(t, s, D) \/ CopyTaintToGlobal(t, s, D)
                 \/ ExprAssign(t, {s}, D)
            \/ ExprAssign(t, {}, {})
      BY <2>1, <3>1, Zenon DEF Assign
    <3>4. CASE \E x \in Names : AddressAssign(t, x) \/ UnseenAssign(t, x)
      BY <3>2, <3>4, Zenon DEF AddressAssign, UnseenAssign
    <3>5. ASSUME NEW s \in Names, NEW D, CopyAssign(t, s, D) PROVE crashed' = crashed
      BY <3>2, <3>5, Zenon DEF CopyAssign
    <3>6. ASSUME NEW s \in Names, NEW D, CopyTaintToGlobal(t, s, D)
          PROVE  crashed' = crashed
      BY <3>2, <3>6, Zenon DEF CopyTaintToGlobal
    <3>7. ASSUME NEW froms, NEW D, ExprAssign(t, froms, D) PROVE crashed' = crashed
      BY <3>2, <3>7, Zenon DEF ExprAssign
    <3> QED BY <3>3, <3>4, <3>5, <3>6, <3>7, Zenon
  <2>2. CASE Return
    BY <2>2 DEF Return, ReturnAddress, ReturnName, Visited
  <2>3. CASE UNCHANGED allvars
    BY <2>3 DEF allvars
  <2> QED BY <2>1, <2>2, <2>3 DEF Next, EnterIf, EnterLoop, Enter, EnterElse,
             LeaveIf, LeaveLoop, Iterate
<1> QED BY <1>1, <1>2, PTL DEF Spec
=============================================================================

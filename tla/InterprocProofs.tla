--------------------------- MODULE InterprocProofs ---------------------------
(***************************************************************************)
(* Proofs about Interproc for every choice of names and bounds.            *)
(***************************************************************************)
EXTENDS Interproc, SequenceTheorems, TLAPS

-----------------------------------------------------------------------------
(***************************************************************************)
(* The state of the summary walk.                                          *)
(***************************************************************************)

(* What each variable holds, with the domain of the summaries named.       *)
SummaryType ==
  /\ current \in {<<>>} \cup {<<n>> : n \in Procs}
  /\ DOMAIN summaries \subseteq Procs
  /\ DOMAIN leaks = DOMAIN summaries
  /\ DOMAIN missed = DOMAIN summaries
  /\ summaries \in [DOMAIN summaries -> ProcSummary]
  /\ leaks \in [DOMAIN summaries -> SUBSET Positions]
  /\ missed \in [DOMAIN summaries -> SUBSET (Lost \cup Blurred)]
  /\ tainted \in [Own -> SUBSET Positions]
  /\ holds \in [Named -> SUBSET Positions]
  /\ said \subseteq Said
  /\ \A n \in Procs : current = <<n>> => n \in DOMAIN summaries

WalkType ==
  /\ taint \in Sources
  /\ stack \in Seq(Fork)
  /\ ready \in BOOLEAN
  /\ path \in Pointers
  /\ leaves \subseteq Leaf
  /\ uses \subseteq Use
  /\ blind \in BOOLEAN
  /\ last \in Visit

PhaseType ==
  /\ phase \in {"summary", "analysis"}
  /\ phase = "summary" => last = Quiet /\ uses = {}
  /\ phase = "analysis" => current = <<>>
  /\ count \in 0 .. MaxSummary + MaxStmts

(* What the names of the body n hold and what the code takes them to hold: *)
(* a global that is no local holds what has leaked, nothing is tainted     *)
(* with more than it holds, a local that holds something is tainted while  *)
(* the flag may still be missed, and nothing that has not leaked is left   *)
(* out while nothing was missed.                                           *)
Carries(n) ==
  /\ \A v \in Globals \ Own : holds[v] \subseteq leaks[n]
  /\ \A v \in Own : tainted[v] \subseteq holds[v]
  /\ missed[n] \cap Lost = {} /\ ~summaries[n].stores_refs_globally =>
       \A v \in Locals : tainted[v] = {} => holds[v] = {}
  /\ missed[n] = {} => \A v \in Own : holds[v] \subseteq tainted[v] \cup leaks[n]

CarriedInv == \A n \in Procs : current = <<n>> => Carries(n)

SummaryInv == SummaryType /\ CarriedInv /\ LeaksFlagged /\ SummaryExact

(* The taint of a state holds every address a name of it may hold.         *)
Follows(T, P) == \A v \in Keys : P[v] \subseteq T[v]
ForkFollows(f) == Follows(f.base, f.path) /\ Follows(f.then, f.thenPath)
TaintFollows ==
  ~blind => /\ Follows(taint, path)
            /\ \A k \in 1 .. Len(stack) : ForkFollows(stack[k])

(* What was issued for a use was right when the walk was there.            *)
Judged(visit) == CallJudged(visit) /\ EscapeJudged(visit)
UsesJudged == ~blind => \A u \in uses : Judged(u.visit)

IInv ==
  /\ PhaseType /\ SummaryInv /\ WalkType
  /\ TaintFollows /\ UsesJudged /\ CallsReported /\ EscapesReported

-----------------------------------------------------------------------------
(***************************************************************************)
(* Lemmas about the operators.                                             *)
(***************************************************************************)

LEMMA NamesApart ==
  /\ Params \cap Locals = {} /\ Own = Params \cup Locals
  /\ Named = Own \cup Globals
  /\ Keys \subseteq Scoped /\ Scoped \subseteq Vars /\ Globals \subseteq Vars
BY InterprocAssumption DEF Own, Named, Scoped, Vars

(* PositionOf names positions, and every parameter has one.                *)
LEMMA PositionFacts ==
  ASSUME NEW v
  PROVE  /\ PositionOf(v) \subseteq Positions
         /\ v \in Params => PositionOf(v) # {}
         /\ v \notin Params => PositionOf(v) = {}
BY DEF PositionOf, Params

LEMMA LostFacts ==
  /\ "UNSEEN" \in Lost /\ "ITERATE" \in Lost /\ "PASSED" \in Lost /\ "REDECLARED" \in Lost
  /\ "SHADOWED" \notin Lost /\ "ALIASED" \notin Lost
  /\ "SHADOWED" \in Blurred /\ "ALIASED" \in Blurred
BY DEF Lost, Blurred

(* What a store does to the summaries, entry by entry.                     *)
LEMMA StoredInFacts ==
  ASSUME SummaryType, NEW n \in Procs, current = <<n>>,
         NEW t, NEW P \in SUBSET Positions
  PROVE  /\ DOMAIN StoredIn(t, P) = DOMAIN summaries
         /\ StoredIn(t, P) \in [DOMAIN summaries -> ProcSummary]
         /\ \A m \in DOMAIN summaries : m # n => StoredIn(t, P)[m] = summaries[m]
         /\ t \notin Globals \/ P = {} => StoredIn(t, P) = summaries
         /\ t \in Globals /\ P # {} =>
              /\ StoredIn(t, P)[n].stores_refs_globally
              /\ StoredIn(t, P)[n].ref_params_stored =
                   summaries[n].ref_params_stored \cup P
<1>1. current[1] = n /\ n \in DOMAIN summaries
  BY DEF SummaryType
<1>2. summaries[n] \in ProcSummary
  BY <1>1 DEF SummaryType
<1>3. CASE t \notin Globals \/ P = {}
  <2>1. StoredIn(t, P) = summaries
    BY <1>3 DEF StoredIn
  <2> QED BY <1>3, <2>1 DEF SummaryType
<1>4. CASE t \in Globals /\ P # {}
  <2> DEFINE e == [summaries[n] EXCEPT !.stores_refs_globally = TRUE,
                     !.ref_params_stored = summaries[n].ref_params_stored \cup P]
  <2>1. StoredIn(t, P) = [m \in DOMAIN summaries |->
                            IF m = n THEN e ELSE summaries[m]]
    BY <1>1, <1>2, <1>4 DEF StoredIn, ProcSummary, SummaryType
  <2>2. /\ e \in ProcSummary /\ e.stores_refs_globally
        /\ e.ref_params_stored = summaries[n].ref_params_stored \cup P
    BY <1>2 DEF ProcSummary
  <2> HIDE DEF e
  <2> QED BY <1>1, <1>4, <2>1, <2>2 DEF SummaryType
<1> QED BY <1>3, <1>4

(* What the reference of a store becomes.                                  *)
LEMMA ReachesFacts ==
  ASSUME SummaryType, NEW n \in Procs, current = <<n>>,
         NEW t \in Named, NEW R \in SUBSET Positions,
         NEW why \in SUBSET (Lost \cup Blurred), Reaches(t, R, why)
  PROVE  /\ holds' \in [Named -> SUBSET Positions]
         /\ holds'[t] = holds[t] \cup R
         /\ \A v \in Named : v # t => holds'[v] = holds[v]
         /\ DOMAIN leaks' = DOMAIN summaries /\ DOMAIN missed' = DOMAIN summaries
         /\ leaks' \in [DOMAIN summaries -> SUBSET Positions]
         /\ missed' \in [DOMAIN summaries -> SUBSET (Lost \cup Blurred)]
         /\ \A m \in DOMAIN summaries : m # n =>
               leaks'[m] = leaks[m] /\ missed'[m] = missed[m]
         /\ t \in Globals \ Own => leaks'[n] = leaks[n] \cup R
         /\ t \notin Globals \ Own => leaks' = leaks
         /\ R # {} => missed'[n] = missed[n] \cup why
         /\ R = {} => missed' = missed
<1>1. current[1] = n /\ n \in DOMAIN summaries
  BY DEF SummaryType
<1>2. /\ leaks \in [DOMAIN summaries -> SUBSET Positions] /\ leaks[n] \in SUBSET Positions
      /\ missed \in [DOMAIN summaries -> SUBSET (Lost \cup Blurred)]
      /\ missed[n] \in SUBSET (Lost \cup Blurred)
  BY <1>1 DEF SummaryType
<1>3. /\ leaks' = IF t \in Globals \ Own
                  THEN [leaks EXCEPT ![n] = leaks[n] \cup R] ELSE leaks
      /\ missed' = IF R = {} THEN missed
                   ELSE [missed EXCEPT ![n] = missed[n] \cup why]
      /\ holds' = [holds EXCEPT ![t] = holds[t] \cup R]
  BY <1>1 DEF Reaches
<1>4. /\ holds' \in [Named -> SUBSET Positions]
      /\ holds'[t] = holds[t] \cup R
      /\ \A v \in Named : v # t => holds'[v] = holds[v]
  BY <1>3 DEF SummaryType
<1>5. /\ DOMAIN leaks' = DOMAIN summaries
      /\ leaks' \in [DOMAIN summaries -> SUBSET Positions]
      /\ \A m \in DOMAIN summaries : m # n => leaks'[m] = leaks[m]
      /\ t \in Globals \ Own => leaks'[n] = leaks[n] \cup R
      /\ t \notin Globals \ Own => leaks' = leaks
  BY <1>1, <1>2, <1>3
<1>6. /\ DOMAIN missed' = DOMAIN summaries
      /\ missed' \in [DOMAIN summaries -> SUBSET (Lost \cup Blurred)]
      /\ \A m \in DOMAIN summaries : m # n => missed'[m] = missed[m]
      /\ R # {} => missed'[n] = missed[n] \cup why
      /\ R = {} => missed' = missed
  BY <1>1, <1>2, <1>3
<1> QED BY <1>4, <1>5, <1>6

(* What has been reported of a visit with one warning.                     *)
LEMMA OneWarning ==
  ASSUME NEW S
  PROVE  /\ UNION {w.sources : w \in {Dangling(S)}} = S
         /\ UNION {w.sources : w \in {Returned(S)}} = S
<1>1. Dangling(S).sources = S /\ Returned(S).sources = S
  BY DEF Dangling, Returned
<1>2. /\ {w.sources : w \in {Dangling(S)}} = {S}
      /\ {w.sources : w \in {Returned(S)}} = {S}
  BY <1>1
<1>3. UNION {S} = S
  OBVIOUS
<1> QED BY <1>2, <1>3

LEMMA ReportedFacts ==
  ASSUME NEW visit, NEW S
  PROVE  /\ visit.issued = {Dangling(S)} => Reported(visit) = S
         /\ visit.issued = {Returned(S)} => Reported(visit) = S
BY OneWarning DEF Reported

LEMMA WarningTypes ==
  ASSUME NEW S \in SUBSET Scoped
  PROVE  {Dangling(S)} \in SUBSET Warning /\ {Returned(S)} \in SUBSET Warning
BY DEF Dangling, Returned, Warning

LEMMA PositionBounds ==
  0 \in 0 .. Len(ParamNames) /\ Positions \subseteq 0 .. Len(ParamNames)
BY InterprocAssumption DEF Positions

LEMMA VisitFacts ==
  ASSUME NEW I \in SUBSET Warning, NEW C \in SUBSET Callees,
         NEW j \in 0 .. Len(ParamNames), NEW S \in SUBSET Scoped
  PROVE  [issued |-> I, callee |-> C, position |-> j, used |-> S] \in Visit
BY DEF Visit

(* Nothing is asked of a visit that lets go of nothing.                    *)
LEMMA NothingUsed ==
  ASSUME NEW visit, visit.used = {}
  PROVE  Judged(visit)
BY DEF Judged, CallJudged, EscapeJudged

LEMMA QuietFacts ==
  Quiet \in Visit /\ Quiet.used = {} /\ Judged(Quiet)
<1>1. Quiet \in Visit /\ Quiet.used = {}
  BY InterprocAssumption, PositionBounds DEF Quiet, Visit
<1> QED BY <1>1, NothingUsed

LEMMA QuietExcept ==
  ASSUME NEW S, NEW I, NEW visit, visit = [Quiet EXCEPT !.used = S, !.issued = I]
  PROVE  visit = [issued |-> I, callee |-> {}, position |-> 0, used |-> S]
BY DEF Quiet

-----------------------------------------------------------------------------
(***************************************************************************)
(* The initial state.                                                      *)
(***************************************************************************)

LEMMA InitIInv == Init => IInv
<1> SUFFICES ASSUME Init PROVE IInv
  OBVIOUS
<1> USE DEF Init
<1>1. PhaseType
  BY InterprocAssumption DEF PhaseType
<1>2. /\ DOMAIN summaries = {} /\ DOMAIN leaks = {} /\ DOMAIN missed = {}
      /\ \A n \in Procs : current # <<n>>
  OBVIOUS
<1>3. SummaryType
  <2>1. /\ summaries \in [DOMAIN summaries -> ProcSummary]
        /\ leaks \in [DOMAIN summaries -> SUBSET Positions]
        /\ missed \in [DOMAIN summaries -> SUBSET (Lost \cup Blurred)]
    BY <1>2
  <2>2. /\ tainted \in [Own -> SUBSET Positions]
        /\ holds \in [Named -> SUBSET Positions] /\ said \subseteq Said
    BY DEF Empty
  <2>3. /\ DOMAIN summaries \subseteq Procs
        /\ DOMAIN leaks = DOMAIN summaries /\ DOMAIN missed = DOMAIN summaries
    BY <1>2
  <2>4. /\ current \in {<<>>} \cup {<<n>> : n \in Procs}
        /\ \A n \in Procs : current = <<n>> => n \in DOMAIN summaries
    BY <1>2
  <2> QED BY <2>1, <2>2, <2>3, <2>4 DEF SummaryType
<1>4. CarriedInv /\ LeaksFlagged /\ SummaryExact
  BY <1>2 DEF CarriedInv, LeaksFlagged, SummaryExact
<1>5. /\ taint \in Sources /\ path \in Pointers /\ last \in Visit
      /\ ready \in BOOLEAN /\ blind \in BOOLEAN
      /\ leaves \subseteq Leaf /\ uses \subseteq Use
  BY QuietFacts DEF Empty, Sources, Pointers
<1>6. stack \in Seq(Fork) /\ Len(stack) = 0
  BY EmptySeq
<1>7. TaintFollows
  BY <1>6, NamesApart DEF TaintFollows, Follows, Empty
<1>8. UsesJudged /\ CallsReported /\ EscapesReported
  BY QuietFacts DEF UsesJudged, CallsReported, EscapesReported, Judged
<1> QED BY <1>1, <1>3, <1>4, <1>5, <1>6, <1>7, <1>8
        DEF IInv, SummaryInv, WalkType

-----------------------------------------------------------------------------
(***************************************************************************)
(* The summary walk.                                                       *)
(***************************************************************************)

(* What holds of the body being summarised.                                *)
LEMMA BodyFacts ==
  ASSUME SummaryInv, NEW n \in Procs, current = <<n>>
  PROVE  /\ SummaryType /\ Carries(n) /\ n \in DOMAIN summaries /\ current[1] = n
         /\ leaks[n] \in SUBSET Positions /\ missed[n] \in SUBSET (Lost \cup Blurred)
         /\ summaries[n] \in ProcSummary
         /\ leaks[n] # {} /\ missed[n] \cap Lost = {} => summaries[n].stores_refs_globally
         /\ summaries[n].stores_refs_globally => leaks[n] # {} \/ "SHADOWED" \in missed[n]
         /\ missed[n] = {} => leaks[n] \subseteq summaries[n].ref_params_stored
         /\ "SHADOWED" \notin missed[n] =>
              summaries[n].ref_params_stored \subseteq leaks[n]
BY DEF SummaryInv, SummaryType, CarriedInv, LeaksFlagged, SummaryExact

(* What a name carries stands for what it may hold.                        *)
LEMMA CarriedFacts ==
  ASSUME SummaryInv, NEW n \in Procs, current = <<n>>, NEW s \in Named
  PROVE  /\ Carried(s) \in SUBSET Positions
         /\ holds[s] \cup PositionOf(s) \in SUBSET Positions
         /\ Carried(s) \subseteq holds[s] \cup PositionOf(s)
         /\ missed[n] \cap Lost = {} /\ ~summaries[n].stores_refs_globally
              /\ Carried(s) = {} => holds[s] \cup PositionOf(s) = {}
         /\ missed[n] = {} => holds[s] \cup PositionOf(s) \subseteq Carried(s) \cup leaks[n]
<1>1. Carries(n) /\ (leaks[n] # {} /\ missed[n] \cap Lost = {} =>
                       summaries[n].stores_refs_globally)
  BY BodyFacts
<1>2. holds[s] \in SUBSET Positions /\ PositionOf(s) \in SUBSET Positions
  BY PositionFacts, NamesApart DEF SummaryInv, SummaryType
<1>3. CASE s \in Own
  <2>1. Carried(s) = tainted[s] \cup PositionOf(s) /\ tainted[s] \in SUBSET Positions
    BY <1>3 DEF Carried, SummaryInv, SummaryType
  <2>2. tainted[s] \subseteq holds[s]
    BY <1>1, <1>3 DEF Carries
  <2>3. ASSUME missed[n] \cap Lost = {}, ~summaries[n].stores_refs_globally,
               Carried(s) = {}
        PROVE  holds[s] \cup PositionOf(s) = {}
    <3>1. s \in Locals /\ tainted[s] = {} /\ PositionOf(s) = {}
      BY <1>3, <2>1, <2>3, PositionFacts, NamesApart
    <3> QED BY <1>1, <2>3, <3>1 DEF Carries
  <2>4. missed[n] = {} => holds[s] \subseteq tainted[s] \cup leaks[n]
    BY <1>1, <1>3 DEF Carries
  <2> QED BY <1>2, <2>1, <2>2, <2>3, <2>4
<1>4. CASE s \notin Own
  <2>1. Carried(s) = {} /\ PositionOf(s) = {}
    BY <1>4, PositionFacts, NamesApart DEF Carried
  <2>2. holds[s] \subseteq leaks[n]
    BY <1>1, <1>4, NamesApart DEF Carries
  <2> QED BY <1>1, <1>2, <2>1, <2>2
<1> QED BY <1>3, <1>4

(* A store by which the analyser records P and the program moves R keeps   *)
(* the invariant: P is part of R, and all of it but for what has leaked.   *)
LEMMA StoreStep ==
  ASSUME SummaryInv, NEW n \in Procs, current = <<n>>, current' = current,
         NEW t \in Named, NEW why \in SUBSET (Lost \cup Blurred),
         NEW P \in SUBSET Positions, NEW R \in SUBSET Positions,
         P \subseteq R,
         missed[n] \cap Lost = {} /\ ~summaries[n].stores_refs_globally /\ P = {} => R = {},
         missed[n] = {} => R \subseteq P \cup leaks[n],
         t \in Own \cap Globals => "SHADOWED" \in why,
         summaries' = StoredIn(t, P), Reaches(t, R, why), said' \subseteq Said,
         tainted' \in [Own -> SUBSET Positions],
         \A v \in Own : v # t \/ t \in Globals => tainted'[v] = tainted[v],
         t \in Own => tainted[t] \subseteq tainted'[t] /\ tainted'[t] \subseteq tainted[t] \cup P,
         t \in Own \ Globals => tainted'[t] = tainted[t] \cup P
                                \/ (t \in Params /\ "ALIASED" \in why)
  PROVE  SummaryInv'
<1> DEFINE flag == summaries[n].stores_refs_globally
           stored == summaries[n].ref_params_stored
<1>1. /\ SummaryType /\ Carries(n) /\ n \in DOMAIN summaries /\ current[1] = n
      /\ leaks[n] \in SUBSET Positions /\ missed[n] \in SUBSET (Lost \cup Blurred)
      /\ leaks[n] # {} /\ missed[n] \cap Lost = {} => flag
      /\ flag => leaks[n] # {} \/ "SHADOWED" \in missed[n]
      /\ missed[n] = {} => leaks[n] \subseteq stored
      /\ "SHADOWED" \notin missed[n] => stored \subseteq leaks[n]
  BY BodyFacts
<1>2. /\ DOMAIN summaries' = DOMAIN summaries
      /\ summaries' \in [DOMAIN summaries -> ProcSummary]
      /\ \A m \in DOMAIN summaries : m # n => summaries'[m] = summaries[m]
      /\ t \notin Globals \/ P = {} => summaries' = summaries
      /\ t \in Globals /\ P # {} =>
           /\ summaries'[n].stores_refs_globally
           /\ summaries'[n].ref_params_stored = stored \cup P
  BY <1>1, StoredInFacts
<1>3. /\ holds' \in [Named -> SUBSET Positions]
      /\ holds'[t] = holds[t] \cup R
      /\ \A v \in Named : v # t => holds'[v] = holds[v]
      /\ DOMAIN leaks' = DOMAIN summaries /\ DOMAIN missed' = DOMAIN summaries
      /\ leaks' \in [DOMAIN summaries -> SUBSET Positions]
      /\ missed' \in [DOMAIN summaries -> SUBSET (Lost \cup Blurred)]
      /\ \A m \in DOMAIN summaries : m # n =>
            leaks'[m] = leaks[m] /\ missed'[m] = missed[m]
      /\ t \in Globals \ Own => leaks'[n] = leaks[n] \cup R
      /\ t \notin Globals \ Own => leaks' = leaks
      /\ R # {} => missed'[n] = missed[n] \cup why
      /\ R = {} => missed' = missed
  BY ONLY <1>1, ReachesFacts, n \in Procs, current = <<n>>, t \in Named,
          why \in SUBSET (Lost \cup Blurred), R \in SUBSET Positions,
          Reaches(t, R, why)
<1>4. SummaryType'
  BY <1>1, <1>2, <1>3 DEF SummaryType
<1>5. /\ leaks[n] \subseteq leaks'[n] /\ missed[n] \subseteq missed'[n]
      /\ flag => summaries'[n].stores_refs_globally
  <2>1. leaks[n] \subseteq leaks'[n]
    BY <1>1, <1>3
  <2>2. missed[n] \subseteq missed'[n]
    BY <1>1, <1>3
  <2>3. flag => summaries'[n].stores_refs_globally
    BY <1>2
  <2> QED BY <2>1, <2>2, <2>3
<1>6. ASSUME missed[n] \cap Lost = {}, R # {} PROVE flag \/ P # {}
  BY <1>6
<1>7. Carries(n)'
  <2>1. \A v \in Globals \ Own : holds'[v] \subseteq leaks'[n]
    <3>1. \A v \in Globals \ Own : holds[v] \subseteq leaks[n] /\ v \in Named
      BY <1>1, NamesApart DEF Carries
    <3> QED BY <1>3, <1>5, <3>1
  <2>2. \A v \in Own : tainted'[v] \subseteq holds'[v]
    <3>1. \A v \in Own : tainted[v] \subseteq holds[v] /\ v \in Named
      BY <1>1, NamesApart DEF Carries
    <3>2. ASSUME NEW v \in Own, v # t PROVE tainted'[v] \subseteq holds'[v]
      BY <1>3, <3>1, <3>2
    <3>3. ASSUME t \in Own PROVE tainted'[t] \subseteq holds'[t]
      BY <1>3, <3>1, <3>3
    <3> QED BY <3>2, <3>3
  <2>3. ASSUME missed'[n] \cap Lost = {}, ~summaries'[n].stores_refs_globally,
               NEW v \in Locals, tainted'[v] = {}
        PROVE  holds'[v] = {}
    <3>1. missed[n] \cap Lost = {} /\ ~flag /\ v \in Own /\ v \in Named /\ v \notin Params
      BY <1>5, <2>3, NamesApart
    <3>2. tainted[v] = {}
      <4>1. CASE v # t
        BY <2>3, <3>1, <4>1
      <4>2. CASE v = t
        BY <2>3, <3>1, <4>2
      <4> QED BY <4>1, <4>2
    <3>3. holds[v] = {}
      BY <1>1, <2>3, <3>1, <3>2 DEF Carries
    <3>4. CASE v # t
      BY <1>3, <3>1, <3>3, <3>4
    <3>5. CASE v = t
      <4>1. P = {}
        <5>1. CASE t \in Globals
          BY <1>2, <2>3, <5>1
        <5>2. CASE t \notin Globals
          BY <2>3, <3>1, <3>5, <5>2
        <5> QED BY <5>1, <5>2
      <4>2. R = {}
        BY <3>1, <4>1
      <4> QED BY <1>3, <3>3, <3>5, <4>2
    <3> QED BY <3>4, <3>5
  <2>4. ASSUME missed'[n] = {}, NEW v \in Own
        PROVE  holds'[v] \subseteq tainted'[v] \cup leaks'[n]
    <3>1. missed[n] = {} /\ v \in Named
      BY <1>5, <2>4, NamesApart
    <3>2. holds[v] \subseteq tainted[v] \cup leaks[n]
      BY <1>1, <3>1 DEF Carries
    <3>3. CASE v # t
      BY <1>3, <1>5, <3>1, <3>2, <3>3
    <3>4. CASE v = t /\ R = {}
      BY <1>3, <1>5, <3>2, <3>4
    <3>5. CASE v = t /\ R # {}
      <4>1. why = {}
        BY <1>3, <2>4, <3>5
      <4>2. tainted'[t] = tainted[t] \cup P
        BY <3>5, <4>1
      <4>3. R \subseteq P \cup leaks[n]
        BY <3>1
      <4> QED BY <1>3, <1>5, <3>2, <3>5, <4>2, <4>3
    <3> QED BY <3>3, <3>4, <3>5
  <2> QED BY <2>1, <2>2, <2>3, <2>4 DEF Carries
<1>8. CarriedInv'
  <2>1. \A m \in Procs : current' = <<m>> => m = n
    OBVIOUS
  <2> QED BY <1>7, <2>1 DEF CarriedInv
<1>9. /\ leaks'[n] # {} /\ missed'[n] \cap Lost = {} => summaries'[n].stores_refs_globally
      /\ summaries'[n].stores_refs_globally => leaks'[n] # {} \/ "SHADOWED" \in missed'[n]
  <2>1. ASSUME leaks'[n] # {}, missed'[n] \cap Lost = {}
        PROVE  summaries'[n].stores_refs_globally
    <3>1. missed[n] \cap Lost = {}
      BY <1>5, <2>1
    <3>2. CASE leaks[n] # {}
      BY <1>1, <1>5, <3>1, <3>2
    <3>3. CASE leaks[n] = {}
      <4>1. t \in Globals \ Own /\ R # {}
        BY <1>3, <2>1, <3>3
      <4>2. flag \/ P # {}
        BY <1>6, <3>1, <4>1
      <4> QED BY <1>2, <1>5, <4>1, <4>2
    <3> QED BY <3>2, <3>3
  <2>2. ASSUME summaries'[n].stores_refs_globally
        PROVE  leaks'[n] # {} \/ "SHADOWED" \in missed'[n]
    <3>1. CASE flag
      BY <1>1, <1>5, <3>1
    <3>2. CASE ~flag
      <4>1. t \in Globals /\ P # {}
        BY <1>2, <2>2, <3>2
      <4>2. R # {}
        BY <4>1
      <4>3. CASE t \in Own
        BY <1>3, <4>1, <4>2, <4>3
      <4>4. CASE t \notin Own
        BY <1>3, <4>1, <4>2, <4>4
      <4> QED BY <4>3, <4>4
    <3> QED BY <3>1, <3>2
  <2> QED BY <2>1, <2>2
<1>10. LeaksFlagged'
  BY <1>2, <1>3, <1>9 DEF SummaryInv, LeaksFlagged
<1>11. ASSUME missed'[n] = {}
       PROVE  leaks'[n] \subseteq summaries'[n].ref_params_stored
  <2>1. missed[n] = {} /\ leaks[n] \subseteq stored
    BY <1>1, <1>5, <1>11
  <2>2. stored \subseteq summaries'[n].ref_params_stored
    BY <1>2
  <2>3. CASE t \notin Globals \ Own
    BY <1>3, <2>1, <2>2, <2>3
  <2>4. CASE t \in Globals \ Own
    <3>1. R \subseteq P \cup leaks[n] /\ leaks'[n] = leaks[n] \cup R
      BY <1>3, <2>1, <2>4
    <3>2. P \subseteq summaries'[n].ref_params_stored
      BY <1>2, <2>4
    <3> QED BY <2>1, <2>2, <3>1, <3>2
  <2> QED BY <2>3, <2>4
<1>12. ASSUME "SHADOWED" \notin missed'[n]
       PROVE  summaries'[n].ref_params_stored \subseteq leaks'[n]
  <2>1. stored \subseteq leaks'[n]
    BY <1>1, <1>5, <1>12
  <2>2. CASE t \notin Globals \/ P = {}
    BY <1>2, <2>1, <2>2
  <2>3. CASE t \in Globals /\ P # {}
    <3>1. R # {}
      BY <2>3
    <3>2. t \notin Own
      BY <1>3, <1>12, <2>3, <3>1
    <3> QED BY <1>2, <1>3, <2>1, <2>3, <3>2
  <2> QED BY <2>2, <2>3
<1>13. SummaryExact'
  BY <1>2, <1>3, <1>11, <1>12 DEF SummaryInv, SummaryExact
<1> QED BY <1>4, <1>8, <1>10, <1>13 DEF SummaryInv

(* A step of the program that the pass does not follow: what it moves is   *)
(* put down to one of Lost.                                                *)
LEMMA LostStep ==
  ASSUME SummaryInv, NEW n \in Procs, current = <<n>>, current' = current,
         DOMAIN summaries' = DOMAIN summaries,
         summaries' \in [DOMAIN summaries -> ProcSummary],
         \A m \in DOMAIN summaries :
            /\ summaries'[m].stores_refs_globally <=> summaries[m].stores_refs_globally
            /\ summaries'[m].ref_params_stored = summaries[m].ref_params_stored,
         tainted' = tainted, said' \subseteq Said,
         holds' \in [Named -> SUBSET Positions],
         \A v \in Named : holds[v] \subseteq holds'[v],
         DOMAIN leaks' = DOMAIN summaries, DOMAIN missed' = DOMAIN summaries,
         leaks' \in [DOMAIN summaries -> SUBSET Positions],
         missed' \in [DOMAIN summaries -> SUBSET (Lost \cup Blurred)],
         \A m \in DOMAIN summaries : m # n =>
            leaks'[m] = leaks[m] /\ missed'[m] = missed[m],
         leaks[n] \subseteq leaks'[n], missed[n] \subseteq missed'[n],
         \A v \in Globals \ Own : holds'[v] \subseteq leaks'[n],
         missed'[n] \cap Lost # {} \/ UNCHANGED <<holds, leaks, missed>>
  PROVE  SummaryInv'
<1>1. /\ SummaryType /\ Carries(n) /\ n \in DOMAIN summaries
      /\ leaks[n] # {} /\ missed[n] \cap Lost = {} => summaries[n].stores_refs_globally
      /\ summaries[n].stores_refs_globally => leaks[n] # {} \/ "SHADOWED" \in missed[n]
      /\ missed[n] = {} => leaks[n] \subseteq summaries[n].ref_params_stored
      /\ "SHADOWED" \notin missed[n] => summaries[n].ref_params_stored \subseteq leaks[n]
  BY BodyFacts
<1>2. SummaryType'
  BY <1>1 DEF SummaryType
<1>3. Carries(n)'
  <2>1. \A v \in Own : tainted'[v] \subseteq holds'[v]
    BY <1>1, NamesApart DEF Carries
  <2>2. missed'[n] \cap Lost = {} /\ ~summaries'[n].stores_refs_globally =>
          \A v \in Locals : tainted'[v] = {} => holds'[v] = {}
    BY <1>1 DEF Carries
  <2>3. missed'[n] = {} => \A v \in Own : holds'[v] \subseteq tainted'[v] \cup leaks'[n]
    BY <1>1 DEF Carries
  <2> QED BY <2>1, <2>2, <2>3 DEF Carries
<1>4. CarriedInv'
  <2>1. \A m \in Procs : current' = <<m>> => m = n
    OBVIOUS
  <2> QED BY <1>3, <2>1 DEF CarriedInv
<1>5. /\ leaks'[n] # {} /\ missed'[n] \cap Lost = {} => summaries'[n].stores_refs_globally
      /\ summaries'[n].stores_refs_globally => leaks'[n] # {} \/ "SHADOWED" \in missed'[n]
      /\ missed'[n] = {} => leaks'[n] \subseteq summaries'[n].ref_params_stored
      /\ "SHADOWED" \notin missed'[n] => summaries'[n].ref_params_stored \subseteq leaks'[n]
  <2>1. leaks'[n] # {} /\ missed'[n] \cap Lost = {} => summaries'[n].stores_refs_globally
    BY <1>1
  <2>2. summaries'[n].stores_refs_globally => leaks'[n] # {} \/ "SHADOWED" \in missed'[n]
    BY <1>1
  <2>3. missed'[n] = {} => leaks'[n] \subseteq summaries'[n].ref_params_stored
    BY <1>1
  <2>4. "SHADOWED" \notin missed'[n] => summaries'[n].ref_params_stored \subseteq leaks'[n]
    BY <1>1
  <2> QED BY <2>1, <2>2, <2>3, <2>4
<1>6. LeaksFlagged'
  BY <1>5 DEF SummaryInv, LeaksFlagged
<1>7. SummaryExact'
  BY <1>5 DEF SummaryInv, SummaryExact
<1> QED BY <1>2, <1>4, <1>6, <1>7 DEF SummaryInv

LEMMA WithFacts ==
  ASSUME NEW F, NEW S, F \in [DOMAIN F -> S], NEW n, NEW e \in S
  PROVE  /\ DOMAIN With(F, n, e) = DOMAIN F \cup {n}
         /\ With(F, n, e)[n] = e
         /\ \A m \in DOMAIN F : m # n => With(F, n, e)[m] = F[m]
         /\ With(F, n, e) \in [DOMAIN F \cup {n} -> S]
<1>1. With(F, n, e) = [m \in DOMAIN F \cup {n} |-> IF m = n THEN e ELSE F[m]]
  BY DEF With
<1> QED BY <1>1

(* A declaration starts a fresh entry, or one of a procedure known to leak.*)
LEMMA DeclareStep ==
  ASSUME SummaryInv, NEW n \in Procs, Declare(n)
  PROVE  SummaryInv'
<1> DEFINE before == n \in DOMAIN summaries /\ leaks[n] # {}
           was == IF before THEN leaks[n] ELSE {}
           reason == IF before THEN {"REDECLARED"} ELSE {}
<1>1. /\ current' = <<n>> /\ said' = {}
      /\ tainted' = Empty(Own) /\ holds' = Empty(Named)
      /\ summaries' = With(summaries, n, Fresh)
      /\ leaks' = With(leaks, n, was) /\ missed' = With(missed, n, reason)
  BY DEF Declare
<1>2. /\ SummaryType /\ DOMAIN leaks = DOMAIN summaries
      /\ DOMAIN missed = DOMAIN summaries
  BY DEF SummaryInv, SummaryType
<1>3. /\ was \in SUBSET Positions /\ reason \in SUBSET (Lost \cup Blurred)
      /\ was # {} => reason \cap Lost # {}
      /\ was = {} => reason = {}
  BY <1>2, LostFacts DEF SummaryType
<1> HIDE DEF was, reason
<1>5. /\ Fresh \in ProcSummary /\ ~Fresh.stores_refs_globally
      /\ Fresh.ref_params_stored = {}
  BY DEF Fresh, ProcSummary
<1>6. /\ DOMAIN summaries' = DOMAIN summaries \cup {n} /\ summaries'[n] = Fresh
      /\ \A m \in DOMAIN summaries : m # n => summaries'[m] = summaries[m]
      /\ summaries' \in [DOMAIN summaries' -> ProcSummary]
  <2>1. summaries \in [DOMAIN summaries -> ProcSummary]
    BY <1>2 DEF SummaryType
  <2>2. summaries \in [DOMAIN summaries -> ProcSummary] /\ Fresh \in ProcSummary
    BY <1>2, <1>3, <1>5, <2>1
  <2>3. /\ DOMAIN With(summaries, n, Fresh) = DOMAIN summaries \cup {n}
        /\ With(summaries, n, Fresh)[n] = Fresh
        /\ \A m \in DOMAIN summaries : m # n => With(summaries, n, Fresh)[m] = summaries[m]
        /\ With(summaries, n, Fresh) \in [DOMAIN summaries \cup {n} -> ProcSummary]
    BY ONLY <2>2, WithFacts
  <2> QED BY <1>1, <1>2, <2>3
<1>7. /\ DOMAIN leaks' = DOMAIN summaries \cup {n} /\ leaks'[n] = was
      /\ \A m \in DOMAIN summaries : m # n => leaks'[m] = leaks[m]
      /\ leaks' \in [DOMAIN summaries' -> SUBSET Positions]
  <2>1. leaks \in [DOMAIN summaries -> SUBSET Positions]
    BY <1>2 DEF SummaryType
  <2>2. leaks \in [DOMAIN leaks -> SUBSET Positions] /\ was \in SUBSET Positions
    BY <1>2, <1>3, <1>5, <2>1
  <2>3. /\ DOMAIN With(leaks, n, was) = DOMAIN leaks \cup {n}
        /\ With(leaks, n, was)[n] = was
        /\ \A m \in DOMAIN leaks : m # n => With(leaks, n, was)[m] = leaks[m]
        /\ With(leaks, n, was) \in [DOMAIN leaks \cup {n} -> SUBSET Positions]
    BY ONLY <2>2, WithFacts
  <2> QED BY <1>1, <1>2, <1>6, <2>3
<1>8. /\ DOMAIN missed' = DOMAIN summaries \cup {n} /\ missed'[n] = reason
      /\ \A m \in DOMAIN summaries : m # n => missed'[m] = missed[m]
      /\ missed' \in [DOMAIN summaries' -> SUBSET (Lost \cup Blurred)]
  <2>1. missed \in [DOMAIN summaries -> SUBSET (Lost \cup Blurred)]
    BY <1>2 DEF SummaryType
  <2>2. missed \in [DOMAIN missed -> SUBSET (Lost \cup Blurred)] /\ reason \in SUBSET (Lost \cup Blurred)
    BY <1>2, <1>3, <1>5, <2>1
  <2>3. /\ DOMAIN With(missed, n, reason) = DOMAIN missed \cup {n}
        /\ With(missed, n, reason)[n] = reason
        /\ \A m \in DOMAIN missed : m # n => With(missed, n, reason)[m] = missed[m]
        /\ With(missed, n, reason) \in [DOMAIN missed \cup {n} -> SUBSET (Lost \cup Blurred)]
    BY ONLY <2>2, WithFacts
  <2> QED BY <1>1, <1>2, <1>6, <2>3
<1>9. /\ tainted' \in [Own -> SUBSET Positions]
      /\ holds' \in [Named -> SUBSET Positions]
      /\ \A v \in Own : tainted'[v] = {}
      /\ \A v \in Named : holds'[v] = {}
  BY <1>1 DEF Empty
<1>10. \A m \in Procs : current' = <<m>> => m = n
  BY <1>1
<1>11. SummaryType'
  <2>1. current' \in {<<>>} \cup {<<m>> : m \in Procs} /\ said' \subseteq Said
    BY <1>1
  <2>2. DOMAIN summaries' \subseteq Procs
    BY <1>2, <1>6 DEF SummaryType
  <2> QED BY <1>6, <1>7, <1>8, <1>9, <1>10, <2>1, <2>2 DEF SummaryType
<1>12. CarriedInv'
  <2>1. Carries(n)'
    BY <1>9, NamesApart DEF Carries
  <2> QED BY <1>10, <2>1 DEF CarriedInv
<1>13. LeaksFlagged'
  BY <1>3, <1>5, <1>6, <1>7, <1>8 DEF SummaryInv, LeaksFlagged
<1>14. SummaryExact'
  BY <1>3, <1>5, <1>6, <1>7, <1>8 DEF SummaryInv, SummaryExact
<1> QED BY <1>11, <1>12, <1>13, <1>14 DEF SummaryInv

(* The body being summarised has an entry.                                 *)
LEMMA SummarisedProc ==
  ASSUME SummaryInv, current # <<>>
  PROVE  \E n \in Procs : current = <<n>>
BY DEF SummaryInv, SummaryType

LEMMA SummaryAddressStep ==
  ASSUME SummaryInv, NEW t \in Named, NEW v \in Own, SummaryAddress(t, v)
  PROVE  SummaryInv'
<1> DEFINE P == IF v \in References THEN PositionOf(v) ELSE {}
<1>1. /\ summaries' = StoredIn(t, P) /\ Reaches(t, P, Hiding(t))
      /\ tainted' = TaintedIn(t, P) /\ current # <<>> /\ current' = current
      /\ said' = said \cup {[target |-> t, given |-> P, froms |-> {}]}
  BY DEF SummaryAddress, Summarising
<1>2. PICK n \in Procs : current = <<n>>
  BY <1>1, SummarisedProc
<1>3. P \in SUBSET Positions
  BY PositionFacts
<1>4. /\ tainted \in [Own -> SUBSET Positions] /\ said \subseteq Said
  BY DEF SummaryInv, SummaryType
<1> HIDE DEF P
<1>5. said' \subseteq Said
  BY <1>1, <1>3, <1>4 DEF Said
<1>6. /\ tainted' \in [Own -> SUBSET Positions]
      /\ \A w \in Own : w # t \/ t \in Globals => tainted'[w] = tainted[w]
      /\ t \in Own => tainted[t] \subseteq tainted'[t] /\ tainted'[t] \subseteq tainted[t] \cup P
      /\ t \in Own \ Globals => tainted'[t] = tainted[t] \cup P
  <2>1. CASE t \in Globals
    BY <1>1, <1>4, <2>1 DEF TaintedIn
  <2>2. CASE t \notin Globals
    <3>1. t \in Own /\ tainted' = [tainted EXCEPT ![t] = tainted[t] \cup P]
      BY <1>1, <2>2, NamesApart DEF TaintedIn
    <3> QED BY <1>3, <1>4, <2>2, <3>1
  <2> QED BY <2>1, <2>2
<1>7. /\ Hiding(t) \in SUBSET (Lost \cup Blurred)
      /\ t \in Own \cap Globals => "SHADOWED" \in Hiding(t)
  BY LostFacts DEF Hiding
<1> QED BY <1>1, <1>2, <1>3, <1>5, <1>6, <1>7, StoreStep

LEMMA SummaryCopyStep ==
  ASSUME SummaryInv, NEW t \in Named, NEW s \in Named, SummaryCopy(t, s)
  PROVE  SummaryInv'
<1> DEFINE P == Carried(s)
           R == holds[s] \cup PositionOf(s)
           why == Hiding(t) \cup (IF t \in Params THEN {"ALIASED"} ELSE {})
<1>1. /\ summaries' = StoredIn(t, P) /\ Reaches(t, R, why)
      /\ tainted' = IF t \in Locals THEN TaintedIn(t, P) ELSE tainted
      /\ current # <<>> /\ current' = current
      /\ said' = said \cup {[target |-> t, given |-> PositionOf(s), froms |-> {s}]}
  BY DEF SummaryCopy, Summarising
<1>2. PICK n \in Procs : current = <<n>>
  BY <1>1, SummarisedProc
<1>3. /\ P \in SUBSET Positions /\ R \in SUBSET Positions /\ P \subseteq R
      /\ missed[n] \cap Lost = {} /\ ~summaries[n].stores_refs_globally /\ P = {} => R = {}
      /\ missed[n] = {} => R \subseteq P \cup leaks[n]
  BY <1>2, CarriedFacts
<1>4. tainted \in [Own -> SUBSET Positions] /\ said \subseteq Said
  BY DEF SummaryInv, SummaryType
<1>5. said' \subseteq Said
  BY <1>1, <1>4, PositionFacts DEF Said
<1>6. /\ why \in SUBSET (Lost \cup Blurred)
      /\ t \in Own \cap Globals => "SHADOWED" \in why
      /\ t \in Params => "ALIASED" \in why
  BY LostFacts DEF Hiding
<1> HIDE DEF P, R, why
<1>7. /\ tainted' \in [Own -> SUBSET Positions]
      /\ \A w \in Own : w # t \/ t \in Globals => tainted'[w] = tainted[w]
      /\ t \in Own => tainted[t] \subseteq tainted'[t] /\ tainted'[t] \subseteq tainted[t] \cup P
      /\ t \in Locals \ Globals => tainted'[t] = tainted[t] \cup P
  <2>1. CASE t \notin Locals \/ t \in Globals
    <3>1. tainted' = tainted
      BY <1>1, <2>1 DEF TaintedIn
    <3> QED BY <1>4, <2>1, <3>1
  <2>2. CASE t \in Locals /\ t \notin Globals
    <3>1. t \in Own /\ tainted' = [tainted EXCEPT ![t] = tainted[t] \cup P]
      BY <1>1, <2>2, NamesApart DEF TaintedIn
    <3> QED BY <1>3, <1>4, <2>2, <3>1
  <2> QED BY <2>1, <2>2
<1>8. t \in Own \ Globals => tainted'[t] = tainted[t] \cup P
                             \/ (t \in Params /\ "ALIASED" \in why)
  BY <1>6, <1>7, NamesApart
<1> QED BY <1>1, <1>2, <1>3, <1>5, <1>6, <1>7, <1>8, StoreStep

LEMMA SummaryReturnStep ==
  ASSUME SummaryInv, NEW v \in Own, SummaryReturn(v)
  PROVE  SummaryInv'
<1>1. current # <<>> /\ current' = current
  BY DEF SummaryReturn, Summarising
<1>2. PICK n \in Procs : current = <<n>>
  BY <1>1, SummarisedProc
<1>3. SummaryType /\ Carries(n) /\ n \in DOMAIN summaries /\ current[1] = n
  BY <1>2, BodyFacts
<1>4. /\ summaries' = IF v \in Locals
                      THEN [summaries EXCEPT ![n].returns_local_ref = TRUE]
                      ELSE summaries
      /\ UNCHANGED <<tainted, holds, leaks, missed, said>>
  BY <1>3 DEF SummaryReturn
<1>5. summaries \in [DOMAIN summaries -> ProcSummary]
  BY <1>3 DEF SummaryType
<1>6. summaries' \in [DOMAIN summaries -> ProcSummary] /\ DOMAIN summaries' = DOMAIN summaries
  BY <1>4, <1>5 DEF ProcSummary
<1>7. \A m \in DOMAIN summaries :
         /\ summaries'[m].stores_refs_globally <=> summaries[m].stores_refs_globally
         /\ summaries'[m].ref_params_stored = summaries[m].ref_params_stored
  BY <1>3, <1>4, <1>5 DEF ProcSummary
<1>8. SummaryInv'
  <2>1. /\ holds' \in [Named -> SUBSET Positions] /\ said' \subseteq Said
        /\ DOMAIN leaks' = DOMAIN summaries /\ DOMAIN missed' = DOMAIN summaries
        /\ leaks' \in [DOMAIN summaries -> SUBSET Positions]
        /\ missed' \in [DOMAIN summaries -> SUBSET (Lost \cup Blurred)]
    BY <1>3, <1>4 DEF SummaryType
  <2>2. \A w \in Globals \ Own : holds'[w] \subseteq leaks'[n]
    BY <1>3, <1>4 DEF Carries
  <2> QED BY <1>1, <1>2, <1>4, <1>6, <1>7, <2>1, <2>2, LostStep
<1> QED BY <1>8

LEMMA SummaryCallStep ==
  ASSUME SummaryInv, NEW f \in Callees, NEW v \in Named, NEW R \in SUBSET Positions,
         SummaryCall(f, v, R)
  PROVE  SummaryInv'
<1>1. current # <<>> /\ current' = current
  BY DEF SummaryCall, Summarising
<1>2. PICK n \in Procs : current = <<n>>
  BY <1>1, SummarisedProc
<1>3. /\ SummaryType /\ Carries(n) /\ n \in DOMAIN summaries /\ current[1] = n
      /\ leaks[n] \in SUBSET Positions /\ missed[n] \in SUBSET (Lost \cup Blurred)
  BY <1>2, BodyFacts
<1>4. /\ summaries' = [summaries EXCEPT ![n].calls = summaries[n].calls \cup {f}]
      /\ leaks' = [leaks EXCEPT ![n] = leaks[n] \cup R]
      /\ missed' = IF R = {} THEN missed
                   ELSE [missed EXCEPT ![n] = missed[n] \cup {"PASSED"}]
      /\ UNCHANGED <<tainted, holds, said>>
  BY <1>3 DEF SummaryCall
<1>5. /\ summaries \in [DOMAIN summaries -> ProcSummary]
      /\ DOMAIN leaks = DOMAIN summaries /\ DOMAIN missed = DOMAIN summaries
      /\ leaks \in [DOMAIN summaries -> SUBSET Positions]
      /\ missed \in [DOMAIN summaries -> SUBSET (Lost \cup Blurred)]
      /\ holds' \in [Named -> SUBSET Positions] /\ said' \subseteq Said
  BY <1>3, <1>4 DEF SummaryType
<1> DEFINE e == [summaries[n] EXCEPT !.calls = summaries[n].calls \cup {f}]
<1>A. /\ e \in ProcSummary
      /\ e.stores_refs_globally <=> summaries[n].stores_refs_globally
      /\ e.ref_params_stored = summaries[n].ref_params_stored
  <2>1. summaries[n] \in ProcSummary
    BY <1>3, <1>5
  <2> QED BY <2>1 DEF ProcSummary
<1>B. summaries' = [m \in DOMAIN summaries |-> IF m = n THEN e ELSE summaries[m]]
  BY <1>3, <1>4, <1>5
<1> HIDE DEF e
<1>6. summaries' \in [DOMAIN summaries -> ProcSummary] /\ DOMAIN summaries' = DOMAIN summaries
  BY <1>5, <1>A, <1>B
<1>7. \A m \in DOMAIN summaries :
         /\ summaries'[m].stores_refs_globally <=> summaries[m].stores_refs_globally
         /\ summaries'[m].ref_params_stored = summaries[m].ref_params_stored
  BY <1>A, <1>B
<1>8. /\ DOMAIN leaks' = DOMAIN summaries /\ leaks'[n] = leaks[n] \cup R
      /\ leaks' \in [DOMAIN summaries -> SUBSET Positions]
      /\ \A m \in DOMAIN summaries : m # n => leaks'[m] = leaks[m]
  BY <1>3, <1>4, <1>5
<1>9. /\ DOMAIN missed' = DOMAIN summaries
      /\ missed' \in [DOMAIN summaries -> SUBSET (Lost \cup Blurred)]
      /\ \A m \in DOMAIN summaries : m # n => missed'[m] = missed[m]
      /\ missed[n] \subseteq missed'[n]
      /\ R = {} => missed' = missed
      /\ R # {} => missed'[n] \cap Lost # {}
  BY <1>3, <1>4, <1>5, LostFacts
<1>10. missed'[n] \cap Lost # {} \/ UNCHANGED <<holds, leaks, missed>>
  <2>1. CASE R = {}
    BY <1>4, <1>5, <1>9, <2>1
  <2>2. CASE R # {}
    BY <1>9, <2>2
  <2> QED BY <2>1, <2>2
<1>11. \A w \in Globals \ Own : holds'[w] \subseteq leaks'[n]
  BY <1>3, <1>4, <1>8 DEF Carries
<1>12. leaks[n] \subseteq leaks'[n] /\ \A w \in Named : holds[w] \subseteq holds'[w]
  BY <1>4, <1>8
<1> QED BY <1>1, <1>2, <1>4, <1>5, <1>6, <1>7, <1>8, <1>9, <1>10, <1>11, <1>12, LostStep

(* What the program moves while the pass looks elsewhere.                  *)
LEMMA ReachesLost ==
  ASSUME SummaryInv, NEW n \in Procs, current = <<n>>, current' = current,
         NEW t \in Named, NEW R \in SUBSET Positions, NEW w \in Lost,
         Reaches(t, R, {w}), UNCHANGED <<summaries, tainted, said>>
  PROVE  SummaryInv'
<1>1. SummaryType /\ Carries(n) /\ n \in DOMAIN summaries
  BY BodyFacts
<1>2. {w} \in SUBSET (Lost \cup Blurred)
  OBVIOUS
<1>3. /\ holds' \in [Named -> SUBSET Positions]
      /\ holds'[t] = holds[t] \cup R
      /\ \A v \in Named : v # t => holds'[v] = holds[v]
      /\ DOMAIN leaks' = DOMAIN summaries /\ DOMAIN missed' = DOMAIN summaries
      /\ leaks' \in [DOMAIN summaries -> SUBSET Positions]
      /\ missed' \in [DOMAIN summaries -> SUBSET (Lost \cup Blurred)]
      /\ \A m \in DOMAIN summaries : m # n =>
            leaks'[m] = leaks[m] /\ missed'[m] = missed[m]
      /\ t \in Globals \ Own => leaks'[n] = leaks[n] \cup R
      /\ t \notin Globals \ Own => leaks' = leaks
      /\ R # {} => missed'[n] = missed[n] \cup {w}
      /\ R = {} => missed' = missed
  BY ONLY <1>1, <1>2, ReachesFacts, n \in Procs, current = <<n>>, t \in Named,
          R \in SUBSET Positions, Reaches(t, R, {w})
<1>4. /\ summaries \in [DOMAIN summaries -> ProcSummary] /\ said' \subseteq Said
      /\ holds \in [Named -> SUBSET Positions]
      /\ leaks \in [DOMAIN summaries -> SUBSET Positions]
  BY <1>1 DEF SummaryType
<1>5. leaks[n] \subseteq leaks'[n] /\ missed[n] \subseteq missed'[n]
  <2>1. leaks[n] \subseteq leaks'[n]
    BY <1>3
  <2>2. missed[n] \subseteq missed'[n]
    BY <1>3
  <2> QED BY <2>1, <2>2
<1>6. \A v \in Named : holds[v] \subseteq holds'[v]
  BY <1>3
<1>7. \A v \in Globals \ Own : holds'[v] \subseteq leaks'[n]
  <2>1. \A v \in Globals \ Own : holds[v] \subseteq leaks[n] /\ v \in Named
    BY <1>1, NamesApart DEF Carries
  <2> QED BY <1>3, <1>5, <2>1
<1>8. missed'[n] \cap Lost # {} \/ UNCHANGED <<holds, leaks, missed>>
  <2>1. CASE R = {}
    <3>1. leaks[n] \cup R = leaks[n] /\ holds[t] \cup R = holds[t]
      BY <2>1
    <3>2. holds' = holds
      <4>1. \A v \in Named : holds'[v] = holds[v]
        BY <1>3, <3>1
      <4> QED BY <1>3, <1>4, <4>1
    <3>3. leaks' = leaks
      <4>1. CASE t \notin Globals \ Own
        BY <1>3, <4>1
      <4>2. CASE t \in Globals \ Own
        <5>1. leaks'[n] = leaks[n]
          BY <1>3, <3>1, <4>2
        <5>2. \A m \in DOMAIN summaries : leaks'[m] = leaks[m]
          BY <1>3, <5>1
        <5> QED BY ONLY <1>3, <1>4, <5>2
      <4> QED BY <4>1, <4>2
    <3> QED BY <1>3, <2>1, <3>2, <3>3
  <2>2. CASE R # {}
    BY <1>3, <2>2
  <2> QED BY <2>1, <2>2
<1>9. \A m \in DOMAIN summaries :
         /\ summaries'[m].stores_refs_globally <=> summaries[m].stores_refs_globally
         /\ summaries'[m].ref_params_stored = summaries[m].ref_params_stored
  OBVIOUS
<1> QED BY <1>3, <1>4, <1>5, <1>6, <1>7, <1>8, <1>9, LostStep

LEMMA SummaryUnseenStep ==
  ASSUME SummaryInv, NEW t \in Named, NEW s \in Named, SummaryUnseen(t, s)
  PROVE  SummaryInv'
<1>1. /\ current # <<>> /\ current' = current
      /\ Reaches(t, holds[s] \cup PositionOf(s), {"UNSEEN"})
      /\ UNCHANGED <<summaries, tainted, said>>
  BY DEF SummaryUnseen, Summarising
<1>2. PICK n \in Procs : current = <<n>>
  BY <1>1, SummarisedProc
<1>3. holds[s] \cup PositionOf(s) \in SUBSET Positions
  BY <1>2, CarriedFacts
<1> QED BY <1>1, <1>2, <1>3, LostFacts, ReachesLost

LEMMA SummaryAgainStep ==
  ASSUME SummaryInv, NEW l \in said, SummaryAgain(l)
  PROVE  SummaryInv'
<1> DEFINE R == l.given \cup UNION {holds[s] : s \in l.froms}
<1>1. /\ current # <<>> /\ current' = current
      /\ Reaches(l.target, R, {"ITERATE"})
      /\ UNCHANGED <<summaries, tainted, said>>
  BY DEF SummaryAgain
<1>2. PICK n \in Procs : current = <<n>>
  BY <1>1, SummarisedProc
<1>3. /\ l.target \in Named /\ l.given \in SUBSET Positions /\ l.froms \in SUBSET Named
      /\ holds \in [Named -> SUBSET Positions]
  BY DEF SummaryInv, SummaryType, Said
<1>4. R \in SUBSET Positions
  BY <1>3
<1> HIDE DEF R
<1> QED BY <1>1, <1>2, <1>3, <1>4, LostFacts, ReachesLost

(* The summary walk does not touch the second walk's state.                *)
LEMMA SummariseStep ==
  ASSUME IInv, Summarise
  PROVE  IInv'
<1>1. SummaryInv
  BY DEF IInv
<1>2. SummaryInv'
  <2>1. ASSUME NEW n \in Procs, Declare(n) PROVE SummaryInv'
    BY <1>1, <2>1, DeclareStep
  <2>2. ASSUME NEW t \in Named, NEW v \in Own, SummaryAddress(t, v)
        PROVE  SummaryInv'
    BY <1>1, <2>2, SummaryAddressStep
  <2>3. ASSUME NEW t \in Named, NEW s \in Named, SummaryCopy(t, s) \/ SummaryUnseen(t, s)
        PROVE  SummaryInv'
    BY <1>1, <2>3, SummaryCopyStep, SummaryUnseenStep
  <2>4. ASSUME NEW f \in Callees, NEW v \in Named, NEW R \in SUBSET Positions,
               SummaryCall(f, v, R)
        PROVE SummaryInv'
    BY <1>1, <2>4, SummaryCallStep
  <2>5. ASSUME NEW v \in Own, SummaryReturn(v) PROVE SummaryInv'
    BY <1>1, <2>5, SummaryReturnStep
  <2>6. ASSUME NEW l \in said, SummaryAgain(l) PROVE SummaryInv'
    BY <1>1, <2>6, SummaryAgainStep
  <2> QED BY <2>1, <2>2, <2>3, <2>4, <2>5, <2>6 DEF Summarise
<1>3. /\ phase = "summary" /\ phase' = "summary" /\ UNCHANGED <<walk, last>>
      /\ count' = count \/ (count < MaxSummary /\ count' = count + 1)
  <2>1. ASSUME NEW n \in Procs, Declare(n)
        PROVE  phase = "summary" /\ UNCHANGED <<phase, walk, last, count>>
    BY <2>1 DEF Declare
  <2>2. ASSUME Summarising
        PROVE  /\ phase = "summary" /\ UNCHANGED <<phase, walk, last>>
               /\ count < MaxSummary /\ count' = count + 1
    BY <2>2 DEF Summarising
  <2>3. ASSUME NEW l \in said, SummaryAgain(l)
        PROVE  phase = "summary" /\ UNCHANGED <<phase, walk, last, count>>
    BY <2>3 DEF SummaryAgain
  <2> QED BY <2>1, <2>2, <2>3
          DEF Summarise, SummaryAddress, SummaryCopy, SummaryCall, SummaryReturn,
              SummaryUnseen
<1>4. PhaseType'
  BY <1>3, InterprocAssumption DEF IInv, PhaseType, walk
<1>5. WalkType' /\ TaintFollows'
  BY <1>3 DEF IInv, WalkType, TaintFollows, Follows, ForkFollows, walk
<1>6. last' = Quiet /\ uses' = {}
  BY <1>3 DEF IInv, PhaseType, walk
<1>7. UsesJudged'
  BY <1>6 DEF UsesJudged
<1>8. CallsReported' /\ EscapesReported'
  BY <1>6, QuietFacts DEF CallsReported, EscapesReported, CallJudged, EscapeJudged
<1> QED BY <1>2, <1>4, <1>5, <1>7, <1>8 DEF IInv

-----------------------------------------------------------------------------
(***************************************************************************)
(* The second walk.                                                        *)
(***************************************************************************)

LEMMA AnalyzeStep ==
  ASSUME IInv, NEW inherited \in SUBSET Enclosing, Analyze(inherited)
  PROVE  IInv'
<1>1. /\ phase = "summary" /\ phase' = "analysis" /\ current' = <<>>
      /\ tainted' = Empty(Own) /\ holds' = Empty(Named) /\ said' = {}
      /\ path' = [v \in Vars |-> IF v \in Enclosing THEN inherited ELSE {}]
      /\ UNCHANGED <<count, summaries, leaks, missed, taint, stack, ready, leaves,
                     uses, blind, last>>
  BY DEF Analyze
<1>2. \A n \in Procs : current' # <<n>>
  BY <1>1
<1>3. /\ tainted' \in [Own -> SUBSET Positions]
      /\ holds' \in [Named -> SUBSET Positions]
  BY <1>1 DEF Empty
<1>4. SummaryType'
  BY <1>1, <1>2, <1>3 DEF IInv, SummaryInv, SummaryType
<1>5. CarriedInv' /\ SummaryExact' /\ LeaksFlagged'
  BY <1>1, <1>2 DEF IInv, SummaryInv, CarriedInv, SummaryExact, LeaksFlagged
<1>6. PhaseType'
  BY <1>1 DEF IInv, PhaseType
<1>7. path' \in Pointers
  BY <1>1 DEF Pointers, Scoped
<1>8. WalkType'
  BY <1>1, <1>7 DEF IInv, WalkType
<1>9. TaintFollows'
  <2>1. \A v \in Keys : path'[v] = {}
    BY <1>1, NamesApart, InterprocAssumption
  <2> QED BY <1>1, <2>1 DEF IInv, TaintFollows, Follows, ForkFollows
<1>10. last' = Quiet /\ uses' = {}
  BY <1>1 DEF IInv, PhaseType
<1>11. UsesJudged'
  BY <1>10 DEF UsesJudged
<1>12. CallsReported' /\ EscapesReported'
  BY <1>10, QuietFacts DEF CallsReported, EscapesReported, CallJudged, EscapeJudged
<1> QED BY <1>4, <1>5, <1>6, <1>8, <1>9, <1>11, <1>12 DEF IInv, SummaryInv

(* A step of the second walk leaves the summaries alone.                   *)
LEMMA SummaryKept ==
  ASSUME SummaryInv, UNCHANGED summary
  PROVE  SummaryInv'
BY DEF summary, SummaryInv, SummaryType, CarriedInv, Carries, LeaksFlagged, SummaryExact

(* What a step of the second walk has to show: while nothing is blind, the *)
(* taint follows, the new visit is judged, and so is every use recorded.   *)
LEMMA WalkedStep ==
  ASSUME IInv, phase = "analysis", UNCHANGED <<phase, summary>>,
         count' \in 0 .. MaxSummary + MaxStmts,
         taint' \in Sources, stack' \in Seq(Fork), ready' \in BOOLEAN, path' \in Pointers,
         leaves' \subseteq Leaf, uses' \subseteq Use, blind' \in BOOLEAN, last' \in Visit,
         ~blind' => /\ ~blind /\ Follows(taint', path')
                    /\ \A k \in 1 .. Len(stack') : ForkFollows(stack'[k])
                    /\ Judged(last'),
         \A u \in uses' : u \in uses \/ u.visit = last'
  PROVE  IInv'
<1>1. SummaryInv' /\ UNCHANGED <<leaks, missed>>
  BY SummaryKept DEF IInv, summary
<1>2. PhaseType'
  BY DEF IInv, PhaseType, summary
<1>3. WalkType'
  BY DEF WalkType
<1>4. TaintFollows'
  BY DEF TaintFollows, Follows, ForkFollows
<1>6. CallsReported' /\ EscapesReported'
  BY <1>1 DEF Judged, CallsReported, EscapesReported, CallJudged, EscapeJudged, Reported
<1>7. ~blind' => \A u \in uses' : Judged(u.visit)
  BY DEF IInv, UsesJudged
<1>8. UsesJudged'
  BY <1>1, <1>7 DEF UsesJudged, Judged, CallJudged, EscapeJudged, Reported
<1> QED BY <1>1, <1>2, <1>3, <1>4, <1>6, <1>8 DEF IInv

LEMMA WalkFacts ==
  ASSUME IInv
  PROVE  /\ taint \in Sources /\ stack \in Seq(Fork) /\ ready \in BOOLEAN
         /\ path \in Pointers /\ leaves \subseteq Leaf /\ uses \subseteq Use
         /\ blind \in BOOLEAN /\ last \in Visit /\ phase \in {"summary", "analysis"}
         /\ count \in 0 .. MaxSummary + MaxStmts
         /\ ~blind => /\ Follows(taint, path)
                      /\ \A k \in 1 .. Len(stack) : ForkFollows(stack[k])
                      /\ \A u \in uses : Judged(u.visit)
BY DEF IInv, WalkType, PhaseType, TaintFollows, UsesJudged

LEMMA SimpleFacts ==
  ASSUME IInv, Simple
  PROVE  /\ phase = "analysis" /\ UNCHANGED <<phase, summary, stack>>
         /\ count' \in 0 .. MaxSummary + MaxStmts /\ ready' \in BOOLEAN
<1>1. /\ phase = "analysis" /\ UNCHANGED <<phase, summary, stack>>
      /\ count < MaxStmts /\ count' = count + 1 /\ ready' \in BOOLEAN
  BY DEF Simple, Visited
<1> QED BY <1>1, WalkFacts, InterprocAssumption

(* The types of what a name or a store may stand for.                      *)
LEMMA KnownFacts ==
  ASSUME IInv
  PROVE  /\ \A v : Known(v) \in SUBSET Scoped
         /\ \A v \in Vars : path[v] \in SUBSET Scoped
         /\ \A v \in Keys : Follows(taint, path) => path[v] \subseteq Known(v)
         /\ \A t, S : Stored(t, S) \subseteq S
<1>1. taint \in Sources /\ path \in Pointers
  BY WalkFacts
<1>2. \A v : Known(v) \in SUBSET Scoped
  BY <1>1 DEF Known, Sources
<1>3. \A v \in Vars : path[v] \in SUBSET Scoped
  BY <1>1 DEF Pointers
<1>4. \A v \in Keys : Follows(taint, path) => path[v] \subseteq Known(v)
  BY DEF Follows, Known
<1>5. \A t, S : Stored(t, S) \subseteq S
  BY DEF Stored
<1> QED BY <1>2, <1>3, <1>4, <1>5

LEMMA TaintFacts ==
  ASSUME IInv, NEW t, NEW S \in SUBSET Scoped
  PROVE  /\ Taint(t, S) \in Sources
         /\ \A v \in Keys : taint[v] \subseteq Taint(t, S)[v]
         /\ t \in Keys => S \subseteq Taint(t, S)[t]
<1>1. taint \in Sources
  BY WalkFacts
<1> QED BY <1>1 DEF Taint, Sources

(* What the reference of an assignment becomes.                            *)
LEMMA ExecuteFacts ==
  ASSUME IInv, NEW t \in Vars, NEW A \in SUBSET Scoped, NEW froms \in SUBSET Vars,
         NEW unknown \in BOOLEAN, Execute(t, A, froms, unknown)
  PROVE  /\ path' \in Pointers /\ leaves' \subseteq Leaf /\ blind' \in BOOLEAN
         /\ uses' = uses
         /\ path'[t] = Value(A, froms)
         /\ \A v \in Vars : v # t => path'[v] = path[v]
         /\ ~blind' => ~blind /\ (unknown => Value(A, froms) = {})
<1>1. /\ path \in Pointers /\ leaves \subseteq Leaf /\ blind \in BOOLEAN
      /\ \A v \in Vars : path[v] \in SUBSET Scoped
  BY WalkFacts, KnownFacts
<1>2. Value(A, froms) \in SUBSET Scoped
  BY <1>1 DEF Value
<1>3. /\ path' = [path EXCEPT ![t] = Value(A, froms)]
      /\ leaves' = leaves \cup (IF InLoop
           THEN {[target |-> t, given |-> A, froms |-> froms]} ELSE {})
      /\ blind' = (blind \/ (unknown /\ Value(A, froms) # {}))
      /\ uses' = uses
  BY DEF Execute
<1>4. leaves' \subseteq Leaf
  <2>1. [target |-> t, given |-> A, froms |-> froms] \in Leaf
    BY DEF Leaf
  <2> QED BY <1>1, <1>3, <2>1
<1>5. /\ path' \in Pointers /\ path'[t] = Value(A, froms)
      /\ \A v \in Vars : v # t => path'[v] = path[v]
  BY <1>1, <1>2, <1>3 DEF Pointers
<1>6. blind' \in BOOLEAN
  BY <1>3
<1>7. ~blind' => ~blind /\ (unknown => Value(A, froms) = {})
  BY <1>3
<1> QED BY <1>3, <1>4, <1>5, <1>6, <1>7

(* An assignment whose value the taint of the target covers.               *)
LEMMA AssignStep ==
  ASSUME IInv, Simple, NEW t \in Vars, NEW A \in SUBSET Scoped, NEW froms \in SUBSET Vars,
         NEW unknown \in BOOLEAN, Execute(t, A, froms, unknown),
         NEW S \in SUBSET Scoped, taint' = Taint(t, S), last' \in Visit,
         ~blind' => Judged(last') /\ (t \in Keys => Value(A, froms) \subseteq S)
  PROVE  IInv'
<1>1. /\ phase = "analysis" /\ UNCHANGED <<phase, summary, stack>>
      /\ count' \in 0 .. MaxSummary + MaxStmts /\ ready' \in BOOLEAN
  BY SimpleFacts
<1>2. /\ path' \in Pointers /\ leaves' \subseteq Leaf /\ blind' \in BOOLEAN
      /\ uses' = uses
      /\ path'[t] = Value(A, froms)
      /\ \A v \in Vars : v # t => path'[v] = path[v]
      /\ ~blind' => ~blind
  BY ExecuteFacts
<1>3. /\ taint' \in Sources
      /\ \A v \in Keys : taint[v] \subseteq taint'[v]
      /\ t \in Keys => S \subseteq taint'[t]
  BY TaintFacts
<1>4. ASSUME ~blind' PROVE Follows(taint', path')
  <2>1. Follows(taint, path)
    BY <1>2, <1>4, WalkFacts
  <2>2. ASSUME NEW v \in Keys PROVE path'[v] \subseteq taint'[v]
    <3>1. CASE v = t
      BY <1>2, <1>3, <1>4, <2>2, <3>1
    <3>2. CASE v # t
      <4>1. v \in Vars
        BY <2>2, NamesApart
      <4> QED BY <1>2, <1>3, <2>1, <2>2, <3>2, <4>1 DEF Follows
    <3> QED BY <3>1, <3>2
  <2> QED BY <2>2 DEF Follows
<1>5. stack' \in Seq(Fork) /\ uses' \subseteq Use
  BY <1>1, <1>2, WalkFacts
<1>6. ~blind' => \A k \in 1 .. Len(stack') : ForkFollows(stack'[k])
  BY <1>1, <1>2, WalkFacts
<1>7. \A u \in uses' : u \in uses \/ u.visit = last'
  BY <1>2
<1> QED BY <1>1, <1>2, <1>3, <1>4, <1>5, <1>6, <1>7, WalkedStep

LEMMA AddressAssignStep ==
  ASSUME IInv, NEW t \in Vars, NEW x \in Vars, AddressAssign(t, x)
  PROVE  IInv'
<1> DEFINE A == {x} \cap Scoped
           S == Stored(t, A)
           issued == IF S # {} THEN {Dangling(A)} ELSE {}
<1>1. /\ Simple /\ taint' = Taint(t, A) /\ Execute(t, A, {}, FALSE)
      /\ last' = [Quiet EXCEPT !.used = S, !.issued = issued]
  BY DEF AddressAssign
<1>2. A \in SUBSET Scoped /\ S \subseteq A /\ Value(A, {}) = A
  BY KnownFacts DEF Value
<1>3. issued \in SUBSET Warning
  <2> HIDE DEF A, S
  <2> QED BY <1>2, WarningTypes
<1> HIDE DEF A, S
<1>4. last' = [issued |-> issued, callee |-> {}, position |-> 0, used |-> S]
  BY <1>1 DEF Quiet
<1>5. S # {} => last'.issued = {Dangling(A)}
  BY <1>4
<1> HIDE DEF issued
<1>6. last' \in Visit
  BY <1>2, <1>3, <1>4, VisitFacts, PositionBounds
<1>7. Judged(last')
  <2>1. CASE S = {}
    BY <1>4, <2>1, NothingUsed
  <2>2. CASE S # {}
    <3>1. Reported(last') = A
      BY <1>5, <2>2, ReportedFacts
    <3> QED BY <1>2, <1>4, <3>1 DEF Judged, CallJudged, EscapeJudged
  <2> QED BY <2>1, <2>2
<1> QED BY <1>1, <1>2, <1>6, <1>7, AssignStep

LEMMA CopyAssignStep ==
  ASSUME IInv, NEW t \in Vars, NEW s \in Vars, CopyAssign(t, s)
  PROVE  IInv'
<1>1. /\ Simple /\ taint' = Taint(t, Known(s)) /\ Execute(t, {}, {s}, s \notin Keys)
      /\ last' = Quiet
  BY DEF CopyAssign
<1>2. Known(s) \in SUBSET Scoped /\ {s} \in SUBSET Vars /\ {} \in SUBSET Scoped
      /\ (s \notin Keys) \in BOOLEAN
  BY KnownFacts
<1>3. Value({}, {s}) = path[s]
  BY DEF Value
<1>4. ~blind' => Value({}, {s}) \subseteq Known(s)
  <2>1. ~blind' => ~blind /\ (s \notin Keys => Value({}, {s}) = {})
    BY <1>1, <1>2, ExecuteFacts
  <2> QED BY <1>3, <2>1, KnownFacts, WalkFacts
<1> QED BY <1>1, <1>2, <1>4, QuietFacts, AssignStep

LEMMA ExprAssignStep ==
  ASSUME IInv, NEW t \in Vars, NEW froms \in SUBSET Vars, ExprAssign(t, froms)
  PROVE  IInv'
<1>1. /\ Simple /\ taint' = taint /\ Execute(t, {}, froms, TRUE)
      /\ last' = Quiet
  BY DEF ExprAssign
<1>2. {} \in SUBSET Scoped
  OBVIOUS
<1>3. taint' = Taint(t, {})
  BY <1>1, WalkFacts DEF Taint, Sources
<1>4. ~blind' => Value({}, froms) \subseteq {}
  BY <1>1, <1>2, ExecuteFacts
<1> QED BY <1>1, <1>2, <1>3, <1>4, QuietFacts, AssignStep

(* A step after which the walk is blind only has its types to keep.        *)
LEMMA BlindStep ==
  ASSUME IInv, phase = "analysis", UNCHANGED <<phase, summary>>,
         count' \in 0 .. MaxSummary + MaxStmts, ready' \in BOOLEAN, blind' = TRUE,
         UNCHANGED <<taint, stack, leaves, uses>>, path' \in Pointers, last' \in Visit
  PROVE  IInv'
<1>1. /\ taint' \in Sources /\ stack' \in Seq(Fork)
      /\ leaves' \subseteq Leaf /\ uses' \subseteq Use
  BY WalkFacts
<1>2. \A u \in uses' : u \in uses \/ u.visit = last'
  OBVIOUS
<1> QED BY <1>1, <1>2, WalkedStep

LEMMA UnseenAssignStep ==
  ASSUME IInv, NEW t \in Vars, NEW x \in Scoped, UnseenAssign(t, x)
  PROVE  IInv'
<1>1. /\ Simple /\ path' = [path EXCEPT ![t] = path[t] \cup {x}] /\ blind' = TRUE
      /\ last' = [Quiet EXCEPT !.used = Stored(t, {x})]
      /\ UNCHANGED <<taint, leaves, uses>>
  BY DEF UnseenAssign
<1>2. path' \in Pointers
  BY <1>1, WalkFacts DEF Pointers
<1>3. last' \in Visit
  <2>1. last' = [issued |-> {}, callee |-> {}, position |-> 0, used |-> Stored(t, {x})]
    BY <1>1 DEF Quiet
  <2>2. Stored(t, {x}) \in SUBSET Scoped
    BY KnownFacts
  <2> QED BY <2>1, <2>2, VisitFacts, PositionBounds
<1> QED BY <1>1, <1>2, <1>3, SimpleFacts, BlindStep

LEMMA UnseenUseStep ==
  ASSUME IInv, NEW x \in Scoped, UnseenUse(x)
  PROVE  IInv'
<1>1. /\ Simple /\ blind' = TRUE /\ UNCHANGED <<taint, path, leaves, uses>>
      /\ last' = [issued |-> {}, callee |-> {}, position |-> 0, used |-> {x}]
  BY DEF UnseenUse, Quiet
<1>2. last' \in Visit
  BY <1>1, VisitFacts, PositionBounds
<1> QED BY <1>1, <1>2, SimpleFacts, WalkFacts, BlindStep

(* A parameter that is leaked, and not by one of Lost, raises the flag.    *)
LEMMA LeakStored ==
  ASSUME IInv, NEW f \in DOMAIN leaks, NEW j \in leaks[f], missed[f] \cap Lost = {}
  PROVE  /\ f \in DOMAIN summaries /\ summaries[f].stores_refs_globally
         /\ \A i : Stores(f, i)
BY DEF IInv, SummaryInv, SummaryType, LeaksFlagged, Stores

(* A statement that lets go of an address and moves none.                  *)
LEMMA UseStep ==
  ASSUME IInv, Simple, UNCHANGED <<taint, path, leaves>>,
         uses' \subseteq Use, \A u \in uses' : u \in uses \/ u.visit = last',
         blind' \in BOOLEAN, last' \in Visit, ~blind' => ~blind /\ Judged(last')
  PROVE  IInv'
<1>1. /\ phase = "analysis" /\ UNCHANGED <<phase, summary, stack>>
      /\ count' \in 0 .. MaxSummary + MaxStmts /\ ready' \in BOOLEAN
  BY SimpleFacts
<1>2. /\ taint' \in Sources /\ path' \in Pointers /\ leaves' \subseteq Leaf
      /\ stack' \in Seq(Fork)
  BY <1>1, WalkFacts
<1>3. ~blind' => /\ Follows(taint', path')
                 /\ \A k \in 1 .. Len(stack') : ForkFollows(stack'[k])
  BY <1>1, WalkFacts
<1> QED BY <1>1, <1>2, <1>3, WalkedStep

LEMMA CallAddressStep ==
  ASSUME IInv, NEW f \in Callees, NEW x \in Scoped, NEW j \in Positions, NEW i,
         CallAddress(f, x, i, j)
  PROVE  IInv'
<1> DEFINE issued == IF Stores(f, i) THEN {Dangling({x})} ELSE {}
<1>1. /\ Simple /\ UNCHANGED <<taint, path, leaves, uses, blind>>
      /\ last' = [issued |-> issued, callee |-> {f}, position |-> j, used |-> {x}]
  BY DEF CallAddress
<1>2. issued \in SUBSET Warning
  BY WarningTypes
<1>3. Stores(f, i) => last'.issued = {Dangling({x})}
  BY <1>1
<1> HIDE DEF issued
<1>4. last' \in Visit
  BY <1>1, <1>2, VisitFacts, PositionBounds
<1>5. Judged(last')
  <2>1. EscapeJudged(last')
    BY <1>1 DEF EscapeJudged
  <2>2. ASSUME f \in DOMAIN leaks, j \in leaks[f], missed[f] \cap Lost = {}
        PROVE  {x} \subseteq Reported(last')
    <3>1. Stores(f, i)
      BY <2>2, LeakStored
    <3> QED BY <1>3, <3>1, ReportedFacts
  <2>3. CallJudged(last')
    BY <1>1, <2>2 DEF CallJudged
  <2> QED BY <2>1, <2>3 DEF Judged
<1> QED BY <1>1, <1>4, <1>5, WalkFacts, UseStep

LEMMA ReturnAddressStep ==
  ASSUME IInv, NEW x \in Scoped, ReturnAddress(x)
  PROVE  IInv'
<1>1. /\ Simple /\ UNCHANGED <<taint, path, leaves, uses, blind>>
      /\ last' = [issued |-> {Returned({x})}, callee |-> {}, position |-> 0,
                  used |-> {x}]
  BY DEF ReturnAddress, Quiet
<1>2. last' \in Visit
  BY <1>1, WarningTypes, VisitFacts, PositionBounds
<1>3. Reported(last') = {x}
  BY <1>1, ReportedFacts
<1>4. Judged(last')
  BY <1>1, <1>3 DEF Judged, CallJudged, EscapeJudged
<1> QED BY <1>1, <1>2, <1>4, WalkFacts, UseStep

(* A use of a name keeps the invariant when its visit is judged while the  *)
(* taint of the name covers what it holds.                                 *)
LEMMA UsesStep ==
  ASSUME IInv, NEW v \in Vars, NEW visit \in Visit, Uses(v, visit),
         path[v] \subseteq Known(v) => Judged(visit)
  PROVE  IInv'
<1>1. /\ Simple /\ last' = visit /\ UNCHANGED <<taint, path, leaves>>
      /\ uses' = uses \cup (IF InLoop THEN {[visit |-> visit, name |-> v]} ELSE {})
      /\ blind' = (blind \/ (v \notin Keys /\ path[v] # {}))
  BY DEF Uses
<1>2. [visit |-> visit, name |-> v] \in Use
  BY DEF Use
<1>3. /\ uses' \subseteq Use /\ blind' \in BOOLEAN
      /\ \A u \in uses' : u \in uses \/ u.visit = last'
  <2>1. uses' \subseteq Use
    BY <1>1, <1>2, WalkFacts
  <2>2. \A u \in uses' : u \in uses \/ u.visit = last'
    BY <1>1
  <2>3. blind' \in BOOLEAN
    BY <1>1
  <2> QED BY <2>1, <2>2, <2>3
<1>4. ASSUME ~blind' PROVE ~blind /\ Judged(last')
  <2>1. ~blind /\ (v \in Keys \/ path[v] = {})
    BY <1>1, <1>4
  <2>2. path[v] \subseteq Known(v)
    BY <2>1, KnownFacts, WalkFacts
  <2> QED BY <1>1, <2>1, <2>2
<1> QED BY <1>1, <1>3, <1>4, UseStep

LEMMA CallNameStep ==
  ASSUME IInv, NEW f \in Callees, NEW v \in Vars, NEW j \in Positions,
         CallName(f, v, j)
  PROVE  IInv'
<1> DEFINE flag == f \in DOMAIN summaries /\ summaries[f].stores_refs_globally
           issued == IF Known(v) # {} /\ f \in DOMAIN summaries
                        /\ summaries[f].stores_refs_globally
                     THEN {Dangling(Known(v))} ELSE {}
           visit == [callee |-> {f}, position |-> j, used |-> path[v],
                     issued |-> issued]
<1>1. Uses(v, visit)
  BY DEF CallName
<1>2. Known(v) \in SUBSET Scoped /\ path[v] \in SUBSET Scoped
  BY KnownFacts
<1>3. issued \in SUBSET Warning
  BY <1>2, WarningTypes
<1>4. Known(v) # {} /\ flag => visit.issued = {Dangling(Known(v))}
  OBVIOUS
<1>5. /\ visit.callee = {f} /\ visit.position = j /\ visit.used = path[v]
  OBVIOUS
<1>6. visit \in Visit
  <2> HIDE DEF issued
  <2> QED BY <1>2, <1>3, PositionBounds DEF Visit
<1> HIDE DEF visit, issued
<1>7. ASSUME path[v] \subseteq Known(v) PROVE Judged(visit)
  <2>1. EscapeJudged(visit)
    BY <1>5 DEF EscapeJudged
  <2>2. ASSUME f \in DOMAIN leaks, j \in leaks[f], missed[f] \cap Lost = {}
        PROVE  path[v] \subseteq Reported(visit)
    <3>1. flag
      BY <2>2, LeakStored
    <3>2. CASE Known(v) = {}
      BY <1>7, <3>2
    <3>3. CASE Known(v) # {}
      <4>1. Reported(visit) = Known(v)
        BY <1>4, <3>1, <3>3, ReportedFacts
      <4> QED BY <1>7, <4>1
    <3> QED BY <3>2, <3>3
  <2>3. CallJudged(visit)
    BY <1>5, <2>2 DEF CallJudged
  <2> QED BY <2>1, <2>3 DEF Judged
<1> QED BY <1>1, <1>6, <1>7, UsesStep

LEMMA ReturnNameStep ==
  ASSUME IInv, NEW v \in Vars, ReturnName(v)
  PROVE  IInv'
<1> DEFINE issued == IF Known(v) # {} THEN {Returned(Known(v))} ELSE {}
           visit == [Quiet EXCEPT !.used = path[v], !.issued = issued]
<1>1. Uses(v, visit)
  BY DEF ReturnName
<1>2. Known(v) \in SUBSET Scoped /\ path[v] \in SUBSET Scoped
  BY KnownFacts
<1>3. issued \in SUBSET Warning
  BY <1>2, WarningTypes
<1>4. visit = [issued |-> issued, callee |-> {}, position |-> 0, used |-> path[v]]
  BY QuietExcept
<1>5. Known(v) # {} => visit.issued = {Returned(Known(v))}
  BY <1>4
<1> HIDE DEF visit, issued
<1>6. visit \in Visit
  BY <1>2, <1>3, <1>4, VisitFacts, PositionBounds
<1>7. ASSUME path[v] \subseteq Known(v) PROVE Judged(visit)
  <2>1. visit.callee = {} /\ visit.used = path[v]
    BY <1>4
  <2>2. CASE Known(v) = {}
    <3>1. visit.used = {}
      BY <1>7, <2>1, <2>2
    <3> QED BY <3>1, NothingUsed
  <2>3. CASE Known(v) # {}
    <3>1. Reported(visit) = Known(v)
      BY <1>5, <2>3, ReportedFacts
    <3> QED BY <1>7, <2>1, <3>1 DEF Judged, CallJudged, EscapeJudged
  <2> QED BY <2>2, <2>3
<1> QED BY <1>1, <1>6, <1>7, UsesStep

-----------------------------------------------------------------------------
(***************************************************************************)
(* Branches and loops.                                                     *)
(***************************************************************************)

(* The stack without its innermost frame.                                  *)
LEMMA BelowFacts ==
  ASSUME stack \in Seq(Fork), stack # <<>>
  PROVE  /\ Top \in Fork
         /\ Below \in Seq(Fork)
         /\ Len(stack) \in 1 .. Len(stack)
         /\ \A k \in 1 .. Len(Below) : k \in 1 .. Len(stack) /\ Below[k] = stack[k]
<1>1. Len(stack) \in Nat /\ Len(stack) > 0
  BY EmptySeq
<1>2. Top \in Fork
  BY <1>1, ElementOfSeq DEF Top
<1>3. \A k \in 1 .. Len(stack) - 1 : stack[k] \in Fork
  BY <1>1, ElementOfSeq
<1> DEFINE front == SubSeq(stack, 1, Len(stack) - 1)
<1>4. /\ front \in Seq(Fork)
      /\ Len(front) = IF 1 <= Len(stack) - 1 THEN Len(stack) - 1 - 1 + 1 ELSE 0
      /\ \A k \in 1 .. Len(stack) - 1 - 1 + 1 : front[k] = stack[1 + k - 1]
  <2>1. 1 \in Int /\ Len(stack) - 1 \in Int
    BY <1>1
  <2> QED BY <1>3, <2>1, SubSeqProperties
<1>5. Below = front
  BY DEF Below
<1> HIDE DEF front
<1>6. \A k \in 1 .. Len(front) : k \in 1 .. Len(stack) - 1
  BY <1>1, <1>4
<1>7. \A k \in 1 .. Len(front) : k \in 1 .. Len(stack) /\ front[k] = stack[k]
  BY <1>1, <1>4, <1>6
<1> QED BY <1>1, <1>2, <1>4, <1>5, <1>7

(* Pushed frames that follow keep the whole stack following.               *)
LEMMA PushFollows ==
  ASSUME NEW stk \in Seq(Fork), NEW f \in Fork,
         \A k \in 1 .. Len(stk) : ForkFollows(stk[k]), ForkFollows(f)
  PROVE  /\ Append(stk, f) \in Seq(Fork)
         /\ \A k \in 1 .. Len(Append(stk, f)) : ForkFollows(Append(stk, f)[k])
OBVIOUS

(* A step into or out of a branch: no address leaves.                      *)
LEMMA BranchStep ==
  ASSUME IInv, phase = "analysis", UNCHANGED <<phase, summary, count, blind>>,
         last' = Quiet, ready' \in BOOLEAN,
         taint' \in Sources, path' \in Pointers, stack' \in Seq(Fork),
         leaves' \subseteq leaves, uses' \subseteq uses,
         ~blind => /\ Follows(taint', path')
                   /\ \A k \in 1 .. Len(stack') : ForkFollows(stack'[k])
  PROVE  IInv'
<1>1. /\ leaves' \subseteq Leaf /\ uses' \subseteq Use /\ blind' \in BOOLEAN
      /\ count' \in 0 .. MaxSummary + MaxStmts
  BY WalkFacts
<1>2. \A u \in uses' : u \in uses \/ u.visit = last'
  OBVIOUS
<1>3. last' \in Visit /\ Judged(last')
  BY QuietFacts
<1> QED BY <1>1, <1>2, <1>3, WalkedStep

(* The walk joins over-approximate the program's.                          *)
LEMMA JoinFacts ==
  ASSUME NEW T \in Sources, NEW U \in Sources, NEW P \in Pointers, NEW Q \in Pointers
  PROVE  /\ Merge(T, U) \in Sources /\ Join(P, Q) \in Pointers
         /\ Follows(T, P) /\ Follows(U, Q) => Follows(Merge(T, U), Join(P, Q))
<1>1. /\ Merge(T, U) \in Sources
      /\ \A v \in Keys : Merge(T, U)[v] = T[v] \cup U[v]
  BY DEF Merge, Sources
<1>2. /\ Join(P, Q) \in Pointers
      /\ \A v \in Keys : Join(P, Q)[v] = P[v] \cup Q[v]
  BY NamesApart DEF Join, Pointers
<1> QED BY <1>1, <1>2 DEF Follows

LEMMA MergeMore ==
  ASSUME NEW T \in Sources, NEW U \in Sources, NEW V \in Sources,
         NEW P \in Pointers, NEW Q \in Pointers, Follows(U, P), Follows(V, Q)
  PROVE  Follows(Merge(Merge(T, U), V), Join(P, Q))
<1>1. \A v \in Keys : Merge(Merge(T, U), V)[v] = T[v] \cup U[v] \cup V[v]
  BY DEF Merge, Sources
<1>2. \A v \in Keys : Join(P, Q)[v] = P[v] \cup Q[v]
  BY NamesApart DEF Join
<1> QED BY <1>1, <1>2 DEF Follows

LEMMA TopFacts ==
  ASSUME IInv, stack # <<>>
  PROVE  /\ Top \in Fork /\ Below \in Seq(Fork)
         /\ Top.base \in Sources /\ Top.then \in Sources
         /\ Top.path \in Pointers /\ Top.thenPath \in Pointers
         /\ ~blind => /\ ForkFollows(Top)
                      /\ \A k \in 1 .. Len(Below) : ForkFollows(Below[k])
<1>1. /\ Top \in Fork /\ Below \in Seq(Fork) /\ Len(stack) \in 1 .. Len(stack)
      /\ \A k \in 1 .. Len(Below) : k \in 1 .. Len(stack) /\ Below[k] = stack[k]
  BY WalkFacts, BelowFacts
<1>2. /\ Top.base \in Sources /\ Top.then \in Sources
      /\ Top.path \in Pointers /\ Top.thenPath \in Pointers
  BY <1>1 DEF Fork
<1>3. ASSUME ~blind
      PROVE  /\ ForkFollows(Top)
             /\ \A k \in 1 .. Len(Below) : ForkFollows(Below[k])
  <2>1. \A k \in 1 .. Len(stack) : ForkFollows(stack[k])
    BY <1>3, WalkFacts
  <2>2. ForkFollows(Top)
    BY <1>1, <2>1 DEF Top
  <2> QED BY <1>1, <2>1, <2>2
<1> QED BY <1>1, <1>2, <1>3

LEMMA EmptyFacts ==
  /\ Empty(Keys) \in Sources /\ Empty(Vars) \in Pointers
  /\ Follows(Empty(Keys), Empty(Vars))
BY NamesApart DEF Empty, Sources, Pointers, Follows

LEMMA EnterStep ==
  ASSUME IInv, NEW kind \in {"THEN", "LOOP"}, Enter(kind)
  PROVE  IInv'
<1> DEFINE f == [kind |-> kind, base |-> taint, then |-> Empty(Keys),
                 path |-> path, thenPath |-> Empty(Vars)]
<1>1. /\ phase = "analysis" /\ stack' = Append(stack, f) /\ last' = Quiet
      /\ UNCHANGED <<phase, summary, count, taint, ready, path, leaves, uses, blind>>
  BY DEF Enter
<1>2. f \in Fork
  BY WalkFacts, EmptyFacts DEF Fork
<1>3. ~blind => ForkFollows(f)
  BY WalkFacts, EmptyFacts DEF ForkFollows
<1> HIDE DEF f
<1>4. stack' \in Seq(Fork)
  BY <1>1, <1>2, WalkFacts
<1>5. ~blind => \A k \in 1 .. Len(stack') : ForkFollows(stack'[k])
  BY <1>1, <1>2, <1>3, WalkFacts, PushFollows
<1>6. /\ taint' \in Sources /\ path' \in Pointers /\ ready' \in BOOLEAN
      /\ ~blind => Follows(taint', path')
  BY <1>1, WalkFacts
<1> QED BY <1>1, <1>4, <1>5, <1>6, BranchStep

LEMMA EnterElseStep ==
  ASSUME IInv, EnterElse
  PROVE  IInv'
<1> DEFINE f == [Top EXCEPT !.kind = "ELSE", !.then = taint, !.thenPath = path]
<1>1. /\ phase = "analysis" /\ UNCHANGED <<phase, summary, count>>
      /\ stack # <<>> /\ stack' = Append(Below, f) /\ last' = Quiet /\ ready' = TRUE
      /\ taint' = Top.base /\ path' = Top.path /\ UNCHANGED <<leaves, uses, blind>>
  BY DEF EnterElse, Midway
<1>2. /\ f \in Fork /\ f.base = Top.base /\ f.path = Top.path
      /\ f.then = taint /\ f.thenPath = path
  BY <1>1, WalkFacts, TopFacts DEF Fork
<1>3. ~blind => Follows(Top.base, Top.path)
  BY <1>1, TopFacts DEF ForkFollows
<1>4. ~blind => ForkFollows(f)
  <2> HIDE DEF f
  <2> QED BY <1>2, <1>3, WalkFacts DEF ForkFollows
<1> HIDE DEF f
<1>5. stack' \in Seq(Fork)
  BY <1>1, <1>2, TopFacts
<1>6. ~blind => \A k \in 1 .. Len(stack') : ForkFollows(stack'[k])
  BY <1>1, <1>2, <1>4, TopFacts, PushFollows
<1>7. taint' \in Sources /\ path' \in Pointers /\ ready' \in BOOLEAN
  BY <1>1, TopFacts
<1> QED BY <1>1, <1>3, <1>5, <1>6, <1>7, BranchStep

LEMMA LeaveIfStep ==
  ASSUME IInv, LeaveIf
  PROVE  IInv'
<1>1. /\ phase = "analysis" /\ UNCHANGED <<phase, summary, count>>
      /\ stack # <<>> /\ stack' = Below /\ last' = Quiet /\ ready' \in BOOLEAN
      /\ taint' = Merge(Merge(Top.base, Top.then), taint)
      /\ path' = Join(Top.thenPath, path) /\ UNCHANGED <<leaves, uses, blind>>
  BY DEF LeaveIf, Midway
<1>2. taint' \in Sources /\ path' \in Pointers
  BY <1>1, WalkFacts, TopFacts, JoinFacts
<1>3. ~blind => Follows(taint', path')
  <2>1. ~blind => Follows(Top.then, Top.thenPath) /\ Follows(taint, path)
    BY <1>1, WalkFacts, TopFacts DEF ForkFollows
  <2> QED BY <1>1, <2>1, WalkFacts, TopFacts, MergeMore
<1> QED BY <1>1, <1>2, <1>3, TopFacts, BranchStep

LEMMA LeaveLoopStep ==
  ASSUME IInv, LeaveLoop
  PROVE  IInv'
<1>1. /\ phase = "analysis" /\ UNCHANGED <<phase, summary, count, blind>>
      /\ stack # <<>> /\ stack' = Below /\ last' = Quiet /\ ready' \in BOOLEAN
      /\ taint' = Merge(Top.base, taint) /\ path' = Join(Top.path, path)
      /\ leaves' \subseteq leaves /\ uses' \subseteq uses
  BY DEF LeaveLoop, Midway
<1>2. taint' \in Sources /\ path' \in Pointers
  BY <1>1, WalkFacts, TopFacts, JoinFacts
<1>3. ~blind => Follows(taint', path')
  <2>1. ~blind => Follows(Top.base, Top.path) /\ Follows(taint, path)
    BY <1>1, WalkFacts, TopFacts DEF ForkFollows
  <2> QED BY <1>1, <2>1, WalkFacts, TopFacts, JoinFacts
<1> QED BY <1>1, <1>2, <1>3, TopFacts, BranchStep

LEMMA IterateStep ==
  ASSUME IInv, NEW l \in leaves, Iterate(l)
  PROVE  IInv'
<1>1. /\ phase = "analysis" /\ UNCHANGED <<phase, summary, count>>
      /\ path' = [path EXCEPT ![l.target] = path[l.target] \cup Value(l.given, l.froms)]
      /\ blind' = TRUE /\ last' = Quiet
      /\ UNCHANGED <<taint, stack, ready, leaves, uses>>
  BY DEF Iterate, Midway
<1>2. /\ l.target \in Vars /\ l.given \in SUBSET Scoped /\ l.froms \in SUBSET Vars
      /\ path \in Pointers
  BY WalkFacts DEF Leaf
<1>3. Value(l.given, l.froms) \in SUBSET Scoped
  BY <1>2 DEF Value, Pointers
<1>4. path' \in Pointers
  BY <1>1, <1>2, <1>3 DEF Pointers
<1> QED BY <1>1, <1>4, WalkFacts, QuietFacts, BlindStep

LEMMA UseAgainStep ==
  ASSUME IInv, NEW u \in uses, UseAgain(u)
  PROVE  IInv'
<1>1. /\ phase = "analysis" /\ UNCHANGED <<phase, summary, count>>
      /\ last' = [u.visit EXCEPT !.used = path[u.name]]
      /\ blind' = (blind \/ ~(path[u.name] \subseteq u.visit.used))
      /\ UNCHANGED <<taint, stack, ready, path, leaves, uses>>
  BY DEF UseAgain, Midway
<1>2. u.visit \in Visit /\ u.name \in Vars
  BY WalkFacts DEF Use
<1>3. path[u.name] \in SUBSET Scoped
  BY <1>2, KnownFacts
<1>4. /\ last' \in Visit /\ last'.used = path[u.name] /\ last'.callee = u.visit.callee
      /\ last'.position = u.visit.position /\ last'.issued = u.visit.issued
  BY <1>1, <1>2, <1>3 DEF Visit
<1>5. ASSUME ~blind' PROVE ~blind /\ Judged(last')
  <2>1. ~blind /\ path[u.name] \subseteq u.visit.used
    BY <1>1, <1>5
  <2>2. Judged(u.visit)
    BY <2>1, WalkFacts
  <2>3. Reported(last') = Reported(u.visit)
    BY <1>4 DEF Reported
  <2>4. EscapeJudged(last')
    BY <1>4, <2>1, <2>2, <2>3 DEF Judged, EscapeJudged
  <2>5. CallJudged(last')
    BY <1>4, <2>1, <2>2, <2>3 DEF Judged, CallJudged
  <2> QED BY <2>1, <2>4, <2>5 DEF Judged
<1>6. /\ taint' \in Sources /\ stack' \in Seq(Fork) /\ ready' \in BOOLEAN
      /\ path' \in Pointers /\ leaves' \subseteq Leaf /\ uses' \subseteq Use
      /\ blind' \in BOOLEAN /\ count' \in 0 .. MaxSummary + MaxStmts
  BY <1>1, WalkFacts
<1>7. ~blind' => /\ Follows(taint', path')
                 /\ \A k \in 1 .. Len(stack') : ForkFollows(stack'[k])
  BY <1>1, <1>5, WalkFacts
<1>8. \A w \in uses' : w \in uses \/ w.visit = last'
  BY <1>1
<1> QED BY <1>1, <1>4, <1>5, <1>6, <1>7, <1>8, WalkedStep

LEMMA WalkStep ==
  ASSUME IInv, Walk
  PROVE  IInv'
<1>1. ASSUME NEW t \in Vars, NEW x \in Vars, AddressAssign(t, x) PROVE IInv'
  BY <1>1, AddressAssignStep
<1>2. ASSUME NEW t \in Vars, NEW s \in Vars, CopyAssign(t, s) PROVE IInv'
  BY <1>2, CopyAssignStep
<1>3. ASSUME NEW t \in Vars, NEW froms \in {{}} \cup {{s} : s \in Vars},
             ExprAssign(t, froms)
      PROVE  IInv'
  BY <1>3, ExprAssignStep
<1>4. ASSUME NEW t \in Vars, NEW x \in Scoped, UnseenAssign(t, x) PROVE IInv'
  BY <1>4, UnseenAssignStep
<1>5. ASSUME NEW f \in Callees, NEW x \in Scoped, NEW j \in Positions, NEW i \in 1 .. j,
             CallAddress(f, x, i, j)
      PROVE  IInv'
  BY <1>5, CallAddressStep
<1>6. ASSUME NEW f \in Callees, NEW v \in Vars, NEW j \in Positions, CallName(f, v, j)
      PROVE  IInv'
  BY <1>6, CallNameStep
<1>7. ASSUME NEW x \in Scoped, ReturnAddress(x) \/ UnseenUse(x) PROVE IInv'
  BY <1>7, ReturnAddressStep, UnseenUseStep
<1>8. ASSUME NEW v \in Vars, ReturnName(v) PROVE IInv'
  BY <1>8, ReturnNameStep
<1>9. ASSUME NEW kind \in {"THEN", "LOOP"}, Enter(kind) PROVE IInv'
  BY <1>9, EnterStep
<1>10. ASSUME NEW l \in leaves, Iterate(l) PROVE IInv'
  BY <1>10, IterateStep
<1>11. ASSUME NEW u \in uses, UseAgain(u) PROVE IInv'
  BY <1>11, UseAgainStep
<1> QED BY <1>1, <1>2, <1>3, <1>4, <1>5, <1>6, <1>7, <1>8, <1>9, <1>10, <1>11,
           EnterElseStep, LeaveIfStep, LeaveLoopStep DEF Walk

LEMMA NextIInv == IInv /\ [Next]_vars => IInv'
<1> SUFFICES ASSUME IInv, [Next]_vars PROVE IInv'
  OBVIOUS
<1>1. CASE Summarise
  BY <1>1, SummariseStep
<1>2. ASSUME NEW inherited \in SUBSET Enclosing, Analyze(inherited) PROVE IInv'
  BY <1>2, AnalyzeStep
<1>3. CASE Walk
  BY <1>3, WalkStep
<1>4. CASE UNCHANGED vars
  <2>1. UNCHANGED <<phase, count, summary, walk, last>>
    BY <1>4 DEF vars
  <2>2. SummaryInv'
    BY <2>1, SummaryKept DEF IInv
  <2>3. PhaseType'
    BY <2>1 DEF IInv, PhaseType, summary, walk
  <2>4. WalkType' /\ TaintFollows'
    BY <2>1 DEF IInv, WalkType, TaintFollows, Follows, ForkFollows, walk
  <2>5. UsesJudged'
    BY <2>1 DEF IInv, UsesJudged, Judged, CallJudged, EscapeJudged, Reported,
                walk, summary
  <2>6. CallsReported' /\ EscapesReported'
    BY <2>1 DEF IInv, CallsReported, EscapesReported, CallJudged, EscapeJudged,
                Reported, walk, summary
  <2> QED BY <2>2, <2>3, <2>4, <2>5, <2>6 DEF IInv
<1> QED BY <1>1, <1>2, <1>3, <1>4 DEF Next

-----------------------------------------------------------------------------
(***************************************************************************)
(* The theorems.                                                           *)
(***************************************************************************)

(* Every variable keeps the type of the Python attribute it stands for.    *)
THEOREM TypeCorrect == Spec => []TypeOK
<1>1. IInv => TypeOK
  <2> SUFFICES ASSUME IInv PROVE TypeOK
    OBVIOUS
  <2>1. \E D \in SUBSET Procs :
           /\ summaries \in [D -> ProcSummary]
           /\ leaks \in [D -> SUBSET Positions]
           /\ missed \in [D -> SUBSET (Lost \cup Blurred)]
    <3>1. /\ DOMAIN summaries \in SUBSET Procs
          /\ summaries \in [DOMAIN summaries -> ProcSummary]
          /\ leaks \in [DOMAIN summaries -> SUBSET Positions]
          /\ missed \in [DOMAIN summaries -> SUBSET (Lost \cup Blurred)]
      BY DEF IInv, SummaryInv, SummaryType
    <3> QED BY <3>1
  <2> QED BY <2>1 DEF IInv, SummaryInv, SummaryType, WalkType, PhaseType, TypeOK
<1> QED BY <1>1, InitIInv, NextIInv, PTL DEF Spec

(* Through whatever chain of locals and parameters a body of any length    *)
(* hands a reference to a global, in the order of its text and by the      *)
(* forms the pass looks at, its summary is flagged; and no summary is      *)
(* flagged without such a store or a local with the name of a global.      *)
THEOREM LeaksAlwaysFlagged == Spec => []LeaksFlagged
<1>1. IInv => LeaksFlagged
  BY DEF IInv, SummaryInv
<1> QED BY <1>1, InitIInv, NextIInv, PTL DEF Spec

(* The set of stored parameters is exact but for the loops, forms, CALLs,  *)
(* redeclarations, overwritten parameters and shadowed globals that Lost   *)
(* and Blurred name.                                                       *)
THEOREM SummaryAlwaysExact == Spec => []SummaryExact
<1>1. IInv => SummaryExact
  BY DEF IInv, SummaryInv
<1> QED BY <1>1, InitIInv, NextIInv, PTL DEF Spec

(* Whatever summaries the first walk left, a local address that reaches a  *)
(* parameter its callee stores globally is reported at the CALL, also when *)
(* a loop makes the CALL again, until the walk is blind.                   *)
THEOREM CallsAlwaysReported == Spec => []CallsReported
<1>1. IInv => CallsReported
  BY DEF IInv
<1> QED BY <1>1, InitIInv, NextIInv, PTL DEF Spec

(* A local address stored in a global at once or returned, by its own name *)
(* or any other, is reported until the walk is blind.                      *)
THEOREM EscapesAlwaysReported == Spec => []EscapesReported
<1>1. IInv => EscapesReported
  BY DEF IInv
<1> QED BY <1>1, InitIInv, NextIInv, PTL DEF Spec
=============================================================================

--------------------------- MODULE CaseGraphProofs ---------------------------
(* Theorems about CaseGraph, for every value of the constants: any number of
   documents, any costs, any failures of a model call.

   Three inductive invariants, each beside the one before it.  GraphInv says what
   the branch of a document carries at each step, and what holds of all of them
   once the branches are joined; TrailInv says that what the trail tells of a
   document is where its branch has been; CostInv that what was spent is what the
   documents and the report say they cost.  The last two are about folds, over the
   trail and over the documents: the lemmas before them unfold these one event, or
   one document, at a time, by induction on a set of natural numbers. *)
EXTENDS CaseGraph, TLAPS, FiniteSetTheorems, SequenceTheorems

Steps == {"none", "ocr", "classify", "extract", "skip", "collected"}
Carried == [has_text: BOOLEAN, known: BOOLEAN, payload: BOOLEAN,
            reason: Reasons, error: Errors, usage: Nat]
Stages == {"ingest", "ocr", "classify", "extract", "skip", "reconcile"}
Events == [stage: Stages, document: Case \cup {NoOne}]

Typed ==
    /\ at \in [Case -> Steps]
    /\ doc \in [Case -> Carried]
    /\ trail \in Seq(Events)
    /\ spent \in Nat
    /\ delivered \in 0..Len(trail)
    /\ run \in {"ingest", "branches", "returning"}
    /\ report.status \in {"none", "clean", "needs_review", "blocked"}
    /\ outcome \in {"none", "report", "ValueError"} \cup CaseLevel

\* What a branch carries as it arrives at a step.
CarriesAt(step, carried) ==
    /\ step # "collected" => ~carried.payload /\ carried.error = "none"
    /\ step \in {"none", "ocr", "classify"} => carried.usage = 0
    /\ step \in {"none", "ocr", "extract"} => carried.reason = "none"
    /\ step \notin {"none", "ocr"} =>
          /\ ~carried.has_text <=> carried.reason = "unread"
          /\ ~carried.has_text => carried.usage = 0
    /\ step = "classify" => carried.reason \in {"none", "unread"}
    /\ step = "skip" => carried.reason # "none"
    /\ step = "collected" =>
          /\ carried.payload <=> carried.error = "none"
          /\ carried.error = "undetermined" <=> carried.reason # "none"

BranchesCarry == \A d \in Case : CarriesAt(at[d], doc[d])

Joined ==
    /\ run = "ingest" => at = [d \in Case |-> "none"]
    /\ run = "returning" => \A d \in Case : at[d] = "collected"
    /\ run # "returning" => report.status = "none" /\ outcome # "report"

CleanIsRead ==
    run = "returning" /\ report.status = "clean" => Usable = Case /\ report.cost \in Costs

GraphInv == Typed /\ BranchesCarry /\ Joined /\ CleanIsRead

\* Before anything is read no document has a reason or a payload.
LEMMA InitHolds ==
    ASSUME Init PROVE GraphInv
<1>1. Typed
  BY GraphAssumption DEF Init, Typed, Steps, Carried, Reasons, Errors, Fresh, NoReport, Events
<1>2. BranchesCarry
  BY DEF Init, BranchesCarry, CarriesAt, Fresh
<1>3. Joined /\ CleanIsRead
  BY DEF Init, Joined, CleanIsRead, NoReport
<1> QED
  BY <1>1, <1>2, <1>3 DEF GraphInv

\* What is to be shown of a step of the branch of one document.
LEMMA OneBranchMoves ==
    ASSUME GraphInv, run = "branches", outcome = "none", NEW d \in Case,
           NEW step \in Steps, NEW carried \in Carried, MoveTo(d, step, carried),
           CarriesAt(step, carried), trail' \in Seq(Events), Len(trail') >= Len(trail),
           spent' \in Nat, UNCHANGED perRun
    PROVE  GraphInv'
<1>1. /\ at' = [at EXCEPT ![d] = step] /\ doc' = [doc EXCEPT ![d] = carried]
      /\ UNCHANGED <<presented, run, report, delivered, outcome>>
  BY DEF MoveTo, perRun
<1>2. Typed'
  BY <1>1 DEF GraphInv, Typed, Case, Events, CaseLevel
<1>3. BranchesCarry'
  BY <1>1 DEF GraphInv, BranchesCarry, Typed, Case
<1>4. Joined' /\ CleanIsRead'
  BY <1>1 DEF GraphInv, Joined, CleanIsRead
<1> QED
  BY <1>2, <1>3, <1>4 DEF GraphInv

\* An event recorded about a document lengthens the trail.
LEMMA Recorded ==
    ASSUME GraphInv, NEW d \in Case \cup {NoOne}, NEW stage \in Stages, NEW cost \in Nat,
           Record(stage, d, cost)
    PROVE  /\ trail' \in Seq(Events) /\ Len(trail') = Len(trail) + 1
           /\ Len(trail') >= Len(trail)
           /\ Len(trail) \in Nat /\ spent' \in Nat
<1>1. trail \in Seq(Events) /\ spent \in Nat
  BY DEF GraphInv, Typed
<1>2. [stage |-> stage, document |-> d] \in Events
  BY DEF Events
<1> QED
  BY <1>1, <1>2 DEF Record

\* OCR gives a document its text or the reason it has none.
LEMMA OcrKeeps ==
    ASSUME GraphInv, NEW d \in Case, Ocr(d) PROVE GraphInv'
<1>1. /\ run = "branches" /\ outcome = "none" /\ UNCHANGED perRun
      /\ doc[d] \in Carried /\ CarriesAt("ocr", doc[d])
      /\ trail \in Seq(Events) /\ spent \in Nat
  BY DEF Ocr, Active, GraphInv, Typed, BranchesCarry, CarriesAt
<1>2. CASE doc[d].has_text /\ MoveTo(d, "classify", doc[d]) /\ UNCHANGED <<trail, spent>>
  BY <1>1, <1>2, OneBranchMoves DEF Steps, CarriesAt
<1>3. ASSUME Record("ocr", d, 0), ~doc[d].has_text,
             NEW carried \in {[doc[d] EXCEPT !.has_text = TRUE],
                              [doc[d] EXCEPT !.reason = "unread"]},
             MoveTo(d, "classify", carried)
      PROVE  GraphInv'
  <2>1. carried \in Carried /\ CarriesAt("classify", carried)
    BY <1>1, <1>3 DEF Carried, Reasons, CarriesAt
  <2>2. trail' \in Seq(Events) /\ Len(trail') >= Len(trail) /\ spent' \in Nat
    BY <1>3, Recorded DEF Record, Stages
  <2> QED
    BY <1>1, <1>3, <2>1, <2>2, OneBranchMoves DEF Steps
<1> QED
  BY <1>2, <1>3 DEF Ocr

\* A document that is not classified takes its reason along to skip.
LEMMA UnclassifiedKeeps ==
    ASSUME GraphInv, NEW d \in Case, Active(d, "classify"), UNCHANGED perRun,
           NEW reason \in Reasons \ {"none"}, NEW cost \in Nat,
           ~doc[d].has_text => cost = 0, ~doc[d].has_text <=> reason = "unread",
           Unclassified(d, reason, cost)
    PROVE  GraphInv'
<1> DEFINE carried == [doc[d] EXCEPT !.reason = reason, !.usage = cost]
<1>1. /\ doc[d] \in Carried /\ CarriesAt("classify", doc[d])
      /\ run = "branches" /\ outcome = "none"
  BY DEF Active, GraphInv, Typed, BranchesCarry, CarriesAt
<1>2. carried \in Carried /\ CarriesAt("skip", carried)
  BY <1>1 DEF Carried, CarriesAt
<1>3. trail' \in Seq(Events) /\ Len(trail') >= Len(trail) /\ spent' \in Nat
  BY Recorded DEF Unclassified, Record, Stages
<1>4. MoveTo(d, "skip", carried)
  BY DEF Unclassified
<1> HIDE DEF carried
<1> QED
  BY <1>1, <1>2, <1>3, <1>4, OneBranchMoves DEF Steps

\* Classifying passes a document on to extraction only when it is usable.
LEMMA ClassifyKeeps ==
    ASSUME GraphInv, NEW d \in Case, Classify(d) PROVE GraphInv'
<1>1. /\ Active(d, "classify") /\ run = "branches" /\ outcome = "none" /\ UNCHANGED perRun
      /\ doc[d] \in Carried /\ CarriesAt("classify", doc[d])
  BY DEF Classify, Active, GraphInv, Typed, BranchesCarry, CarriesAt
<1>2. CASE ~doc[d].has_text /\ Unclassified(d, doc[d].reason, 0)
  <2>1. doc[d].reason \in Reasons \ {"none"} /\ doc[d].reason = "unread"
    BY <1>1, <1>2 DEF Carried, CarriesAt
  <2> QED
    BY <1>1, <1>2, <2>1, UnclassifiedKeeps
<1>3. ASSUME NEW failure \in CallFailures, doc[d].has_text, Unclassified(d, failure, 0)
      PROVE  GraphInv'
  <2>1. failure \in Reasons \ {"none", "unread"}
    BY DEF Reasons, CallFailures, LimiterFailures
  <2> QED
    BY <1>1, <1>3, <2>1, UnclassifiedKeeps
<1>4. ASSUME NEW cost \in Costs, doc[d].has_text, Unclassified(d, "unsure", cost)
      PROVE  GraphInv'
  <2>1. "unsure" \in Reasons \ {"none", "unread"} /\ cost \in Nat
    BY GraphAssumption DEF Reasons
  <2> QED
    BY <1>1, <1>4, <2>1, UnclassifiedKeeps
<1>5. ASSUME NEW cost \in Costs, doc[d].has_text, Record("classify", d, cost),
             MoveTo(d, "extract", [doc[d] EXCEPT !.known = TRUE, !.usage = cost])
      PROVE  GraphInv'
  <2> DEFINE carried == [doc[d] EXCEPT !.known = TRUE, !.usage = cost]
  <2>1. cost \in Nat
    BY GraphAssumption
  <2>2. carried \in Carried /\ CarriesAt("extract", carried)
    BY <1>1, <1>5, <2>1 DEF Carried, CarriesAt
  <2>3. trail' \in Seq(Events) /\ Len(trail') >= Len(trail) /\ spent' \in Nat
    BY <1>5, <2>1, Recorded DEF Record, Stages
  <2>4. MoveTo(d, "extract", carried)
    BY <1>5
  <2> HIDE DEF carried
  <2> QED
    BY <1>1, <2>2, <2>3, <2>4, OneBranchMoves DEF Steps
<1> QED
  BY <1>2, <1>3, <1>4, <1>5 DEF Classify

\* Extraction leaves a payload or an error, never both.
LEMMA ExtractKeeps ==
    ASSUME GraphInv, NEW d \in Case, Extract(d) PROVE GraphInv'
<1>1. /\ run = "branches" /\ outcome = "none" /\ UNCHANGED perRun
      /\ doc[d] \in Carried /\ CarriesAt("extract", doc[d])
  BY DEF Extract, Active, GraphInv, Typed, BranchesCarry, CarriesAt
<1>2. ASSUME NEW carried, NEW cost \in Nat, carried \in Carried,
             CarriesAt("collected", carried), MoveTo(d, "collected", carried),
             Record("extract", d, cost)
      PROVE  GraphInv'
  <2>1. trail' \in Seq(Events) /\ Len(trail') >= Len(trail) /\ spent' \in Nat
    BY <1>2, Recorded DEF Record, Stages
  <2> QED
    BY <1>1, <1>2, <2>1, OneBranchMoves DEF Steps
<1>3. ASSUME NEW failure \in CallFailures, Record("extract", d, 0),
             MoveTo(d, "collected", [doc[d] EXCEPT !.error = failure])
      PROVE  GraphInv'
  <2> DEFINE carried == [doc[d] EXCEPT !.error = failure]
  <2>1. failure \in Errors /\ failure \notin {"none", "undetermined"}
    BY DEF Errors, CallFailures, LimiterFailures
  <2>3. carried \in Carried /\ CarriesAt("collected", carried)
    BY <1>1, <2>1 DEF Carried, CarriesAt
  <2> HIDE DEF carried
  <2>2. MoveTo(d, "collected", carried)
    BY <1>3 DEF carried
  <2> QED
    BY <1>2, <1>3, <2>2, <2>3
<1>4. ASSUME NEW cost \in Costs, Record("extract", d, cost),
             MoveTo(d, "collected", [doc[d] EXCEPT !.payload = TRUE, !.usage = @ + cost])
      PROVE  GraphInv'
  <2> DEFINE carried == [doc[d] EXCEPT !.payload = TRUE, !.usage = @ + cost]
  <2>1. cost \in Nat /\ doc[d].usage \in Nat
    BY <1>1, GraphAssumption DEF Carried
  <2>4. /\ carried = [doc[d] EXCEPT !.payload = TRUE, !.usage = doc[d].usage + cost]
        /\ doc[d].usage + cost \in Nat
    BY <2>1
  <2>5. carried \in Carried
    BY <1>1, <2>4 DEF Carried
  <2>6. /\ carried.payload /\ carried.error = "none" /\ carried.reason = "none"
        /\ carried.has_text
    BY <1>1, <2>4 DEF Carried, CarriesAt
  <2>2. carried \in Carried /\ CarriesAt("collected", carried)
    BY <2>5, <2>6 DEF CarriesAt
  <2> HIDE DEF carried
  <2>3. MoveTo(d, "collected", carried)
    BY <1>4 DEF carried
  <2> QED
    BY <1>2, <1>4, <2>1, <2>2, <2>3
<1> QED
  BY <1>3, <1>4 DEF Extract

\* Skipping sets an error, and the document has a reason by then.
LEMMA SkipKeeps ==
    ASSUME GraphInv, NEW d \in Case, SkipUnclassified(d) PROVE GraphInv'
<1>1. /\ run = "branches" /\ outcome = "none" /\ UNCHANGED perRun
      /\ doc[d] \in Carried /\ CarriesAt("skip", doc[d])
      /\ MoveTo(d, "collected", [doc[d] EXCEPT !.error = "undetermined"])
  BY DEF SkipUnclassified, Active, GraphInv, Typed, BranchesCarry, CarriesAt
<1>2. trail' \in Seq(Events) /\ Len(trail') >= Len(trail) /\ spent' \in Nat
  BY Recorded DEF SkipUnclassified, Record, Stages
<1> DEFINE carried == [doc[d] EXCEPT !.error = "undetermined"]
<1>3. carried \in Carried /\ CarriesAt("collected", carried)
  BY <1>1 DEF Carried, Errors, CarriesAt
<1>4. MoveTo(d, "collected", carried)
  BY <1>1
<1> HIDE DEF carried
<1> QED
  BY <1>1, <1>2, <1>3, <1>4, OneBranchMoves DEF Steps

\* The report is clean only when nothing went unread and the model was asked.
LEMMA FinalisedClean ==
    ASSUME NEW severities, NEW cost, Finalised(severities, cost).status = "clean"
    PROVE  Usable = Case /\ Finalised(severities, cost).cost = cost
  BY DEF Finalised, DerivedStatus

\* Reconciling is the one step that sets the status of the report.
LEMMA ReconcileKeeps ==
    ASSUME GraphInv, Reconcile PROVE GraphInv'
<1>1. /\ Collected /\ run' = "returning" /\ UNCHANGED <<presented, at, doc, delivered, outcome>>
  BY DEF Reconcile
<1>2. report' = WarningReport("no_usable_documents")
      \/ report' = WarningReport("reconciliation_failed")
      \/ \E severities \in SUBSET Severities, cost \in Costs :
            report' = Finalised(severities, cost)
  BY DEF Reconcile
<1>3. /\ report'.status \in {"clean", "needs_review", "blocked"}
      /\ report'.cost \in Nat
  BY <1>2, GraphAssumption DEF WarningReport, Finalised, DerivedStatus
<1>4. report'.status = "clean" => Usable = Case /\ report'.cost \in Costs
  BY <1>2, FinalisedClean DEF WarningReport
<1>5. /\ trail' \in Seq(Events) /\ Len(trail') = Len(trail) + 1
      /\ Len(trail) \in Nat /\ spent' \in Nat
  <2>1. Record("reconcile", NoOne, report'.cost)
    BY DEF Reconcile
  <2> QED
    BY <1>3, <2>1, Recorded DEF Record, Stages
<1>6. Typed'
  BY <1>1, <1>3, <1>5 DEF GraphInv, Typed, Case, Events, CaseLevel
<1>7. BranchesCarry'
  BY <1>1 DEF GraphInv, BranchesCarry, Case
<1>8. Joined'
  BY <1>1 DEF Joined, Collected, Case
<1>9. CleanIsRead'
  BY <1>1, <1>4 DEF CleanIsRead, Usable, Case
<1> QED
  BY <1>6, <1>7, <1>8, <1>9 DEF GraphInv

\* Ingest, delivery and the return leave what the branches carry alone.
LEMMA OtherStepsKeep ==
    ASSUME GraphInv,
           \/ Ingest \/ IngestRefuses \/ \E d \in Case : CallStopsTheCase(d)
           \/ ReconcileStopsTheCase \/ Drain \/ Return \/ UNCHANGED vars
    PROVE  GraphInv'
<1>1. CASE Ingest
  <2>1. /\ trail' \in Seq(Events) /\ Len(trail') = Len(trail) + 1
        /\ Len(trail) \in Nat /\ spent' \in Nat
    BY <1>1, Recorded DEF Ingest, Record, Stages
  <2>2. Typed'
    BY <1>1, <2>1 DEF Ingest, GraphInv, Typed, Case, Events, Steps, CaseLevel
  <2>3. BranchesCarry'
    BY <1>1 DEF Ingest, GraphInv, Joined, BranchesCarry, CarriesAt, Case
  <2>4. Joined' /\ CleanIsRead'
    BY <1>1 DEF Ingest, GraphInv, Joined, CleanIsRead
  <2> QED
    BY <2>2, <2>3, <2>4 DEF GraphInv
<1>2. ASSUME NEW exception \in {"ValueError"} \cup CaseLevel, Escape(exception)
      PROVE  GraphInv'
  BY <1>2 DEF Escape, GraphInv, Typed, BranchesCarry, Joined, CleanIsRead, Usable, Case,
     Events, CaseLevel
<1>3. CASE Drain \/ Return
  <2>1. UNCHANGED <<presented, at, doc, trail, spent, run, report>>
    BY <1>3 DEF Drain, Return
  <2>2. delivered' = Len(trail) /\ outcome' \in {outcome, "report"}
      /\ (outcome' # outcome => run = "returning")
    BY <1>3 DEF Drain, Return
  <2>3. Len(trail) \in Nat
    BY DEF GraphInv, Typed
  <2>4. Typed'
    BY <2>1, <2>2, <2>3 DEF GraphInv, Typed, Events, Case
  <2>5. BranchesCarry' /\ CleanIsRead'
    BY <2>1 DEF GraphInv, BranchesCarry, CleanIsRead, Usable, Case
  <2>6. Joined'
    BY <2>1, <2>2 DEF GraphInv, Joined, Case
  <2> QED
    BY <2>4, <2>5, <2>6 DEF GraphInv
<1>4. CASE UNCHANGED vars
  BY <1>4 DEF vars, GraphInv, Typed, BranchesCarry, Joined, CleanIsRead, Usable, Case, Events
<1>5. CASE IngestRefuses \/ (\E d \in Case : CallStopsTheCase(d)) \/ ReconcileStopsTheCase
  <2>1. PICK exception \in {"ValueError"} \cup CaseLevel : Escape(exception)
    BY <1>5 DEF IngestRefuses, CallStopsTheCase, ReconcileStopsTheCase
  <2> QED
    BY <1>2, <2>1
<1> QED
  BY <1>1, <1>2, <1>3, <1>4, <1>5

(* What a branch carries tells where it has been, in every state of a run. *)
THEOREM GraphIsInvariant == Spec => []GraphInv
<1>1. Init => GraphInv
  BY InitHolds
<1>2. GraphInv /\ [Next]_vars => GraphInv'
  BY OcrKeeps, ClassifyKeeps, ExtractKeeps, SkipKeeps, ReconcileKeeps, OtherStepsKeep
  DEF Next, Branch
<1> QED
  BY <1>1, <1>2, PTL DEF Spec

(* The types of a run's state hold, whatever its branches do. *)
THEOREM TypeCorrect == Spec => []TypeOK
<1>1. GraphInv => TypeOK
  BY DEF GraphInv, Typed, TypeOK, Steps, Carried
<1> QED
  BY <1>1, GraphIsInvariant, PTL

(* No presentation with a document nobody could read comes back clean, nor one
   whose cross-checks did not run (graph.py, reconcile). *)
THEOREM CleanMeansRead == Spec => []NeverCleanUnread
<1>1. GraphInv => NeverCleanUnread
  BY DEF GraphInv, Joined, Typed, CleanIsRead, NeverCleanUnread
<1> QED
  BY <1>1, GraphIsInvariant, PTL

(* Every document comes back read, or with an error; one that was not classified
   with the reason too, which for one that could not be read says so, and then
   no model call was made for it (graph.py, classify and skip_unclassified). *)
THEOREM NoDocumentIsLost == Spec => []EveryDocumentAccountedFor
<1>1. GraphInv => EveryDocumentAccountedFor
  BY DEF GraphInv, Joined, Typed, BranchesCarry, CarriesAt, EveryDocumentAccountedFor
<1> QED
  BY <1>1, GraphIsInvariant, PTL

(* -------------------------------- unfolding -------------------------------- *)

\* Induction on the natural numbers, for a set of them.
LEMMA NatSetInduction ==
    ASSUME NEW W \in SUBSET Nat, 0 \in W, \A n \in W : n + 1 \in W
    PROVE  W = Nat
<1> SUFFICES ASSUME W # Nat PROVE FALSE
  OBVIOUS
<1> DEFINE T == Nat \ W
<1>1. T \subseteq Nat /\ T # {}
  OBVIOUS
<1>2. \E m \in T : \A y \in Nat : y < m => y \notin T
  <2>1. PICK m \in T : \A y \in T : <<y, m>> \notin OpToRel(<, Nat)
    <3> HIDE DEF T
    <3> QED BY <1>1, WFMin, NatLessThanWellFounded, Zenon
  <2> QED BY <2>1, Zenon DEF OpToRel
<1>3. PICK m \in T : \A y \in Nat : y < m => y \notin T
  BY <1>2
<1>4. m # 0 /\ m - 1 \in Nat /\ m - 1 < m /\ (m - 1) + 1 = m
  BY <1>3
<1>5. QED BY <1>3, <1>4

\* What StagesOf picks out of a trail q, of its first n events.
Way(d, q) ==
    FoldLeft(LAMBDA own, event : IF event.document = d THEN Append(own, event.stage) ELSE own,
             <<>>, q)

WithEvent(d, own, event) == IF event.document = d THEN Append(own, event.stage) ELSE own

Picks(d, q, n) ==
    CHOOSE pick : pick = [s \in SUBSET (1..n) |->
        IF s = {} THEN <<>> ELSE WithEvent(d, pick[s \ {Max(s)}], q[Max(s)])]

LEMMA MaxOfInitial ==
    ASSUME NEW k \in Nat, NEW s \in SUBSET (1..k + 1), k + 1 \in s
    PROVE  Max(s) = k + 1
<1>1. \A y \in s : k + 1 >= y
  OBVIOUS
<1>2. \A x \in s : (\A y \in s : x >= y) => x = k + 1
  BY <1>1
<1>3. QED BY <1>1, <1>2 DEF Max

LEMMA PicksExist ==
    ASSUME NEW d, NEW q, NEW n \in Nat
    PROVE  \A s \in SUBSET (1..n) : Picks(d, q, n)[s] =
              IF s = {} THEN <<>> ELSE WithEvent(d, Picks(d, q, n)[s \ {Max(s)}], q[Max(s)])
<1> DEFINE Defines(k, pick) ==
              pick = [s \in SUBSET (1..k) |->
                        IF s = {} THEN <<>> ELSE WithEvent(d, pick[s \ {Max(s)}], q[Max(s)])]
           W == {k \in Nat : \E pick : Defines(k, pick)}
<1>1. 0 \in W
  <2> DEFINE nothing == [s \in SUBSET (1..0) |-> <<>>]
  <2>1. 1..0 = {}
    OBVIOUS
  <2>2. Defines(0, nothing)
    BY <2>1
  <2>3. QED BY <2>2
<1>2. ASSUME NEW k \in W PROVE k + 1 \in W
  <2>1. PICK pick : Defines(k, pick)
    OBVIOUS
  <2> DEFINE next == [s \in SUBSET (1..k + 1) |->
                        IF k + 1 \in s THEN WithEvent(d, pick[s \ {k + 1}], q[k + 1])
                                       ELSE pick[s]]
  <2>2. \A s \in SUBSET (1..k + 1) :
           /\ k + 1 \in s => Max(s) = k + 1 /\ s \ {k + 1} \in SUBSET (1..k)
                             /\ k + 1 \notin s \ {k + 1}
           /\ k + 1 \notin s => s \in SUBSET (1..k)
    <3>1. \A s \in SUBSET (1..k + 1) : k + 1 \notin s => s \in SUBSET (1..k)
      OBVIOUS
    <3>2. \A s \in SUBSET (1..k + 1) : s \ {k + 1} \in SUBSET (1..k)
      OBVIOUS
    <3>3. QED BY <3>1, <3>2, MaxOfInitial
  <2>3. Defines(k + 1, next)
    BY <2>1, <2>2
  <2> HIDE DEF next, Defines
  <2>4. k + 1 \in Nat
    OBVIOUS
  <2>5. QED BY <2>3, <2>4
<1>3. W = Nat
  BY <1>1, <1>2, NatSetInduction
<1>4. \E pick : Defines(n, pick)
  BY <1>3
<1>5. PICK pick : Defines(n, pick)
  BY <1>4
<1>6. Defines(n, Picks(d, q, n))
  BY <1>5 DEF Picks
<1>7. QED BY <1>6

LEMMA PicksGrow ==
    ASSUME NEW d, NEW q, NEW n \in Nat
    PROVE  /\ Picks(d, q, n)[1..0] = <<>>
           /\ \A k \in Nat : k + 1 <= n =>
                 Picks(d, q, n)[1..k + 1] = WithEvent(d, Picks(d, q, n)[1..k], q[k + 1])
<1>1. \A s \in SUBSET (1..n) : Picks(d, q, n)[s] =
         IF s = {} THEN <<>> ELSE WithEvent(d, Picks(d, q, n)[s \ {Max(s)}], q[Max(s)])
  BY PicksExist
<1>2. 1..0 = {} /\ {} \in SUBSET (1..n)
  OBVIOUS
<1>3. ASSUME NEW k \in Nat, k + 1 <= n
      PROVE  Picks(d, q, n)[1..k + 1] = WithEvent(d, Picks(d, q, n)[1..k], q[k + 1])
  <2>1. 1..k + 1 \in SUBSET (1..n) /\ 1..k + 1 # {} /\ (1..k + 1) \ {k + 1} = 1..k
    <3>1. k + 1 \in 1..k + 1 /\ \A i \in 1..k + 1 : i \in 1..n
      BY <1>3
    <3>2. (1..k + 1) \ {k + 1} = 1..k
      OBVIOUS
    <3>3. QED BY <3>1, <3>2
  <2>2. Max(1..k + 1) = k + 1
    BY MaxOfInitial
  <2>3. QED BY <1>1, <2>1, <2>2
<1>4. Picks(d, q, n)[1..0] = <<>>
  BY <1>1, <1>2
<1>5. QED BY <1>3, <1>4

\* It does not depend on what follows.
LEMMA PicksAgree ==
    ASSUME NEW d, NEW q, NEW r, NEW n \in Nat, NEW m \in Nat, n <= m,
           \A i \in 1..n : q[i] = r[i]
    PROVE  Picks(d, q, n)[1..n] = Picks(d, r, m)[1..n]
<1> DEFINE W == {k \in Nat : k <= n => Picks(d, q, n)[1..k] = Picks(d, r, m)[1..k]}
<1>1. 0 \in W
  BY PicksGrow
<1>2. ASSUME NEW k \in W PROVE k + 1 \in W
  <2>1. CASE k + 1 <= n
    <3>1. k <= n /\ k + 1 <= m /\ q[k + 1] = r[k + 1]
      BY <2>1
    <3>2. Picks(d, q, n)[1..k + 1] = WithEvent(d, Picks(d, q, n)[1..k], q[k + 1])
      BY <2>1, PicksGrow
    <3>3. Picks(d, r, m)[1..k + 1] = WithEvent(d, Picks(d, r, m)[1..k], r[k + 1])
      BY <3>1, PicksGrow
    <3>4. Picks(d, q, n)[1..k + 1] = Picks(d, r, m)[1..k + 1]
      <4>1. Picks(d, q, n)[1..k] = Picks(d, r, m)[1..k]
        BY <3>1
      <4>2. QED BY <3>1, <3>2, <3>3, <4>1
    <3>5. QED BY <3>4
  <2>2. CASE ~(k + 1 <= n)
    BY <2>2
  <2>3. QED BY <2>1, <2>2
<1>3. n \in W
  <2> HIDE DEF W
  <2>1. W \subseteq Nat
    BY DEF W
  <2>2. QED BY <1>1, <1>2, <2>1, NatSetInduction
<1>4. QED BY <1>3

LEMMA WayIsPicked ==
    ASSUME NEW d, NEW S, NEW q \in Seq(S)
    PROVE  Way(d, q) = Picks(d, q, Len(q))[1..Len(q)]
<1>1. DOMAIN q = 1..Len(q)
  OBVIOUS
<1>2. Way(d, q) = (CHOOSE pick : pick = [s \in SUBSET DOMAIN q |->
          IF s = {} THEN <<>> ELSE WithEvent(d, pick[s \ {Max(s)}], q[Max(s)])])[DOMAIN q]
  BY DEF Way, FoldLeft, MapThenFoldSet, WithEvent
<1>3. QED BY <1>1, <1>2 DEF Picks

\* A trail tells nothing before it begins, and of each document what is recorded of it.
LEMMA WayBegins == ASSUME NEW d PROVE Way(d, <<>>) = <<>>
<1>1. <<>> \in Seq({}) /\ Len(<<>>) = 0
  OBVIOUS
<1>2. Way(d, <<>>) = Picks(d, <<>>, Len(<<>>))[1..Len(<<>>)]
  BY <1>1, WayIsPicked
<1>3. Picks(d, <<>>, 0)[1..0] = <<>>
  BY PicksGrow
<1>4. QED BY <1>1, <1>2, <1>3

LEMMA WayGoesOn ==
    ASSUME NEW d, NEW S, NEW q \in Seq(S), NEW event \in S
    PROVE  Way(d, Append(q, event)) = WithEvent(d, Way(d, q), event)
<1> DEFINE r == Append(q, event)
           n == Len(q)
<1>1. /\ r \in Seq(S) /\ Len(r) = n + 1 /\ n \in Nat /\ r[n + 1] = event
      /\ \A i \in 1..n : q[i] = r[i]
  OBVIOUS
<1> HIDE DEF r, n
<1>2. Way(d, q) = Picks(d, q, n)[1..n] /\ Way(d, r) = Picks(d, r, n + 1)[1..n + 1]
  BY <1>1, WayIsPicked DEF n
<1>3. Picks(d, q, n)[1..n] = Picks(d, r, n + 1)[1..n]
  <2>1. PICK m \in Nat : m = n + 1 /\ n <= m
    BY <1>1
  <2>2. n \in Nat /\ \A i \in 1..n : q[i] = r[i]
    BY <1>1
  <2>3. Picks(d, q, n)[1..n] = Picks(d, r, m)[1..n]
    BY <2>1, <2>2, PicksAgree
  <2>4. QED BY <2>1, <2>3
<1>4. Picks(d, r, n + 1)[1..n + 1] = WithEvent(d, Picks(d, r, n + 1)[1..n], event)
  BY <1>1, PicksGrow
<1>5. QED BY <1>2, <1>3, <1>4 DEF r, n

(* ---------------------------- the trail of a run --------------------------- *)

Begun(arrival) == IF arrival = "scan" THEN <<"ocr">> ELSE <<>>

\* What was recorded of a document that has come as far as a step.
WayTo(step, arrival, known) ==
    CASE step \in {"none", "ocr"} -> <<>>
      [] step = "classify" -> Begun(arrival)
      [] step \in {"extract", "skip"} -> Append(Begun(arrival), "classify")
      [] OTHER -> Append(Append(Begun(arrival), "classify"),
                         IF known THEN "extract" ELSE "skip")

\* Whether a document has been classified, and has its text, as it arrives at a step.
RoutedAt(step, arrival, carried) ==
    /\ step = "extract" => carried.known
    /\ step \in {"none", "ocr", "classify", "skip"} => ~carried.known
    /\ step \in {"none", "ocr"} => (carried.has_text <=> arrival = "text")

WaysTold ==
    \A d \in Case : /\ Way(d, trail) = WayTo(at[d], presented[d], doc[d].known)
                    /\ RoutedAt(at[d], presented[d], doc[d])

TrailFramed ==
    /\ run = "ingest" => trail = <<>>
    /\ run # "ingest" => /\ \A d \in Case : presented[d] \in {"text", "scan"}
                         /\ Len(trail) >= 1 /\ trail[1].stage = "ingest"
    /\ run = "returning" => trail[Len(trail)].stage = "reconcile"
    /\ outcome = "report" => delivered = Len(trail)

ArrivalsTyped == presented \in [Case -> Arrivals] /\ Case \subseteq Documents

TrailInv == GraphInv /\ ArrivalsTyped /\ WaysTold /\ TrailFramed

\* Nothing is told before ingest.
LEMMA TrailBegins ==
    ASSUME Init PROVE TrailInv
<1>1. GraphInv
  BY InitHolds
<1>2. ArrivalsTyped
  BY DEF Init, ArrivalsTyped, Presentations, Case
<1>3. WaysTold
  BY WayBegins DEF Init, WaysTold, WayTo, RoutedAt, Fresh
<1>4. TrailFramed
  BY DEF Init, TrailFramed
<1> QED
  BY <1>1, <1>2, <1>3, <1>4 DEF TrailInv

\* One more event tells one more step of the document it is about.
LEMMA EventTells ==
    ASSUME TrailInv, NEW e \in Case \cup {NoOne}, NEW stage \in Stages,
           trail' = Append(trail, [stage |-> stage, document |-> e])
    PROVE  /\ \A d \in Case : Way(d, trail') = IF d = e THEN Append(Way(d, trail), stage)
                                                       ELSE Way(d, trail)
           /\ Len(trail') = Len(trail) + 1 /\ Len(trail) \in Nat
           /\ trail'[Len(trail')].stage = stage
           /\ Len(trail) >= 1 => trail'[1] = trail[1]
<1> DEFINE event == [stage |-> stage, document |-> e]
<1>1. trail \in Seq(Events) /\ event \in Events
  BY DEF TrailInv, GraphInv, Typed, Events
<1>2. event.stage = stage /\ event.document = e
  OBVIOUS
<1> HIDE DEF event
<1>3. trail' = Append(trail, event)
  BY DEF event
<1>4. \A d \in Case : Way(d, trail') = WithEvent(d, Way(d, trail), event)
  BY <1>1, <1>3, WayGoesOn
<1>5. \A d \in Case : Way(d, trail') = IF d = e THEN Append(Way(d, trail), stage)
                                               ELSE Way(d, trail)
  BY <1>2, <1>4 DEF WithEvent
<1>6. /\ Len(trail') = Len(trail) + 1 /\ Len(trail) \in Nat
      /\ trail'[Len(trail')] = event
      /\ Len(trail) >= 1 => trail'[1] = trail[1]
  BY <1>1, <1>3
<1> QED
  BY <1>2, <1>5, <1>6

\* What is to be shown of a step that tells of one document.
LEMMA OneBranchTells ==
    ASSUME TrailInv, GraphInv', run = "branches", outcome = "none", NEW d \in Case,
           NEW step \in Steps, NEW carried \in Carried, MoveTo(d, step, carried),
           UNCHANGED perRun, NEW stage \in Stages,
           trail' = Append(trail, [stage |-> stage, document |-> d]),
           WayTo(step, presented[d], carried.known)
             = Append(WayTo(at[d], presented[d], doc[d].known), stage),
           RoutedAt(step, presented[d], carried)
    PROVE  TrailInv'
<1>1. /\ at' = [at EXCEPT ![d] = step] /\ doc' = [doc EXCEPT ![d] = carried]
      /\ UNCHANGED <<presented, run, report, delivered, outcome>> /\ Case' = Case
  BY DEF MoveTo, perRun, Case
<1>2. at \in [Case -> Steps] /\ doc \in [Case -> Carried]
  BY DEF TrailInv, GraphInv, Typed
<1>3. /\ \A e \in Case : Way(e, trail') = IF e = d THEN Append(Way(e, trail), stage)
                                                   ELSE Way(e, trail)
      /\ Len(trail') = Len(trail) + 1 /\ Len(trail) \in Nat
      /\ Len(trail) >= 1 => trail'[1] = trail[1]
  BY EventTells
<1>4. ASSUME NEW e \in Case
      PROVE  /\ Way(e, trail') = WayTo(at'[e], presented[e], doc'[e].known)
             /\ RoutedAt(at'[e], presented[e], doc'[e])
  <2>1. Way(e, trail) = WayTo(at[e], presented[e], doc[e].known)
        /\ RoutedAt(at[e], presented[e], doc[e])
    BY DEF TrailInv, WaysTold
  <2>2. CASE e = d
    <3>1. at'[e] = step /\ doc'[e] = carried
      BY <1>1, <1>2, <2>2
    <3>2. Way(e, trail') = Append(Way(e, trail), stage)
      BY <1>3, <2>2
    <3> QED
      BY <2>1, <2>2, <3>1, <3>2
  <2>3. CASE e # d
    <3>1. at'[e] = at[e] /\ doc'[e] = doc[e]
      BY <1>1, <1>2, <2>3
    <3>2. Way(e, trail') = Way(e, trail)
      BY <1>3, <2>3
    <3> QED
      BY <2>1, <3>1, <3>2
  <2> QED
    BY <2>2, <2>3
<1>5. WaysTold'
  BY <1>1, <1>4 DEF WaysTold
<1>6. TrailFramed'
  BY <1>1, <1>3 DEF TrailInv, TrailFramed
<1>7. ArrivalsTyped'
  BY <1>1 DEF TrailInv, ArrivalsTyped
<1> QED
  BY <1>5, <1>6, <1>7 DEF TrailInv

\* Supplied text passes without a word of it.
LEMMA OcrTells ==
    ASSUME TrailInv, GraphInv', NEW d \in Case, Ocr(d) PROVE TrailInv'
<1>1. /\ run = "branches" /\ outcome = "none" /\ at[d] = "ocr" /\ UNCHANGED perRun
      /\ at \in [Case -> Steps] /\ doc \in [Case -> Carried] /\ doc[d] \in Carried
      /\ presented[d] \in {"text", "scan"} /\ ~doc[d].known
      /\ doc[d].has_text <=> presented[d] = "text"
      /\ Way(d, trail) = <<>>
  BY DEF Ocr, Active, TrailInv, GraphInv, Typed, TrailFramed, WaysTold, RoutedAt, WayTo
<1>2. CASE doc[d].has_text /\ MoveTo(d, "classify", doc[d]) /\ UNCHANGED <<trail, spent>>
  <2>1. /\ at' = [at EXCEPT ![d] = "classify"] /\ doc' = doc
        /\ UNCHANGED <<presented, run, report, delivered, outcome, trail>> /\ Case' = Case
    BY <1>1, <1>2 DEF MoveTo, perRun, Case
  <2>2. Way(d, trail) = WayTo("classify", presented[d], doc[d].known)
        /\ RoutedAt("classify", presented[d], doc[d])
    BY <1>1, <1>2 DEF WayTo, Begun, RoutedAt
  <2>3. WaysTold'
    BY <1>1, <2>1, <2>2 DEF TrailInv, WaysTold
  <2>4. TrailFramed' /\ ArrivalsTyped'
    BY <2>1 DEF TrailInv, TrailFramed, ArrivalsTyped
  <2> QED
    BY <2>3, <2>4 DEF TrailInv
<1>3. ASSUME Record("ocr", d, 0), ~doc[d].has_text,
             NEW carried \in {[doc[d] EXCEPT !.has_text = TRUE],
                              [doc[d] EXCEPT !.reason = "unread"]},
             MoveTo(d, "classify", carried)
      PROVE  TrailInv'
  <2>1. carried \in Carried /\ ~carried.known
    BY <1>1 DEF Carried, Reasons
  <2>2. WayTo("classify", presented[d], carried.known)
          = Append(WayTo(at[d], presented[d], doc[d].known), "ocr")
    BY <1>1, <1>3 DEF WayTo, Begun
  <2>3. RoutedAt("classify", presented[d], carried)
    BY <2>1 DEF RoutedAt
  <2> QED
    BY <1>1, <1>3, <2>1, <2>2, <2>3, OneBranchTells DEF Record, Steps, Stages
<1> QED
  BY <1>1, <1>2, <1>3 DEF Ocr

\* Whatever the classifier answers, or does not, is told as one event.
LEMMA ClassifyTells ==
    ASSUME TrailInv, GraphInv', NEW d \in Case, Classify(d) PROVE TrailInv'
<1>1. /\ run = "branches" /\ outcome = "none" /\ at[d] = "classify" /\ UNCHANGED perRun
      /\ doc[d] \in Carried /\ ~doc[d].known /\ doc[d].reason \in Reasons
  BY DEF Classify, Active, TrailInv, GraphInv, Typed, WaysTold, RoutedAt, Carried
<1>2. ASSUME NEW step \in {"extract", "skip"}, NEW carried \in Carried,
             carried.known <=> step = "extract",
             MoveTo(d, step, carried), NEW cost, Record("classify", d, cost)
      PROVE  TrailInv'
  <2>1. WayTo(step, presented[d], carried.known)
          = Append(WayTo(at[d], presented[d], doc[d].known), "classify")
    BY <1>1 DEF WayTo
  <2>2. RoutedAt(step, presented[d], carried)
    BY <1>2 DEF RoutedAt
  <2> QED
    BY <1>1, <1>2, <2>1, <2>2, OneBranchTells DEF Record, Steps, Stages
<1>3. ASSUME NEW reason \in Reasons, NEW cost \in Nat, Unclassified(d, reason, cost)
      PROVE  TrailInv'
  <2> DEFINE carried == [doc[d] EXCEPT !.reason = reason, !.usage = cost]
  <2>1. carried \in Carried /\ ~carried.known
    BY <1>1 DEF Carried
  <2>2. MoveTo(d, "skip", carried) /\ Record("classify", d, cost)
    BY <1>3 DEF Unclassified
  <2> HIDE DEF carried
  <2> QED
    BY <1>2, <2>1, <2>2
<1>4. ASSUME NEW cost \in Costs, Record("classify", d, cost),
             MoveTo(d, "extract", [doc[d] EXCEPT !.known = TRUE, !.usage = cost])
      PROVE  TrailInv'
  <2> DEFINE carried == [doc[d] EXCEPT !.known = TRUE, !.usage = cost]
  <2>1. carried \in Carried /\ carried.known
    BY <1>1, GraphAssumption DEF Carried
  <2>2. MoveTo(d, "extract", carried)
    BY <1>4
  <2> HIDE DEF carried
  <2> QED
    BY <1>2, <1>4, <2>1, <2>2
<1>5. 0 \in Nat /\ Costs \subseteq Nat /\ "unsure" \in Reasons /\ CallFailures \subseteq Reasons
  BY GraphAssumption DEF Reasons
<1> QED
  BY <1>1, <1>3, <1>4, <1>5 DEF Classify

\* The last step of a branch tells which of the two it was.
LEMMA LastStepTells ==
    ASSUME TrailInv, GraphInv', NEW d \in Case, Extract(d) \/ SkipUnclassified(d)
    PROVE  TrailInv'
<1>1. /\ run = "branches" /\ outcome = "none" /\ UNCHANGED perRun /\ doc[d] \in Carried
      /\ doc[d].usage \in Nat /\ CallFailures \subseteq Errors /\ Costs \subseteq Nat
  BY GraphAssumption
  DEF Extract, SkipUnclassified, Active, TrailInv, GraphInv, Typed, Carried, Errors
<1>2. ASSUME NEW stage \in {"extract", "skip"}, at[d] = stage, NEW carried \in Carried,
             carried.known = doc[d].known, doc[d].known <=> stage = "extract",
             MoveTo(d, "collected", carried), NEW cost, Record(stage, d, cost)
      PROVE  TrailInv'
  <2>1. WayTo("collected", presented[d], carried.known)
          = Append(WayTo(at[d], presented[d], doc[d].known), stage)
    BY <1>2 DEF WayTo
  <2>2. RoutedAt("collected", presented[d], carried)
    BY DEF RoutedAt
  <2> QED
    BY <1>1, <1>2, <2>1, <2>2, OneBranchTells DEF Record, Steps, Stages
<1>3. CASE Extract(d)
  <2>1. at[d] = "extract" /\ doc[d].known
    BY <1>3 DEF Extract, Active, TrailInv, WaysTold, RoutedAt
  <2>2. ASSUME NEW failure \in CallFailures, Record("extract", d, 0),
               MoveTo(d, "collected", [doc[d] EXCEPT !.error = failure])
        PROVE  TrailInv'
    <3> DEFINE carried == [doc[d] EXCEPT !.error = failure]
    <3>1. carried \in Carried /\ carried.known = doc[d].known
      BY <1>1 DEF Carried
    <3>2. MoveTo(d, "collected", carried)
      BY <2>2
    <3> HIDE DEF carried
    <3> QED
      BY <1>2, <2>1, <2>2, <3>1, <3>2
  <2>3. ASSUME NEW cost \in Costs, Record("extract", d, cost),
               MoveTo(d, "collected", [doc[d] EXCEPT !.payload = TRUE, !.usage = @ + cost])
        PROVE  TrailInv'
    <3> DEFINE carried == [doc[d] EXCEPT !.payload = TRUE, !.usage = @ + cost]
    <3>1. /\ carried = [doc[d] EXCEPT !.payload = TRUE, !.usage = doc[d].usage + cost]
          /\ doc[d].usage + cost \in Nat
      BY <1>1
    <3>2. carried \in Carried /\ carried.known = doc[d].known
      BY <1>1, <3>1 DEF Carried
    <3>3. MoveTo(d, "collected", carried)
      BY <2>3
    <3> HIDE DEF carried
    <3> QED
      BY <1>2, <2>1, <2>3, <3>2, <3>3
  <2> QED
    BY <1>3, <2>2, <2>3 DEF Extract
<1>4. CASE SkipUnclassified(d)
  <2> DEFINE carried == [doc[d] EXCEPT !.error = "undetermined"]
  <2>1. at[d] = "skip" /\ ~doc[d].known
    BY <1>4 DEF SkipUnclassified, Active, TrailInv, WaysTold, RoutedAt
  <2>2. carried \in Carried /\ carried.known = doc[d].known
    BY <1>1 DEF Carried, Errors
  <2>3. MoveTo(d, "collected", carried) /\ Record("skip", d, 0)
    BY <1>4 DEF SkipUnclassified
  <2> HIDE DEF carried
  <2> QED
    BY <1>2, <2>1, <2>2, <2>3
<1> QED
  BY <1>3, <1>4

\* The events about no document frame the trail, and tell nothing of one.
LEMMA FramingTells ==
    ASSUME TrailInv, GraphInv', Ingest \/ Reconcile PROVE TrailInv'
<1>1. NoOne \notin Case
  BY GraphAssumption DEF TrailInv, ArrivalsTyped
<1>2. CASE Ingest
  <2>1. /\ run = "ingest" /\ run' = "branches" /\ outcome = "none" /\ outcome' = outcome
        /\ trail = <<>> /\ at = [d \in Case |-> "none"] /\ at' = [d \in Case |-> "ocr"]
        /\ doc' = doc /\ presented' = presented /\ Case' = Case
        /\ trail' = Append(trail, [stage |-> "ingest", document |-> NoOne])
    BY <1>2 DEF Ingest, Record, TrailInv, TrailFramed, GraphInv, Joined, Case
  <2>2. /\ \A d \in Case : Way(d, trail') = Way(d, trail)
        /\ Len(trail') = 1 /\ trail'[Len(trail')].stage = "ingest"
    <3>1. NoOne \in Case \cup {NoOne} /\ "ingest" \in Stages /\ Len(<<>>) = 0
      BY DEF Stages
    <3>2. /\ \A d \in Case : Way(d, trail') = IF d = NoOne THEN Append(Way(d, trail), "ingest")
                                                         ELSE Way(d, trail)
          /\ Len(trail') = Len(trail) + 1
          /\ trail'[Len(trail')].stage = "ingest"
      BY <2>1, <3>1, EventTells
    <3> QED
      BY <1>1, <2>1, <3>1, <3>2
  <2>3. WaysTold'
    BY <2>1, <2>2 DEF TrailInv, WaysTold, WayTo, RoutedAt
  <2>4. \A d \in Case : presented[d] \in {"text", "scan"}
    BY <1>2 DEF Ingest, Acceptable, TrailInv, ArrivalsTyped, Case, Arrivals
  <2>5. TrailFramed' /\ ArrivalsTyped'
    BY <2>1, <2>2, <2>4 DEF TrailInv, TrailFramed, ArrivalsTyped
  <2> QED
    BY <2>3, <2>5 DEF TrailInv
<1>3. CASE Reconcile
  <2>1. /\ run = "branches" /\ run' = "returning" /\ outcome = "none"
        /\ UNCHANGED <<presented, at, doc, delivered, outcome>> /\ Case' = Case
        /\ trail' = Append(trail, [stage |-> "reconcile", document |-> NoOne])
    BY <1>3 DEF Reconcile, Collected, Record, Case
  <2>2. /\ \A d \in Case : Way(d, trail') = Way(d, trail)
        /\ Len(trail') = Len(trail) + 1 /\ Len(trail) \in Nat
        /\ trail'[Len(trail')].stage = "reconcile"
        /\ Len(trail) >= 1 => trail'[1] = trail[1]
    BY <1>1, <2>1, EventTells DEF Stages
  <2>3. WaysTold'
    BY <2>1, <2>2 DEF TrailInv, WaysTold
  <2>4. TrailFramed' /\ ArrivalsTyped'
    BY <2>1, <2>2 DEF TrailInv, TrailFramed, ArrivalsTyped
  <2> QED
    BY <2>3, <2>4 DEF TrailInv
<1> QED
  BY <1>2, <1>3

\* Nothing else adds to the trail; the return hands over the rest of it.
LEMMA DeliveringTells ==
    ASSUME TrailInv, GraphInv',
           \/ IngestRefuses \/ \E d \in Case : CallStopsTheCase(d)
           \/ ReconcileStopsTheCase \/ Drain \/ Return \/ UNCHANGED vars
    PROVE  TrailInv'
<1>1. /\ UNCHANGED <<presented, at, doc, trail, run>> /\ Case' = Case
      /\ outcome' = "report" => delivered' = Len(trail)
  BY DEF IngestRefuses, CallStopsTheCase, ReconcileStopsTheCase, Escape, CaseLevel,
     Drain, Return, vars, TrailInv, TrailFramed, Case
<1>2. WaysTold' /\ ArrivalsTyped'
  BY <1>1 DEF TrailInv, WaysTold, ArrivalsTyped
<1>3. TrailFramed'
  BY <1>1 DEF TrailInv, TrailFramed
<1> QED
  BY <1>2, <1>3 DEF TrailInv

(* What the trail tells of a document is where its branch has been. *)
THEOREM TrailFollowsBranches == Spec => []TrailInv
<1>1. Init => TrailInv
  BY TrailBegins
<1>2. TrailInv /\ GraphInv' /\ [Next]_vars => TrailInv'
  BY OcrTells, ClassifyTells, LastStepTells, FramingTells, DeliveringTells DEF Next, Branch
<1> QED
  BY <1>1, <1>2, GraphIsInvariant, PTL DEF Spec

\* The way of a document that has been collected, as the property writes it.
LEMMA WholeWay ==
    ASSUME NEW arrival, NEW known \in BOOLEAN
    PROVE  WayTo("collected", arrival, known)
             = Begun(arrival) \o <<"classify">>
               \o (IF known THEN <<"extract">> ELSE <<"skip">>)
<1> DEFINE S == {"ocr", "classify", "extract", "skip"}
           last == IF known THEN "extract" ELSE "skip"
<1>1. Begun(arrival) \in Seq(S) /\ last \in S /\ "classify" \in S
  <2>1. "ocr" \in S /\ last \in S /\ "classify" \in S
    OBVIOUS
  <2> HIDE DEF S, last
  <2>2. <<>> \in Seq(S) /\ <<"ocr">> \in Seq(S)
    BY <2>1
  <2> QED
    BY <2>1, <2>2 DEF Begun
<1>2. (IF known THEN <<"extract">> ELSE <<"skip">>) = <<last>>
  OBVIOUS
<1> HIDE DEF last, S
<1>3. ASSUME NEW q \in Seq(S), NEW x \in S PROVE Append(q, x) = q \o <<x>>
  BY <1>3, AppendIsConcat
<1>4. Append(Begun(arrival), "classify") \in Seq(S)
  BY <1>1
<1>5. WayTo("collected", arrival, known) = Append(Append(Begun(arrival), "classify"), last)
  BY DEF WayTo, last
<1> QED
  BY <1>1, <1>2, <1>3, <1>4, <1>5

(* Who is given the report was given all that led to it, and the trail tells
   each document's way through its branch, in order (pipeline.run_with_progress). *)
THEOREM TrailTellsAll == Spec => []TrailIsComplete
<1>1. ASSUME TrailInv, outcome = "report" PROVE TrailIsComplete
  <2>1. /\ run = "returning" /\ delivered = Len(trail) /\ trail[1].stage = "ingest"
        /\ trail[Len(trail)].stage = "reconcile"
        /\ \A d \in Case : at[d] = "collected" /\ doc[d].known \in BOOLEAN
    BY <1>1 DEF TrailInv, TrailFramed, GraphInv, Joined, Typed, Carried
  <2>2. ASSUME NEW d \in Case
        PROVE  StagesOf(d) = (IF presented[d] = "scan" THEN <<"ocr">> ELSE <<>>)
                             \o <<"classify">>
                             \o (IF doc[d].known THEN <<"extract">> ELSE <<"skip">>)
    <3>1. StagesOf(d) = Way(d, trail)
      BY DEF StagesOf, Way
    <3>2. Way(d, trail) = WayTo("collected", presented[d], doc[d].known)
      BY <1>1, <2>1 DEF TrailInv, WaysTold
    <3> QED
      BY <2>1, <3>1, <3>2, WholeWay DEF Begun
  <2> QED
    BY <2>1, <2>2 DEF TrailIsComplete
<1>2. TrailInv => TrailIsComplete
  BY <1>1 DEF TrailIsComplete
<1> QED
  BY <1>2, TrailFollowsBranches, PTL

(* ------------------------------ what a case cost --------------------------- *)

\* The document a sum over the set s counts first.
First(s) == CHOOSE x \in s : TRUE

\* What the documents of each subset of D cost, f being what they carry.
Sums(f, D) ==
    CHOOSE sum : sum = [s \in SUBSET D |->
        IF s = {} THEN 0 ELSE f[First(s)].usage + sum[s \ {First(s)}]]

\* Taking the first away leaves a smaller set.
LEMMA FirstOfSet ==
    ASSUME NEW D, IsFiniteSet(D), NEW s \in SUBSET D
    PROVE  /\ Cardinality(s) \in Nat
           /\ s # {} => /\ First(s) \in s /\ s \ {First(s)} \in SUBSET D
                        /\ Cardinality(s) > 0
                        /\ Cardinality(s \ {First(s)}) = Cardinality(s) - 1
<1>1. IsFiniteSet(s) /\ Cardinality(s) \in Nat /\ Cardinality(s) <= Cardinality(D)
  BY FS_Subset, FS_CardinalityType
<1>2. s # {} => First(s) \in s
  BY DEF First
<1>3. s # {} => Cardinality(s) # 0
  BY <1>1, FS_EmptySet
<1>4. ASSUME s # {} PROVE Cardinality(s \ {First(s)}) = Cardinality(s) - 1
  BY <1>1, <1>2, <1>4, FS_RemoveElement
<1> QED
  BY <1>1, <1>2, <1>3, <1>4

LEMMA SumsExist ==
    ASSUME NEW f, NEW D, IsFiniteSet(D)
    PROVE  \A s \in SUBSET D : Sums(f, D)[s] =
              IF s = {} THEN 0 ELSE f[First(s)].usage + Sums(f, D)[s \ {First(s)}]
<1> DEFINE Small(k) == {s \in SUBSET D : Cardinality(s) <= k}
           Defines(k, sum) == sum = [s \in Small(k) |->
              IF s = {} THEN 0 ELSE f[First(s)].usage + sum[s \ {First(s)}]]
           W == {k \in Nat : \E sum : Defines(k, sum)}
<1>1. 0 \in W
  <2> DEFINE zero == [s \in Small(0) |-> 0]
  <2>1. \A s \in Small(0) : s = {}
    <3>1. ASSUME NEW s \in SUBSET D, Cardinality(s) <= 0 PROVE s = {}
      <4>1. Cardinality(s) \in Nat /\ (s # {} => Cardinality(s) > 0)
        BY FirstOfSet
      <4> QED BY <3>1, <4>1
    <3> QED BY <3>1
  <2>2. Defines(0, zero)
    BY <2>1
  <2>3. QED BY <2>2
<1>2. ASSUME NEW k \in W PROVE k + 1 \in W
  <2>1. PICK sum : Defines(k, sum)
    OBVIOUS
  <2> DEFINE next == [s \in Small(k + 1) |->
                        IF s \in Small(k) THEN sum[s]
                                          ELSE f[First(s)].usage + sum[s \ {First(s)}]]
  <2>2. \A s \in Small(k + 1) : s # {} => s \ {First(s)} \in Small(k)
    BY FirstOfSet
  <2>3. {} \in Small(k) /\ Small(k) \subseteq Small(k + 1)
    <3>1. \A s \in SUBSET D : Cardinality(s) \in Nat
      BY FirstOfSet
    <3>2. Cardinality({}) = 0
      BY FS_EmptySet
    <3> QED BY <3>1, <3>2
  <2>4. \A s \in Small(k) : sum[s] = IF s = {} THEN 0
                                     ELSE f[First(s)].usage + sum[s \ {First(s)}]
    BY <2>1
  <2> HIDE DEF Small
  <2>5. Defines(k + 1, next)
    BY <2>2, <2>3, <2>4
  <2> HIDE DEF next, Defines
  <2>6. k + 1 \in Nat
    OBVIOUS
  <2>7. QED BY <2>5, <2>6
<1>3. W = Nat
  <2> HIDE DEF W
  <2>1. W \subseteq Nat
    BY DEF W
  <2> QED
    BY <1>1, <1>2, <2>1, NatSetInduction
<1>4. PICK sum : Defines(Cardinality(D), sum)
  <2>1. Cardinality(D) \in Nat
    BY FS_CardinalityType
  <2> QED
    BY <1>3, <2>1
<1>5. Small(Cardinality(D)) = SUBSET D
  BY FS_Subset
<1>6. sum = [s \in SUBSET D |->
               IF s = {} THEN 0 ELSE f[First(s)].usage + sum[s \ {First(s)}]]
  BY <1>4, <1>5
<1>7. Sums(f, D) = [s \in SUBSET D |->
               IF s = {} THEN 0 ELSE f[First(s)].usage + Sums(f, D)[s \ {First(s)}]]
  BY <1>6 DEF Sums
<1> QED
  BY <1>7

\* The fold the property writes is such a sum.
LEMMA FoldIsSum ==
    ASSUME NEW f
    PROVE  FoldFunction(LAMBDA document, total : document.usage + total, 0, f)
             = Sums(f, DOMAIN f)[DOMAIN f]
  BY DEF FoldFunction, FoldFunctionOnSet, MapThenFoldSet, Sums, First

\* What one document costs more, the sets that hold it cost more.
LEMMA SumsShift ==
    ASSUME NEW D, IsFiniteSet(D), NEW f, NEW g, NEW c \in Nat, NEW d \in D,
           \A e \in D : f[e].usage \in Nat /\ g[e].usage = f[e].usage + (IF e = d THEN c ELSE 0)
    PROVE  \A s \in SUBSET D : /\ Sums(f, D)[s] \in Nat
                               /\ Sums(g, D)[s] = Sums(f, D)[s] + (IF d \in s THEN c ELSE 0)
<1> DEFINE Holds(s) == /\ Sums(f, D)[s] \in Nat
                       /\ Sums(g, D)[s] = Sums(f, D)[s] + (IF d \in s THEN c ELSE 0)
           W == {k \in Nat : \A s \in SUBSET D : Cardinality(s) <= k => Holds(s)}
<1>1. 0 \in W
  <2>1. ASSUME NEW s \in SUBSET D, Cardinality(s) <= 0 PROVE Holds(s)
    <3>1. Cardinality(s) \in Nat /\ (s # {} => Cardinality(s) > 0)
      BY FirstOfSet
    <3>2. s = {}
      BY <2>1, <3>1
    <3>3. Sums(f, D)[s] = 0 /\ Sums(g, D)[s] = 0
      BY <3>2, SumsExist
    <3> QED
      BY <3>2, <3>3
  <2> QED
    BY <2>1
<1>2. ASSUME NEW k \in W PROVE k + 1 \in W
  <2>1. ASSUME NEW s \in SUBSET D, Cardinality(s) <= k + 1, s # {} PROVE Holds(s)
    <3> DEFINE rest == s \ {First(s)}
    <3>1. /\ First(s) \in s /\ First(s) \in D /\ rest \in SUBSET D /\ Cardinality(s) \in Nat
          /\ Cardinality(rest) = Cardinality(s) - 1
      BY <2>1, FirstOfSet
    <3>2. Holds(rest)
      <4>1. Cardinality(rest) <= k
        BY <2>1, <3>1
      <4> QED
        BY <3>1, <4>1
    <3>3. Sums(f, D)[s] = f[First(s)].usage + Sums(f, D)[rest]
      BY <2>1, SumsExist
    <3>4. Sums(g, D)[s] = g[First(s)].usage + Sums(g, D)[rest]
      BY <2>1, SumsExist
    <3>5. /\ f[First(s)].usage \in Nat
          /\ g[First(s)].usage = f[First(s)].usage + (IF First(s) = d THEN c ELSE 0)
      BY <3>1
    <3>6. CASE First(s) = d
      <4>1. d \in s /\ d \notin rest
        BY <3>1, <3>6
      <4> HIDE DEF rest
      <4> QED
        BY <3>2, <3>3, <3>4, <3>5, <3>6, <4>1
    <3>7. CASE First(s) # d
      <4>1. d \in s <=> d \in rest
        BY <3>1, <3>7
      <4> HIDE DEF rest
      <4> QED
        BY <3>2, <3>3, <3>4, <3>5, <3>7, <4>1
    <3> QED
      BY <3>6, <3>7
  <2>2. ASSUME NEW s \in SUBSET D, s = {} PROVE Holds(s)
    <3>1. Cardinality(s) = 0
      BY <2>2, FS_EmptySet
    <3> QED
      BY <1>1, <3>1
  <2> HIDE DEF Holds
  <2> QED
    BY <2>1, <2>2
<1>3. W = Nat
  <2> HIDE DEF W
  <2>1. W \subseteq Nat
    BY DEF W
  <2> QED
    BY <1>1, <1>2, <2>1, NatSetInduction
<1>4. ASSUME NEW s \in SUBSET D PROVE Holds(s)
  <2>1. Cardinality(s) \in Nat
    BY FirstOfSet
  <2> HIDE DEF Holds
  <2> QED
    BY <1>3, <2>1
<1> QED
  BY <1>4

\* Documents nothing was spent on cost nothing.
LEMMA SumsOfNothing ==
    ASSUME NEW D, IsFiniteSet(D), NEW f
    PROVE  (\A e \in D : f[e].usage = 0) => Sums(f, D)[D] = 0
<1>0. \A s \in SUBSET D : Sums(f, D)[s] =
         IF s = {} THEN 0 ELSE f[First(s)].usage + Sums(f, D)[s \ {First(s)}]
  BY SumsExist
<1> HAVE \A e \in D : f[e].usage = 0
<1> DEFINE W == {k \in Nat : \A s \in SUBSET D : Cardinality(s) <= k => Sums(f, D)[s] = 0}
<1>1. 0 \in W
  <2>1. ASSUME NEW s \in SUBSET D, Cardinality(s) <= 0 PROVE Sums(f, D)[s] = 0
    <3>1. Cardinality(s) \in Nat /\ (s # {} => Cardinality(s) > 0)
      BY FirstOfSet
    <3> QED
      BY <1>0, <2>1, <3>1
  <2> QED
    BY <2>1
<1>2. ASSUME NEW k \in W PROVE k + 1 \in W
  <2>1. ASSUME NEW s \in SUBSET D, Cardinality(s) <= k + 1, s # {} PROVE Sums(f, D)[s] = 0
    <3> DEFINE rest == s \ {First(s)}
    <3>1. /\ First(s) \in D /\ rest \in SUBSET D /\ Cardinality(s) \in Nat
          /\ Cardinality(rest) = Cardinality(s) - 1
      BY <2>1, FirstOfSet
    <3>2. Sums(f, D)[rest] = 0
      <4>1. Cardinality(rest) <= k
        BY <2>1, <3>1
      <4> QED
        BY <3>1, <4>1
    <3>3. Sums(f, D)[s] = f[First(s)].usage + Sums(f, D)[rest]
      BY <1>0, <2>1
    <3> QED
      BY <3>1, <3>2, <3>3
  <2>2. ASSUME NEW s \in SUBSET D, s = {} PROVE Sums(f, D)[s] = 0
    BY <1>0, <2>2
  <2> QED
    BY <2>1, <2>2
<1>3. W = Nat
  <2> HIDE DEF W
  <2>1. W \subseteq Nat
    BY DEF W
  <2> QED
    BY <1>1, <1>2, <2>1, NatSetInduction
<1> QED
  BY <1>3, FS_CardinalityType

CostsHeld ==
    /\ spent = Sums(doc, Case)[Case] + report.cost
    /\ \A d \in Case : at[d] \in {"none", "ocr", "classify"} => doc[d].usage = 0
    /\ run # "returning" => report.cost = 0

CostInv == TrailInv /\ CostsHeld

\* A case presents finitely many documents.
LEMMA CaseFinite == ASSUME TrailInv PROVE IsFiniteSet(Case)
  BY GraphAssumption, FS_Subset DEF TrailInv, ArrivalsTyped

\* Nothing was spent before the run.
LEMMA CostsBegin ==
    ASSUME Init PROVE CostInv
<1>1. TrailInv
  BY TrailBegins
<1>2. \A d \in Case : doc[d].usage = 0
  BY DEF Init, Fresh
<1>3. Sums(doc, Case)[Case] = 0
  BY <1>1, <1>2, CaseFinite, SumsOfNothing
<1>4. CostsHeld
  BY <1>2, <1>3 DEF Init, CostsHeld, NoReport
<1> QED
  BY <1>1, <1>4 DEF CostInv

\* A call is added to the case as it is added to its document.
LEMMA OneBranchCosts ==
    ASSUME CostInv, TrailInv', run = "branches", outcome = "none", NEW d \in Case,
           NEW step \in Steps, NEW carried \in Carried, MoveTo(d, step, carried),
           UNCHANGED perRun, NEW cost \in Nat, spent' = spent + cost,
           carried.usage = doc[d].usage + cost,
           step \in {"none", "ocr", "classify"} => carried.usage = 0
    PROVE  CostInv'
<1>1. /\ at' = [at EXCEPT ![d] = step] /\ doc' = [doc EXCEPT ![d] = carried]
      /\ UNCHANGED <<run, report>> /\ Case' = Case
  BY DEF MoveTo, perRun, Case
<1>2. at \in [Case -> Steps] /\ doc \in [Case -> Carried]
  BY DEF CostInv, TrailInv, GraphInv, Typed
<1>3. IsFiniteSet(Case)
  BY CaseFinite DEF CostInv
<1>4. \A e \in Case : /\ doc[e].usage \in Nat
                      /\ doc'[e].usage = doc[e].usage + (IF e = d THEN cost ELSE 0)
  <2>1. \A e \in Case : doc[e].usage \in Nat
    BY <1>2 DEF Carried
  <2>2. \A e \in Case : doc'[e] = IF e = d THEN carried ELSE doc[e]
    BY <1>1, <1>2
  <2> QED
    BY <2>1, <2>2
<1>5. /\ Sums(doc, Case)[Case] \in Nat
      /\ Sums(doc', Case)[Case] = Sums(doc, Case)[Case] + cost
  <2>1. PICK g : g = doc'
    OBVIOUS
  <2>2. \A e \in Case : /\ doc[e].usage \in Nat
                        /\ g[e].usage = doc[e].usage + (IF e = d THEN cost ELSE 0)
    BY <1>4, <2>1
  <2>3. /\ Sums(doc, Case)[Case] \in Nat
        /\ Sums(g, Case)[Case] = Sums(doc, Case)[Case] + (IF d \in Case THEN cost ELSE 0)
    BY <1>3, <2>2, SumsShift
  <2> QED
    BY <2>1, <2>3
<1>6. \A e \in Case : at'[e] \in {"none", "ocr", "classify"} => doc'[e].usage = 0
  BY <1>1, <1>2 DEF CostInv, CostsHeld
<1>7. report.cost = 0
  BY DEF CostInv, CostsHeld
<1>8. CostsHeld'
  BY <1>1, <1>5, <1>6, <1>7 DEF CostInv, CostsHeld
<1> QED
  BY <1>8 DEF CostInv

\* What its documents cost is a number.
LEMMA CaseCosts ==
    ASSUME TrailInv PROVE Sums(doc, Case)[Case] \in Nat
<1>1. IsFiniteSet(Case)
  BY CaseFinite
<1>2. \A e \in Case : doc[e].usage \in Nat
  BY DEF TrailInv, GraphInv, Typed, Carried
<1>3. CASE Case = {}
  BY <1>1, <1>3, SumsExist
<1>4. ASSUME NEW d \in Case PROVE Sums(doc, Case)[Case] \in Nat
  <2>1. \A e \in Case : doc[e].usage = doc[e].usage + (IF e = d THEN 0 ELSE 0)
    BY <1>2
  <2> QED
    BY <1>1, <1>2, <2>1, SumsShift
<1> QED
  BY <1>3, <1>4

\* Reading a document costs nothing.
LEMMA OcrCosts ==
    ASSUME CostInv, TrailInv', NEW d \in Case, Ocr(d) PROVE CostInv'
<1>1. /\ run = "branches" /\ outcome = "none" /\ UNCHANGED perRun
      /\ doc[d] \in Carried /\ doc[d].usage = 0 /\ spent \in Nat
  BY DEF Ocr, Active, CostInv, CostsHeld, TrailInv, GraphInv, Typed
<1>2. spent' = spent + 0
  BY <1>1 DEF Ocr, Record
<1>3. \E carried \in Carried : carried.usage = 0 /\ MoveTo(d, "classify", carried)
  <2>1. ASSUME NEW carried \in {doc[d], [doc[d] EXCEPT !.has_text = TRUE],
                                [doc[d] EXCEPT !.reason = "unread"]}
        PROVE  carried \in Carried /\ carried.usage = 0
    BY <1>1 DEF Carried, Reasons
  <2> QED
    BY <2>1 DEF Ocr
<1> QED
  BY <1>1, <1>2, <1>3, OneBranchCosts DEF Steps

\* Classifying costs what the call did, and a call that failed nothing.
LEMMA ClassifyCosts ==
    ASSUME CostInv, TrailInv', NEW d \in Case, Classify(d) PROVE CostInv'
<1>1. /\ run = "branches" /\ outcome = "none" /\ UNCHANGED perRun
      /\ doc[d] \in Carried /\ doc[d].usage = 0 /\ doc[d].reason \in Reasons
  BY DEF Classify, Active, CostInv, CostsHeld, TrailInv, GraphInv, Typed, Carried
<1>2. ASSUME NEW step \in {"extract", "skip"}, NEW carried \in Carried, NEW cost \in Nat,
             carried.usage = cost, MoveTo(d, step, carried), spent' = spent + cost
      PROVE  CostInv'
  BY <1>1, <1>2, OneBranchCosts DEF Steps
<1>3. ASSUME NEW reason \in Reasons, NEW cost \in Nat, Unclassified(d, reason, cost)
      PROVE  CostInv'
  <2> DEFINE carried == [doc[d] EXCEPT !.reason = reason, !.usage = cost]
  <2>1. carried \in Carried /\ carried.usage = cost
    BY <1>1 DEF Carried
  <2>2. MoveTo(d, "skip", carried) /\ spent' = spent + cost
    BY <1>3 DEF Unclassified, Record
  <2> HIDE DEF carried
  <2> QED
    BY <1>2, <2>1, <2>2
<1>4. ASSUME NEW cost \in Costs, Record("classify", d, cost),
             MoveTo(d, "extract", [doc[d] EXCEPT !.known = TRUE, !.usage = cost])
      PROVE  CostInv'
  <2> DEFINE carried == [doc[d] EXCEPT !.known = TRUE, !.usage = cost]
  <2>1. carried \in Carried /\ carried.usage = cost /\ cost \in Nat
    BY <1>1, GraphAssumption DEF Carried
  <2>2. MoveTo(d, "extract", carried) /\ spent' = spent + cost
    BY <1>4 DEF Record
  <2> HIDE DEF carried
  <2> QED
    BY <1>2, <2>1, <2>2
<1>5. 0 \in Nat /\ Costs \subseteq Nat /\ "unsure" \in Reasons /\ CallFailures \subseteq Reasons
  BY GraphAssumption DEF Reasons
<1> QED
  BY <1>1, <1>3, <1>4, <1>5 DEF Classify

\* What classifying cost is kept when extracting adds to it, and when it fails.
LEMMA LastStepCosts ==
    ASSUME CostInv, TrailInv', NEW d \in Case, Extract(d) \/ SkipUnclassified(d)
    PROVE  CostInv'
<1>1. /\ run = "branches" /\ outcome = "none" /\ UNCHANGED perRun /\ doc[d] \in Carried
      /\ doc[d].usage \in Nat /\ CallFailures \subseteq Errors /\ Costs \subseteq Nat
  BY GraphAssumption
  DEF Extract, SkipUnclassified, Active, CostInv, TrailInv, GraphInv, Typed, Carried, Errors
<1>2. ASSUME NEW carried \in Carried, NEW cost \in Nat, MoveTo(d, "collected", carried),
             carried.usage = doc[d].usage + cost, spent' = spent + cost
      PROVE  CostInv'
  BY <1>1, <1>2, OneBranchCosts DEF Steps
<1>3. ASSUME NEW failure \in CallFailures, Record("extract", d, 0),
             MoveTo(d, "collected", [doc[d] EXCEPT !.error = failure])
      PROVE  CostInv'
  <2> DEFINE carried == [doc[d] EXCEPT !.error = failure]
  <2>1. carried \in Carried /\ carried.usage = doc[d].usage + 0
    BY <1>1 DEF Carried
  <2>2. MoveTo(d, "collected", carried) /\ spent' = spent + 0
    BY <1>3 DEF Record
  <2> HIDE DEF carried
  <2> QED
    BY <1>2, <2>1, <2>2
<1>4. ASSUME NEW cost \in Costs, Record("extract", d, cost),
             MoveTo(d, "collected", [doc[d] EXCEPT !.payload = TRUE, !.usage = @ + cost])
      PROVE  CostInv'
  <2> DEFINE carried == [doc[d] EXCEPT !.payload = TRUE, !.usage = @ + cost]
  <2>1. /\ carried = [doc[d] EXCEPT !.payload = TRUE, !.usage = doc[d].usage + cost]
        /\ doc[d].usage + cost \in Nat /\ cost \in Nat
    BY <1>1
  <2>2. carried \in Carried /\ carried.usage = doc[d].usage + cost
    BY <1>1, <2>1 DEF Carried
  <2>3. MoveTo(d, "collected", carried) /\ spent' = spent + cost
    BY <1>4 DEF Record
  <2> HIDE DEF carried
  <2> QED
    BY <1>2, <2>1, <2>2, <2>3
<1>5. CASE SkipUnclassified(d)
  <2> DEFINE carried == [doc[d] EXCEPT !.error = "undetermined"]
  <2>1. carried \in Carried /\ carried.usage = doc[d].usage + 0
    BY <1>1 DEF Carried, Errors
  <2>2. MoveTo(d, "collected", carried) /\ spent' = spent + 0
    BY <1>5 DEF SkipUnclassified, Record
  <2> HIDE DEF carried
  <2> QED
    BY <1>2, <2>1, <2>2
<1> QED
  BY <1>3, <1>4, <1>5 DEF Extract

\* Reconciling adds what it cost; no other step costs anything.
LEMMA OtherStepsCost ==
    ASSUME CostInv, TrailInv',
           \/ Ingest \/ Reconcile \/ IngestRefuses \/ \E d \in Case : CallStopsTheCase(d)
           \/ ReconcileStopsTheCase \/ Drain \/ Return \/ UNCHANGED vars
    PROVE  CostInv'
<1>1. spent \in Nat /\ doc' = doc /\ Case' = Case
  BY DEF CostInv, TrailInv, GraphInv, Typed, Case, Ingest, Reconcile, IngestRefuses,
     CallStopsTheCase, ReconcileStopsTheCase, Escape, Drain, Return, vars
<1>2. CASE Ingest
  <2>1. spent' = spent /\ run = "ingest" /\ UNCHANGED report
    BY <1>1, <1>2 DEF Ingest, Record
  <2>2. \A d \in Case : doc[d].usage = 0
    BY <2>1 DEF CostInv, CostsHeld, TrailInv, GraphInv, Joined
  <2>3. CostsHeld'
    BY <1>1, <2>1, <2>2 DEF CostInv, CostsHeld
  <2> QED
    BY <2>3 DEF CostInv
<1>3. CASE Reconcile
  <2>1. /\ spent' = spent + report'.cost /\ at' = at /\ run' = "returning"
        /\ report.cost = 0
    BY <1>3 DEF Reconcile, Record, Collected, CostInv, CostsHeld
  <2>2. spent = Sums(doc, Case)[Case] + 0
    BY <2>1 DEF CostInv, CostsHeld
  <2>3. Sums(doc, Case)[Case] \in Nat
    BY CaseCosts DEF CostInv
  <2>4. CostsHeld'
    BY <1>1, <2>1, <2>2, <2>3 DEF CostInv, CostsHeld
  <2> QED
    BY <2>4 DEF CostInv
<1>4. CASE \/ IngestRefuses \/ \E d \in Case : CallStopsTheCase(d)
           \/ ReconcileStopsTheCase \/ Drain \/ Return \/ UNCHANGED vars
  <2>1. UNCHANGED <<at, spent, run, report>>
    BY <1>4 DEF IngestRefuses, CallStopsTheCase, ReconcileStopsTheCase, Escape, Drain,
       Return, vars
  <2>2. CostsHeld'
    BY <1>1, <2>1 DEF CostInv, CostsHeld
  <2> QED
    BY <2>2 DEF CostInv
<1> QED
  BY <1>2, <1>3, <1>4

(* What a case has spent is what its documents and its report say it cost. *)
THEOREM CostsAreInvariant == Spec => []CostInv
<1>1. Init => CostInv
  BY CostsBegin
<1>2. CostInv /\ TrailInv' /\ [Next]_vars => CostInv'
  BY OcrCosts, ClassifyCosts, LastStepCosts, OtherStepsCost DEF Next, Branch
<1> QED
  BY <1>1, <1>2, TrailFollowsBranches, PTL DEF Spec

(* The total a case reports is what its documents and its reconciliation cost:
   no call is counted twice, and none is lost (CaseState.record). *)
THEOREM NoCallIsLost == Spec => []UsageConserved
<1>1. CostInv => UsageConserved
  <2>1. ASSUME CostInv PROVE DOMAIN doc = Case
    BY <2>1 DEF CostInv, TrailInv, GraphInv, Typed
  <2>2. FoldFunction(LAMBDA document, total : document.usage + total, 0, doc)
          = Sums(doc, DOMAIN doc)[DOMAIN doc]
    BY FoldIsSum
  <2> QED
    BY <2>1, <2>2 DEF CostInv, CostsHeld, UsageConserved
<1> QED
  BY <1>1, CostsAreInvariant, PTL
=============================================================================

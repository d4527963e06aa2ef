------------------------------ MODULE CaseGraph ------------------------------
(* services/graph.py and pipeline.run_with_progress: one run of the case graph.

   ingest checks the submission and fans out; every document then goes through
   its own branch ocr -> classify -> (extract | skip) -> collect, all branches
   interleaved; reconcile runs on what was collected.  Each step awaits at most
   one call and then finishes without suspending, so its effects on the shared
   CaseState are one action, the one in which the awaited call returns.

   run_with_progress hands the recorded events to the caller whenever the graph
   reports a finished step, which is some time after the step recorded them. *)
EXTENDS Naturals, SequencesExt

CONSTANTS Documents,      \* the documents a case may present
          MaxDocuments,   \* settings.max_documents_per_case
          OcrConfigured,  \* whether deps.textract is there
          Costs,          \* what one model call may cost
          CallQueueBounded  \* whether settings.max_queued_model_calls is set

NoOne == "case"   \* an event about no single document

ASSUME GraphAssumption ==
    /\ IsFiniteSet(Documents) /\ NoOne \notin Documents
    /\ MaxDocuments \in Nat
    /\ OcrConfigured \in BOOLEAN
    /\ Costs \subseteq Nat
    /\ CallQueueBounded \in BOOLEAN

VARIABLES presented,  \* document -> how it arrived, for the documents presented
          at,         \* document -> where its branch stands
          doc,        \* document -> what its branch carries
          trail,      \* state.events
          spent,      \* state.usage
          run,        \* where the run as a whole stands
          report,     \* the report reconcile made
          delivered,  \* how many events on_event was given
          outcome     \* what run_with_progress returned or raised

vars == <<presented, at, doc, trail, spent, run, report, delivered, outcome>>
perRun == <<presented, run, report, delivered, outcome>>

\* Text supplied, a file to read, neither, or past a size limit.
Arrivals == {"text", "scan", "bare", "oversize"}
Case == DOMAIN presented

\* A request carries at least one document.
Presentations == UNION {[chosen -> Arrivals] : chosen \in SUBSET Documents \ {{}}}

(* One limiter is shared by every agent.  A call it has no slot for waits, and
   fails instead only where the calls that may wait are bounded. *)
LimiterFailures == IF CallQueueBounded THEN {"ConcurrencyLimitExceeded"} ELSE {}

\* The classifier, every extractor and the reconciler are built on that limiter,
\* with retries; a run of one raises what these did not cure.
CallFailures == {"AgentRunError", "Exception"} \cup LimiterFailures

\* Every agent run has its limits, and the case ends when one is reached.
CaseLevel == {"UsageLimitExceeded", "RunCancelled"}
Severities == {"critical", "warning", "info"}

\* The branch's document: `has_text` is ~needs_ocr, `reason` what was said for not
\* classifying it (`ocr_error`, then `classification_reasoning`), `error` why it has
\* no payload, `usage` what its own calls cost.
Fresh(arrival) == [has_text |-> arrival = "text", known |-> FALSE, payload |-> FALSE,
                   reason |-> "none", error |-> "none", usage |-> 0]
NoReport == [status |-> "none", codes |-> {}, cost |-> 0]

\* CaseState.record: the event and the usage of the call that produced it.
Record(stage, d, cost) ==
    /\ trail' = Append(trail, [stage |-> stage, document |-> d])
    /\ spent' = spent + cost

MoveTo(d, step, document) ==
    /\ at' = [at EXCEPT ![d] = step]
    /\ doc' = [doc EXCEPT ![d] = document]

Active(d, step) == run = "branches" /\ outcome = "none" /\ at[d] = step

(* A step lets an exception escape: the run raises it, the other branches are
   cancelled, and nothing more is handed over. *)
Escape(exception) ==
    /\ outcome' = exception
    /\ UNCHANGED <<presented, at, doc, trail, spent, run, report, delivered>>

(* ---------------------------------- steps --------------------------------- *)

Acceptable ==
    /\ Cardinality(Case) <= MaxDocuments
    /\ \A d \in Case : presented[d] \notin {"bare", "oversize"}

Ingest ==
    /\ run = "ingest"
    /\ outcome = "none"
    /\ Acceptable
    /\ Record("ingest", NoOne, 0)
    /\ run' = "branches"
    /\ at' = [d \in Case |-> "ocr"]
    /\ UNCHANGED <<presented, doc, report, delivered, outcome>>

IngestRefuses ==
    /\ run = "ingest"
    /\ outcome = "none"
    /\ ~Acceptable
    /\ Escape("ValueError")

(* ocr: supplied text passes; a scan is read, or goes on with `ocr_error` when
   there is no client, the read raises, or the pages are blank. *)
Ocr(d) ==
    /\ Active(d, "ocr")
    /\ \/ /\ doc[d].has_text
          /\ MoveTo(d, "classify", doc[d])
          /\ UNCHANGED <<trail, spent>>
       \/ /\ ~doc[d].has_text
          /\ \/ OcrConfigured /\ MoveTo(d, "classify", [doc[d] EXCEPT !.has_text = TRUE])
             \/ MoveTo(d, "classify", [doc[d] EXCEPT !.reason = "unread"])
          /\ Record("ocr", d, 0)
    /\ UNCHANGED perRun

\* Faulty Unclassified: the reason is not carried on.
UnclassifiedUnexplained(d, reason, cost) ==
    /\ MoveTo(d, "skip", [doc[d] EXCEPT !.usage = cost])
    /\ Record("classify", d, cost)

\* _give_up, and a verdict that is `unknown` or below the threshold.
Unclassified(d, reason, cost) ==
    /\ MoveTo(d, "skip", [doc[d] EXCEPT !.reason = reason, !.usage = cost])
    /\ Record("classify", d, cost)

Classify(d) ==
    /\ Active(d, "classify")
    /\ \/ /\ ~doc[d].has_text
          /\ Unclassified(d, doc[d].reason, 0)
       \/ /\ doc[d].has_text
          /\ \/ \E failure \in CallFailures : Unclassified(d, failure, 0)
             \/ \E cost \in Costs :
                   \/ Unclassified(d, "unsure", cost)
                   \/ /\ MoveTo(d, "extract", [doc[d] EXCEPT !.known = TRUE,
                                                            !.usage = cost])
                      /\ Record("classify", d, cost)
    /\ UNCHANGED perRun

\* Faulty Extract: what the classification cost is overwritten.
ExtractForgettingRouting(d) ==
    /\ Active(d, "extract")
    /\ \E cost \in Costs :
          /\ MoveTo(d, "collected", [doc[d] EXCEPT !.payload = TRUE, !.usage = cost])
          /\ Record("extract", d, cost)
    /\ UNCHANGED perRun

(* The extraction step of the document's family. *)
Extract(d) ==
    /\ Active(d, "extract")
    /\ \/ \E failure \in CallFailures :
             /\ MoveTo(d, "collected", [doc[d] EXCEPT !.error = failure])
             /\ Record("extract", d, 0)
       \/ \E cost \in Costs :
             /\ MoveTo(d, "collected", [doc[d] EXCEPT !.payload = TRUE,
                                                      !.usage = @ + cost])
             /\ Record("extract", d, cost)
    /\ UNCHANGED perRun

\* Faulty SkipUnclassified: the branch is not joined to the collector.
SkipUnjoined(d) ==
    /\ Active(d, "skip")
    /\ MoveTo(d, "none", [doc[d] EXCEPT !.error = "undetermined"])
    /\ Record("skip", d, 0)
    /\ UNCHANGED perRun

\* Whatever the reason, the error is that the type could not be determined.
SkipUnclassified(d) ==
    /\ Active(d, "skip")
    /\ MoveTo(d, "collected", [doc[d] EXCEPT !.error = "undetermined"])
    /\ Record("skip", d, 0)
    /\ UNCHANGED perRun

(* UsageLimitExceeded and RunCancelled are the two a step re-raises. *)
CallStopsTheCase(d) ==
    /\ \/ Active(d, "classify") /\ doc[d].has_text
       \/ Active(d, "extract")
    /\ \E exception \in CaseLevel : Escape(exception)

(* ------------------------------- reconciling ------------------------------ *)

Usable == {d \in Case : doc[d].payload}

DerivedStatus(severities) ==
    CASE "critical" \in severities -> "blocked"
      [] "critical" \notin severities /\ "warning" \in severities -> "needs_review"
      [] OTHER -> "clean"

\* A single warning in place of findings: nothing was compared.
WarningReport(code) ==
    [status |-> "needs_review", codes |-> {code}, cost |-> 0]

\* Faulty Finalised: the status is derived before the finding is added.
FinalisedTooEarly(severities, cost) ==
    [status |-> DerivedStatus(severities),
     codes |-> IF Case # Usable THEN {"document_not_extracted"} ELSE {},
     cost |-> cost]

\* The model's findings, one more for documents nobody could read, and the
\* status rule; whatever status the model wrote is overwritten.
Finalised(severities, cost) ==
    LET unreadable == Case # Usable IN
    [status |-> DerivedStatus(severities \cup (IF unreadable THEN {"warning"} ELSE {})),
     codes |-> IF unreadable THEN {"document_not_extracted"} ELSE {},
     cost |-> cost]

Collected == run = "branches" /\ outcome = "none" /\ \A d \in Case : at[d] = "collected"

Reconcile ==
    /\ Collected
    /\ \/ /\ Usable = {}
          /\ report' = WarningReport("no_usable_documents")
       \/ /\ Usable # {}
          /\ report' = WarningReport("reconciliation_failed")
       \/ /\ Usable # {}
          /\ \E severities \in SUBSET Severities, cost \in Costs :
                report' = Finalised(severities, cost)
    /\ Record("reconcile", NoOne, report'.cost)
    /\ run' = "returning"
    /\ UNCHANGED <<presented, at, doc, delivered, outcome>>

ReconcileStopsTheCase ==
    /\ Collected
    /\ Usable # {}
    /\ \E exception \in CaseLevel : Escape(exception)

(* --------------------------- delivering the trail ------------------------- *)

\* Faulty Drain: the position runs past the end.
DrainPastEnd ==
    /\ outcome = "none"
    /\ delivered <= Len(trail)
    /\ delivered' = delivered + 1
    /\ UNCHANGED <<presented, at, doc, trail, spent, run, report, outcome>>

(* drain: on_event never suspends, so everything recorded is handed over. *)
Drain ==
    /\ outcome = "none"
    /\ delivered < Len(trail)
    /\ delivered' = Len(trail)
    /\ UNCHANGED <<presented, at, doc, trail, spent, run, report, outcome>>

\* Faulty Return: without the drain after the loop.
ReturnUndrained ==
    /\ run = "returning"
    /\ outcome = "none"
    /\ outcome' = "report"
    /\ UNCHANGED <<presented, at, doc, trail, spent, run, report, delivered>>

(* The iteration is over: the last drain, and the result. *)
Return ==
    /\ run = "returning"
    /\ outcome = "none"
    /\ delivered' = Len(trail)
    /\ outcome' = "report"
    /\ UNCHANGED <<presented, at, doc, trail, spent, run, report>>

Init ==
    /\ presented \in Presentations
    /\ at = [d \in Case |-> "none"]
    /\ doc = [d \in Case |-> Fresh(presented[d])]
    /\ trail = <<>>
    /\ spent = 0
    /\ run = "ingest"
    /\ report = NoReport
    /\ delivered = 0
    /\ outcome = "none"

Branch(d) == Ocr(d) \/ Classify(d) \/ Extract(d) \/ SkipUnclassified(d)

Next ==
    \/ Ingest
    \/ IngestRefuses
    \/ \E d \in Case : Branch(d) \/ CallStopsTheCase(d)
    \/ Reconcile
    \/ ReconcileStopsTheCase
    \/ Drain
    \/ Return

Spec == Init /\ [][Next]_vars

(* Every awaited call returns or raises, and the loop runs what is ready. *)
FairSpec ==
    /\ Spec
    /\ WF_vars(Ingest \/ IngestRefuses)
    /\ \A d \in Documents :
          WF_vars(d \in Case /\ (Branch(d) \/ CallStopsTheCase(d)))
    /\ WF_vars(Reconcile \/ ReconcileStopsTheCase)
    /\ WF_vars(Return)

(* -------------------------------- properties ------------------------------ *)

Reasons == {"none", "unread", "unsure"} \cup CallFailures
Errors == {"none", "undetermined"} \cup CallFailures

TypeOK ==
    /\ at \in [Case -> {"none", "ocr", "classify", "extract", "skip", "collected"}]
    /\ doc \in [Case -> [has_text: BOOLEAN, known: BOOLEAN, payload: BOOLEAN,
                         reason: Reasons, error: Errors, usage: Nat]]
    /\ spent \in Nat
    /\ delivered \in 0..Len(trail)
    /\ run \in {"ingest", "branches", "returning"}
    /\ report.status \in {"none", "clean", "needs_review", "blocked"}
    /\ outcome \in {"none", "report", "ValueError"} \cup CaseLevel

(* A presentation with a document nobody could read, or whose cross-checks did
   not run, never comes back clean, whatever the model said. *)
NeverCleanUnread ==
    outcome = "report" /\ report.status = "clean" =>
        Usable = Case /\ report.cost \in Costs

(* Every document is in the result, read or with an error.  One that was not
   classified still carries the reason given two or three steps earlier, and one
   that could not be read carries that reason and cost no model call. *)
EveryDocumentAccountedFor ==
    outcome = "report" =>
        \A d \in Case :
            /\ doc[d].payload <=> doc[d].error = "none"
            /\ doc[d].error = "undetermined" <=> doc[d].reason # "none"
            /\ ~doc[d].has_text <=> doc[d].reason = "unread"
            /\ ~doc[d].has_text => doc[d].usage = 0

(* The case's total is what its documents and the reconciliation cost: no call
   is counted twice, and none is lost when a later step of its branch fails. *)
UsageConserved ==
    spent = FoldFunction(LAMBDA document, total : document.usage + total, 0, doc)
            + report.cost

(* The stages recorded for document d, in order. *)
StagesOf(d) ==
    FoldLeft(LAMBDA own, event : IF event.document = d THEN Append(own, event.stage) ELSE own,
             <<>>, trail)

(* A caller that was given the report was given the whole trail before it, and
   the trail tells each document's way through its branch, in order. *)
TrailIsComplete ==
    outcome = "report" =>
        /\ delivered = Len(trail)
        /\ \A d \in Case :
              StagesOf(d) = (IF presented[d] = "scan" THEN <<"ocr">> ELSE <<>>)
                            \o <<"classify">>
                            \o (IF doc[d].known THEN <<"extract">> ELSE <<"skip">>)
        /\ trail[1].stage = "ingest"
        /\ trail[Len(trail)].stage = "reconcile"

(* The run ends: with a report, or with the exception that stopped it. *)
RunEnds == <>(outcome # "none")

(* The caller is told `server_busy` when the model concurrency limit was hit
   (backend/README.md, the table of error codes). *)
ServerBusyIsReported ==
    outcome = "report" =>
        \A d \in Case : "ConcurrencyLimitExceeded" \notin {doc[d].reason, doc[d].error}
=============================================================================

----------------------------- MODULE CaseRunner -----------------------------
(* services/runner.py: submissions become tasks, tasks wait for one of
   MaxConcurrent slots, run the pipeline and record how it ended; a caller may
   discard a case at any time and the process may shut down.

   Everything runs on one event loop and suspends only where the code awaits
   something unfinished, so an action is what runs between two suspensions:
   `submit` and `discard` are one step each, and so is everything `_run` does
   from obtaining its slot to the first await of the pipeline, or from the
   pipeline's return to the end of the task.

   Submission n is run by task n.  A task is "created" until its first step,
   "waiting" in the queue of the semaphore, "granted" once its waiter has been
   given a slot but has not resumed, "running" inside the pipeline, "done", and
   "retired" when its done-callback has dropped it from `_tasks`. *)
EXTENDS CaseStore

CONSTANTS MaxConcurrent,    \* settings.max_concurrent_cases
          MaxQueued,        \* settings.max_queued_cases
          Endings,          \* how the pipeline may end: "report" or an exception
          CallersBringIds   \* whether callers choose (and reuse) case ids

(* _analyse: the error code an exception of the pipeline is recorded under. *)
FailureCode ==
    [ValueError |-> "invalid_case",
     UsageLimitExceeded |-> "usage_limit_exceeded",
     ConcurrencyLimitExceeded |-> "server_busy",
     AgentRunError |-> "model_unavailable",
     Exception |-> "internal_error"]

ASSUME RunnerAssumption ==
    /\ MaxConcurrent \in Nat
    /\ MaxQueued \in Nat
    /\ Endings \subseteq {"report", "RunCancelled"} \cup DOMAIN FailureCode
    /\ CallersBringIds \in BOOLEAN

VARIABLES phase,       \* submission -> where its task stands
          caseOf,      \* submission -> the id it was made under
          cancelling,  \* submission -> task.cancel() was called on its task
          slots,       \* _slots: the free slots
          waiting,     \* _waiting
          closing      \* aclose: open, draining, cancelling, closed

taskVars == <<phase, caseOf, cancelling>>
vars == <<cases, now, watch, phase, caseOf, cancelling, slots, waiting, closing>>

Phases == {"none", "created", "waiting", "granted", "running", "done", "retired"}
Unfinished == {"created", "waiting", "granted", "running"}

In(phases) == {n \in Submits : phase[n] \in phases}
InTasks(n) == phase[n] \in Unfinished \cup {"done"}   \* n in self._tasks

\* Nobody with a smaller number is in phase p: tasks first step, and granted
\* waiters resume, in the order the loop queued them, which is that of creation.
IsNext(n, p) == phase[n] = p /\ \A m \in Submits : m < n => phase[m] # p

(* ------------------- asyncio.Semaphore, as _run uses it ------------------- *)

Pending == {n \in Submits : phase[n] = "waiting" /\ ~cancelling[n]}
Holding == In({"granted", "running"})
Locked == slots = 0 \/ Pending # {} \/ In({"granted"}) # {}

\* Faulty Longest: the waiters that came last.
Latest(k) ==
    {G \in SUBSET Pending :
        /\ Cardinality(G) <= k
        /\ Cardinality(G) = k \/ G = Pending
        /\ \A g \in G, p \in Pending \ G : g > p}

\* The at most k waiters that have waited longest.
Longest(k) ==
    {G \in SUBSET Pending :
        /\ Cardinality(G) <= k
        /\ Cardinality(G) = k \/ G = Pending
        /\ \A g \in G, p \in Pending \ G : g < p}

(* n moves to phase `to` while `free` slots are free, `wake` of which may be
   handed to waiters. *)
Hand(n, to, free, wake) ==
    \E G \in Longest(wake) :
        /\ slots' = free - Cardinality(G)
        /\ phase' = [m \in Submits |-> IF m = n THEN to
                                       ELSE IF m \in G THEN "granted"
                                       ELSE phase[m]]

\* Faulty Release: the slot is free, but nobody is woken for it.
ReleaseWakingNobody(n) == Hand(n, "done", slots + 1, 0)

\* release(): leaving `async with self._slots` ends the task and wakes one.
Release(n) == Hand(n, "done", slots + 1, 1)

(* ------------------------------ submitting ------------------------------- *)

\* Ids made by new_case_id are never seen twice.  They are only ever compared,
\* so which of the unused ones is made is immaterial.
Unseen == {c \in CaseIds : \A n \in Submits : caseOf[n] # c}
MayName(c) == CallersBringIds \/ (c \in Unseen /\ c = CHOOSE id \in Unseen : TRUE)

\* Faulty Admitting: one more than the ceiling.
AdmittingOneMore == closing = "open" /\ waiting <= MaxQueued

Admitting == closing = "open" /\ waiting < MaxQueued   \* otherwise TooBusy

Submit(n, c) ==
    /\ Admitting
    /\ IsNext(n, "none")
    /\ MayName(c)
    /\ Create(c, n)
    /\ waiting' = waiting + 1
    /\ phase' = [phase EXCEPT ![n] = "created"]
    /\ caseOf' = [caseOf EXCEPT ![n] = c]
    /\ UNCHANGED <<now, cancelling, slots, closing>>

SubmitRefused(c) ==
    /\ Admitting
    /\ MayName(c)
    /\ Conflict(c)
    /\ UNCHANGED <<now, taskVars, slots, waiting, closing>>

(* ----------------------------- giving up a case -------------------------- *)

\* The tasks `cancel` may find under the name of c: `_tasks` is unordered.
Named(c) == {n \in Submits : InTasks(n) /\ caseOf[n] = c}

\* task.cancel(), which a finished task ignores.
Interrupt(S) == cancelling' = [n \in Submits |->
                    cancelling[n] \/ (n \in S /\ phase[n] \in Unfinished)]

(* discard: the first task of that name is cancelled, the record is dropped.
   The response that tells a made id reaches its caller after the task's first
   step, so only an id the caller brought can be discarded before it. *)
Discard(c) ==
    /\ Held(c)
    /\ CallersBringIds \/ \A n \in Named(c) : phase[n] # "created"
    /\ \/ Named(c) = {} /\ Interrupt({})
       \/ \E n \in Named(c) : Interrupt({n})
    /\ Forget(c)
    /\ UNCHANGED <<now, phase, caseOf, slots, waiting, closing>>

(* ------------------------------ one task's life -------------------------- *)

\* Faulty Start: the place in the queue is given back on joining the queue.
StartCountedEarly(n) ==
    /\ IsNext(n, "created")
    /\ ~cancelling[n]
    /\ \/ /\ Locked
          /\ phase' = [phase EXCEPT ![n] = "waiting"]
          /\ UNCHANGED <<cases, watch, slots>>
       \/ /\ ~Locked
          /\ Held(caseOf[n])
          /\ phase' = [phase EXCEPT ![n] = "running"]
          /\ slots' = slots - 1
          /\ MarkRunning(caseOf[n])
    /\ waiting' = waiting - 1
    /\ UNCHANGED <<now, caseOf, cancelling, closing>>

(* The first step of _run.  With the semaphore taken the task queues for it;
   otherwise it is admitted at once.  A record already dropped ends the run. *)
Start(n) ==
    /\ IsNext(n, "created")
    /\ ~cancelling[n]
    /\ \/ /\ Locked
          /\ phase' = [phase EXCEPT ![n] = "waiting"]
          /\ UNCHANGED <<cases, watch, slots, waiting>>
       \/ /\ ~Locked
          /\ Held(caseOf[n])
          /\ phase' = [phase EXCEPT ![n] = "running"]
          /\ slots' = slots - 1
          /\ waiting' = waiting - 1
          /\ MarkRunning(caseOf[n])
       \/ /\ ~Locked
          /\ ~Held(caseOf[n])
          /\ phase' = [phase EXCEPT ![n] = "done"]
          /\ waiting' = waiting - 1
          /\ UNCHANGED <<cases, watch, slots>>
    /\ UNCHANGED <<now, caseOf, cancelling, closing>>

(* A task cancelled before its first step never enters _run: neither its
   `finally` nor its handlers execute. *)
NeverStart(n) ==
    /\ IsNext(n, "created")
    /\ cancelling[n]
    /\ phase' = [phase EXCEPT ![n] = "done"]
    /\ UNCHANGED <<cases, now, watch, caseOf, cancelling, slots, waiting, closing>>

(* A granted waiter resumes: acquire() hands on what is still free, then the
   run is marked, or ended if its record was dropped. *)
Resume(n) ==
    /\ IsNext(n, "granted")
    /\ ~cancelling[n]
    /\ waiting' = waiting - 1
    /\ \/ /\ Held(caseOf[n])
          /\ Hand(n, "running", slots, slots)
          /\ MarkRunning(caseOf[n])
       \/ /\ ~Held(caseOf[n])
          /\ Hand(n, "done", slots + 1, slots + 1)
          /\ UNCHANGED <<cases, watch>>
    /\ UNCHANGED <<now, caseOf, cancelling, closing>>

\* Faulty RecordCancelled: a cancelled run records nothing.
RecordNothing(n) == UNCHANGED <<cases, watch>>

\* `with suppress(Exception): await self.store.cancel(...)`
RecordCancelled(n) ==
    IF Held(caseOf[n]) THEN Cancel(caseOf[n]) ELSE UNCHANGED <<cases, watch>>

\* Faulty LeaveQueue: the `finally` does not give the place back.
LeaveQueueKeepingPlace(n) ==
    /\ cancelling[n]
    /\ \/ phase[n] = "waiting" /\ Hand(n, "done", slots, slots)
       \/ IsNext(n, "granted") /\ Hand(n, "done", slots + 1, slots + 1)
    /\ RecordCancelled(n)
    /\ UNCHANGED <<now, caseOf, cancelling, waiting, closing>>

\* Faulty LeaveQueue: a cancellation while waiting for the slot is swallowed.
LeaveQueueOnlyGranted(n) ==
    /\ cancelling[n]
    /\ IsNext(n, "granted") /\ Hand(n, "done", slots + 1, slots + 1)
    /\ waiting' = waiting - 1
    /\ RecordCancelled(n)
    /\ UNCHANGED <<now, caseOf, cancelling, closing>>

(* Cancelled while queued, before or after a slot was handed to it; a slot it
   was handed goes back, and acquire() hands on what is free. *)
LeaveQueue(n) ==
    /\ cancelling[n]
    /\ \/ phase[n] = "waiting" /\ Hand(n, "done", slots, slots)
       \/ IsNext(n, "granted") /\ Hand(n, "done", slots + 1, slots + 1)
    /\ waiting' = waiting - 1
    /\ RecordCancelled(n)
    /\ UNCHANGED <<now, caseOf, cancelling, closing>>

(* The pipeline reports a stage.  When the record is gone the event raises
   CaseNotFound, recording that failure raises it again, and the run ends. *)
Progress(n) ==
    /\ phase[n] = "running"
    /\ ~cancelling[n]
    /\ \/ /\ Held(caseOf[n])
          /\ cases[caseOf[n]].events < MaxEvents
          /\ AppendEvent(caseOf[n])
          /\ UNCHANGED <<phase, slots>>
       \/ /\ ~Held(caseOf[n])
          /\ Release(n)
          /\ UNCHANGED <<cases, watch>>
    /\ UNCHANGED <<now, caseOf, cancelling, waiting, closing>>

(* The pipeline returns its report or raises, and that is recorded. *)
RecordOutcome(n, ending) ==
    LET c == caseOf[n] IN
    IF ending = "report" THEN Succeed(c, n)
    ELSE IF ending = "RunCancelled" THEN Cancel(c)
    ELSE Fail(c, FailureCode[ending])

\* Faulty Finish: the outcome is recorded while the last events are still due.
FinishBeforeLastEvent(n) ==
    /\ phase[n] = "running"
    /\ ~cancelling[n]
    /\ Held(caseOf[n])
    /\ \E ending \in Endings : RecordOutcome(n, ending)
    /\ UNCHANGED <<now, taskVars, slots, waiting, closing>>

Finish(n) ==
    /\ phase[n] = "running"
    /\ ~cancelling[n]
    /\ IF Held(caseOf[n])
       THEN \E ending \in Endings : RecordOutcome(n, ending)
       ELSE UNCHANGED <<cases, watch>>
    /\ Release(n)
    /\ UNCHANGED <<now, caseOf, cancelling, waiting, closing>>

\* Faulty AbortRun: the slot is returned on success only.
AbortRunKeepingSlot(n) ==
    /\ phase[n] = "running"
    /\ cancelling[n]
    /\ phase' = [phase EXCEPT ![n] = "done"]
    /\ RecordCancelled(n)
    /\ UNCHANGED <<now, caseOf, cancelling, slots, waiting, closing>>

(* The CancelledError comes out of the pipeline. *)
AbortRun(n) ==
    /\ phase[n] = "running"
    /\ cancelling[n]
    /\ Release(n)
    /\ RecordCancelled(n)
    /\ UNCHANGED <<now, caseOf, cancelling, waiting, closing>>

(* _retire, the done-callback: a later step of the loop. *)
Retire(n) ==
    /\ phase[n] = "done"
    /\ phase' = [phase EXCEPT ![n] = "retired"]
    /\ UNCHANGED <<cases, now, watch, caseOf, cancelling, slots, waiting, closing>>

(* ------------------------------ shutting down ----------------------------- *)

(* aclose: no more submissions; with nothing in flight that is all. *)
CloseBegins ==
    /\ closing = "open"
    /\ closing' = IF \A n \in Submits : ~InTasks(n) THEN "closed" ELSE "draining"
    /\ UNCHANGED <<cases, now, watch, taskVars, slots, waiting>>

(* asyncio.wait returns, because all tasks are done or the grace period is
   over; what is unfinished is cancelled.  A timer fires only after the tasks
   already queued for their first step have taken it. *)
DrainEnds ==
    /\ closing = "draining"
    /\ In({"created"}) = {}
    /\ Interrupt(Submits)
    /\ closing' = IF In(Unfinished) = {} THEN "closed" ELSE "cancelling"
    /\ UNCHANGED <<cases, now, watch, phase, caseOf, slots, waiting>>

\* Faulty CloseReturns: the cancelled tasks are not awaited.
CloseReturnsAtOnce ==
    /\ closing = "cancelling"
    /\ closing' = "closed"
    /\ UNCHANGED <<cases, now, watch, taskVars, slots, waiting>>

(* gather has seen every cancelled task end. *)
CloseReturns ==
    /\ closing = "cancelling"
    /\ In(Unfinished) = {}
    /\ closing' = "closed"
    /\ UNCHANGED <<cases, now, watch, taskVars, slots, waiting>>

(* ------------------------------ specification ----------------------------- *)

Init ==
    /\ StoreInit
    /\ phase = [n \in Submits |-> "none"]
    /\ caseOf = [n \in Submits |-> NoCase]
    /\ cancelling = [n \in Submits |-> FALSE]
    /\ slots = MaxConcurrent
    /\ waiting = 0
    /\ closing = "open"

TaskStep(n) ==
    \/ Start(n)
    \/ NeverStart(n)
    \/ Resume(n)
    \/ LeaveQueue(n)
    \/ AbortRun(n)
    \/ Retire(n)

CloseStep == CloseBegins \/ DrainEnds \/ CloseReturns

RunnerNext ==
    \/ \E c \in CaseIds :
          \/ \E n \in Submits : Submit(n, c)
          \/ SubmitRefused(c)
          \/ Discard(c)
    \/ \E n \in Submits : TaskStep(n) \/ Progress(n) \/ Finish(n)
    \/ CloseStep
    \/ Tick /\ UNCHANGED <<taskVars, slots, waiting, closing>>

WatchNext ==
    /\ \E w \in Watchers : (\E c \in CaseIds : BeginWatch(w, c)) \/ WatchStep(w)
    /\ UNCHANGED <<cases, now, taskVars, slots, waiting, closing>>

Next == RunnerNext \/ WatchNext

(* The loop runs whatever is ready, and every wait for the pipeline ends: the
   model provider and Textract answer or raise within their client timeouts.
   Callers owe nothing, and the process is never obliged to shut down. *)
RunnerFairness ==
    /\ \A n \in Submits : WF_vars(TaskStep(n)) /\ WF_vars(Finish(n))
    /\ WF_vars(DrainEnds)
    /\ WF_vars(CloseReturns)

WatchFairness ==
    \A w \in Watchers :
        WF_vars(WatchStep(w)
                /\ UNCHANGED <<cases, now, taskVars, slots, waiting, closing>>)

Spec == Init /\ [][Next]_vars
FairSpec == Spec /\ RunnerFairness /\ WatchFairness

(* -------------------------------- properties ------------------------------ *)

TypeOK ==
    /\ StoreTypeOK
    /\ phase \in [Submits -> Phases]
    /\ caseOf \in [Submits -> CaseIds \cup {NoCase}]
    /\ cancelling \in [Submits -> BOOLEAN]
    /\ slots \in 0..MaxConcurrent
    /\ waiting \in 0..MaxQueued
    /\ closing \in {"open", "draining", "cancelling", "closed"}

(* A slot is free, or held by exactly one run that was handed it, whatever
   mixture of outcomes, cancellations and deletions the runs ended in: no path
   out of _run leaks a slot or returns one twice. *)
SlotsConserved == slots + Cardinality(Holding) = MaxConcurrent

(* No slot is left idle beside a queued case that nothing will wake: while one
   is free and a case waits, another waiter is about to resume and hand it on. *)
NoSlotIdles == slots > 0 /\ Pending # {} => In({"granted"}) # {}

(* The queue ceiling bounds the cases really queued, and the counter never
   falls below them, so `max_queued` is never exceeded (submit, _run). *)
InQueue == In({"created", "waiting", "granted"})
QueueBounded == Cardinality(InQueue) <= waiting /\ waiting <= MaxQueued

(* The counter is exact: a cancelled case gives its place in the queue back
   ("Cancelled while still queued, so the accounting above never ran"). *)
WaitingIsExact == waiting = Cardinality(InQueue)

(* Every record that is not terminal has an unfinished task of its own that
   will end it, so nobody polls a case that can no longer change. *)
RecordHasRun ==
    \A c \in CaseIds :
        Held(c) /\ ~IsTerminal(cases[c]) =>
            /\ phase[cases[c].sub] \in Unfinished
            /\ caseOf[cases[c].sub] = c

(* When aclose has returned, every record a caller can still read is terminal
   ("recorded as cancelled rather than left running"). *)
ShutdownSettles ==
    closing = "closed" => \A c \in CaseIds : Held(c) => IsTerminal(cases[c])

(* A run nobody cancelled still has its record, and the record says where the
   run stands: no eviction, deletion or other run takes it away. *)
RunHasRecord ==
    \A n \in In(Unfinished) :
        ~cancelling[n] =>
            /\ cases[caseOf[n]].sub = n
            /\ cases[caseOf[n]].status =
                  IF phase[n] = "running" THEN "running" ELSE "queued"

(* discard stops what it forgets: no run goes on whose case was dropped. *)
NoOrphanRun == \A n \in In(Unfinished) : ~cancelling[n] => Held(caseOf[n])

(* What a record says fits together: stamped exactly when terminal, the report
   of its own run exactly when succeeded, an error exactly when it ended
   otherwise (models/jobs.py, CaseRecord). *)
RecordCoherent ==
    \A c \in CaseIds :
        LET r == cases[c] IN
        /\ r.finished_at # 0 <=> IsTerminal(r)
        /\ r.result = IF r.status = "succeeded" THEN r.sub ELSE 0
        /\ r.error # "none" <=> r.status \in {"failed", "cancelled"}

(* A terminal record does not change again ("Whether this case will not change
   again", models/jobs.py) until it is dropped or its id is used anew. *)
TerminalIsFinal ==
    [][\A c \in CaseIds :
          IsTerminal(cases[c]) /\ cases'[c].sub = cases[c].sub
              => cases'[c] = cases[c]]_cases

(* A watcher that is delivering or waiting on an unset event has read the
   current record: it can never sleep through an update. *)
NoLostWakeup ==
    \A w \in Watchers :
        /\ watch[w].phase \in {"emitting", "waiting"}
        /\ ~watch[w].woken
        /\ ~IsTerminal(watch[w].seen)
        => cases[watch[w].case] = watch[w].seen

(* What a watcher is shown of one case only moves forward: the trail grows and
   the status never steps back. *)
Rank(status) == CASE status = "queued" -> 0
                  [] status = "running" -> 1
                  [] OTHER -> 2

WatcherMovesForward ==
    [][\A w \in Watchers :
          LET seen == watch[w].seen
              next == watch'[w].seen
          IN  seen # Absent => /\ next.sub = seen.sub
                               /\ seen.events <= next.events
                               /\ Rank(seen.status) <= Rank(next.status)
                               ]_watch

(* Every submission is eventually settled or dropped, and its task retired. *)
EverySubmissionEnds ==
    \A n \in Submits : (phase[n] \in Unfinished) ~> (phase[n] = "retired")

(* aclose returns: shutting down cannot hang on a case. *)
CloseEnds == (closing = "draining") ~> (closing = "closed")

(* Every iteration of `watch` ends. *)
EveryWatchEnds ==
    \A w \in Watchers :
        (watch[w].phase \in {"starting", "emitting", "waiting"})
            ~> (watch[w].phase \in {"done", "lost"})

(* What a caller can see of submission n. *)
SubmissionStatus ==
    [n \in Submits |->
        IF phase[n] = "none" THEN "none"
        ELSE IF cases[caseOf[n]].sub = n THEN cases[caseOf[n]].status
        ELSE "dropped"]

Lifecycle == INSTANCE CaseLifecycle WITH status <- SubmissionStatus

(* The runner keeps the promise of CaseLifecycle, fairness included: a caller
   that polls sees every case leave "queued" and "running". *)
FairlyImplementsLifecycle == Lifecycle!Spec
=============================================================================

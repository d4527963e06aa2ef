# A verification project for the Trade Finance Document Mismatch Detector

TLA+ modules that model the service under `src/backend/Detector` and the page
under `src/frontend/public` that talks to it, TLC configurations that check them on small instances, and TLAPS proofs of what
matters most for every value of the constants.

## 1. The system

The service accepts *cases* (a pile of documents presented under a letter of
credit), analyses each on a background task and lets callers poll, watch or
delete it. It is one Python process with one asyncio event loop; nothing is
persisted, so a restart loses every case and there is no recovery to model.

| Component | State it keeps | Operations | Interacts by |
|---|---|---|---|
| `services/store.py` CaseStore | id -> record, one event per record | get, watch, create, mark_running, append_event, succeed, fail, cancel, forget, evict | called by the runner; wakes watchers |
| `services/runner.py` CaseRunner | `_slots`, `_tasks`, `_waiting`, `_closing` | submit, watch, cancel, discard, aclose, `_run`, `_analyse`, `_retire` | one task per submission; a semaphore; done-callbacks |
| `services/graph.py`, `pipeline.py`, `deps.py` case graph | `CaseState`: audit trail, usage; what each branch carries | ingest, ocr, classify, extract, skip, collect, reconcile; drain | one branch per document, a join, a progress callback |
| `api/events.py` Socket.IO | `streams`: session -> case -> task | subscribe, unsubscribe, disconnect, `stream_case` | one task per subscription; done-callbacks |
| `api/routes/cases.py`, `errors.py` HTTP | what is left of a request's byte budget | submit, upload, get, delete | calls the runner |
| `services/ocr.py` Textract reader | one semaphore | read, split, read a page | called by the graph; gathers pages |
| `services/tools.py` tools | none | four pure checks | called by the model |
| `services/agents.py`, `prompts/`, `core/config.py` | registries, settings | build once | constants to everything else |
| `api/app.py` lifespan | the runner, the Textract client | start, stop | opens the client, closes the runner first |
| `src/frontend/public` page | the form, what is shown, the connections to the service | submit, watch, render, close | POST to the routes, one Socket.IO connection per submission |

What is hard about it: every submission is a task that may be cancelled at any
suspension (by a deletion, by shutdown), including before its first step and in
the very turn in which it was handed a slot; records are found by an id that
callers may choose and reuse while an older task of the same id is winding down;
done-callbacks run later than what they clean up after; watchers must not sleep
through a change; the branches of a case share one trail and one total; shutdown takes the
service down from under whatever is going on; and a page moves on to another
case while frames of the last are still on their way.

What makes each part correct:

* *store*: no watcher misses a change, sees time go backwards or waits for ever;
  eviction frees room without taking a case somebody is still running.
* *runner*: slots and queue places are conserved over every path out of `_run`;
  the waiting go first come, first served and none waits beside a free slot;
  a record says where its run stands, ends once and never changes again; no case
  stays queued or running for ever; shutdown returns and settles everything.
* *streams*: a session that is gone streams nothing, the table forgets what is
  over, every stream ends.
* *uploads and reader*: no more of a case is held than its budget allows; what
  is accepted can be read; a document is read whole or not at all; giving up a
  case stops its pages, all but those a failed page left behind; the places for
  calls to Textract are conserved over failure and cancellation.
* *tools*: a limit met exactly passes, and by how much one was missed is exact.
* *lifespan*: a document being read has a client to be read with, and a shutdown
  ends whatever the run and its reads are doing.
* *page*: what it shows belongs to one case and goes forward only; the end of a
  case is shown; a case that is left is no longer streamed.
* *graph*: a case with a document nobody could read is never `clean`; every
  document comes back with its fields or an error, and with the reason if it was
  not classified; usage adds up; the trail is
  complete before the report is returned; every run ends.

## 2. The modules

```
CaseLifecycle <- CasePage <- CasePageProofs    the promise to a caller, queued ->
   ^                         running -> ... -> dropped, and the page that relies on it
   | implemented by
CaseStore <- CaseRunner <- CaseStreams         MCCaseRunner, MCCaseStreams
                ^              ^
                |       CaseStreamsProofs
                |              v
    CaseRunnerProofs <- CaseRecordProofs <- CaseLifecycleProofs

Uploads <- TextractReader <- Service <- ServiceProofs          MCService
CaseGraph <- CaseGraphProofs   (one run, on its own)           MCCaseGraph
ReconciliationTools <- ReconciliationToolsProofs
```

**Granularity.** On one event loop, what runs between two suspensions is atomic.
The store's `asyncio.Lock` is never held across a suspension, so acquiring it
never suspends either and every store method is one step of its caller. Hence
`submit` and `discard` are one action each, and so is everything `_run` does
from obtaining its slot to the first await of the pipeline, or from the
pipeline's return to the end of the task.

**CaseStore** (`store.py`, `models/jobs.py`) holds the dictionary `cases`, the
clock `now` and the watchers. An entry is identified by `sub`, the submission it
was created for, because its id may be used again. `Publish`, `MarkRunning`,
`AppendEvent`, `Succeed`, `Fail`, `Cancel`, `Forget`, `Create`, `Conflict` are
the methods; `Evictions` is the set of sets `_evict` may delete. A watcher holds
the record it read and whether the event it took with it has since been set
(`woken`); `Look`, `Park`, `EndWatch` are the passes of its loop. The clock is the
wall clock: `Tick` may set it back as well as let it go on.

**CaseRunner** (`runner.py`) adds the tasks. `phase` says where the task of each
submission stands, `cancelling` that `task.cancel()` was called on it, `slots`
and `waiting` are the semaphore's value and the queue counter, `closing` is
where `aclose` stands. `Pending`, `Longest`, `Hand` and `Release` model
asyncio's semaphore: a slot is taken out of the count when it is handed to a
waiter, which resumes later; a waiter cancelled in between gives it back. It is
external code, modelled from how `_run` uses it. `Start`, `NeverStart`,
`Resume`, `LeaveQueue`, `Progress`, `Finish`, `AbortRun` and `Retire` are the
steps of a task; the pipeline is a call that reports progress and ends with a
report or any exception `_analyse` distinguishes.

Two points need care. *Ids*: with `CallersBringIds = FALSE` ids are those
`new_case_id` makes, never the same twice, and known to the caller only from the
response, which leaves after the task's first step; a deletion can therefore not
come before it. With `TRUE`, callers name and reuse ids, which the API allows.
*The unordered `_tasks`*: `cancel` may find any task of the name, so `Discard`
picks one of them.

**CaseLifecycle** is the abstract specification: one `status` per submission,
accepted in order, begun in order, at most `MaxConcurrent` running, settled once,
dropped by the caller at any time or by the store once settled, with fairness
that leaves nothing queued or running for ever. `CaseRunner` implements it under
`SubmissionStatus`, which reads the status of a submission off its record.

**CaseStreams** (`events.py`) lets sessions subscribe. The stream tasks are the
watchers of CaseStore; the table, the owner of each stream, its cancellation and
its later done-callback are modelled as in the code: the callback removes the
entry under its session and case, whichever stream that holds. `EmitRaises` is an
emit that fails: the stream ends with an error, as it does for a case that is gone.

**CaseGraph** (`graph.py`, `pipeline.py`, `deps.py`, `models/documents.py`,
`models/reconciliation.py`) is one run. Every step awaits at most one call and
then finishes without suspending, so one action per step suffices: the one in
which its call returns. `run_with_progress` hands events over whenever the graph
reports a step (`Drain`), which may be any time later, and once more at the end
(`Return`). A document's text is reduced to whether there is any, its reading
and the model's answers to success, low confidence, or an exception, cost to a
small number, the findings of the model to the set of their severities. `reason`
is what was said for not classifying a document (`ocr_error`, carried on as
`classification_reasoning`), `error` why the result has no payload for it: the
failure of its extraction, or what `SkipUnclassified` says of all it skips. All agents
share one limiter of `agents.py`: a call it has no slot for waits, or fails where
the calls that may wait are bounded (`CallQueueBounded`, `LimiterFailures`).
`Presentations` is what a case may consist of; the documents are finitely many and
none is `NoOne`, the mark of an event about no single one.

**Uploads** (`routes/cases.py`, `submit_uploads`) is one request: its files are
read chunk by chunk under the budget of a file and what is left of that of the
case, and refused for their number, their size, for being empty, or for bytes
that are no known format. A file is its size, the format its bytes show, and the
pages it has.

**TextractReader** (`ocr.py`, `TextractOCR.read`) reads the documents of the
accepted upload. `read` says where each document stands, `page` where each of
its pages does, `line` is the queue for `places`, the semaphore all share.
`Raise` leaves the sibling pages of a failed page to themselves, as `gather`
does; `Abandon` is a cancellation that reaches a read: `gather` passes it on to
the pages still due, and a page that failed in the same turn decides what is
raised. Once `gather` has taken note of the failure there is nothing to pass on:
a cancellation in the one turn before the read learns of it ends the read as
cancelled, while the sibling pages go on (the second way of `Raise`). A read may
also begin in the turn before the cancellation arrives (`Begin`). CaseGraph's
`Ocr` abstracts all this to a read that returns text, blank pages, or an
exception. The module has the actions; Service runs them.

**Service** (`api/app.py`) composes the upload and the reader with the life of
the process. `stage` is how far the lifespan has got, `client` the Textract
client, `task` the one run. Start-up loads the prompts (`LoadPrompts`), opens a
client, or does without (`Start`), and may fail before either; the exit
stack unwinds runner first (`CloseBegins`, `GraceEnds`, `RunnerClosed`), then the
client, then the loop (`Exit`), which cancels the pages nobody waits for. An
upload may arrive at any stage that has a runner; one that is closing refuses it.

**CasePage** (`app.js`, `socketio.js`) is the browser page over the promise of
CaseLifecycle, whose actions it takes as the service's. `form` is the submit
button, `shown`, `report` and `notes` what is on the page; connection `n` is the
one opened for submission `n`, with its WebSocket, the frames on the way in each
direction, and the session and stream the service has for it. `Watch` is what
follows the answer to a POST: close the old connection, render, open a new one,
subscribe (held back until the namespace is joined). `Deliver` takes one frame:
`Greet`, `Join`, `Show`, `Note`, `HungUpOn`. A connection may fail to open, break,
or be hung up on; the page does not reconnect.

**ReconciliationTools** (`tools.py`) has the four checks as operators. Amounts
are kept in hundredths, exactly, as `Decimal` is up to 28 digits.

Operators introduced by a comment `Faulty ...` are variants with one plausible
slip each; no specification uses them. Put in the place of the definition they
follow, each makes the property named after it in `PROJECT.json` fail, which
shows that the property is sensitive to the code.

## 3. The runs

Deadlock checking is off everywhere: a service with no more submissions in the
bound, all of them settled, really is at rest.

| Run | Instance | Checks | Shows |
|---|---|---|---|
| MCRunnerFresh | 3 submissions, 1 slot, queue of 2, 3 outcomes, 1 event, clock of 3, retention of 1 tick, ceiling of 1 record, made ids | WaitingIsExact, RunHasRecord, RecordCoherent, TerminalIsFinal | with made ids the queue is counted exactly and records are true to their runs, however the clock is set |
| MCRunnerReuse | 4 submissions on 2 chosen ids, 2 slots, queue of 3, clock of 2 | TypeOK, SlotsConserved, NoSlotIdles, QueueBounded, RecordHasRun, ShutdownSettles | however ids are reused: no slot lost, no record nobody will end |
| MCRunnerFair | 3 submissions, made ids, 1 slot, queue of 2, 2 outcomes, 1 watcher, ceiling 1, retention 0, fairness | NoLostWakeup, EverySubmissionEnds, CloseEnds, FairlyImplementsLifecycle, EveryWatchEnds | everything ends, shutdown too; the life of a case is the promised one; watching is exact and ends |
| MCStreams | 1 session, 1 case, 2 streams, 1 event, ceiling 0, fairness | FirstStreamStops, TableForgets, WatcherMovesForward, EveryStreamEnds | a disconnect stops every stream that replaced none, the table forgets, streams go forward and end |
| MCService | 3 files of 7 kinds (a credit of 2 pages, a bundle of 3, which is too many, a scan, a letter of unknown format, a poster past the file limit, a PDF without pages, an empty file), 2 documents, budgets of 3 and 4 units in chunks of 2, 2 places, fairness | ServiceTypeOK, HeldWithinBudget, TooLargeForCause, AcceptedIsReadable, PlacesConserved, WholeOrNothing, OnlyFailureLeavesPages, ReadsHaveClient, EveryReadEnds, LifespanEnds | budgets hold at their limits, documents are read whole or not at all, what goes on calling after its read was left behind by a failed page, places return on every path, and a shutdown at any moment ends with the client closed last |
| MCGraph | 3 documents of which 2 are accepted, text, scan, bare or oversize, costs 1 and 2, a failing provider, calls that may wait without bound, fairness | TypeOK, NeverCleanUnread, EveryDocumentAccountedFor, UsageConserved, TrailIsComplete, RunEnds | report, usage and trail agree with what the branches did |
| MCPage | 2 submissions, 1 slot, fairness | PageTypeOK, PageCoherent, ShownMovesForward, EndIsShown, FormerSessionsEnd | what the page shows belongs together and never goes back, whatever is on the way over which connection |
| MCReuseLeak | 2 submissions of 1 id | WaitingIsExact is **violated** | finding 1 |
| MCReuseTerminal | 2 submissions of 1 id | TerminalIsFinal is **violated** | finding 2 |
| MCReuseOrphan | 2 submissions of 1 id | NoOrphanRun is **violated** | finding 3 |
| MCStreamsGone | 1 session, subscribed twice to 1 case | NoStreamForTheGone is **violated** | finding 4 |
| MCGraphBusy | 1 document, a bounded queue of model calls | ServerBusyIsReported is **violated** | finding 5 |

**Bounds.** `MaxSubmits`, `MaxEvents`, `MaxTime`, `MaxStreams`, `MaxFiles` bound behaviours,
not the program. Three submissions to one slot are the least with which one runs
and two wait (so order and hand-over matter) while the ceilings on queue and
store are met; four on two ids with two slots let an old task, its successor and
two others overlap. `MaxTime = 3` with a retention of one tick lets a record be
fresh, at the limit and too old. `MaxEvents` bounds `Progress` only. Two streams of
one session let one replace the other; the table is keyed by session, so sessions
do not meet. Two accepted documents give every pair of branches in every order,
the third is what exceeds `MaxDocuments`. Two documents of two pages and two places
make pages of both queue, with a failed document's pages among them; a PDF may
have no pages, exactly those allowed or one more, and sizes are such that two files may
meet the case's budget exactly or break it in their last chunk. Two submissions of
the page are a case left and the one moved on to, with the frames of both on the
way. Ids are symmetric in the run that has no liveness and two of them to choose
from. What the proofs of section 5 cover holds without these bounds.

**Fairness.** `WF` on each task's steps: the loop runs what is ready. `WF` on
`Finish`: the pipeline returns or raises, because provider and Textract calls
have client timeouts and bounded retries. `WF` on `DrainEnds`: `aclose` waits
with a timeout; on `CloseReturns`: it awaits the cancelled tasks. `WF` on every
watcher's and stream's steps. For the reader, that some step is taken while one
is ready suffices, since its behaviours are finite; beside it, the exit stack goes
on unwinding once it began, and a run that was cancelled ends once its reads have
(one that was not may take for ever over its models). For the page likewise: a
WebSocket opens or fails to, closes, and delivers while it is open, and cases
begin and end, while any of that can go on; no POST has to be answered and nothing
has to break. Nothing is assumed of callers, of progress events
or of the clock, and nothing obliges the process to shut down.

## 4. Findings

1. **A queue place is lost** (`runner.py:202`). A task cancelled before its first
   step never enters `_run`, so its `finally` does not run and `_waiting` stays
   one too high for good. It takes a deletion of a caller-chosen id before the
   task's first step. With made ids it cannot happen (`QueueIsExact` is proved).
2. **A terminal record changes** (`runner.py:198`). A deleted run records its
   cancellation under its id, which may by then be another submission's. The
   same slip can stamp `finished_at` on a case that is about to run, which
   eviction then takes for finished.
3. **The wrong task is cancelled** (`runner.py:133`). `cancel` takes the first
   task of the name; with an older one still winding down, `discard` forgets the
   record of a run that goes on.
4. **A disconnect misses a stream** (`events.py:145`). The done-callback of a
   replaced stream pops its replacement from the table, so nothing stops it; a
   third subscription to the case doubles it for the same reason.
5. **`server_busy` is never reported** (`graph.py:365`). The steps of the graph
   degrade `ConcurrencyLimitExceeded` like any other failure, so the runner's
   clause for it, and the error code the README lists, are unreachable.

Findings 1 to 3 need chosen ids; they are unreachable with made ids, where
MCRunnerFresh checks the same properties.

Some disagreements are recorded here without a run.

* `models/jobs.py:53` says `error` is "Present only once `status` is `failed`", and
  `CaseStore.cancel` sets it on a cancelled record; `RecordCoherent` states what the
  code does.
* `core/config.py:76` says of `max_document_chars` that "longer documents are
  refused, never truncated"; `ingest` measures supplied text only, so a longer text
  that OCR reads is not refused. The models do not measure text.
* `app.js:225` and `src/backend/README.md:143` have uploads refused while OCR is
  off; `submit_uploads` accepts them, and each document degrades unread
  (`Service`: `Upload` asks nothing of `client`).
* `errors.py:3` says every error leaves with a code; FastAPI's 422 and the 503 of
  `get_runner` carry none. The page shows either as a refusal.

And one observation on the page: a connection given up while it is still opening
reports an error, and its note lands under the case that replaced it
(`FailToOpen`); `PageCoherent` says nothing of that note.

## 5. The proofs

Eight modules of proofs, for every value of the constants that satisfies the
named assumptions of the modules they are about (`StoreAssumption`,
`RunnerAssumption`, `StreamAssumption`, `UploadAssumption`, `ReaderAssumption`,
`GraphAssumption`, `PageAssumption`: bounds are natural numbers,
sets of outcomes are among those the code has, the documents a case may present
are finitely many). Every invariant and every action property that a passing run
checks is the statement of a theorem.

| Module | Theorem | Statement |
|---|---|---|
| CaseRunnerProofs | TypeCorrect, SlotsAreConserved, QueueIsBounded, NoSlotIsIdle | `Spec` implies `[]` of TypeOK, SlotsConserved, QueueBounded, NoSlotIdles |
| | QueueIsExact | `Spec => [](~CallersBringIds => WaitingIsExact)` |
| CaseRecordProofs | RunsHaveRecords, RecordsHaveRuns, RecordsFitTogether, ShutdownLeavesNothing, NoWakeupIsLost | with made ids, `Spec` implies `[]` of RunHasRecord, RecordHasRun, RecordCoherent, ShutdownSettles, NoLostWakeup |
| | TerminalStaysFinal, WatchersMoveForward | with made ids, `Spec` implies TerminalIsFinal, WatcherMovesForward |
| CaseLifecycleProofs | OrderInvariant | with made ids, `Spec => []OrderInv`: first come, first served |
| | RunnerImplementsLifecycle | with made ids, `Spec => Lifecycle!SafeSpec` |
| | OwnersInvariant, RecordsAlwaysHaveRuns, ShutdownAlwaysSettles | with any ids, `Spec` implies `[]` of OwnersInv, RecordHasRun, ShutdownSettles |
| CaseStreamsProofs | StreamsInvariant, NothingAccumulates, FirstStreamsStop | with any ids, `ServiceSpec` implies `[]` of StreamInv, TableForgets, FirstStreamStops |
| | StreamsDisturbNoSlot, StreamsDisturbNoRecord, StreamsMoveForward | under `ServiceSpec` the runner keeps its invariants, and WatcherMovesForward holds |
| ServiceProofs | TypeCorrect, ClientOutlivesReads, NoHalfDocument, NoCallsAfterGivingUp, PlacesAreConserved | `ServiceSpec` implies `[]` of ServiceTypeOK, ReadsHaveClient, WholeOrNothing, OnlyFailureLeavesPages, PlacesConserved |
| | ReadableIsInvariant, BudgetHolds, RefusalsForSizeAreEarned, AcceptedCasesAreReadable | and of ReadableInv, HeldWithinBudget, TooLargeForCause, AcceptedIsReadable |
| CaseGraphProofs | TypeCorrect, CleanMeansRead, NoDocumentIsLost | `Spec` implies `[]` of TypeOK, NeverCleanUnread, EveryDocumentAccountedFor |
| | TrailFollowsBranches, TrailTellsAll, CostsAreInvariant, NoCallIsLost | and of TrailInv, TrailIsComplete, CostInv, UsageConserved |
| CasePageProofs | PageInvariant, PageTypesHold, PageIsCoherent | the page's specification implies `[]` of PageInv, PageTypeOK, PageCoherent |
| | PageMovesForward | and ShownMovesForward |
| ReconciliationToolsProofs | InTimeForBothDeadlines, DaysLateAreTheFewest, WiderToleranceAllowsMore, FloorMirrorsCeiling and two more | what the checks promise, for all arguments |

**The runner.** `TypeOK` is not inductive: that `slots` stays within
`0..MaxConcurrent` when a run releases one follows only from what the others hold,
and that `waiting` does not fall below 0 only from what is queued. The inductive
invariant

    IInv == TypeOK /\ SlotsConserved /\ QueueCounted /\ TasksNamed /\ WatchersNamed

adds the two accounts (slots exactly; the queue as a lower bound, because of
finding 1) and that every task and every watcher in use has an id. Each action is
a lemma. Those that hand slots on share `HandAccounting`, which counts the
handed-out slots of an arbitrary set of waiters; sets are counted with the
library's theorems on finite sets. `NoSlotIdles` is inductive relative to `IInv`: a
hand-over either grants somebody (who will hand on), uses up the slots, or finds
nobody waiting (`HandMoves`), and a newcomer queues only behind a taken semaphore
(`NoHandKeepsBusy`). `WaitingIsExact` needs that no task is cancelled before its
first step (`FirstStepTaken`, which holds when ids are made) and that otherwise
every movement into and out of the queue is matched by the counter (`QueueMoves`).

**Its records**, when the service makes the ids; with chosen ids findings 1 to 3
refute some of these statements. The invariant

    RecInv == TaskPerId /\ OwnRecord /\ AbsentOrHeld /\ RunHeld /\ RecordStands /\ RecordCoherent

ties dictionary and tasks together: an id belongs to one task, a record to the
task it was made for, a task nobody cancelled has its record, and the record
stands where its task does. All steps of an unfinished task are instances of one
lemma (`TaskMoves`): the task moves to a phase, and leaves the records alone or
replaces its own by one that fits. An eviction takes only what is terminal, hence
nothing of an unfinished task (`EvictionsSettled`), and a deletion cancels the one
task whose record it drops (`DiscardKeeps`). That no wakeup is lost needs of all
this only that what is changed without being told is terminal or not there
(`ChangesAreTold`). That watching goes forward needs `SeenIsPast`: what a watcher
holds is a past state of the record under its id, or of one that has gone.

**Its order**, and CaseLifecycle. `OrderInv` says that tasks take their first step
in the order they were made (`BegunInOrder`), that whoever was granted a slot has
waited longer than anybody who still waits (`GrantedFirst`), and that a case that
is still held is cancelled by shutting down only, and then all are. Under the
refinement mapping `SubmissionStatus` every step of the runner is then a step of
CaseLifecycle or changes nothing a caller sees: `TurnTaken` shows that a run is
marked only in its turn and while fewer than `MaxConcurrent` run (counting the
slots held), `EndImplements` that it ends in one outcome, `SubmitImplements` and
`DiscardImplements` that records leave only when settled or deleted.

**Ids used again.** `RecordHasRun` and `ShutdownSettles` hold whoever makes the
ids, for another reason. `OwnersInv` gives up that a record changes by its own
task alone; it says that a record is of the *last* submission of its id
(`RecordOfNewest`), that shutting down alone cancels the task of a record still
held (`OwnTaskKept`), and that once this task has left the queue, nothing of an
earlier submission of the id that could still mark the record as running is
behind it, unless it was cancelled (`NoneLeftBehind`). This is where the order
matters: an earlier submission that still waited would have been served first
(`NoneOvertaken`). A record may be settled early by another's cancellation, as
finding 2 has it, but what its own task settled stays settled.

**The streams.** `StreamInv` says which stream an entry of the table may hold, and
that the first stream of a session and case that nothing stopped is the one the
table holds, with no other of its key: only a replacement's done-callback could
take the entry away, and replacing stops it. This is the exact reach of finding
4. The theorems on the whole service compose: a step of it is a step of
CaseRunner, or a stream that breaks off (`StreamsWatch`), which leaves tasks and
records alone and a watcher that waits for nothing (`BrokenKeeps`); every
invariant of the runner is therefore one of the service.

**The service.** `ReadInv` says of each document what its read tells of its pages,
and of the process what its stage tells of run and client: pages that go on though
their read is over have a failed sibling, which stays failed; reads belong to a
running run, the runner is not closed while there is one, and the client is closed
only after it. `PlacesConserved` is inductive beside it, counting the pages that
hold a place; `UploadInv` bounds the budget of an upload and needs neither.
`ReadableInv` adds what was kept of the upload: its documents are files of it, in
order, none empty or past its limit, all of a format the reader knows, and their
bytes are what was taken off the budget.

**The graph.** `GraphInv` says what the branch of a document carries as it arrives
at each step (no payload and no error before it is collected, then one of the two;
a reason from the step that could not go on; nothing spent on what was not read),
and what the join makes of all of them. `TrailInv` adds that the stages the trail
tells of a document are those its branch has been through, `CostInv` that what was
spent is what the documents, and the report, say they cost.

**The page.** That what arrives fits what is shown depends on everything that is on
its way. `PageInv` speaks of the frames of each connection: which requests may be
under way in each of its states, that the handshake is over before the first record
is sent, that records arrive in the order the case went through its statuses and
none after a final one, and that no connection but the page's own delivers. One
lemma per action; those that queue a frame share `JoinedUp`, those that take one
off `TailShifts`.

**The tools.** The checks are linear in all but one product, so their statements
are arithmetic over lemmas that give each verdict in the reader's terms. No run
checks them: they are pure functions of unbounded arguments, which the proofs
settle for all of them.

**Folds.** `HeldWithinBudget`, `TrailIsComplete` and `UsageConserved` fold over
sequences and functions. The library's induction theorems cannot be used (they take
an operator as a parameter), but a set of natural numbers that contains 0 and with
each number its successor contains them all, and that follows from the well-founded
order. Lemmas proved with such sets unfold the three folds one file, one event or
one document at a time; everything else is then ordinary invariance.

Only model-checked: liveness and fairness, as `ENABLED` is outside the proof system
(`RunEnds`, `EverySubmissionEnds`, `CloseEnds`, `EveryWatchEnds`,
`EveryStreamEnds`, `EveryReadEnds`, `LifespanEnds`, `EndIsShown`,
`FormerSessionsEnd`, and of `FairlyImplementsLifecycle` its fairness).

## 6. Not modelled, and why

* A `subscribe` that python-socketio handles after its session's `disconnect`:
  the order is decided inside that library. A malformed subscription changes no
  state.
* The texts of prompts, extraction schemas, the construction of agents, loading of
  settings, wording and logging: data and I/O, constants to everything else; that
  loading the prompts may fail is a step of Service. The limiter on model calls is
  pydantic_ai's; CaseGraph has its exception, where its queue is bounded.
* The length of documents: text is reduced to whether there is any.
* A pipeline that swallows its cancellation: `AbortRun` is its ending. Calls of
  pages left behind on a client already closed: they can only fail.
* Choosing the region of the client, joining the lines of a page, the sentences of
  a verdict.
* Middleware, mounts, `get` and `health`: they change nothing.
* On the page: editing the form, the samples, the pill that shows health. The
  notebook, the deployment files and the sample documents.

## 7. The plan

Done: CaseStore, CaseRunner, CaseLifecycle, CaseStreams, CaseGraph, Uploads,
TextractReader, Service, CasePage, ReconciliationTools, their runs and the proofs
above. What is left, in the order of its worth:

1. Proofs beyond what the runs check: the page over CaseRunner itself (it uses the
   promise of CaseLifecycle; that the runner keeps it is proved on its own), and
   what is left of NoLostWakeup when ids are used again.
2. Reads within a case: Service composed with CaseGraph, each `Ocr` of the one a
   read of the other.
3. The length of documents in CaseGraph, so that the second disagreement above
   becomes a property.

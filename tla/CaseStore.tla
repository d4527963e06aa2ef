------------------------------ MODULE CaseStore ------------------------------
(* services/store.py: the dictionary of submitted cases, and the broadcast that
   wakes whoever watches one.

   The store's lock is never held across a suspension, so every method is one
   atomic step of the event loop and is modelled as one action (or as the
   conjunct of the action of its caller).  A record is replaced, never mutated;
   the dictionary entry `_LiveCase` is identified by `sub`, the submission that
   created it, because the same id may be created again after it was dropped.

   `changed`, the event of an entry, is replaced and set by every change.  A
   watcher holds the event it captured together with the record it read; `woken`
   says whether that event has been set since. *)
EXTENDS Integers, FiniteSets

CONSTANTS CaseIds,      \* the ids callers may name
          NoCase,       \* no id: a watcher or a task not in use yet
          MaxSubmits,   \* bound: submissions in a behaviour
          MaxRetained,  \* settings.max_retained_cases
          Retention,    \* settings.case_retention_seconds, in ticks of the clock
          MaxEvents,    \* bound: audit events of one record
          MaxTime,      \* bound: the clock
          Watchers      \* the tasks that iterate `watch`

ASSUME StoreAssumption ==
    /\ NoCase \notin CaseIds
    /\ MaxSubmits \in Nat
    /\ MaxRetained \in Nat
    /\ Retention \in Nat
    /\ MaxEvents \in Nat
    /\ MaxTime \in Nat \ {0}

VARIABLES cases,  \* id -> record, `Absent` where the dictionary has no entry
          now,    \* datetime.now(UTC)
          watch   \* watcher -> where its iteration stands

storeVars == <<cases, now, watch>>

Submits == 1..MaxSubmits
Settled == {"succeeded", "failed", "cancelled"}
Statuses == {"queued", "running"} \cup Settled
ErrorCodes == {"invalid_case", "usage_limit_exceeded", "server_busy",
               "model_unavailable", "internal_error", "cancelled"}

(* A record, with the submission `sub` it was created for.  `finished_at` is 0
   while unset, `result` is the run whose report it carries (0: None) and
   `error` its error_code.  `events` counts the audit trail. *)
Record ==
    [status: Statuses \cup {"absent"}, sub: Submits \cup {0},
     events: 0..MaxEvents, finished_at: 0..MaxTime,
     result: Submits \cup {0}, error: ErrorCodes \cup {"none"}]

Absent == [status |-> "absent", sub |-> 0, events |-> 0, finished_at |-> 0,
           result |-> 0, error |-> "none"]

Queued(sub) == [Absent EXCEPT !.status = "queued", !.sub = sub]

Held(c) == cases[c].status # "absent"
IsTerminal(record) == record.status \in Settled

(* ---------------------------- watching a case ---------------------------- *)

WatchPhases == {"idle", "starting", "emitting", "waiting",
                "done", "lost", "stopped"}

Watch == [phase: WatchPhases, case: CaseIds \cup {NoCase}, seen: Record,
          woken: BOOLEAN]

\* The watchers holding the current event of the entry under id c.
HoldsEvent(w, c) ==
    /\ watch[w].phase \in {"emitting", "waiting"}
    /\ watch[w].case = c
    /\ watch[w].seen.sub = cases[c].sub

\* Faulty Wake: only those already waiting are told, as a Condition would.
WakeTheParked(c) ==
    watch' = [w \in Watchers |->
                IF HoldsEvent(w, c) /\ watch[w].phase = "waiting"
                THEN [watch[w] EXCEPT !.woken = TRUE]
                ELSE watch[w]]

\* woken.set(): every watcher that holds the entry's current event.
Wake(c) ==
    watch' = [w \in Watchers |->
                IF HoldsEvent(w, c) THEN [watch[w] EXCEPT !.woken = TRUE]
                                    ELSE watch[w]]

(* `watch` is called: nothing is read before the iterating task's first step. *)
BeginWatch(w, c) ==
    /\ watch[w].phase = "idle"
    /\ watch' = [watch EXCEPT ![w] = [@ EXCEPT !.phase = "starting", !.case = c]]

(* One pass of the loop up to its `yield`: at the first step of the task, on
   being woken, or at once when the event was set while the record was being
   delivered.  No entry under the id raises CaseNotFound. *)
Look(w) ==
    LET c == watch[w].case IN
    /\ \/ watch[w].phase = "starting"
       \/ /\ watch[w].phase = "emitting"
          /\ ~IsTerminal(watch[w].seen)
          /\ watch[w].woken
       \/ watch[w].phase = "waiting" /\ watch[w].woken
    /\ watch' = [watch EXCEPT ![w] =
                    IF Held(c)
                    THEN [@ EXCEPT !.phase = "emitting", !.seen = cases[c],
                                   !.woken = FALSE]
                    ELSE [@ EXCEPT !.phase = "lost"]]

(* The record was delivered and the event is not set yet: wait for it. *)
Park(w) ==
    /\ watch[w].phase = "emitting"
    /\ ~IsTerminal(watch[w].seen)
    /\ ~watch[w].woken
    /\ watch' = [watch EXCEPT ![w].phase = "waiting"]

(* A terminal record was delivered: the iteration ends. *)
EndWatch(w) ==
    /\ watch[w].phase = "emitting"
    /\ IsTerminal(watch[w].seen)
    /\ watch' = [watch EXCEPT ![w].phase = "done"]

WatchStep(w) == Look(w) \/ Park(w) \/ EndWatch(w)

(* --------------------------- changing a record --------------------------- *)

(* _publish: the record is replaced and everyone watching is woken.  Called for
   an id the store holds; what happens otherwise is the caller's business. *)
Publish(c, record) ==
    /\ cases' = [cases EXCEPT ![c] = record]
    /\ Wake(c)

MarkRunning(c) == Publish(c, [cases[c] EXCEPT !.status = "running"])

AppendEvent(c) == Publish(c, [cases[c] EXCEPT !.events = @ + 1])

\* Faulty Succeed: the record is built anew, without the trail it had.
SucceedAnew(c, n) ==
    Publish(c, [cases[c] EXCEPT !.status = "succeeded", !.finished_at = now,
                                !.result = n, !.events = 0])

\* Faulty Cancel: no error is recorded.
CancelSilently(c) ==
    Publish(c, [cases[c] EXCEPT !.status = "cancelled", !.finished_at = now])

\* _finish: only the fields the caller names change, besides the two it stamps.
Succeed(c, n) ==
    Publish(c, [cases[c] EXCEPT !.status = "succeeded", !.finished_at = now,
                                !.result = n])

Fail(c, code) ==
    Publish(c, [cases[c] EXCEPT !.status = "failed", !.finished_at = now,
                                !.error = code])

Cancel(c) ==
    Publish(c, [cases[c] EXCEPT !.status = "cancelled", !.finished_at = now,
                                !.error = "cancelled"])

\* Faulty Forget: the watchers are not released.
ForgetSilently(c) ==
    /\ cases' = [cases EXCEPT ![c] = Absent]
    /\ UNCHANGED watch

(* forget: the entry goes, its watchers are released. *)
Forget(c) ==
    /\ cases' = [cases EXCEPT ![c] = Absent]
    /\ Wake(c)

(* -------------------------------- eviction ------------------------------- *)

\* Faulty Finished: every case counts, a running one as the oldest.
AnyCase == {c \in CaseIds : Held(c)}

Finished == {c \in CaseIds : cases[c].finished_at # 0}
TooOld == {c \in Finished : cases[c].finished_at + Retention < now}
OverCeiling == Cardinality({c \in CaseIds : Held(c)}) - MaxRetained

(* What _evict may delete.  The finished cases are walked oldest first, and one
   goes when it is too old or its position is below the excess: a prefix of
   that order, as long as the longer of the two.  Cases that finished in one
   tick of the model's clock are in either order. *)
Evictions ==
    {V \in SUBSET Finished :
        /\ TooOld \subseteq V
        /\ OverCeiling <= Cardinality(V) \/ V = Finished
        /\ V = TooOld \/ Cardinality(V) <= OverCeiling
        /\ \A v \in V, f \in Finished \ V :
              cases[v].finished_at <= cases[f].finished_at}

(* The entries go without their event being set. *)
Evicted(V) == [c \in CaseIds |-> IF c \in V THEN Absent ELSE cases[c]]

(* create, for an id that is free once the store has evicted. *)
Create(c, sub) ==
    \E V \in Evictions :
        /\ Evicted(V)[c] = Absent
        /\ cases' = [Evicted(V) EXCEPT ![c] = Queued(sub)]
        /\ UNCHANGED watch

(* create, for an id still held: CaseExists, after the eviction was done. *)
Conflict(c) ==
    \E V \in Evictions :
        /\ Evicted(V)[c] # Absent
        /\ cases' = Evicted(V)
        /\ UNCHANGED watch

\* The wall clock is read, never owned: it may be set back as well as go on.
Tick ==
    /\ now' \in 1..MaxTime \ {now}
    /\ UNCHANGED <<cases, watch>>

StoreInit ==
    /\ cases = [c \in CaseIds |-> Absent]
    /\ now = 1
    /\ watch = [w \in Watchers |->
                  [phase |-> "idle", case |-> NoCase, seen |-> Absent,
                   woken |-> FALSE]]

(* ------------------------------- properties ------------------------------ *)

StoreTypeOK ==
    /\ cases \in [CaseIds -> Record]
    /\ now \in 1..MaxTime
    /\ watch \in [Watchers -> Watch]
=============================================================================

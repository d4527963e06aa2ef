-------------------------- MODULE CaseRunnerProofs --------------------------
(* Theorems about CaseRunner, for every value of its constants.

   The inductive invariant is TypeOK together with the accounting of slots and
   of the queue and with the fact that every task was made under an id: the
   range of `slots` and `waiting` follows only from what they count. *)
EXTENDS CaseRunner, TLAPS, FiniteSetTheorems

TasksNamed == \A n \in Submits : phase[n] # "none" => caseOf[n] \in CaseIds
WatchersNamed == \A w \in Watchers : watch[w].phase # "idle" => watch[w].case \in CaseIds
QueueCounted == Cardinality(InQueue) <= waiting

IInv == TypeOK /\ SlotsConserved /\ QueueCounted /\ TasksNamed /\ WatchersNamed

(* ------------------------------ finite sets ------------------------------- *)

(* The sets of submissions the counters count are finite. *)
LEMMA SubmitsFinite ==
    /\ \A S \in SUBSET Submits : IsFiniteSet(S) /\ Cardinality(S) \in Nat
<1>1. IsFiniteSet(Submits)
  BY StoreAssumption, FS_Interval DEF Submits
<1>2. QED BY <1>1, FS_Subset, FS_CardinalityType

(* Taking one submission out of a set, or putting one in. *)
LEMMA OneLess ==
    ASSUME NEW S \in SUBSET Submits, NEW n \in S
    PROVE  Cardinality(S \ {n}) = Cardinality(S) - 1
  BY SubmitsFinite, FS_RemoveElement

LEMMA OneMore ==
    ASSUME NEW S \in SUBSET Submits, NEW n \in Submits \ S
    PROVE  Cardinality(S \cup {n}) = Cardinality(S) + 1
  BY SubmitsFinite, FS_AddElement

LEMMA DisjointUnion ==
    ASSUME NEW S \in SUBSET Submits, NEW T \in SUBSET Submits, S \cap T = {}
    PROVE  Cardinality(S \cup T) = Cardinality(S) + Cardinality(T)
<1>1. Cardinality(S \cap T) = 0
  BY FS_EmptySet
<1>2. QED BY <1>1, SubmitsFinite, FS_Union

(* -------------------------------- the store ------------------------------- *)

(* Replacing a record keeps the store and its watchers well formed. *)
LEMMA PublishType ==
    ASSUME StoreTypeOK, NEW c \in CaseIds, NEW r \in Record, Publish(c, r),
           now' = now
    PROVE  StoreTypeOK'
<1>1. cases' \in [CaseIds -> Record]
  BY DEF StoreTypeOK, Publish
<1>2. watch' \in [Watchers -> Watch]
  BY DEF StoreTypeOK, Publish, Wake, Watch
<1>3. QED BY <1>1, <1>2 DEF StoreTypeOK

LEMMA AbsentType == Absent \in Record
  BY StoreAssumption DEF Absent, Record, Submits

(* What _finish and _update change in a record leaves it a record. *)
LEMMA RecordFields ==
    ASSUME NEW r \in Record
    PROVE  /\ [r EXCEPT !.status = "running"] \in Record
           /\ \A n \in Submits, t \in 1..MaxTime :
                 [r EXCEPT !.status = "succeeded", !.finished_at = t, !.result = n]
                    \in Record
           /\ \A code \in ErrorCodes, t \in 1..MaxTime :
                 [r EXCEPT !.status = "failed", !.finished_at = t, !.error = code]
                    \in Record
           /\ \A code \in ErrorCodes, t \in 1..MaxTime :
                 [r EXCEPT !.status = "cancelled", !.finished_at = t, !.error = code]
                    \in Record
           /\ r.events < MaxEvents => [r EXCEPT !.events = @ + 1] \in Record
<1>1. {"running", "succeeded", "failed", "cancelled"} \subseteq Statuses
  BY DEF Statuses, Settled
<1>2. \A t \in 1..MaxTime : t \in 0..MaxTime
  BY StoreAssumption
<1>3. [r EXCEPT !.status = "running"] \in Record
  BY <1>1 DEF Record
<1>4. \A n \in Submits, t \in 1..MaxTime :
        [r EXCEPT !.status = "succeeded", !.finished_at = t, !.result = n] \in Record
  BY <1>1, <1>2 DEF Record
<1>5. \A code \in ErrorCodes, t \in 1..MaxTime :
        [r EXCEPT !.status = "failed", !.finished_at = t, !.error = code] \in Record
  BY <1>1, <1>2 DEF Record
<1>6. \A code \in ErrorCodes, t \in 1..MaxTime :
        [r EXCEPT !.status = "cancelled", !.finished_at = t, !.error = code] \in Record
  BY <1>1, <1>2 DEF Record
<1>7. r.events < MaxEvents => [r EXCEPT !.events = @ + 1] \in Record
  <2>1. r.events \in 0..MaxEvents
    BY DEF Record
  <2>2. r.events < MaxEvents => r.events + 1 \in 0..MaxEvents
    BY <2>1, StoreAssumption
  <2>3. QED BY <2>2 DEF Record
<1>8. QED BY <1>3, <1>4, <1>5, <1>6, <1>7

(* Every way _run records something keeps the store well formed. *)
LEMMA OutcomeType ==
    ASSUME StoreTypeOK, NEW c \in CaseIds, NEW n \in Submits, now' = now
    PROVE  /\ MarkRunning(c) => StoreTypeOK'
           /\ Cancel(c) => StoreTypeOK'
           /\ Succeed(c, n) => StoreTypeOK'
           /\ \A code \in ErrorCodes : Fail(c, code) => StoreTypeOK'
           /\ cases[c].events < MaxEvents /\ AppendEvent(c) => StoreTypeOK'
<1> cases[c] \in Record /\ now \in 1..MaxTime /\ "cancelled" \in ErrorCodes
  BY DEF StoreTypeOK, ErrorCodes
<1>1. MarkRunning(c) => StoreTypeOK'
  BY PublishType, RecordFields DEF MarkRunning
<1>2. Cancel(c) => StoreTypeOK'
  BY PublishType, RecordFields DEF Cancel
<1>3. Succeed(c, n) => StoreTypeOK'
  BY PublishType, RecordFields DEF Succeed
<1>4. \A code \in ErrorCodes : Fail(c, code) => StoreTypeOK'
  BY PublishType, RecordFields DEF Fail
<1>5. cases[c].events < MaxEvents /\ AppendEvent(c) => StoreTypeOK'
  BY PublishType, RecordFields DEF AppendEvent
<1>6. QED BY <1>1, <1>2, <1>3, <1>4, <1>5

LEMMA ForgetType ==
    ASSUME StoreTypeOK, NEW c \in CaseIds, Forget(c), now' = now
    PROVE  StoreTypeOK'
<1>1. Publish(c, Absent)
  BY DEF Forget, Publish
<1>2. QED BY <1>1, AbsentType, PublishType

LEMMA CreateType ==
    ASSUME StoreTypeOK, NEW c \in CaseIds, NEW n \in Submits, now' = now
    PROVE  /\ Create(c, n) => StoreTypeOK'
           /\ Conflict(c) => StoreTypeOK'
<1>1. \A V \in Evictions : Evicted(V) \in [CaseIds -> Record]
  BY AbsentType DEF StoreTypeOK, Evicted
<1>2. Queued(n) \in Record
  BY AbsentType, "queued" \in Statuses DEF Queued, Record, Statuses
<1>3. Create(c, n) => StoreTypeOK'
  BY <1>1, <1>2 DEF Create, StoreTypeOK
<1>4. Conflict(c) => StoreTypeOK'
  BY <1>1 DEF Conflict, StoreTypeOK
<1>5. QED BY <1>3, <1>4

(* A step of a watcher keeps the watchers well formed. *)
LEMMA WatchType ==
    ASSUME StoreTypeOK, WatchersNamed, NEW w \in Watchers, UNCHANGED <<cases, now>>,
           (\E c \in CaseIds : BeginWatch(w, c)) \/ WatchStep(w)
    PROVE  StoreTypeOK' /\ WatchersNamed'
<1> USE DEF StoreTypeOK, WatchersNamed, Watch, WatchPhases
<1>1. CASE \E c \in CaseIds : BeginWatch(w, c)
  <2>1. PICK c \in CaseIds : BeginWatch(w, c)
    BY <1>1
  <2>2. watch' \in [Watchers -> Watch]
    BY <2>1 DEF BeginWatch
  <2>3. QED BY <2>1, <2>2 DEF BeginWatch
<1>2. CASE Look(w)
  <2>1. PICK c \in CaseIds : c = watch[w].case
    BY <1>2 DEF Look
  <2>2. cases[c] \in Record
    OBVIOUS
  <2>3. CASE Held(c)
    BY <1>2, <2>1, <2>2, <2>3 DEF Look
  <2>4. CASE ~Held(c)
    BY <1>2, <2>1, <2>4 DEF Look
  <2>5. QED BY <2>3, <2>4
<1>3. CASE Park(w)
  BY <1>3 DEF Park
<1>4. CASE EndWatch(w)
  BY <1>4 DEF EndWatch
<1>5. QED BY <1>1, <1>2, <1>3, <1>4 DEF WatchStep

(* ------------------------- slots and the queue ---------------------------- *)

(* Handing the slots that are free to the longest waiters, while submission n
   leaves the queue or its slot, keeps both accounts. *)
LEMMA HandAccounting ==
    ASSUME TypeOK,
           NEW n \in Submits, n \notin Pending,
           NEW to \in {"running", "done"},
           NEW free \in Nat, NEW wake \in Nat, wake <= free,
           free + Cardinality(Holding \ {n}) + (IF to = "running" THEN 1 ELSE 0)
               = MaxConcurrent,
           Hand(n, to, free, wake)
    PROVE  /\ SlotsConserved'
           /\ slots' \in 0..MaxConcurrent
           /\ phase' \in [Submits -> Phases]
           /\ InQueue' = InQueue \ {n}
           /\ \A m \in Submits : phase'[m] # "none" => phase[m] # "none" \/ m = n
<1>1. PICK G \in Longest(wake) :
          /\ slots' = free - Cardinality(G)
          /\ phase' = [m \in Submits |-> IF m = n THEN to
                                         ELSE IF m \in G THEN "granted"
                                         ELSE phase[m]]
  BY DEF Hand
<1>2. G \in SUBSET Pending /\ Cardinality(G) <= wake
  BY DEF Longest
<1>3. Pending \subseteq Submits /\ \A m \in Pending : phase[m] = "waiting"
  BY DEF Pending
<1>4. G \in SUBSET Submits /\ n \notin G /\ \A m \in G : phase[m] = "waiting"
  BY <1>2, <1>3
<1>5. phase \in [Submits -> Phases]
  BY DEF TypeOK
<1>6. phase' \in [Submits -> Phases]
  BY <1>1, <1>5 DEF Phases
<1>7. InQueue' = InQueue \ {n}
  BY <1>1, <1>4, <1>5 DEF InQueue, In
<1>8. Holding' = IF to = "running" THEN ((Holding \ {n}) \cup G) \cup {n}
                                   ELSE (Holding \ {n}) \cup G
  BY <1>1, <1>4, <1>5 DEF Holding, In
<1>9. Holding \in SUBSET Submits /\ Holding \cap G = {}
  BY <1>4 DEF Holding, In
<1>10. Cardinality((Holding \ {n}) \cup G) = Cardinality(Holding \ {n}) + Cardinality(G)
  BY <1>4, <1>9, DisjointUnion
<1>11. Cardinality(Holding') = Cardinality(Holding \ {n}) + Cardinality(G)
                                 + (IF to = "running" THEN 1 ELSE 0)
  <2>1. CASE to = "running"
    <3>1. Cardinality(((Holding \ {n}) \cup G) \cup {n})
            = Cardinality((Holding \ {n}) \cup G) + 1
      BY <1>4, <1>9, OneMore
    <3>2. Cardinality(Holding \ {n}) \in Nat /\ Cardinality(G) \in Nat
      BY <1>4, <1>9, SubmitsFinite
    <3>3. QED BY <2>1, <3>1, <3>2, <1>8, <1>10
  <2>2. CASE to # "running"
    <3>1. Cardinality(Holding \ {n}) \in Nat /\ Cardinality(G) \in Nat
      BY <1>4, <1>9, SubmitsFinite
    <3>2. QED BY <2>2, <3>1, <1>8, <1>10
  <2>3. QED BY <2>1, <2>2
<1>12. Cardinality(Holding \ {n}) \in Nat /\ Cardinality(G) \in Nat
  BY <1>4, <1>9, SubmitsFinite
<1>13. slots' + Cardinality(Holding') = MaxConcurrent
  BY <1>1, <1>11, <1>12, RunnerAssumption
<1>14. slots' \in 0..MaxConcurrent
  BY <1>1, <1>2, <1>12, RunnerAssumption
<1>15. \A m \in Submits : phase'[m] # "none" => phase[m] # "none" \/ m = n
  BY <1>1, <1>4
<1>16. QED BY <1>6, <1>7, <1>13, <1>14, <1>15 DEF SlotsConserved

(* A run that ends inside the pipeline gives its slot back. *)
LEMMA ReleaseAccounting ==
    ASSUME IInv, NEW n \in Submits, phase[n] = "running", Release(n)
    PROVE  /\ SlotsConserved'
           /\ slots' \in 0..MaxConcurrent
           /\ phase' \in [Submits -> Phases]
           /\ InQueue' = InQueue
           /\ \A m \in Submits : phase'[m] # "none" => phase[m] # "none" \/ m = n
<1>1. n \in Holding /\ Holding \in SUBSET Submits /\ n \notin Pending /\ n \notin InQueue
  BY DEF Holding, In, Pending, InQueue
<1>2. Cardinality(Holding \ {n}) = Cardinality(Holding) - 1
  BY <1>1, OneLess
<1>3. slots \in Nat /\ Cardinality(Holding) \in Nat
  BY <1>1, SubmitsFinite, RunnerAssumption DEF IInv, TypeOK
<1>4. slots + 1 + Cardinality(Holding \ {n}) + 0 = MaxConcurrent
  BY <1>2, <1>3 DEF IInv, SlotsConserved
<1>5. QED BY <1>1, <1>3, <1>4, HandAccounting DEF Release, IInv

(* A submission in the queue has been counted. *)
LEMMA QueueShrinks ==
    ASSUME IInv, NEW n \in InQueue
    PROVE  /\ waiting - 1 \in 0..MaxQueued
           /\ Cardinality(InQueue \ {n}) <= waiting - 1
<1>1. InQueue \in SUBSET Submits
  BY DEF InQueue, In
<1>2. Cardinality(InQueue \ {n}) = Cardinality(InQueue) - 1
  BY <1>1, OneLess
<1>3. Cardinality(InQueue \ {n}) \in Nat
  BY <1>1, SubmitsFinite
<1>4. Cardinality(InQueue) \in Nat
  BY <1>1, SubmitsFinite
<1>5. QED BY <1>2, <1>3, <1>4, RunnerAssumption DEF IInv, TypeOK, QueueCounted

(* What a step that leaves the runner's own variables alone preserves. *)
LEMMA StoreOnly ==
    ASSUME IInv, StoreTypeOK', WatchersNamed',
           UNCHANGED <<phase, caseOf, slots, waiting>>,
           cancelling' \in [Submits -> BOOLEAN],
           closing' \in {"open", "draining", "cancelling", "closed"}
    PROVE  IInv'
  BY DEF IInv, TypeOK, SlotsConserved, QueueCounted, TasksNamed,
         Holding, InQueue, In

(* Recording something never touches what the watchers are watching. *)
LEMMA PublishNamed ==
    ASSUME StoreTypeOK, WatchersNamed, NEW c \in CaseIds, NEW r, Publish(c, r)
    PROVE  WatchersNamed'
  BY DEF WatchersNamed, Publish, Wake, StoreTypeOK, Watch

LEMMA OutcomeNamed ==
    ASSUME StoreTypeOK, WatchersNamed, NEW c \in CaseIds, NEW n \in Submits
    PROVE  /\ MarkRunning(c) => WatchersNamed'
           /\ Cancel(c) => WatchersNamed'
           /\ Succeed(c, n) => WatchersNamed'
           /\ \A code \in ErrorCodes : Fail(c, code) => WatchersNamed'
           /\ AppendEvent(c) => WatchersNamed'
           /\ Forget(c) => WatchersNamed'
<1>1. Forget(c) => Publish(c, Absent)
  BY DEF Forget, Publish
<1>2. QED BY <1>1, PublishNamed DEF MarkRunning, Cancel, Succeed, Fail, AppendEvent

LEMMA RecordCancelledType ==
    ASSUME IInv, NEW n \in Submits, phase[n] # "none", RecordCancelled(n), now' = now
    PROVE  StoreTypeOK' /\ WatchersNamed'
<1>1. StoreTypeOK /\ WatchersNamed /\ caseOf[n] \in CaseIds
  BY DEF IInv, TypeOK, TasksNamed
<1>2. CASE Held(caseOf[n])
  BY <1>1, <1>2, OutcomeType, OutcomeNamed DEF RecordCancelled
<1>3. CASE ~Held(caseOf[n])
  BY <1>1, <1>3 DEF RecordCancelled, StoreTypeOK, WatchersNamed
<1>4. QED BY <1>2, <1>3

(* The outcome a run records is one of the modelled records. *)
LEMMA RecordOutcomeType ==
    ASSUME IInv, NEW n \in Submits, phase[n] # "none", NEW ending \in Endings,
           RecordOutcome(n, ending), now' = now
    PROVE  StoreTypeOK' /\ WatchersNamed'
<1>1. StoreTypeOK /\ WatchersNamed /\ caseOf[n] \in CaseIds
  BY DEF IInv, TypeOK, TasksNamed
<1>2. CASE ending = "report"
  BY <1>1, <1>2, OutcomeType, OutcomeNamed DEF RecordOutcome
<1>3. CASE ending = "RunCancelled"
  BY <1>1, <1>3, OutcomeType, OutcomeNamed DEF RecordOutcome
<1>4. CASE ending \notin {"report", "RunCancelled"}
  <2>1. ending \in DOMAIN FailureCode
    BY <1>4, RunnerAssumption
  <2>2. FailureCode[ending] \in ErrorCodes
    BY <2>1 DEF FailureCode, ErrorCodes
  <2>3. QED BY <1>1, <1>4, <2>2, OutcomeType, OutcomeNamed DEF RecordOutcome
<1>5. QED BY <1>2, <1>3, <1>4

(* -------------------------- the inductive invariant ----------------------- *)

LEMMA InitHolds == Init => IInv
<1> SUFFICES ASSUME Init PROVE IInv
  OBVIOUS
<1> USE DEF Init, StoreInit
<1>1. StoreTypeOK
  BY AbsentType, StoreAssumption DEF StoreTypeOK, Watch, WatchPhases
<1>2. TypeOK
  BY <1>1, RunnerAssumption DEF TypeOK, Phases
<1>3. Holding = {} /\ InQueue = {}
  BY DEF Holding, InQueue, In
<1>4. SlotsConserved /\ QueueCounted
  BY <1>3, FS_EmptySet, RunnerAssumption DEF SlotsConserved, QueueCounted
<1>5. TasksNamed /\ WatchersNamed
  BY DEF TasksNamed, WatchersNamed
<1>6. QED BY <1>2, <1>4, <1>5 DEF IInv

LEMMA SubmitStep ==
    ASSUME IInv, NEW n \in Submits, NEW c \in CaseIds, Submit(n, c)
    PROVE  IInv'
<1> USE DEF Submit, IInv, TypeOK, IsNext
<1>1. StoreTypeOK'
  BY CreateType
<1>2. WatchersNamed'
  BY DEF Create, WatchersNamed
<1>3. TasksNamed'
  BY DEF TasksNamed
<1>4. InQueue' = InQueue \cup {n} /\ n \notin InQueue /\ InQueue \in SUBSET Submits
  BY DEF InQueue, In
<1>5. Holding' = Holding
  BY DEF Holding, In
<1>6. Cardinality(InQueue') = Cardinality(InQueue) + 1
  BY <1>4, OneMore
<1>7. Cardinality(InQueue) \in Nat
  BY <1>4, SubmitsFinite
<1>8. QueueCounted'
  BY <1>6, <1>7 DEF QueueCounted
<1>9. waiting' \in 0..MaxQueued
  BY RunnerAssumption DEF Admitting
<1>10. SlotsConserved'
  BY <1>5 DEF SlotsConserved
<1>11. phase' \in [Submits -> Phases] /\ caseOf' \in [Submits -> CaseIds \cup {NoCase}]
  BY DEF Phases
<1>12. QED BY <1>1, <1>2, <1>3, <1>8, <1>9, <1>10, <1>11

LEMMA StartStep ==
    ASSUME IInv, NEW n \in Submits, Start(n)
    PROVE  IInv'
<1> USE DEF IInv, TypeOK, IsNext
<1>1. caseOf[n] \in CaseIds /\ phase[n] = "created"
  BY DEF Start, TasksNamed
<1>2. n \in InQueue /\ n \notin Holding /\ Holding \in SUBSET Submits
      /\ InQueue \in SUBSET Submits
  BY <1>1 DEF InQueue, Holding, In
<1>3. UNCHANGED <<now, caseOf, cancelling, closing>>
  BY DEF Start
<1>4. phase' \in [Submits -> Phases] /\ TasksNamed'
  BY <1>1, <1>3 DEF Start, TasksNamed, Phases
<1>5. CASE phase' = [phase EXCEPT ![n] = "waiting"] /\ UNCHANGED <<cases, watch, slots, waiting>>
  <2>1. InQueue' = InQueue /\ Holding' = Holding
    BY <1>1, <1>5 DEF InQueue, Holding, In
  <2>2. StoreTypeOK' /\ WatchersNamed'
    BY <1>3, <1>5 DEF StoreTypeOK, WatchersNamed
  <2>3. QED BY <1>3, <1>4, <1>5, <2>1, <2>2 DEF SlotsConserved, QueueCounted
<1>6. CASE /\ ~Locked
           /\ phase' = [phase EXCEPT ![n] = "running"]
           /\ slots' = slots - 1
           /\ waiting' = waiting - 1
           /\ MarkRunning(caseOf[n])
  <2>1. InQueue' = InQueue \ {n} /\ Holding' = Holding \cup {n}
    BY <1>1, <1>6 DEF InQueue, Holding, In
  <2>2. StoreTypeOK' /\ WatchersNamed'
    BY <1>1, <1>3, <1>6, OutcomeType, OutcomeNamed
  <2>3. slots' \in 0..MaxConcurrent
    BY <1>6, RunnerAssumption DEF Locked
  <2>4. Cardinality(Holding') = Cardinality(Holding) + 1 /\ Cardinality(Holding) \in Nat
    BY <1>2, <2>1, OneMore, SubmitsFinite
  <2>5. SlotsConserved'
    BY <1>6, <2>4, RunnerAssumption DEF SlotsConserved
  <2>6. QueueCounted' /\ waiting' \in 0..MaxQueued
    BY <1>2, <1>6, <2>1, QueueShrinks DEF QueueCounted
  <2>7. QED BY <1>3, <1>4, <2>2, <2>3, <2>5, <2>6
<1>7. CASE /\ phase' = [phase EXCEPT ![n] = "done"]
           /\ waiting' = waiting - 1
           /\ UNCHANGED <<cases, watch, slots>>
  <2>1. InQueue' = InQueue \ {n} /\ Holding' = Holding
    BY <1>1, <1>7 DEF InQueue, Holding, In
  <2>2. StoreTypeOK' /\ WatchersNamed'
    BY <1>3, <1>7 DEF StoreTypeOK, WatchersNamed
  <2>3. QueueCounted' /\ waiting' \in 0..MaxQueued
    BY <1>2, <1>7, <2>1, QueueShrinks DEF QueueCounted
  <2>4. QED BY <1>3, <1>4, <1>7, <2>1, <2>2, <2>3 DEF SlotsConserved
<1>8. QED BY <1>5, <1>6, <1>7 DEF Start

LEMMA NeverStartStep ==
    ASSUME IInv, NEW n \in Submits, NeverStart(n) \/ Retire(n)
    PROVE  IInv'
<1> USE DEF IInv, TypeOK, IsNext, NeverStart, Retire
<1>1. Holding' = Holding /\ InQueue' \subseteq InQueue /\ InQueue \in SUBSET Submits
  BY DEF Holding, InQueue, In
<1>2. Cardinality(InQueue') <= Cardinality(InQueue)
  BY <1>1, SubmitsFinite, FS_Subset
<1>3. Cardinality(InQueue') \in Nat /\ Cardinality(InQueue) \in Nat
  BY <1>1, SubmitsFinite
<1>4. QueueCounted'
  BY <1>2, <1>3 DEF QueueCounted
<1>5. phase' \in [Submits -> Phases] /\ TasksNamed'
  BY DEF Phases, TasksNamed
<1>6. StoreTypeOK' /\ WatchersNamed'
  BY DEF StoreTypeOK, WatchersNamed
<1>7. QED BY <1>1, <1>4, <1>5, <1>6 DEF SlotsConserved

(* A task that leaves the queue by a hand-over of slots is counted out of it. *)
LEMMA LeavesQueue ==
    ASSUME IInv, NEW n \in InQueue, n \notin Pending,
           NEW to \in {"running", "done"},
           NEW free \in Nat,
           free + Cardinality(Holding \ {n}) + (IF to = "running" THEN 1 ELSE 0)
               = MaxConcurrent,
           Hand(n, to, free, free),
           waiting' = waiting - 1,
           UNCHANGED <<now, caseOf, cancelling, closing>>,
           StoreTypeOK', WatchersNamed'
    PROVE  IInv'
<1>1. n \in Submits /\ phase[n] # "none" /\ free <= free
  BY DEF InQueue, In
<1>2. /\ SlotsConserved'
      /\ slots' \in 0..MaxConcurrent
      /\ phase' \in [Submits -> Phases]
      /\ InQueue' = InQueue \ {n}
      /\ \A m \in Submits : phase'[m] # "none" => phase[m] # "none" \/ m = n
  BY <1>1, HandAccounting DEF IInv
<1>3. QueueCounted' /\ waiting' \in 0..MaxQueued
  BY <1>2, QueueShrinks DEF QueueCounted
<1>4. TasksNamed'
  BY <1>1, <1>2 DEF IInv, TasksNamed
<1>5. QED BY <1>2, <1>3, <1>4 DEF IInv, TypeOK

LEMMA ResumeStep ==
    ASSUME IInv, NEW n \in Submits, Resume(n)
    PROVE  IInv'
<1>1. /\ phase[n] = "granted"
      /\ waiting' = waiting - 1
      /\ UNCHANGED <<now, caseOf, cancelling, closing>>
  BY DEF Resume, IsNext
<1>2. n \in InQueue /\ n \notin Pending /\ n \in Holding /\ Holding \in SUBSET Submits
  BY <1>1 DEF InQueue, Pending, Holding, In
<1>3. Cardinality(Holding \ {n}) = Cardinality(Holding) - 1 /\ Cardinality(Holding) \in Nat
  BY <1>2, OneLess, SubmitsFinite
<1>4. slots \in Nat /\ slots + Cardinality(Holding) = MaxConcurrent
  BY RunnerAssumption DEF IInv, TypeOK, SlotsConserved
<1>5. caseOf[n] \in CaseIds /\ StoreTypeOK /\ WatchersNamed
  BY <1>1 DEF IInv, TypeOK, TasksNamed
<1>6. CASE Hand(n, "running", slots, slots) /\ MarkRunning(caseOf[n])
  <2>1. StoreTypeOK' /\ WatchersNamed'
    BY <1>1, <1>5, <1>6, OutcomeType, OutcomeNamed
  <2>2. slots + Cardinality(Holding \ {n}) + 1 = MaxConcurrent
    BY <1>3, <1>4
  <2>3. QED BY <1>1, <1>2, <1>4, <1>6, <2>1, <2>2, LeavesQueue
<1>7. CASE Hand(n, "done", slots + 1, slots + 1) /\ UNCHANGED <<cases, watch>>
  <2>1. StoreTypeOK' /\ WatchersNamed'
    BY <1>1, <1>5, <1>7 DEF StoreTypeOK, WatchersNamed
  <2>2. slots + 1 + Cardinality(Holding \ {n}) + 0 = MaxConcurrent /\ slots + 1 \in Nat
    BY <1>3, <1>4
  <2>3. QED BY <1>1, <1>2, <1>7, <2>1, <2>2, LeavesQueue
<1>8. QED BY <1>6, <1>7 DEF Resume

LEMMA LeaveQueueStep ==
    ASSUME IInv, NEW n \in Submits, LeaveQueue(n)
    PROVE  IInv'
<1>1. /\ cancelling[n]
      /\ waiting' = waiting - 1
      /\ UNCHANGED <<now, caseOf, cancelling, closing>>
      /\ RecordCancelled(n)
      /\ phase[n] \in {"waiting", "granted"}
  BY DEF LeaveQueue, IsNext
<1>2. n \in InQueue /\ n \notin Pending /\ Holding \in SUBSET Submits
  BY <1>1 DEF InQueue, Pending, Holding, In
<1>3. slots \in Nat /\ slots + Cardinality(Holding) = MaxConcurrent
  BY RunnerAssumption DEF IInv, TypeOK, SlotsConserved
<1>4. StoreTypeOK' /\ WatchersNamed'
  BY <1>1, RecordCancelledType
<1>5. CASE phase[n] = "waiting" /\ Hand(n, "done", slots, slots)
  <2>1. Cardinality(Holding \ {n}) = Cardinality(Holding)
    <3>1. Holding \ {n} = Holding
      BY <1>5 DEF Holding, In
    <3>2. QED BY <3>1
  <2>2. Cardinality(Holding) \in Nat
    BY <1>2, SubmitsFinite
  <2>3. slots + Cardinality(Holding \ {n}) + 0 = MaxConcurrent
    BY <1>3, <2>1, <2>2
  <2>4. QED BY <1>1, <1>2, <1>3, <1>4, <1>5, <2>3, LeavesQueue
<1>6. CASE phase[n] = "granted" /\ Hand(n, "done", slots + 1, slots + 1)
  <2>1. n \in Holding
    BY <1>6 DEF Holding, In
  <2>2. Cardinality(Holding \ {n}) = Cardinality(Holding) - 1 /\ Cardinality(Holding) \in Nat
    BY <1>2, <2>1, OneLess, SubmitsFinite
  <2>3. slots + 1 + Cardinality(Holding \ {n}) + 0 = MaxConcurrent /\ slots + 1 \in Nat
    BY <1>3, <2>2
  <2>4. QED BY <1>1, <1>2, <1>4, <1>6, <2>3, LeavesQueue
<1>7. QED BY <1>5, <1>6 DEF LeaveQueue, IsNext

(* Whatever ends a run inside the pipeline. *)
LEMMA RunEndsStep ==
    ASSUME IInv, NEW n \in Submits, phase[n] = "running", Release(n),
           UNCHANGED <<now, caseOf, cancelling, waiting, closing>>,
           StoreTypeOK', WatchersNamed'
    PROVE  IInv'
<1>1. /\ SlotsConserved'
      /\ slots' \in 0..MaxConcurrent
      /\ phase' \in [Submits -> Phases]
      /\ InQueue' = InQueue
      /\ \A m \in Submits : phase'[m] # "none" => phase[m] # "none" \/ m = n
  BY ReleaseAccounting
<1>2. TasksNamed' /\ QueueCounted'
  BY <1>1 DEF IInv, TasksNamed, QueueCounted
<1>3. QED BY <1>1, <1>2 DEF IInv, TypeOK

LEMMA RunningStep ==
    ASSUME IInv, NEW n \in Submits, Progress(n) \/ Finish(n) \/ AbortRun(n)
    PROVE  IInv'
<1>1. /\ phase[n] = "running"
      /\ UNCHANGED <<now, caseOf, cancelling, waiting, closing>>
  BY DEF Progress, Finish, AbortRun
<1>2. caseOf[n] \in CaseIds /\ StoreTypeOK /\ WatchersNamed
  BY <1>1 DEF IInv, TypeOK, TasksNamed
<1>3. UNCHANGED <<cases, watch>> => StoreTypeOK' /\ WatchersNamed'
  BY <1>1, <1>2 DEF StoreTypeOK, WatchersNamed
<1>4. CASE Progress(n)
  <2>1. CASE /\ cases[caseOf[n]].events < MaxEvents
             /\ AppendEvent(caseOf[n])
             /\ UNCHANGED <<phase, slots>>
    <3>1. StoreTypeOK' /\ WatchersNamed'
      BY <1>1, <1>2, <2>1, OutcomeType, OutcomeNamed
    <3>2. /\ cancelling' \in [Submits -> BOOLEAN]
          /\ closing' \in {"open", "draining", "cancelling", "closed"}
      BY <1>1 DEF IInv, TypeOK
    <3>3. QED BY <1>1, <2>1, <3>1, <3>2, StoreOnly
  <2>2. CASE Release(n) /\ UNCHANGED <<cases, watch>>
    BY <1>1, <1>3, <2>2, RunEndsStep
  <2>3. QED BY <1>4, <2>1, <2>2 DEF Progress
<1>5. CASE Finish(n)
  <2>1. StoreTypeOK' /\ WatchersNamed'
    BY <1>1, <1>3, <1>5, RecordOutcomeType DEF Finish
  <2>2. QED BY <1>1, <1>5, <2>1, RunEndsStep DEF Finish
<1>6. CASE AbortRun(n)
  <2>1. StoreTypeOK' /\ WatchersNamed'
    BY <1>1, <1>6, RecordCancelledType DEF AbortRun
  <2>2. QED BY <1>1, <1>6, <2>1, RunEndsStep DEF AbortRun
<1>7. QED BY <1>4, <1>5, <1>6

(* Calling task.cancel() on some tasks only marks tasks. *)
LEMMA InterruptType ==
    ASSUME TypeOK, NEW S \in SUBSET Submits, Interrupt(S)
    PROVE  cancelling' \in [Submits -> BOOLEAN]
<1>1. \A n \in Submits :
        (cancelling[n] \/ (n \in S /\ phase[n] \in Unfinished)) \in BOOLEAN
  BY DEF TypeOK
<1>2. QED BY <1>1, Zenon DEF Interrupt

(* A refused submission and a discard change records and marks, no account. *)
LEMMA CallerStep ==
    ASSUME IInv, NEW c \in CaseIds, SubmitRefused(c) \/ Discard(c)
    PROVE  IInv'
<1>1. /\ StoreTypeOK /\ WatchersNamed /\ TypeOK
      /\ cancelling \in [Submits -> BOOLEAN]
      /\ closing \in {"open", "draining", "cancelling", "closed"}
  BY DEF IInv, TypeOK
<1>2. UNCHANGED <<now, phase, caseOf, slots, waiting, closing>>
  BY DEF SubmitRefused, Discard, taskVars
<1>3. CASE SubmitRefused(c)
  <2>1. Conflict(c) /\ UNCHANGED cancelling /\ UNCHANGED watch
    BY <1>3 DEF SubmitRefused, Conflict, taskVars
  <2>2. StoreTypeOK'
    <3>1. \A V \in Evictions : Evicted(V) \in [CaseIds -> Record]
      BY <1>1, AbsentType DEF StoreTypeOK, Evicted
    <3>2. QED BY <1>1, <1>2, <2>1, <3>1 DEF Conflict, StoreTypeOK
  <2>3. WatchersNamed'
    BY <1>1, <2>1 DEF WatchersNamed
  <2>4. QED BY <1>1, <1>2, <2>1, <2>2, <2>3, StoreOnly
<1>4. CASE Discard(c)
  <2>1. Forget(c) /\ \E S \in SUBSET Submits : Interrupt(S)
    BY <1>4 DEF Discard, Named
  <2>2. StoreTypeOK'
    BY <1>1, <1>2, <2>1, ForgetType
  <2>3. WatchersNamed'
    <3>1. Publish(c, Absent)
      BY <2>1 DEF Forget, Publish
    <3>2. QED BY <1>1, <3>1, PublishNamed
  <2>4. cancelling' \in [Submits -> BOOLEAN]
    BY <1>1, <2>1, InterruptType
  <2>5. QED BY <1>1, <1>2, <2>2, <2>3, <2>4, StoreOnly
<1>5. QED BY <1>3, <1>4

(* Shutting down, the clock and the watchers leave the accounts alone. *)
LEMMA OutsideStep ==
    ASSUME IInv,
           \/ CloseStep
           \/ Tick /\ UNCHANGED <<taskVars, slots, waiting, closing>>
           \/ WatchNext
           \/ UNCHANGED vars
    PROVE  IInv'
<1>1. /\ StoreTypeOK /\ WatchersNamed /\ TypeOK
      /\ cancelling \in [Submits -> BOOLEAN]
      /\ closing \in {"open", "draining", "cancelling", "closed"}
  BY DEF IInv, TypeOK
<1>2. UNCHANGED <<phase, caseOf, slots, waiting>>
  BY DEF CloseStep, CloseBegins, DrainEnds, CloseReturns, WatchNext, vars, taskVars
<1>3. CASE CloseStep
  <2>1. UNCHANGED <<cases, now, watch>>
    BY <1>3 DEF CloseStep, CloseBegins, DrainEnds, CloseReturns
  <2>2. StoreTypeOK' /\ WatchersNamed'
    BY <1>1, <2>1 DEF StoreTypeOK, WatchersNamed
  <2>3. closing' \in {"open", "draining", "cancelling", "closed"}
    BY <1>3 DEF CloseStep, CloseBegins, DrainEnds, CloseReturns
  <2>4. cancelling' \in [Submits -> BOOLEAN]
    <3>1. UNCHANGED cancelling \/ Interrupt(Submits)
      BY <1>3 DEF CloseStep, CloseBegins, DrainEnds, CloseReturns, taskVars
    <3>2. Submits \in SUBSET Submits
      OBVIOUS
    <3>3. QED BY <1>1, <3>1, <3>2, InterruptType
  <2>5. QED BY <1>2, <2>2, <2>3, <2>4, StoreOnly
<1>4. CASE Tick /\ UNCHANGED <<taskVars, slots, waiting, closing>>
  <2>1. StoreTypeOK' /\ WatchersNamed'
    BY <1>1, <1>4, StoreAssumption DEF StoreTypeOK, WatchersNamed, Tick
  <2>2. QED BY <1>1, <1>2, <1>4, <2>1, StoreOnly DEF taskVars
<1>5. CASE WatchNext
  <2>1. StoreTypeOK' /\ WatchersNamed'
    BY <1>1, <1>5, WatchType DEF WatchNext
  <2>2. UNCHANGED <<cancelling, closing>>
    BY <1>5 DEF WatchNext, taskVars
  <2>3. QED BY <1>1, <1>2, <2>1, <2>2, StoreOnly
<1>6. CASE UNCHANGED vars
  <2>1. UNCHANGED <<cases, now, watch, cancelling, closing>>
    BY <1>6 DEF vars
  <2>2. StoreTypeOK' /\ WatchersNamed'
    BY <1>1, <2>1 DEF StoreTypeOK, WatchersNamed
  <2>3. QED BY <1>1, <1>2, <2>1, <2>2, StoreOnly
<1>7. QED BY <1>3, <1>4, <1>5, <1>6

(* Every step of the system keeps the invariant. *)
LEMMA Inductive == IInv /\ [Next]_vars => IInv'
<1> SUFFICES ASSUME IInv, [Next]_vars PROVE IInv'
  OBVIOUS
<1>1. CASE \E c \in CaseIds, n \in Submits : Submit(n, c)
  BY <1>1, SubmitStep
<1>2. CASE \E c \in CaseIds : SubmitRefused(c) \/ Discard(c)
  BY <1>2, CallerStep
<1>3. CASE \E n \in Submits : TaskStep(n) \/ Progress(n) \/ Finish(n)
  <2>1. PICK n \in Submits : TaskStep(n) \/ Progress(n) \/ Finish(n)
    BY <1>3
  <2>2. CASE Start(n)
    BY <2>2, StartStep
  <2>3. CASE NeverStart(n) \/ Retire(n)
    BY <2>3, NeverStartStep
  <2>4. CASE Resume(n)
    BY <2>4, ResumeStep
  <2>5. CASE LeaveQueue(n)
    BY <2>5, LeaveQueueStep
  <2>6. CASE Progress(n) \/ Finish(n) \/ AbortRun(n)
    BY <2>6, RunningStep
  <2>7. QED BY <2>1, <2>2, <2>3, <2>4, <2>5, <2>6 DEF TaskStep
<1>4. CASE \/ CloseStep
           \/ Tick /\ UNCHANGED <<taskVars, slots, waiting, closing>>
           \/ WatchNext
           \/ UNCHANGED vars
  BY <1>4, OutsideStep
<1>5. QED BY <1>1, <1>2, <1>3, <1>4 DEF Next, RunnerNext

(* -------------------------------- theorems -------------------------------- *)

(* The inductive invariant holds in every reachable state. *)
THEOREM Invariance == Spec => []IInv
  BY InitHolds, Inductive, PTL DEF Spec

(* Every variable stays in its range: in particular the free slots never leave
   0..MaxConcurrent and the queue counter never leaves 0..MaxQueued. *)
THEOREM TypeCorrect == Spec => []TypeOK
<1>1. IInv => TypeOK
  BY DEF IInv
<1>2. QED BY <1>1, Invariance, PTL

(* No slot is leaked and none is returned twice, whatever ends the runs. *)
THEOREM SlotsAreConserved == Spec => []SlotsConserved
<1>1. IInv => SlotsConserved
  BY DEF IInv
<1>2. QED BY <1>1, Invariance, PTL

(* No more cases are ever queued than the ceiling allows. *)
THEOREM QueueIsBounded == Spec => []QueueBounded
<1>1. IInv => QueueBounded
  BY RunnerAssumption DEF IInv, QueueCounted, QueueBounded, TypeOK
<1>2. QED BY <1>1, Invariance, PTL

(* ----------------------------- slots and waiters -------------------------- *)

(* Who is handed a slot was waiting and had not been cancelled; the submission
   that hands it on leaves the queue and its slot. *)
LEMMA HandMoves ==
    ASSUME TypeOK, NEW n \in Submits, n \notin Pending,
           NEW to \in {"running", "done"}, NEW free \in Nat, NEW wake \in Nat,
           wake = 0 => free = 0,
           UNCHANGED cancelling, Hand(n, to, free, wake)
    PROVE  InQueue' = InQueue \ {n} /\ NoSlotIdles'
<1>1. PICK G \in Longest(wake) :
          /\ slots' = free - Cardinality(G)
          /\ phase' = [m \in Submits |-> IF m = n THEN to
                                         ELSE IF m \in G THEN "granted"
                                         ELSE phase[m]]
  BY DEF Hand
<1>2. G \in SUBSET Pending /\ (Cardinality(G) = wake \/ G = Pending)
  BY DEF Longest
<1>3. G \in SUBSET Submits /\ n \notin G /\ \A m \in G : phase[m] = "waiting"
  BY <1>2 DEF Pending
<1>4. phase \in [Submits -> Phases]
  BY DEF TypeOK
<1>5. InQueue' = InQueue \ {n}
  BY <1>1, <1>3, <1>4 DEF InQueue, In
<1>6. CASE G # {}
  <2>1. In({"granted"})' # {}
    BY <1>1, <1>3, <1>6 DEF In
  <2>2. QED BY <1>5, <2>1 DEF NoSlotIdles
<1>7. CASE G = {}
  <2>1. Cardinality(G) = 0
    BY <1>7, FS_EmptySet
  <2>2. CASE G = Pending
    <3>1. Pending' = {}
      BY <1>1, <1>7, <2>2 DEF Pending
    <3>2. QED BY <1>5, <3>1 DEF NoSlotIdles
  <2>3. CASE Cardinality(G) = wake
    <3>1. slots' = 0
      BY <1>1, <2>1, <2>3
    <3>2. QED BY <1>5, <3>1 DEF NoSlotIdles
  <2>4. QED BY <1>2, <2>2, <2>3
<1>8. QED BY <1>5, <1>6, <1>7

(* Steps that hand no slot on keep every free slot spoken for: the waiters only
   become fewer, or the new one waits behind a taken semaphore. *)
LEMMA NoHandKeepsBusy ==
    ASSUME TypeOK, NoSlotIdles,
           In({"granted"}) \subseteq In({"granted"})',
           slots' <= slots,
           slots' \in Nat,
           Pending' \subseteq Pending \/ Locked
    PROVE  NoSlotIdles'
  BY RunnerAssumption DEF NoSlotIdles, Locked, TypeOK

(* Every step of a task that leaves the semaphore. *)
LEMMA LeavingKeepsBusy ==
    ASSUME IInv, NEW n \in Submits,
           \/ Resume(n) \/ LeaveQueue(n) \/ Finish(n) \/ AbortRun(n)
           \/ Progress(n) /\ Release(n)
    PROVE  InQueue' = InQueue \ {n} /\ NoSlotIdles'
<1>1. /\ TypeOK /\ slots \in Nat /\ slots + 1 \in Nat /\ slots + 1 # 0
  BY RunnerAssumption DEF IInv, TypeOK
<1>2. UNCHANGED cancelling
  BY DEF Resume, LeaveQueue, Finish, AbortRun, Progress
<1>3. n \notin Pending
  BY DEF Pending, Resume, LeaveQueue, Finish, AbortRun, Progress, IsNext
<1>4. \E to \in {"running", "done"} :
         \/ Hand(n, to, slots, slots)
         \/ Hand(n, to, slots + 1, slots + 1)
         \/ Hand(n, to, slots + 1, 1)
  BY DEF Resume, LeaveQueue, Finish, AbortRun, Release
<1>5. QED BY <1>1, <1>2, <1>3, <1>4, HandMoves

(* No step leaves a slot idle. *)
LEMMA NoSlotIdlesStep ==
    ASSUME IInv, NoSlotIdles, IInv', [Next]_vars
    PROVE  NoSlotIdles'
<1>1. TypeOK /\ slots' \in Nat /\ slots \in Nat
  BY RunnerAssumption DEF IInv, TypeOK
<1>2. CASE \E n \in Submits, c \in CaseIds : Submit(n, c)
  <2>1. PICK n \in Submits, c \in CaseIds : Submit(n, c)
    BY <1>2
  <2>2. Pending' \subseteq Pending /\ In({"granted"}) \subseteq In({"granted"})'
    BY <1>1, <2>1 DEF Submit, IsNext, Pending, In, TypeOK
  <2>3. QED BY <1>1, <2>1, <2>2, NoHandKeepsBusy DEF Submit
<1>3. CASE \E n \in Submits : Start(n)
  <2>1. PICK n \in Submits : Start(n)
    BY <1>3
  <2>2. In({"granted"}) \subseteq In({"granted"})' /\ slots' <= slots
    BY <1>1, <2>1 DEF Start, IsNext, In, TypeOK
  <2>3. Pending' \subseteq Pending \/ Locked
    BY <1>1, <2>1 DEF Start, IsNext, Pending, TypeOK
  <2>4. QED BY <1>1, <2>2, <2>3, NoHandKeepsBusy
<1>4. CASE \E n \in Submits : NeverStart(n) \/ Retire(n)
  <2>1. PICK n \in Submits : NeverStart(n) \/ Retire(n)
    BY <1>4
  <2>2. Pending' \subseteq Pending /\ In({"granted"}) \subseteq In({"granted"})'
    BY <1>1, <2>1 DEF NeverStart, Retire, IsNext, Pending, In, TypeOK
  <2>3. QED BY <1>1, <2>1, <2>2, NoHandKeepsBusy DEF NeverStart, Retire
<1>5. CASE \E n \in Submits :
              \/ Resume(n) \/ LeaveQueue(n) \/ Finish(n) \/ AbortRun(n)
              \/ Progress(n) /\ Release(n)
  BY <1>5, LeavingKeepsBusy
<1>6. CASE /\ UNCHANGED <<phase, slots>>
           /\ \A n \in Submits : cancelling[n] => cancelling'[n]
  <2>1. Pending' \subseteq Pending /\ In({"granted"}) \subseteq In({"granted"})'
    BY <1>6 DEF Pending, In
  <2>2. QED BY <1>1, <1>6, <2>1, NoHandKeepsBusy
<1>7. CASE \/ \E c \in CaseIds : SubmitRefused(c) \/ Discard(c)
           \/ \E n \in Submits : Progress(n) /\ UNCHANGED <<phase, slots>>
           \/ CloseStep
           \/ Tick /\ UNCHANGED <<taskVars, slots, waiting, closing>>
           \/ WatchNext
           \/ UNCHANGED vars
  <2>1. UNCHANGED <<phase, slots>>
    BY <1>7 DEF SubmitRefused, Discard, CloseStep, CloseBegins, DrainEnds,
                CloseReturns, WatchNext, taskVars, vars
  <2>2. UNCHANGED cancelling \/ \E S \in SUBSET Submits : Interrupt(S)
    BY <1>7 DEF SubmitRefused, Discard, Named, Progress, CloseStep, CloseBegins,
                DrainEnds, CloseReturns, WatchNext, taskVars, vars
  <2>3. \A n \in Submits : cancelling[n] => cancelling'[n]
    BY <2>2, Zenon DEF Interrupt
  <2>4. QED BY <1>6, <2>1, <2>3
<1>8. QED BY <1>2, <1>3, <1>4, <1>5, <1>7
          DEF Next, RunnerNext, TaskStep, Progress

(* While a slot is free and a case is queued, a waiter is about to run. *)
THEOREM NoSlotIsIdle == Spec => []NoSlotIdles
<1>1. Init => NoSlotIdles
  BY DEF Init, NoSlotIdles, Pending
<1>2. IInv /\ NoSlotIdles /\ IInv' /\ [Next]_vars => NoSlotIdles'
  BY NoSlotIdlesStep
<1>3. QED BY <1>1, <1>2, Invariance, PTL DEF Spec

(* ------------------------- the queue, counted exactly --------------------- *)

(* Nobody is cancelled before its first step, except under a brought id. *)
FirstStepTaken ==
    \A n \in Submits :
        phase[n] = "none" \/ (phase[n] = "created" /\ ~CallersBringIds)
            => ~cancelling[n]

ExactInv == FirstStepTaken /\ (~CallersBringIds => WaitingIsExact)

(* Only a submission is new in the queue and only tasks leave it, each counted,
   unless a task is cancelled before its first step. *)
LEMMA QueueMoves ==
    ASSUME IInv, [Next]_vars, \A n \in Submits : ~NeverStart(n)
    PROVE  \/ InQueue' = InQueue /\ waiting' = waiting
           \/ \E n \in Submits \ InQueue :
                 InQueue' = InQueue \cup {n} /\ waiting' = waiting + 1
           \/ \E n \in InQueue :
                 InQueue' = InQueue \ {n} /\ waiting' = waiting - 1
<1>1. TypeOK /\ phase \in [Submits -> Phases]
  BY DEF IInv, TypeOK
<1>2. ASSUME NEW n \in Submits, NEW c \in CaseIds, Submit(n, c)
      PROVE  /\ n \in Submits \ InQueue
             /\ InQueue' = InQueue \cup {n} /\ waiting' = waiting + 1
  BY <1>1, <1>2 DEF Submit, IsNext, InQueue, In
<1>3. ASSUME NEW n \in Submits, Start(n)
      PROVE  \/ InQueue' = InQueue /\ waiting' = waiting
             \/ /\ n \in InQueue
                /\ InQueue' = InQueue \ {n} /\ waiting' = waiting - 1
  BY <1>1, <1>3 DEF Start, IsNext, InQueue, In
<1>4. ASSUME NEW n \in Submits, Resume(n) \/ LeaveQueue(n)
      PROVE  n \in InQueue /\ InQueue' = InQueue \ {n} /\ waiting' = waiting - 1
  <2>1. n \in InQueue /\ waiting' = waiting - 1
    BY <1>4 DEF Resume, LeaveQueue, IsNext, InQueue, In
  <2>2. QED BY <1>4, <2>1, LeavingKeepsBusy
<1>5. ASSUME NEW n \in Submits,
             Finish(n) \/ AbortRun(n) \/ (Progress(n) /\ Release(n))
      PROVE  InQueue' = InQueue /\ waiting' = waiting
  <2>1. n \notin InQueue /\ waiting' = waiting
    BY <1>5 DEF Finish, AbortRun, Progress, InQueue, In
  <2>2. InQueue' = InQueue \ {n}
    BY <1>5, LeavingKeepsBusy
  <2>3. QED BY <2>1, <2>2
<1>6. ASSUME NEW n \in Submits, Retire(n)
      PROVE  InQueue' = InQueue /\ waiting' = waiting
  BY <1>1, <1>6 DEF Retire, InQueue, In
<1>7. ASSUME \/ \E c \in CaseIds : SubmitRefused(c) \/ Discard(c)
             \/ \E n \in Submits : Progress(n) /\ UNCHANGED <<phase, slots>>
             \/ CloseStep
             \/ Tick /\ UNCHANGED <<taskVars, slots, waiting, closing>>
             \/ WatchNext
             \/ UNCHANGED vars
      PROVE  InQueue' = InQueue /\ waiting' = waiting
  <2>1. UNCHANGED <<phase, waiting>>
    BY <1>7 DEF SubmitRefused, Discard, Progress, CloseStep, CloseBegins,
                DrainEnds, CloseReturns, WatchNext, taskVars, vars
  <2>2. QED BY <2>1 DEF InQueue, In
<1>8. \/ \E n \in Submits, c \in CaseIds : Submit(n, c)
      \/ \E n \in Submits : Start(n)
      \/ \E n \in Submits : Resume(n) \/ LeaveQueue(n)
      \/ \E n \in Submits : Finish(n) \/ AbortRun(n) \/ (Progress(n) /\ Release(n))
      \/ \E n \in Submits : Retire(n)
      \/ \E c \in CaseIds : SubmitRefused(c) \/ Discard(c)
      \/ \E n \in Submits : Progress(n) /\ UNCHANGED <<phase, slots>>
      \/ CloseStep
      \/ Tick /\ UNCHANGED <<taskVars, slots, waiting, closing>>
      \/ WatchNext
      \/ UNCHANGED vars
  BY DEF Next, RunnerNext, TaskStep, Progress
<1>9. QED BY <1>2, <1>3, <1>4, <1>5, <1>6, <1>7, <1>8

(* Cancelling marks no task that has not been submitted, and none that awaits
   its first step under a made id. *)
LEMMA FirstStepTakenStep ==
    ASSUME TypeOK, FirstStepTaken, [Next]_vars
    PROVE  FirstStepTaken'
<1>1. phase \in [Submits -> Phases]
  BY DEF TypeOK
<1>2. \A n \in Submits :
        /\ phase'[n] = "none" => phase[n] = "none"
        /\ phase'[n] = "created" => phase[n] \in {"none", "created"}
  <2>1. \/ \E m \in Submits, c \in CaseIds : Submit(m, c)
        \/ \E m \in Submits, p \in {"waiting", "running", "done", "retired"} :
              phase' = [phase EXCEPT ![m] = p]
        \/ \E m \in Submits, to \in {"running", "done"} : \E free, wake :
              Hand(m, to, free, wake)
        \/ UNCHANGED phase
    <3>1. ASSUME NEW m \in Submits, TaskStep(m) \/ Progress(m) \/ Finish(m)
          PROVE  \/ \E p \in {"waiting", "running", "done", "retired"} :
                       phase' = [phase EXCEPT ![m] = p]
                 \/ \E to \in {"running", "done"} : \E free, wake : Hand(m, to, free, wake)
                 \/ UNCHANGED phase
      <4>1. CASE Start(m) \/ NeverStart(m) \/ Retire(m)
        BY <4>1 DEF Start, NeverStart, Retire
      <4>2. CASE Resume(m) \/ LeaveQueue(m)
        BY <4>2 DEF Resume, LeaveQueue
      <4>3. CASE AbortRun(m) \/ Progress(m) \/ Finish(m)
        BY <4>3 DEF AbortRun, Progress, Finish, Release
      <4>4. QED BY <3>1, <4>1, <4>2, <4>3 DEF TaskStep
    <3>2. QED BY <3>1 DEF Next, RunnerNext, SubmitRefused, Discard, CloseStep,
                CloseBegins, DrainEnds, CloseReturns, WatchNext, taskVars, vars
  <2>2. ASSUME NEW m \in Submits, NEW c \in CaseIds, Submit(m, c)
        PROVE  \A n \in Submits :
                 /\ phase'[n] = "none" => phase[n] = "none"
                 /\ phase'[n] = "created" => phase[n] \in {"none", "created"}
    BY <1>1, <2>2 DEF Submit, IsNext
  <2>3. ASSUME NEW m \in Submits, NEW to \in {"running", "done"}, NEW free, NEW wake,
               Hand(m, to, free, wake)
        PROVE  \A n \in Submits : phase'[n] \in {"none", "created"} => phase[n] = phase'[n]
    BY <1>1, <2>3 DEF Hand
  <2>4. QED BY <1>1, <2>1, <2>2, <2>3
<1>3. \/ UNCHANGED cancelling
      \/ \E c \in CaseIds : Discard(c)
      \/ DrainEnds
  BY DEF Next, RunnerNext, TaskStep, Submit, SubmitRefused, Start,
         NeverStart, Resume, LeaveQueue, AbortRun, Retire, Progress, Finish,
         CloseStep, CloseBegins, CloseReturns, WatchNext, taskVars, vars
<1>4. CASE UNCHANGED cancelling
  <2>1. \A n \in Submits : phase[n] = "created" /\ ~CallersBringIds => ~cancelling[n]
    BY DEF FirstStepTaken
  <2>2. \A n \in Submits : phase[n] = "none" => ~cancelling[n]
    BY DEF FirstStepTaken
  <2>3. QED BY <1>2, <1>4, <2>1, <2>2 DEF FirstStepTaken
<1>5. CASE \E c \in CaseIds : Discard(c)
  <2>1. PICK c \in CaseIds : Discard(c)
    BY <1>5
  <2>2. PICK S \in SUBSET Named(c) : Interrupt(S)
    BY <2>1 DEF Discard
  <2>3. \A n \in S : phase[n] # "none" /\ (phase[n] = "created" => CallersBringIds)
    BY <2>1, <2>2 DEF Discard, Named, InTasks, Unfinished
  <2>4. \A n \in Submits : cancelling'[n] => cancelling[n] \/ n \in S
    BY <2>2, Zenon DEF Interrupt
  <2>5. UNCHANGED phase
    BY <2>1 DEF Discard
  <2>6. QED BY <2>3, <2>4, <2>5 DEF FirstStepTaken
<1>6. CASE DrainEnds
  <2>1. \A n \in Submits : cancelling'[n] => cancelling[n] \/ phase[n] \in Unfinished
    BY <1>6, Zenon DEF DrainEnds, Interrupt
  <2>2. \A n \in Submits : phase[n] \in Unfinished =>
            phase[n] # "none" /\ phase[n] # "created"
    BY <1>6 DEF DrainEnds, In, Unfinished
  <2>3. UNCHANGED phase
    BY <1>6 DEF DrainEnds
  <2>4. QED BY <2>1, <2>2, <2>3 DEF FirstStepTaken
<1>7. QED BY <1>3, <1>4, <1>5, <1>6

LEMMA ExactStep ==
    ASSUME IInv, ExactInv, [Next]_vars
    PROVE  ExactInv'
<1>1. FirstStepTaken /\ TypeOK
  BY DEF ExactInv, IInv
<1>2. FirstStepTaken'
  BY <1>1, FirstStepTakenStep
<1>3. ASSUME ~CallersBringIds PROVE WaitingIsExact'
  <2>1. \A n \in Submits : ~NeverStart(n)
    BY <1>1, <1>3 DEF FirstStepTaken, NeverStart, IsNext
  <2>2. waiting = Cardinality(InQueue) /\ InQueue \in SUBSET Submits
    BY <1>3 DEF ExactInv, WaitingIsExact, InQueue, In
  <2>3. CASE InQueue' = InQueue /\ waiting' = waiting
    BY <2>2, <2>3 DEF WaitingIsExact
  <2>4. CASE \E n \in Submits \ InQueue :
                InQueue' = InQueue \cup {n} /\ waiting' = waiting + 1
    <3>1. PICK n \in Submits \ InQueue :
                InQueue' = InQueue \cup {n} /\ waiting' = waiting + 1
      BY <2>4
    <3>2. Cardinality(InQueue \cup {n}) = Cardinality(InQueue) + 1
      BY <2>2, OneMore
    <3>3. QED BY <2>2, <3>1, <3>2 DEF WaitingIsExact
  <2>5. CASE \E n \in InQueue :
                InQueue' = InQueue \ {n} /\ waiting' = waiting - 1
    <3>1. PICK n \in InQueue : InQueue' = InQueue \ {n} /\ waiting' = waiting - 1
      BY <2>5
    <3>2. Cardinality(InQueue \ {n}) = Cardinality(InQueue) - 1
      BY <2>2, OneLess
    <3>3. QED BY <2>2, <3>1, <3>2 DEF WaitingIsExact
  <2>6. QED BY <2>1, <2>3, <2>4, <2>5, QueueMoves
<1>4. QED BY <1>2, <1>3 DEF ExactInv

(* With ids the service makes, the counter of queued cases is exact: every way
   out of the queue gives its place back, so the queue never shrinks for good. *)
THEOREM QueueIsExact == Spec => [](~CallersBringIds => WaitingIsExact)
<1>1. Init => ExactInv
  <2> SUFFICES ASSUME Init PROVE ExactInv
    OBVIOUS
  <2>1. InQueue = {} /\ waiting = 0
    BY DEF Init, InQueue, In
  <2>2. WaitingIsExact
    BY <2>1, FS_EmptySet DEF WaitingIsExact
  <2>3. FirstStepTaken
    BY DEF Init, FirstStepTaken
  <2>4. QED BY <2>2, <2>3 DEF ExactInv
<1>2. IInv /\ ExactInv /\ [Next]_vars => ExactInv'
  BY ExactStep
<1>3. ExactInv => (~CallersBringIds => WaitingIsExact)
  BY DEF ExactInv
<1>4. QED BY <1>1, <1>2, <1>3, Invariance, PTL DEF Spec
=============================================================================

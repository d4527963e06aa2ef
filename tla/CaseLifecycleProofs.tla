------------------------- MODULE CaseLifecycleProofs -------------------------
(* CaseRunner implements CaseLifecycle, for every value of its constants, when
   the service makes the ids: what a caller can see of the submissions begins and
   moves as the abstract specification allows (its fairness is model-checked).

   What the records' invariant does not say yet is the order: tasks take their
   first step in the order they were made, slots go to those that waited longest,
   and only shutting down cancels a case that is still held.

   The same order shows what stands of the records when callers choose the ids
   and use them again: the last part says to whom a record belongs then, and that
   a task of that id which comes before its own no longer disturbs it. *)
EXTENDS CaseRecordProofs

NotBegun == {"none", "created"}

BegunInOrder ==
    \A m, n \in Submits :
        m < n => /\ phase[n] # "none" => phase[m] # "none"
                 /\ phase[n] \notin NotBegun => phase[m] \notin NotBegun

GrantedFirst == \A g \in In({"granted"}), p \in Pending : g < p

OnlyShutdownCancels ==
    \A n \in In(Unfinished) :
        cancelling[n] /\ Held(caseOf[n]) => closing \in {"cancelling", "closed"}

ShutdownCancelsAll ==
    closing \in {"cancelling", "closed"} => \A n \in In(Unfinished) : cancelling[n]

OrderInv == BegunInOrder /\ GrantedFirst /\ OnlyShutdownCancels /\ ShutdownCancelsAll

(* ------------------------------- the order -------------------------------- *)

\* Task n takes its first step, retires, or leaves the semaphore to those who
\* have waited longest.
FirstStep(n) ==
    /\ IsNext(n, "created")
    /\ \E p \in {"waiting", "running", "done"} : phase' = [phase EXCEPT ![n] = p]

Leaves(n) ==
    /\ phase[n] \notin NotBegun
    /\ n \notin Pending
    /\ \E to \in {"running", "done", "retired"} : \E G \in SUBSET Pending :
          /\ phase[n] \in Unfinished \/ to = "retired"
          /\ \A g \in G, p \in Pending \ G : g < p
          /\ phase' = [m \in Submits |-> IF m = n THEN to
                                         ELSE IF m \in G THEN "granted"
                                         ELSE phase[m]]

LEMMA HandLeaves ==
    ASSUME NEW n \in Submits, phase[n] \in Unfinished \ NotBegun, n \notin Pending,
           NEW to \in {"running", "done"}, NEW free, NEW wake, Hand(n, to, free, wake)
    PROVE  Leaves(n)
  BY DEF Hand, Longest, Leaves

LEMMA PhaseSteps ==
    ASSUME IInv, [Next]_vars
    PROVE  \/ \E n \in Submits, c \in CaseIds : Submit(n, c)
           \/ \E n \in Submits : FirstStep(n) \/ Leaves(n)
           \/ UNCHANGED phase
<1> phase \in [Submits -> Phases]
  BY DEF IInv, TypeOK
<1>1. ASSUME NEW n \in Submits, Start(n) \/ NeverStart(n)
      PROVE  FirstStep(n)
  BY <1>1 DEF Start, NeverStart, FirstStep
<1>2. ASSUME NEW n \in Submits, Retire(n)
      PROVE  Leaves(n)
  <2>1. /\ phase[n] = "done" /\ n \notin Pending
        /\ phase' = [m \in Submits |-> IF m = n THEN "retired"
                                       ELSE IF m \in {} THEN "granted" ELSE phase[m]]
    BY <1>2 DEF Retire, Pending
  <2>2. {} \in SUBSET Pending /\ \A g \in {}, p \in Pending \ {} : g < p
    OBVIOUS
  <2>3. QED BY <2>1, <2>2 DEF Leaves, NotBegun
<1>3. ASSUME NEW n \in Submits, Resume(n) \/ LeaveQueue(n)
      PROVE  Leaves(n)
  <2>1. phase[n] \in Unfinished \ NotBegun /\ n \notin Pending
    BY <1>3 DEF Resume, LeaveQueue, IsNext, Unfinished, NotBegun, Pending
  <2>2. \E to \in {"running", "done"} : \E free, wake : Hand(n, to, free, wake)
    BY <1>3 DEF Resume, LeaveQueue
  <2>3. QED BY <2>1, <2>2, HandLeaves
<1>4. ASSUME NEW n \in Submits, AbortRun(n) \/ Progress(n) \/ Finish(n)
      PROVE  Leaves(n) \/ UNCHANGED phase
  <2>1. phase[n] \in Unfinished \ NotBegun /\ n \notin Pending
    BY <1>4 DEF AbortRun, Progress, Finish, Unfinished, NotBegun, Pending
  <2>2. UNCHANGED phase \/ \E free, wake : Hand(n, "done", free, wake)
    BY <1>4 DEF AbortRun, Progress, Finish, Release
  <2>3. QED BY <2>1, <2>2, HandLeaves
<1>5. QED
  BY <1>1, <1>2, <1>3, <1>4
     DEF Next, RunnerNext, TaskStep, SubmitRefused, Discard, CloseStep, CloseBegins,
         DrainEnds, CloseReturns, WatchNext, taskVars, vars

\* Nothing takes a cancellation back.
LEMMA CancellingGrows ==
    ASSUME [Next]_vars
    PROVE  \A n \in Submits : cancelling[n] => cancelling'[n]
<1>1. UNCHANGED cancelling \/ \E S \in SUBSET Submits : Interrupt(S)
  BY DEF Next, RunnerNext, TaskStep, Submit, SubmitRefused, Discard, Named, Start,
         NeverStart, Resume, LeaveQueue, AbortRun, Retire, Progress, Finish, CloseStep,
         CloseBegins, DrainEnds, CloseReturns, WatchNext, taskVars, vars
<1>2. QED BY <1>1, Zenon DEF Interrupt

LEMMA BegunInOrderStep ==
    ASSUME IInv, BegunInOrder, [Next]_vars
    PROVE  BegunInOrder'
<1> phase \in [Submits -> Phases] /\ Submits \subseteq Nat
  BY DEF IInv, TypeOK, Submits
<1>1. CASE \E n \in Submits, c \in CaseIds : Submit(n, c)
  <2>1. PICK n \in Submits : /\ phase' = [phase EXCEPT ![n] = "created"]
                             /\ IsNext(n, "none")
    BY <1>1 DEF Submit
  <2>2. QED BY <2>1 DEF BegunInOrder, IsNext, NotBegun
<1>2. CASE \E n \in Submits : FirstStep(n)
  BY <1>2 DEF FirstStep, IsNext, BegunInOrder, NotBegun
<1>3. CASE \E n \in Submits : Leaves(n)
  <2>1. \A m \in Submits : /\ phase'[m] = "none" <=> phase[m] = "none"
                           /\ phase'[m] \in NotBegun <=> phase[m] \in NotBegun
    BY <1>3 DEF Leaves, NotBegun, Pending
  <2>2. QED BY <2>1 DEF BegunInOrder
<1>4. CASE UNCHANGED phase
  BY <1>4 DEF BegunInOrder
<1>5. QED BY <1>1, <1>2, <1>3, <1>4, PhaseSteps

LEMMA GrantedFirstStep ==
    ASSUME IInv, BegunInOrder, GrantedFirst, [Next]_vars
    PROVE  GrantedFirst'
<1> phase \in [Submits -> Phases] /\ Submits \subseteq Nat
  BY DEF IInv, TypeOK, Submits
<1> USE CancellingGrows
<1>1. CASE \E n \in Submits, c \in CaseIds : Submit(n, c)
  <2>1. PICK n \in Submits : phase' = [phase EXCEPT ![n] = "created"]
    BY <1>1 DEF Submit
  <2>2. QED BY <2>1 DEF GrantedFirst, In, Pending
<1>2. CASE \E n \in Submits : FirstStep(n)
  <2>1. PICK n \in Submits, p \in {"waiting", "running", "done"} :
           phase[n] = "created" /\ phase' = [phase EXCEPT ![n] = p]
    BY <1>2 DEF FirstStep, IsNext
  <2>2. \A g \in In({"granted"}) : g < n
    BY <2>1 DEF In, BegunInOrder, NotBegun
  <2>3. QED BY <2>1, <2>2 DEF GrantedFirst, In, Pending
<1>3. CASE \E n \in Submits : Leaves(n)
  <2>1. PICK n \in Submits, to \in {"running", "done", "retired"}, G \in SUBSET Pending :
           /\ \A g \in G, p \in Pending \ G : g < p
           /\ phase' = [m \in Submits |-> IF m = n THEN to
                                          ELSE IF m \in G THEN "granted"
                                          ELSE phase[m]]
    BY <1>3 DEF Leaves
  <2>2. In({"granted"})' \subseteq In({"granted"}) \cup G
    BY <2>1 DEF In
  <2>3. Pending' \subseteq Pending \ G
    BY <2>1 DEF Pending
  <2>4. QED BY <2>1, <2>2, <2>3 DEF GrantedFirst
<1>4. CASE UNCHANGED phase
  BY <1>4 DEF GrantedFirst, In, Pending
<1>5. QED BY <1>1, <1>2, <1>3, <1>4, PhaseSteps

\* What is unfinished was, or has just been submitted, to an open service.
LEMMA UnfinishedWas ==
    ASSUME IInv, [Next]_vars
    PROVE  \A n \in In(Unfinished)' :
              \/ n \in In(Unfinished)
              \/ phase[n] = "none" /\ closing = "open" /\ UNCHANGED <<cancelling, closing>>
<1> phase \in [Submits -> Phases]
  BY DEF IInv, TypeOK
<1>1. CASE \E n \in Submits, c \in CaseIds : Submit(n, c)
  BY <1>1 DEF Submit, Admitting, IsNext, In
<1>2. CASE \E n \in Submits : FirstStep(n)
  BY <1>2 DEF FirstStep, IsNext, In, Unfinished
<1>3. CASE \E n \in Submits : Leaves(n)
  BY <1>3 DEF Leaves, Pending, NotBegun, In, Unfinished, Phases
<1>4. CASE UNCHANGED phase
  BY <1>4 DEF In
<1>5. QED BY <1>1, <1>2, <1>3, <1>4, PhaseSteps

\* A case still held is cancelled by shutting down only.
LEMMA OnlyShutdownCancelsStep ==
    ASSUME ~CallersBringIds, IInv, FirstStepTaken, RecInv, OnlyShutdownCancels, [Next]_vars
    PROVE  OnlyShutdownCancels'
<1> SUFFICES ASSUME NEW n \in In(Unfinished)', cancelling'[n], cases'[caseOf'[n]].status # "absent"
             PROVE  closing' \in {"cancelling", "closed"}
  BY DEF OnlyShutdownCancels, Held
<1>1. n \in Submits
  BY DEF In
<1>2. CASE phase[n] = "none"
  <2>1. n \notin In(Unfinished)
    BY <1>2 DEF In, Unfinished
  <2>2. ~cancelling'[n]
    BY <1>1, <1>2, <2>1, UnfinishedWas DEF FirstStepTaken
  <2>3. QED BY <2>2
<1>3. CASE phase[n] # "none"
  <2>1. n \in In(Unfinished) /\ caseOf'[n] = caseOf[n] /\ caseOf[n] \in CaseIds
    BY <1>1, <1>3, UnfinishedWas, TasksStay DEF IInv, TasksNamed
  <2>2. Held(caseOf[n])
    <3>1. caseOf[n] \notin Unseen /\ RecordsGoOn
      BY <1>1, RecordStep DEF Unseen
    <3>2. QED BY <2>1, <3>1 DEF RecordsGoOn, Held
  <2>3. CASE UNCHANGED cancelling
    <3>1. closing \in {"cancelling", "closed"}
      BY <2>1, <2>2, <2>3 DEF OnlyShutdownCancels
    <3>2. QED
      BY <3>1
         DEF Next, RunnerNext, TaskStep, Submit, SubmitRefused, Discard, Start,
             NeverStart, Resume, LeaveQueue, AbortRun, Retire, Progress, Finish, CloseStep,
             CloseBegins, DrainEnds, CloseReturns, WatchNext, vars
  <2>4. CASE DrainEnds
    BY <2>4 DEF DrainEnds
  <2>5. CASE \E c \in CaseIds : Discard(c)
    <3>1. PICK c \in CaseIds : Discard(c)
      BY <2>5
    <3>2. cases' = [cases EXCEPT ![c] = Absent] /\ closing' = closing
      BY <3>1 DEF Discard, Forget
    <3>3. caseOf[n] # c
      BY <2>1, <3>2 DEF IInv, TypeOK, StoreTypeOK, Absent
    <3>4. PICK S \in SUBSET Named(c) : Interrupt(S)
      BY <3>1 DEF Discard
    <3>5. n \notin S
      BY <3>3 DEF Named
    <3>6. cancelling[n]
      BY <1>1, <3>4, <3>5, Zenon DEF Interrupt
    <3>7. QED BY <2>1, <2>2, <3>2, <3>6 DEF OnlyShutdownCancels
  <2>6. QED
    BY <2>3, <2>4, <2>5
       DEF Next, RunnerNext, TaskStep, Submit, SubmitRefused, Start, NeverStart, Resume,
           LeaveQueue, AbortRun, Retire, Progress, Finish, CloseStep, CloseBegins,
           CloseReturns, WatchNext, taskVars, vars
<1>4. QED BY <1>2, <1>3

\* Once the grace period is over, or nothing was in flight, nothing goes on.
LEMMA ShutdownCancelsAllStep ==
    ASSUME IInv, ShutdownCancelsAll, [Next]_vars
    PROVE  ShutdownCancelsAll'
<1> SUFFICES ASSUME closing' \in {"cancelling", "closed"}, NEW n \in In(Unfinished)'
             PROVE  cancelling'[n]
  BY DEF ShutdownCancelsAll
<1>1. closing' = "open" \/ n \in In(Unfinished)
  BY UnfinishedWas
<1>2. n \in Submits /\ n \in In(Unfinished) /\ phase[n] \in Unfinished
  BY <1>1 DEF In
<1>3. CASE closing \in {"cancelling", "closed"}
  BY <1>2, <1>3, CancellingGrows DEF ShutdownCancelsAll
<1>4. CASE closing \notin {"cancelling", "closed"}
  <2>1. CloseBegins \/ DrainEnds
    BY <1>4
       DEF Next, RunnerNext, TaskStep, Submit, SubmitRefused, Discard, Start,
           NeverStart, Resume, LeaveQueue, AbortRun, Retire, Progress, Finish, CloseStep,
           CloseReturns, WatchNext, vars
  <2>2. CASE CloseBegins
    BY <1>2, <2>2 DEF CloseBegins, InTasks
  <2>3. CASE DrainEnds
    <3>1. Interrupt(Submits)
      BY <2>3 DEF DrainEnds
    <3>2. QED BY <1>2, <3>1, Zenon DEF Interrupt
  <2>4. QED BY <2>1, <2>2, <2>3
<1>5. QED BY <1>3, <1>4

LEMMA OrderStep ==
    ASSUME ~CallersBringIds, IInv, FirstStepTaken, RecInv, OrderInv, [Next]_vars
    PROVE  OrderInv'
  BY BegunInOrderStep, GrantedFirstStep, OnlyShutdownCancelsStep, ShutdownCancelsAllStep
     DEF OrderInv

LEMMA OrderInit == Init => OrderInv
  BY DEF Init, OrderInv, BegunInOrder, GrantedFirst, OnlyShutdownCancels,
         ShutdownCancelsAll, NotBegun, In, Pending, Unfinished

(* ----------------------- what a caller can see ---------------------------- *)

\* The phases of tasks and what their callers see: a record under the id of a
\* task is its own.
Seen(n) == IF phase[n] = "none" THEN "none"
           ELSE IF Held(caseOf[n]) THEN cases[caseOf[n]].status
           ELSE "dropped"

LEMMA StatusSeen ==
    ASSUME IInv, RecInv
    PROVE  SubmissionStatus = [n \in Submits |-> Seen(n)]
<1> SUFFICES ASSUME NEW n \in Submits, phase[n] # "none"
             PROVE  cases[caseOf[n]].sub = n <=> Held(caseOf[n])
  BY DEF SubmissionStatus, Seen, RecInv, AbsentOrHeld, IInv, TasksNamed
<1>1. caseOf[n] \in CaseIds
  BY DEF IInv, TasksNamed
<1>2. ~Held(caseOf[n]) => cases[caseOf[n]].sub = 0
  BY <1>1 DEF RecInv, AbsentOrHeld, Absent
<1>3. n # 0
  BY DEF Submits
<1>4. QED BY <1>2, <1>3, OwnTask

LEMMA StatusSeenNext ==
    ASSUME IInv', RecInv'
    PROVE  SubmissionStatus' = [n \in Submits |-> Seen(n)']
<1> SUFFICES ASSUME NEW n \in Submits, phase'[n] # "none"
             PROVE  cases'[caseOf'[n]].sub = n <=> cases'[caseOf'[n]].status # "absent"
  BY DEF SubmissionStatus, Seen, Held
<1>1. caseOf'[n] \in CaseIds /\ caseOf'[n] # NoCase
  BY StoreAssumption DEF IInv, TasksNamed
<1>2. cases'[caseOf'[n]].status # "absent" => cases'[caseOf'[n]].sub = n
  BY <1>1 DEF RecInv, OwnRecord, TaskPerId, Held
<1>3. cases'[caseOf'[n]].status # "absent" \/ cases'[caseOf'[n]].sub = 0
  BY <1>1 DEF RecInv, AbsentOrHeld, Absent, Held
<1>4. n # 0
  BY DEF Submits
<1>5. QED BY <1>2, <1>3, <1>4

\* What a caller sees of a submission says where its task can be.
LEMMA SeenStands ==
    ASSUME IInv, RecInv, NEW n \in Submits
    PROVE  /\ Seen(n) = "queued" => /\ phase[n] \in {"created", "waiting", "granted"}
                                    /\ Held(caseOf[n])
           /\ Seen(n) = "running" => phase[n] = "running" /\ Held(caseOf[n])
           /\ Seen(n) = "none" => phase[n] = "none"
           /\ phase[n] # "none" /\ Held(caseOf[n]) => Stands(Seen(n), phase[n])
<1>1. phase[n] \in Phases
  BY DEF IInv, TypeOK
<1>2. ASSUME phase[n] # "none", Held(caseOf[n])
      PROVE  /\ Seen(n) = cases[caseOf[n]].status
             /\ Seen(n) \in {"queued", "running"} \cup Settled
             /\ Stands(Seen(n), phase[n])
  BY <1>2, OwnTask DEF Seen, Record, Statuses, Held
<1>3. QED BY <1>1, <1>2 DEF Seen, Stands, Settled, Phases

\* The same is seen of every submission as before.
LEMMA NothingSeen ==
    ASSUME IInv, RecInv, IInv', RecInv', caseOf' = caseOf, cases' = cases,
           \A n \in Submits : phase'[n] = "none" <=> phase[n] = "none"
    PROVE  UNCHANGED SubmissionStatus
  BY StatusSeen, StatusSeenNext DEF Seen, Held

\* Another status is seen of the one submission whose record is replaced.
LEMMA OneSeen ==
    ASSUME IInv, RecInv, IInv', RecInv', caseOf' = caseOf,
           \A n \in Submits : phase'[n] = "none" <=> phase[n] = "none",
           NEW n \in Submits, phase[n] # "none", NEW r \in Record,
           cases' = [cases EXCEPT ![caseOf[n]] = r]
    PROVE  SubmissionStatus' =
              [SubmissionStatus EXCEPT ![n] = IF r.status = "absent" THEN "dropped"
                                              ELSE r.status]
<1>1. \A m \in Submits : phase[m] # "none" => caseOf[m] \in CaseIds
  BY DEF IInv, TasksNamed
<1>2. \A m \in Submits : phase[m] # "none" /\ m # n => caseOf[m] # caseOf[n]
  BY <1>1, StoreAssumption DEF RecInv, TaskPerId
<1>3. /\ cases'[caseOf[n]] = r
      /\ \A c \in CaseIds \ {caseOf[n]} : cases'[c] = cases[c]
  BY <1>1 DEF IInv, TypeOK, StoreTypeOK
<1>4. Seen(n)' = IF r.status = "absent" THEN "dropped" ELSE r.status
  BY <1>3 DEF Seen, Held
<1>5. \A m \in Submits \ {n} : Seen(m)' = Seen(m)
  BY <1>1, <1>2, <1>3 DEF Seen, Held
<1>6. QED BY <1>4, <1>5, StatusSeen, StatusSeenNext

\* The instance counts as this module does.
LEMMA SameCount == \A S : Lifecycle!Cardinality(S) = Cardinality(S)
  BY DEF Lifecycle!Cardinality, Lifecycle!IsFiniteSet, Cardinality, IsFiniteSet

\* A task obtains its slot in its turn, and while one is free.
LEMMA TurnTaken ==
    ASSUME IInv, RecInv, OrderInv, NEW n \in Submits, Held(caseOf[n]), ~cancelling[n],
           (IsNext(n, "created") /\ ~Locked) \/ IsNext(n, "granted")
    PROVE  /\ SubmissionStatus[n] = "queued"
           /\ \A m \in Submits : m < n => SubmissionStatus[m] # "queued"
           /\ Cardinality(Lifecycle!With("running")) < MaxConcurrent
<1>1. phase[n] \in {"created", "granted"} /\ n \in In(Unfinished)
  BY DEF IsNext, In, Unfinished
<1>2. SubmissionStatus[n] = "queued"
  BY <1>1, StatusSeen, SeenStands DEF Stands
<1>3. ASSUME NEW m \in Submits, m < n, SubmissionStatus[m] = "queued"
      PROVE  FALSE
  <2>1. phase[m] \in {"created", "waiting", "granted"} /\ Held(caseOf[m])
    BY <1>3, StatusSeen, SeenStands
  <2>2. m \in In(Unfinished)
    BY <2>1 DEF In, Unfinished
  <2>3. ~cancelling[m]
    BY <1>1, <2>1, <2>2 DEF OrderInv, OnlyShutdownCancels, ShutdownCancelsAll
  <2>4. CASE IsNext(n, "created") /\ ~Locked
    BY <1>3, <2>1, <2>3, <2>4 DEF IsNext, Locked, Pending, In
  <2>5. CASE IsNext(n, "granted")
    <3>1. phase[m] = "waiting"
      BY <1>3, <2>1, <2>5 DEF IsNext, OrderInv, BegunInOrder, NotBegun
    <3>2. m \in Pending /\ n \in In({"granted"})
      BY <2>3, <2>5, <3>1 DEF Pending, In, IsNext
    <3>3. n < m
      BY <3>2 DEF OrderInv, GrantedFirst
    <3>4. QED BY <1>3, <3>3 DEF Submits
  <2>6. QED BY <2>4, <2>5
<1>4. Cardinality(Lifecycle!With("running")) < MaxConcurrent
  <2> DEFINE R == Lifecycle!With("running")
  <2>1. R \subseteq Holding \ {n}
    BY <1>1, StatusSeen, SeenStands
       DEF Lifecycle!With, Lifecycle!Submissions, Submits, Holding, In
  <2>2. R \in SUBSET Submits /\ Holding \in SUBSET Submits
    BY <2>1 DEF Holding, In
  <2>3. /\ slots + Cardinality(Holding) = MaxConcurrent
        /\ slots \in Nat /\ MaxConcurrent \in Nat
        /\ Cardinality(R) \in Nat /\ Cardinality(Holding) \in Nat
    BY <2>2, SubmitsFinite, RunnerAssumption DEF IInv, SlotsConserved, TypeOK
  <2>4. CASE slots # 0
    <3>1. Cardinality(R) <= Cardinality(Holding)
      BY <2>1, <2>2, SubmitsFinite, FS_Subset
    <3>2. QED BY <2>3, <2>4, <3>1
  <2>5. CASE n \in Holding
    <3>1. Cardinality(Holding \ {n}) = Cardinality(Holding) - 1
      BY <2>2, <2>5, OneLess
    <3>2. Cardinality(R) <= Cardinality(Holding \ {n})
      BY <2>1, <2>2, SubmitsFinite, FS_Subset
    <3>3. QED BY <2>3, <3>1, <3>2
  <2>6. QED BY <2>4, <2>5 DEF Locked, IsNext, Holding, In
<1>5. QED BY <1>2, <1>3, <1>4

(* ------------------------- the steps are abstract steps ------------------- *)

\* A run is marked, and has begun; a waiter whose record is gone just ends.
LEMMA BeginImplements ==
    ASSUME IInv, RecInv, OrderInv, IInv', RecInv', NEW n \in Submits,
           Start(n) \/ Resume(n)
    PROVE  Lifecycle!Begin(n) \/ UNCHANGED SubmissionStatus
<1>1. /\ phase[n] \in {"created", "granted"} /\ ~cancelling[n] /\ caseOf' = caseOf
      /\ cases[caseOf[n]] \in Record
  BY DEF Start, Resume, IsNext, IInv, TasksNamed, TypeOK, StoreTypeOK
<1>2. \A m \in Submits : phase'[m] = "none" <=> phase[m] = "none"
  <2>1. CASE Start(n)
    BY <1>1, <2>1 DEF Start, IInv, TypeOK
  <2>2. CASE Resume(n)
    BY <1>1, <2>2 DEF Resume, Hand, Longest, Pending
  <2>3. QED BY <2>1, <2>2
<1>3. CASE cases' = cases
  BY <1>1, <1>2, <1>3, NothingSeen
<1>4. CASE /\ Held(caseOf[n]) /\ MarkRunning(caseOf[n])
           /\ (IsNext(n, "created") /\ ~Locked) \/ IsNext(n, "granted")
  <2> DEFINE r == [cases[caseOf[n]] EXCEPT !.status = "running"]
  <2>1. r \in Record /\ r.status = "running"
    BY <1>1, RecordFields DEF Record
  <2>2. cases' = [cases EXCEPT ![caseOf[n]] = r]
    BY <1>4 DEF MarkRunning, Publish
  <2>3. SubmissionStatus' = [SubmissionStatus EXCEPT ![n] = "running"]
    BY <1>1, <1>2, <2>1, <2>2, OneSeen
  <2>4. /\ SubmissionStatus[n] = "queued"
        /\ \A m \in Submits : m < n => SubmissionStatus[m] # "queued"
        /\ Cardinality(Lifecycle!With("running")) < MaxConcurrent
    BY <1>1, <1>4, TurnTaken
  <2>5. QED BY <2>3, <2>4, SameCount DEF Lifecycle!Begin, Lifecycle!Submissions, Submits
<1>5. QED BY <1>3, <1>4 DEF Start, Resume

\* How a run ends is recorded once; a queued case given up was never begun.
LEMMA EndImplements ==
    ASSUME IInv, RecInv, IInv', RecInv', NEW n \in Submits,
           LeaveQueue(n) \/ AbortRun(n) \/ Finish(n)
    PROVE  Lifecycle!Settle(n) \/ Lifecycle!Abandon(n) \/ UNCHANGED SubmissionStatus
<1>1. /\ phase[n] \in {"waiting", "granted", "running"} /\ caseOf' = caseOf /\ now' = now
      /\ cases[caseOf[n]] \in Record /\ now \in 1..MaxTime
  BY DEF LeaveQueue, AbortRun, Finish, IsNext, IInv, TasksNamed, TypeOK, StoreTypeOK
<1>2. \A m \in Submits : phase'[m] = "none" <=> phase[m] = "none"
  BY <1>1 DEF LeaveQueue, AbortRun, Finish, Release, Hand, Longest, Pending
<1>3. CASE cases' = cases
  BY <1>1, <1>2, <1>3, NothingSeen
<1>4. ASSUME NEW r \in Record, r.status \in Settled,
             cases' = [cases EXCEPT ![caseOf[n]] = r]
      PROVE  SubmissionStatus' = [SubmissionStatus EXCEPT ![n] = r.status]
  <2>1. r.status # "absent"
    BY <1>4 DEF Settled
  <2>2. QED BY <1>1, <1>2, <1>4, <2>1, OneSeen
<1>5. Held(caseOf[n]) => SubmissionStatus[n] = IF phase[n] = "running" THEN "running"
                                               ELSE "queued"
  BY <1>1, StatusSeen, SeenStands DEF Stands
<1>6. CASE Held(caseOf[n]) /\ Cancel(caseOf[n])
  <2> DEFINE r == [cases[caseOf[n]] EXCEPT !.status = "cancelled", !.finished_at = now,
                                           !.error = "cancelled"]
  <2>1. r \in Record /\ r.status = "cancelled"
    <3>1. "cancelled" \in ErrorCodes
      BY DEF ErrorCodes
    <3>2. r \in Record
      BY <1>1, <3>1, RecordFields
    <3>3. QED BY <1>1, <3>2 DEF Record
  <2>2. SubmissionStatus' = [SubmissionStatus EXCEPT ![n] = "cancelled"]
    BY <1>4, <1>6, <2>1 DEF Cancel, Publish, Settled
  <2>3. QED BY <1>5, <1>6, <2>2 DEF Lifecycle!Settle, Lifecycle!Abandon, Lifecycle!Final
<1>7. CASE /\ phase[n] = "running" /\ Held(caseOf[n])
           /\ \E e \in Endings : RecordOutcome(n, e)
  <2>1. PICK r \in Record : r.status \in Settled /\ cases' = [cases EXCEPT ![caseOf[n]] = r]
    BY <1>1, <1>7, Recorded DEF ReplacesRecord, Stands, Unfinished
  <2>2. QED BY <1>4, <1>5, <1>7, <2>1 DEF Lifecycle!Settle, Lifecycle!Final, Settled
<1>8. QED BY <1>3, <1>6, <1>7 DEF LeaveQueue, AbortRun, Finish, RecordCancelled

\* A submission is accepted in its turn; what it pushes out of the store is over.
LEMMA SubmitImplements ==
    ASSUME ~CallersBringIds, IInv, RecInv, OrderInv, IInv', RecInv',
           NEW n \in Submits, NEW c \in CaseIds, Submit(n, c)
    PROVE  \E D \in SUBSET Submits : Lifecycle!Accept(n, D)
<1>1. /\ c \in Unseen /\ phase[n] = "none"
      /\ \A m \in Submits : m < n => phase[m] # "none"
      /\ phase'[n] = "created" /\ caseOf'[n] = c
      /\ \A m \in Submits \ {n} : phase'[m] = phase[m] /\ caseOf'[m] = caseOf[m]
  BY MadeIdIsNew DEF Submit, IsNext, IInv, TypeOK
<1>2. PICK V \in Evictions : cases' = [Evicted(V) EXCEPT ![c] = Queued(n)]
  BY DEF Submit, Create
<1>3. /\ cases'[c] = Queued(n) /\ Queued(n).status = "queued" /\ Absent.status = "absent"
      /\ \A d \in CaseIds \ {c} : cases'[d] = IF d \in V THEN Absent ELSE cases[d]
      /\ V \subseteq CaseIds
      /\ \A v \in V : Held(v) /\ IsTerminal(cases[v])
  BY <1>2, EvictionsSettled DEF Evicted, Queued, Absent
<1> DEFINE D == {cases[v].sub : v \in V}
<1>4. \A v \in V : /\ cases[v].sub \in Submits /\ caseOf[cases[v].sub] = v
                   /\ phase[cases[v].sub] # "none"
  BY <1>3 DEF RecInv, OwnRecord
<1>5. \A m \in Submits : phase[m] # "none" =>
         caseOf[m] \in CaseIds \ {c} /\ (caseOf[m] \in V <=> m \in D)
  <2>1. ASSUME NEW m \in Submits, phase[m] # "none"
        PROVE  caseOf[m] \in CaseIds \ {c} /\ (caseOf[m] \in V <=> m \in D)
    <3>1. caseOf[m] \in CaseIds \ {c}
      BY <1>1, <2>1 DEF IInv, TasksNamed, Unseen
    <3>2. caseOf[m] \in V => cases[caseOf[m]].sub = m
      BY <1>3, <2>1, OwnTask
    <3>3. QED BY <1>4, <3>1, <3>2
  <2>2. QED BY <2>1
<1>6. \A v \in D : v \in Submits /\ v # n /\ SubmissionStatus[v] \in Settled
  <2>1. ASSUME NEW v \in V
        PROVE  SubmissionStatus[cases[v].sub] = cases[v].status
    BY <1>3, <1>4, StatusSeen DEF Seen
  <2>2. QED BY <1>1, <1>3, <1>4, <2>1 DEF IsTerminal
<1>7. SubmissionStatus' = [[m \in Submits |-> IF m \in D THEN "dropped"
                                              ELSE SubmissionStatus[m]]
                             EXCEPT ![n] = "queued"]
  <2>1. Seen(n)' = "queued"
    BY <1>1, <1>3 DEF Seen, Held
  <2>2. ASSUME NEW m \in Submits \ {n}
        PROVE  Seen(m)' = IF m \in D THEN "dropped" ELSE Seen(m)
    <3>1. CASE phase[m] = "none"
      BY <1>1, <1>4, <2>2, <3>1 DEF Seen
    <3>2. CASE phase[m] # "none"
      BY <1>1, <1>3, <1>5, <2>2, <3>2 DEF Seen, Held
    <3>3. QED BY <3>1, <3>2
  <2>3. QED BY <2>1, <2>2, StatusSeen, StatusSeenNext
<1>8. /\ SubmissionStatus[n] = "none"
      /\ \A m \in Submits : m < n => SubmissionStatus[m] # "none"
  BY <1>1, StatusSeen, SeenStands DEF Seen
<1>9. Lifecycle!Accept(n, D)
  BY <1>6, <1>7, <1>8
     DEF Lifecycle!Accept, Lifecycle!Dropping, Lifecycle!Submissions, Lifecycle!Final,
         Submits, Settled
<1>10. QED BY <1>6, <1>9

\* A caller drops a case it could see.
LEMMA DiscardImplements ==
    ASSUME ~CallersBringIds, IInv, RecInv, IInv', RecInv', NEW c \in CaseIds, Discard(c)
    PROVE  \E n \in Submits : Lifecycle!Drop(n)
<1>1. UNCHANGED <<phase, caseOf>> /\ cases' = [cases EXCEPT ![c] = Absent] /\ Held(c)
  BY DEF Discard, Forget
<1> DEFINE n == cases[c].sub
<1>2. n \in Submits /\ caseOf[n] = c /\ phase[n] # "none"
  BY <1>1 DEF RecInv, OwnRecord
<1>3. SubmissionStatus' = [SubmissionStatus EXCEPT ![n] = "dropped"]
  BY <1>1, <1>2, AbsentType, OneSeen DEF Absent
<1>4. SubmissionStatus[n] = cases[c].status
  BY <1>1, <1>2, StatusSeen DEF Seen
<1>5. cases[c].status \in {"queued", "running"} \cup Settled
  BY <1>1 DEF IInv, TypeOK, StoreTypeOK, Record, Statuses, Held
<1>6. QED BY <1>2, <1>3, <1>4, <1>5
          DEF Lifecycle!Drop, Lifecycle!Unsettled, Lifecycle!Final, Settled

\* Reporting progress leaves the status as it is.
LEMMA ProgressImplements ==
    ASSUME IInv, RecInv, IInv', RecInv', NEW n \in Submits, Progress(n)
    PROVE  UNCHANGED SubmissionStatus
<1>1. /\ phase[n] = "running" /\ caseOf' = caseOf /\ cases[caseOf[n]] \in Record
  BY DEF Progress, IInv, TasksNamed, TypeOK, StoreTypeOK
<1>2. \A m \in Submits : phase'[m] = "none" <=> phase[m] = "none"
  BY <1>1 DEF Progress, Release, Hand, Longest, Pending
<1>3. CASE cases' = cases
  BY <1>1, <1>2, <1>3, NothingSeen
<1>4. CASE Held(caseOf[n]) /\ cases[caseOf[n]].events < MaxEvents /\ AppendEvent(caseOf[n])
  <2> DEFINE r == [cases[caseOf[n]] EXCEPT !.events = @ + 1]
  <2>1. r \in Record /\ r.status = cases[caseOf[n]].status
    BY <1>1, <1>4, RecordFields DEF Record
  <2>2. cases' = [cases EXCEPT ![caseOf[n]] = r]
    BY <1>4 DEF AppendEvent, Publish
  <2>3. SubmissionStatus' = [SubmissionStatus EXCEPT ![n] = r.status]
    BY <1>1, <1>2, <1>4, <2>1, <2>2, OneSeen DEF Held
  <2>4. SubmissionStatus[n] = r.status
    BY <1>1, <1>4, <2>1, StatusSeen DEF Seen
  <2>5. QED BY <2>3, <2>4, StatusSeen
<1>5. QED BY <1>3, <1>4 DEF Progress

\* Nobody is told of the other steps.
LEMMA QuietImplements ==
    ASSUME IInv, RecInv, IInv', RecInv',
           \/ \E n \in Submits : Retire(n)
           \/ CloseStep
           \/ Tick /\ UNCHANGED <<taskVars, slots, waiting, closing>>
           \/ WatchNext
           \/ UNCHANGED vars
    PROVE  UNCHANGED SubmissionStatus
<1>1. UNCHANGED <<cases, caseOf>>
  BY DEF Retire, CloseStep, CloseBegins, DrainEnds, CloseReturns, Tick, WatchNext,
         taskVars, vars
<1>2. UNCHANGED phase \/ \E n \in Submits : Retire(n)
  BY DEF CloseStep, CloseBegins, DrainEnds, CloseReturns, WatchNext, taskVars, vars
<1>3. \A m \in Submits : phase'[m] = "none" <=> phase[m] = "none"
  BY <1>2 DEF Retire, IInv, TypeOK
<1>4. QED BY <1>1, <1>3, NothingSeen

LEMMA StepImplements ==
    ASSUME ~CallersBringIds, IInv, FirstStepTaken, RecInv, OrderInv, [Next]_vars
    PROVE  [Lifecycle!Next]_SubmissionStatus
<1>1. IInv' /\ RecInv'
  BY Inductive, RecordStep
<1> USE <1>1
<1>2. Submits = Lifecycle!Submissions
  BY DEF Submits, Lifecycle!Submissions
<1>3. CASE \E n \in Submits, c \in CaseIds : Submit(n, c)
  BY <1>2, <1>3, SubmitImplements DEF Lifecycle!Next
<1>4. CASE \E c \in CaseIds : SubmitRefused(c)
  <2>1. PICK c \in CaseIds : SubmitRefused(c)
    BY <1>4
  <2>2. PICK V \in Evictions : Evicted(V)[c] # Absent
    BY <2>1 DEF SubmitRefused, Conflict
  <2>3. ~Held(c)
    BY <2>1, MadeIdIsNew DEF SubmitRefused
  <2>4. QED BY <2>2, <2>3, EvictionsSettled DEF RecInv, AbsentOrHeld
<1>5. CASE \E c \in CaseIds : Discard(c)
  BY <1>2, <1>5, DiscardImplements DEF Lifecycle!Next
<1>6. CASE \E n \in Submits : Start(n) \/ Resume(n)
  BY <1>2, <1>6, BeginImplements DEF Lifecycle!Next
<1>7. CASE \E n \in Submits : NeverStart(n)
  BY <1>7 DEF NeverStart, IsNext, FirstStepTaken
<1>8. CASE \E n \in Submits : LeaveQueue(n) \/ AbortRun(n) \/ Finish(n)
  BY <1>2, <1>8, EndImplements DEF Lifecycle!Next
<1>9. CASE \E n \in Submits : Progress(n)
  BY <1>9, ProgressImplements
<1>10. CASE \/ \E n \in Submits : Retire(n)
            \/ CloseStep
            \/ Tick /\ UNCHANGED <<taskVars, slots, waiting, closing>>
            \/ WatchNext
            \/ UNCHANGED vars
  BY <1>10, QuietImplements
<1>11. QED BY <1>3, <1>4, <1>5, <1>6, <1>7, <1>8, <1>9, <1>10
           DEF Next, RunnerNext, TaskStep

(* ------------------------- order and implementation ----------------------- *)

(* Slots are handed out in the order cases were accepted, and a case that is
   still held is cancelled by shutting down only. *)
THEOREM OrderInvariant == ~CallersBringIds => (Spec => []OrderInv)
<1> SUFFICES ASSUME ~CallersBringIds PROVE Spec => []OrderInv
  OBVIOUS
<1>1. IInv /\ FirstStepTaken /\ RecInv /\ OrderInv /\ [Next]_vars => OrderInv'
  BY OrderStep
<1>2. QED BY <1>1, OrderInit, RecordsInvariant, PTL DEF Spec

(* What a caller can see of the submissions begins and moves as CaseLifecycle
   says: each runs once, in its turn, at most MaxConcurrent together, ends in
   one outcome, and leaves the store early only when its caller deletes it. *)
THEOREM RunnerImplementsLifecycle == ~CallersBringIds => (Spec => Lifecycle!SafeSpec)
<1> SUFFICES ASSUME ~CallersBringIds PROVE Spec => Lifecycle!SafeSpec
  OBVIOUS
<1>1. Init => Lifecycle!Init
  BY DEF Init, Lifecycle!Init, Lifecycle!Submissions, SubmissionStatus, Submits
<1>2. IInv /\ FirstStepTaken /\ RecInv /\ OrderInv /\ [Next]_vars
         => [Lifecycle!Next]_SubmissionStatus
  BY StepImplements
<1>3. QED BY <1>1, <1>2, RecordsInvariant, OrderInvariant, PTL
          DEF Spec, Lifecycle!SafeSpec

(* ---------------------------- ids used again ------------------------------ *)

InLine == {"created", "waiting", "granted"}

\* A record is of the last submission of its id.
RecordOfNewest ==
    \A c \in CaseIds :
        Held(c) => /\ cases[c].sub \in Submits
                   /\ caseOf[cases[c].sub] = c
                   /\ phase[cases[c].sub] # "none"
                   /\ \A m \in Submits :
                         phase[m] # "none" /\ caseOf[m] = c => m <= cases[c].sub

\* Only shutting down cancels the task of a record that is still held.
OwnTaskKept ==
    \A c \in CaseIds :
        Held(c) /\ phase[cases[c].sub] \in Unfinished /\ cancelling[cases[c].sub] =>
            closing \in {"cancelling", "closed"}

\* Nothing that will still mark it as running is behind the task of a record.
NoneLeftBehind ==
    \A c \in CaseIds :
        Held(c) /\ phase[cases[c].sub] \notin InLine =>
            \A m \in Submits : caseOf[m] = c /\ phase[m] \in InLine => cancelling[m]

EndedIsTerminal ==
    \A c \in CaseIds :
        Held(c) /\ phase[cases[c].sub] \in {"done", "retired"} => IsTerminal(cases[c])

NoneToBegin == closing \in {"cancelling", "closed"} => In({"created"}) = {}

OwnersInv ==
    RecordOfNewest /\ OwnTaskKept /\ NoneLeftBehind /\ EndedIsTerminal /\ NoneToBegin

QueueInv == BegunInOrder /\ GrantedFirst /\ ShutdownCancelsAll

\* Task n goes on to phase p; a slot is obtained in turn, and a run that ends has
\* settled what it finds under its id.
Goes(n, p) ==
    LET c == caseOf[n] IN
    /\ Moves(n, p)
    /\ UNCHANGED closing
    /\ p = "waiting" => phase[n] = "created"
    /\ p = "running" /\ phase[n] # "running" =>
          /\ phase[n] \in InLine /\ ~cancelling[n]
          /\ \A m \in Submits : m < n /\ phase[m] \in InLine => cancelling[m]
    /\ p = "done" /\ Held(c) =>
          \/ phase[n] = "created" /\ cancelling[n]
          \/ /\ IsTerminal(cases'[c])
             /\ phase[n] = "running" \/ cancelling[n]

\* The records it leaves: only its own id's changes, and not to whom it belongs.
Settles(n, p) ==
    LET c == caseOf[n] IN
    \A d \in CaseIds :
        \/ cases'[d] = cases[d]
        \/ /\ d = c /\ Held(c)
           /\ cases'[c].status # "absent" /\ cases'[c].sub = cases[c].sub
           /\ \/ IsTerminal(cases[c]) => IsTerminal(cases'[c])
              \/ p = "running" /\ phase[n] # "running"

\* A record is replaced under the id of task n.
LEMMA ReplacedBy ==
    ASSUME IInv, NEW n \in Submits, phase[n] # "none", Held(caseOf[n]),
           NEW r, cases' = [cases EXCEPT ![caseOf[n]] = r],
           r.sub = cases[caseOf[n]].sub, r.status # "absent",
           NEW p, \/ IsTerminal(cases[caseOf[n]]) => IsTerminal(r)
                  \/ p = "running" /\ phase[n] # "running"
    PROVE  Settles(n, p) /\ cases'[caseOf[n]] = r
<1>1. /\ caseOf[n] \in CaseIds
      /\ \A d \in CaseIds : cases'[d] = IF d = caseOf[n] THEN r ELSE cases[d]
  BY DEF IInv, TasksNamed, TypeOK, StoreTypeOK
<1>2. QED BY <1>1 DEF Settles

\* What _run records of its own id.
LEMMA RecordedAnyhow ==
    ASSUME IInv, NEW n \in Submits, phase[n] # "none", Held(caseOf[n])
    PROVE  /\ MarkRunning(caseOf[n]) /\ phase[n] # "running" => Settles(n, "running")
           /\ AppendEvent(caseOf[n]) => Settles(n, "running")
           /\ Cancel(caseOf[n]) => Settles(n, "done") /\ IsTerminal(cases'[caseOf[n]])
           /\ \A e \in Endings :
                 RecordOutcome(n, e) => Settles(n, "done") /\ IsTerminal(cases'[caseOf[n]])
<1> DEFINE r == cases[caseOf[n]]
<1>1. r \in Record
  BY DEF IInv, TasksNamed, TypeOK, StoreTypeOK
<1>2. ASSUME MarkRunning(caseOf[n]), phase[n] # "running"
      PROVE  Settles(n, "running")
  <2> DEFINE q == [r EXCEPT !.status = "running"]
  <2>1. q.sub = r.sub /\ q.status # "absent" /\ cases' = [cases EXCEPT ![caseOf[n]] = q]
    BY <1>1, <1>2 DEF MarkRunning, Publish, Record
  <2> HIDE DEF q, r
  <2>2. QED BY <1>2, <2>1, ReplacedBy DEF r
<1>3. ASSUME AppendEvent(caseOf[n])
      PROVE  Settles(n, "running")
  <2> DEFINE q == [r EXCEPT !.events = @ + 1]
  <2>1. q.sub = r.sub /\ q.status = r.status /\ cases' = [cases EXCEPT ![caseOf[n]] = q]
    BY <1>1, <1>3 DEF AppendEvent, Publish, Record
  <2> HIDE DEF q
  <2>2. QED BY <2>1, ReplacedBy DEF IsTerminal, Held
<1>4. ASSUME NEW s \in Settled, NEW q, q.status = s, q.sub = r.sub, Publish(caseOf[n], q)
      PROVE  Settles(n, "done") /\ IsTerminal(cases'[caseOf[n]])
  <2>1. q.status # "absent" /\ IsTerminal(q) /\ cases' = [cases EXCEPT ![caseOf[n]] = q]
    BY <1>4 DEF Settled, IsTerminal, Publish
  <2>2. QED BY <1>4, <2>1, ReplacedBy
<1>5. Cancel(caseOf[n]) => Settles(n, "done") /\ IsTerminal(cases'[caseOf[n]])
  <2> DEFINE q == [r EXCEPT !.status = "cancelled", !.finished_at = now,
                            !.error = "cancelled"]
  <2>1. q.status \in Settled /\ q.sub = r.sub
    BY <1>1 DEF Record, Settled
  <2> HIDE DEF q
  <2>2. QED BY <1>4, <2>1 DEF Cancel, q
<1>6. Succeed(caseOf[n], n) => Settles(n, "done") /\ IsTerminal(cases'[caseOf[n]])
  <2> DEFINE q == [r EXCEPT !.status = "succeeded", !.finished_at = now, !.result = n]
  <2>1. q.status \in Settled /\ q.sub = r.sub
    BY <1>1 DEF Record, Settled
  <2> HIDE DEF q
  <2>2. QED BY <1>4, <2>1 DEF Succeed, q
<1>7. ASSUME NEW code, Fail(caseOf[n], code)
      PROVE  Settles(n, "done") /\ IsTerminal(cases'[caseOf[n]])
  <2> DEFINE q == [r EXCEPT !.status = "failed", !.finished_at = now, !.error = code]
  <2>1. q.status \in Settled /\ q.sub = r.sub
    BY <1>1 DEF Record, Settled
  <2> HIDE DEF q
  <2>2. QED BY <1>4, <1>7, <2>1 DEF Fail, q
<1>8. ASSUME NEW e \in Endings, RecordOutcome(n, e)
      PROVE  Settles(n, "done") /\ IsTerminal(cases'[caseOf[n]])
  BY <1>5, <1>6, <1>7, <1>8 DEF RecordOutcome
<1>9. QED BY <1>2, <1>3, <1>5, <1>8

\* A task that obtains a slot has been overtaken by no earlier one.
LEMMA NoneOvertaken ==
    ASSUME IInv, BegunInOrder, GrantedFirst, NEW n \in Submits,
           (IsNext(n, "created") /\ ~Locked) \/ IsNext(n, "granted"),
           NEW m \in Submits, m < n, phase[m] \in InLine
    PROVE  cancelling[m]
<1>1. SUFFICES ASSUME ~cancelling[m] PROVE FALSE
  OBVIOUS
<1>2. CASE IsNext(n, "created") /\ ~Locked
  BY <1>1, <1>2 DEF IsNext, Locked, Pending, In, InLine
<1>3. CASE IsNext(n, "granted")
  <2>1. phase[m] = "waiting"
    BY <1>3 DEF IsNext, BegunInOrder, NotBegun, InLine
  <2>2. m \in Pending /\ n \in In({"granted"})
    BY <1>1, <1>3, <2>1 DEF Pending, In, IsNext
  <2>3. n < m
    BY <2>2 DEF GrantedFirst
  <2>4. QED BY <2>3 DEF Submits
<1>4. QED BY <1>2, <1>3

\* Every step of an unfinished task is of this kind, whatever ids are used.
LEMMA TaskGoes ==
    ASSUME IInv, BegunInOrder, GrantedFirst, NEW n \in Submits,
           \/ Start(n) \/ NeverStart(n) \/ Resume(n) \/ LeaveQueue(n)
           \/ AbortRun(n) \/ Progress(n) \/ Finish(n)
    PROVE  /\ phase[n] \in Unfinished
           /\ \E p \in {"waiting", "running", "done"} : Goes(n, p) /\ Settles(n, p)
<1> TypeOK /\ phase[n] # "none" /\ phase[n] \in Unfinished
  BY DEF IInv, Start, NeverStart, Resume, LeaveQueue, AbortRun, Progress, Finish, IsNext,
         Unfinished
<1>a. ASSUME NEW p, cases' = cases PROVE Settles(n, p)
  BY <1>a DEF Settles
<1>1. CASE Start(n)
  <2>1. CASE Locked
    <3>1. Moves(n, "waiting") /\ cases' = cases /\ closing' = closing /\ phase[n] = "created"
      BY <1>1, <2>1, AloneMoves DEF Start, IsNext
    <3>2. QED BY <1>a, <3>1 DEF Goes
  <2>2. CASE ~Locked /\ Held(caseOf[n])
    <3>1. /\ Moves(n, "running") /\ closing' = closing /\ phase[n] = "created"
          /\ ~cancelling[n] /\ MarkRunning(caseOf[n]) /\ IsNext(n, "created")
      BY <1>1, <2>2, AloneMoves DEF Start, IsNext
    <3>2. Settles(n, "running")
      BY <2>2, <3>1, RecordedAnyhow
    <3>3. Goes(n, "running")
      BY <2>2, <3>1, NoneOvertaken DEF Goes, InLine
    <3>4. QED BY <3>2, <3>3
  <2>3. CASE ~Locked /\ ~Held(caseOf[n])
    <3>1. Moves(n, "done") /\ cases' = cases /\ closing' = closing
      BY <1>1, <2>3, AloneMoves DEF Start
    <3>2. QED BY <1>a, <2>3, <3>1 DEF Goes
  <2>4. QED BY <2>1, <2>2, <2>3
<1>2. CASE NeverStart(n)
  <2>1. /\ Moves(n, "done") /\ cases' = cases /\ closing' = closing
        /\ phase[n] = "created" /\ cancelling[n]
    BY <1>2, AloneMoves DEF NeverStart, IsNext
  <2>2. QED BY <1>a, <2>1 DEF Goes
<1>3. CASE Resume(n)
  <2>1. CASE Held(caseOf[n])
    <3>1. /\ Moves(n, "running") /\ closing' = closing /\ phase[n] = "granted"
          /\ ~cancelling[n] /\ MarkRunning(caseOf[n]) /\ IsNext(n, "granted")
      BY <1>3, <2>1, HandPhases DEF Resume, IsNext
    <3>2. Settles(n, "running")
      BY <2>1, <3>1, RecordedAnyhow
    <3>3. Goes(n, "running")
      BY <3>1, NoneOvertaken DEF Goes, InLine
    <3>4. QED BY <3>2, <3>3
  <2>2. CASE ~Held(caseOf[n])
    <3>1. Moves(n, "done") /\ cases' = cases /\ closing' = closing
      BY <1>3, <2>2, HandPhases DEF Resume
    <3>2. QED BY <1>a, <2>2, <3>1 DEF Goes
  <2>3. QED BY <2>1, <2>2
<1>4. CASE LeaveQueue(n) \/ AbortRun(n)
  <2>1. /\ Moves(n, "done") /\ closing' = closing /\ cancelling[n] /\ RecordCancelled(n)
    BY <1>4, HandPhases DEF LeaveQueue, AbortRun, Release
  <2>2. Settles(n, "done") /\ (Held(caseOf[n]) => IsTerminal(cases'[caseOf[n]]))
    BY <1>a, <2>1, RecordedAnyhow DEF RecordCancelled
  <2>3. QED BY <2>1, <2>2 DEF Goes
<1>5. CASE Progress(n)
  <2>1. CASE UNCHANGED phase
    <3>1. /\ Moves(n, "running") /\ closing' = closing /\ phase[n] = "running"
          /\ AppendEvent(caseOf[n]) /\ Held(caseOf[n])
      BY <1>5, <2>1 DEF Progress, Moves, Release, Hand, IInv, TypeOK
    <3>2. QED BY <3>1, RecordedAnyhow DEF Goes
  <2>2. CASE ~Held(caseOf[n])
    <3>1. Moves(n, "done") /\ cases' = cases /\ closing' = closing
      BY <1>5, <2>2, HandPhases DEF Progress, Release
    <3>2. QED BY <1>a, <2>2, <3>1 DEF Goes
  <2>3. QED BY <1>5, <2>1, <2>2 DEF Progress
<1>6. CASE Finish(n)
  <2>1. Moves(n, "done") /\ closing' = closing /\ phase[n] = "running"
    BY <1>6, HandPhases DEF Finish, Release
  <2>2. Settles(n, "done") /\ (Held(caseOf[n]) => IsTerminal(cases'[caseOf[n]]))
    BY <1>6, <1>a, RecordedAnyhow DEF Finish
  <2>3. QED BY <2>1, <2>2 DEF Goes
<1>7. QED BY <1>1, <1>2, <1>3, <1>4, <1>5, <1>6

\* Such a step keeps records and tasks together.
LEMMA GoesKeeps ==
    ASSUME IInv, QueueInv, OwnersInv, NEW n \in Submits, phase[n] \in Unfinished,
           NEW p \in {"waiting", "running", "done"}, Goes(n, p), Settles(n, p)
    PROVE  OwnersInv'
<1> DEFINE c == caseOf[n]
<1>1. /\ phase \in [Submits -> Phases] /\ phase'[n] = p /\ phase[n] # "none" /\ c \in CaseIds
      /\ caseOf' = caseOf /\ cancelling' = cancelling /\ closing' = closing
      /\ \A m \in Submits \ {n} : \/ phase'[m] = phase[m]
                                  \/ phase[m] = "waiting" /\ phase'[m] = "granted"
  BY DEF Goes, Moves, IInv, TypeOK, TasksNamed, Unfinished
<1>2. \A d \in CaseIds : /\ cases'[d].sub = cases[d].sub
                         /\ cases'[d].status # "absent" <=> Held(d)
  BY DEF Settles, Held
<1>3. \A m \in Submits : phase'[m] # "none" <=> phase[m] # "none"
  BY <1>1
<1>4. RecordOfNewest'
  BY <1>1, <1>2, <1>3 DEF OwnersInv, RecordOfNewest, Held
<1>5. \A m \in Submits : /\ phase'[m] \in Unfinished => phase[m] \in Unfinished
                         /\ phase'[m] = "created" => phase[m] = "created"
                         /\ phase'[m] \in InLine => phase[m] \in InLine
  BY <1>1 DEF Unfinished, InLine, Goes
<1>6. OwnTaskKept'
  BY <1>1, <1>2, <1>5 DEF OwnersInv, RecordOfNewest, OwnTaskKept, Held
<1>7. NoneToBegin'
  BY <1>1, <1>5 DEF OwnersInv, NoneToBegin, In
\* If a task cancelled is that of a record held, the service is shutting down.
<1>8. ASSUME Held(c), cases[c].sub = n, cancelling[n]
      PROVE  phase[n] # "created" /\ \A m \in Submits : phase[m] \in InLine => cancelling[m]
  <2>1. closing \in {"cancelling", "closed"}
    BY <1>1, <1>8 DEF OwnersInv, OwnTaskKept
  <2>2. phase[n] # "created"
    BY <2>1 DEF OwnersInv, NoneToBegin, In
  <2>3. QED BY <2>1, <2>2 DEF QueueInv, ShutdownCancelsAll, In, InLine, Unfinished
<1>9. NoneLeftBehind'
  <2> SUFFICES ASSUME NEW d \in CaseIds, Held(d), phase'[cases[d].sub] \notin InLine,
                      NEW m \in Submits, caseOf[m] = d, phase[m] \in InLine,
                      phase'[m] \in InLine
               PROVE  cancelling[m]
    BY <1>1, <1>2, <1>5 DEF NoneLeftBehind, Held
  <2>1. /\ cases[d].sub \in Submits /\ caseOf[cases[d].sub] = d /\ m <= cases[d].sub
    BY DEF OwnersInv, RecordOfNewest, InLine
  <2>2. CASE phase[cases[d].sub] \notin InLine
    BY <2>2 DEF OwnersInv, NoneLeftBehind
  <2>3. CASE phase[cases[d].sub] \in InLine
    <3>1. cases[d].sub = n /\ d = c
      BY <1>1, <2>1, <2>3 DEF InLine
    <3>2. m < n
      BY <1>1, <2>1, <3>1 DEF Submits
    <3>3. p \in {"running", "done"}
      BY <1>1, <3>1 DEF InLine
    <3>4. CASE p = "running"
      BY <2>3, <3>1, <3>2, <3>4 DEF Goes, InLine
    <3>5. CASE p = "done"
      <4>1. cancelling[n]
        BY <2>3, <3>1, <3>5 DEF Goes, InLine
      <4>2. QED BY <1>8, <3>1, <4>1
    <3>6. QED BY <3>3, <3>4, <3>5
  <2>4. QED BY <2>2, <2>3
<1>10. EndedIsTerminal'
  <2> SUFFICES ASSUME NEW d \in CaseIds, Held(d),
                      phase'[cases[d].sub] \in {"done", "retired"}
               PROVE  IsTerminal(cases'[d])
    BY <1>1, <1>2 DEF EndedIsTerminal, Held
  <2>1. /\ cases[d].sub \in Submits /\ caseOf[cases[d].sub] = d
    BY DEF OwnersInv, RecordOfNewest
  <2>2. CASE cases[d].sub = n
    <3>1. d = c /\ p = "done"
      BY <1>1, <2>1, <2>2
    <3>2. ~(phase[n] = "created" /\ cancelling[n])
      BY <1>8, <2>2, <3>1
    <3>3. QED BY <3>1, <3>2 DEF Goes
  <2>3. CASE cases[d].sub # n
    <3>1. phase[cases[d].sub] \in {"done", "retired"}
      BY <1>1, <2>1, <2>3
    <3>2. IsTerminal(cases[d])
      BY <3>1 DEF OwnersInv, EndedIsTerminal
    <3>3. ~(d = c /\ p = "running" /\ phase[n] # "running")
      BY <3>1 DEF Goes, OwnersInv, NoneLeftBehind, InLine
    <3>4. QED BY <3>2, <3>3 DEF Settles
  <2>4. QED BY <2>2, <2>3
<1>11. QED BY <1>4, <1>6, <1>7, <1>9, <1>10 DEF OwnersInv

\* What is evicted was held, and nothing else changes.
LEMMA EvictedRecords ==
    ASSUME NEW V \in Evictions
    PROVE  \A d \in CaseIds : Evicted(V)[d] = cases[d] \/ Evicted(V)[d] = Absent
  BY DEF Evicted

\* Records that stay are as before, and so is where their tasks stand.
LEMMA FewerRecords ==
    ASSUME OwnersInv, phase' = phase, caseOf' = caseOf, closing' = closing,
           \A d \in CaseIds : cases'[d] = cases[d] \/ cases'[d] = Absent,
           \A m \in Submits : cancelling[m] => cancelling'[m],
           \A d \in CaseIds : cases'[d].status # "absent" =>
               cancelling'[cases[d].sub] = cancelling[cases[d].sub]
    PROVE  OwnersInv'
<1>1. \A d \in CaseIds : cases'[d].status # "absent" => cases'[d] = cases[d] /\ Held(d)
  BY DEF Held, Absent
<1>2. RecordOfNewest'
  BY <1>1 DEF OwnersInv, RecordOfNewest, Held
<1>3. OwnTaskKept'
  BY <1>1 DEF OwnersInv, OwnTaskKept, Held
<1>4. NoneLeftBehind'
  BY <1>1 DEF OwnersInv, NoneLeftBehind, Held
<1>5. EndedIsTerminal'
  BY <1>1 DEF OwnersInv, EndedIsTerminal, Held
<1>6. NoneToBegin'
  BY DEF OwnersInv, NoneToBegin, In
<1>7. QED BY <1>2, <1>3, <1>4, <1>5, <1>6 DEF OwnersInv

\* A new submission is the last of its id, and its task is in line.
LEMMA SubmitOwns ==
    ASSUME IInv, FirstStepTaken, QueueInv, OwnersInv, NEW n \in Submits, NEW c \in CaseIds,
           Submit(n, c)
    PROVE  OwnersInv'
<1>1. /\ phase' = [phase EXCEPT ![n] = "created"]
      /\ caseOf' = [caseOf EXCEPT ![n] = c]
      /\ cancelling' = cancelling /\ closing = "open" /\ closing' = "open"
      /\ phase[n] = "none" /\ ~cancelling[n]
      /\ phase \in [Submits -> Phases] /\ caseOf \in [Submits -> CaseIds \cup {NoCase}]
  BY DEF Submit, Admitting, IsNext, FirstStepTaken, IInv, TypeOK
<1>2. \A m \in Submits : phase[m] # "none" => m < n
  BY <1>1 DEF QueueInv, BegunInOrder, Submits
<1>3. PICK V \in Evictions : cases' = [Evicted(V) EXCEPT ![c] = Queued(n)]
  BY DEF Submit, Create
<1>4. /\ cases'[c] = Queued(n)
      /\ \A d \in CaseIds \ {c} : cases'[d] = cases[d] \/ cases'[d] = Absent
  BY <1>3, EvictedRecords DEF Evicted
<1>5. cases'[c].sub = n /\ cases'[c].status = "queued"
  BY <1>4 DEF Queued, Absent
<1>6. \A d \in CaseIds \ {c} :
         cases'[d].status # "absent" =>
            /\ cases'[d] = cases[d] /\ Held(d)
            /\ cases[d].sub \in Submits \ {n} /\ caseOf[cases[d].sub] = d
  BY <1>1, <1>4 DEF Held, Absent, OwnersInv, RecordOfNewest
<1>7. /\ phase'[n] = "created" /\ caseOf'[n] = c
      /\ \A m \in Submits \ {n} : phase'[m] = phase[m] /\ caseOf'[m] = caseOf[m]
  BY <1>1
<1>8. RecordOfNewest'
  <2>1. ASSUME NEW d \in CaseIds, cases'[d].status # "absent"
        PROVE  /\ cases'[d].sub \in Submits /\ caseOf'[cases'[d].sub] = d
               /\ phase'[cases'[d].sub] # "none"
               /\ \A m \in Submits :
                     phase'[m] # "none" /\ caseOf'[m] = d => m <= cases'[d].sub
    <3>1. CASE d = c
      BY <1>2, <1>5, <1>7, <3>1 DEF Submits
    <3>2. CASE d # c
      BY <1>6, <1>7, <2>1, <3>2 DEF OwnersInv, RecordOfNewest
    <3>3. QED BY <3>1, <3>2
  <2>2. QED BY <2>1 DEF RecordOfNewest, Held
<1>9. OwnTaskKept'
  <2>1. ASSUME NEW d \in CaseIds, cases'[d].status # "absent",
               phase'[cases'[d].sub] \in Unfinished, cancelling[cases'[d].sub]
        PROVE  FALSE
    <3>1. d # c
      BY <1>1, <1>5, <2>1
    <3>2. QED BY <1>1, <1>6, <1>7, <2>1, <3>1 DEF OwnersInv, OwnTaskKept
  <2>2. QED BY <1>1, <2>1 DEF OwnTaskKept, Held
<1>10. NoneLeftBehind'
  <2>1. ASSUME NEW d \in CaseIds, cases'[d].status # "absent",
               phase'[cases'[d].sub] \notin InLine,
               NEW m \in Submits, caseOf'[m] = d, phase'[m] \in InLine
        PROVE  cancelling[m]
    <3>1. d # c
      BY <1>5, <1>7, <2>1 DEF InLine
    <3>2. QED BY <1>6, <1>7, <2>1, <3>1 DEF OwnersInv, NoneLeftBehind
  <2>2. QED BY <1>1, <2>1 DEF NoneLeftBehind, Held
<1>11. EndedIsTerminal'
  <2>1. ASSUME NEW d \in CaseIds, cases'[d].status # "absent",
               phase'[cases'[d].sub] \in {"done", "retired"}
        PROVE  IsTerminal(cases'[d])
    <3>1. d # c
      BY <1>5, <1>7, <2>1
    <3>2. QED BY <1>6, <1>7, <2>1, <3>1 DEF OwnersInv, EndedIsTerminal
  <2>2. QED BY <2>1 DEF EndedIsTerminal, Held
<1>12. NoneToBegin'
  BY <1>1 DEF NoneToBegin
<1>13. QED BY <1>8, <1>9, <1>10, <1>11, <1>12 DEF OwnersInv

\* Deleting a case cancels a task of its id, and no other.
LEMMA DiscardOwns ==
    ASSUME IInv, OwnersInv, NEW c \in CaseIds, Discard(c)
    PROVE  OwnersInv'
<1>1. /\ cases' = [cases EXCEPT ![c] = Absent]
      /\ UNCHANGED <<phase, caseOf, closing>>
  BY DEF Discard, Forget
<1>2. PICK S \in SUBSET Named(c) : Interrupt(S)
  BY DEF Discard
<1>3. \A m \in Submits :
         /\ cancelling[m] => cancelling'[m]
         /\ m \notin S => cancelling'[m] = cancelling[m]
  <2>1. cancelling \in [Submits -> BOOLEAN]
    BY DEF IInv, TypeOK
  <2>2. QED BY <1>2, <2>1, Zenon DEF Interrupt
<1>4. \A d \in CaseIds : cases'[d] = IF d = c THEN Absent ELSE cases[d]
  BY <1>1 DEF IInv, TypeOK, StoreTypeOK
<1>5. ASSUME NEW d \in CaseIds, cases'[d].status # "absent"
      PROVE  cancelling'[cases[d].sub] = cancelling[cases[d].sub]
  <2>1. d # c /\ Held(d)
    BY <1>4, <1>5 DEF Absent, Held
  <2>2. cases[d].sub \in Submits /\ caseOf[cases[d].sub] = d
    BY <2>1 DEF OwnersInv, RecordOfNewest
  <2>3. cases[d].sub \notin S
    BY <2>1, <2>2 DEF Named
  <2>4. QED BY <1>3, <2>2, <2>3
<1>6. QED BY <1>1, <1>3, <1>4, <1>5, FewerRecords

\* Shutting down finds every task past its first step, or in its first turn.
LEMMA CloseOwns ==
    ASSUME IInv, OwnersInv, CloseStep
    PROVE  OwnersInv'
<1>1. UNCHANGED <<cases, phase, caseOf>>
  BY DEF CloseStep, CloseBegins, DrainEnds, CloseReturns, taskVars
<1>2. \A m \in Submits : cancelling[m] => cancelling'[m]
  BY CancellingGrows DEF Next, RunnerNext
<1>3. RecordOfNewest' /\ EndedIsTerminal'
  BY <1>1 DEF OwnersInv, RecordOfNewest, EndedIsTerminal, Held
<1>4. NoneLeftBehind'
  BY <1>1, <1>2 DEF OwnersInv, NoneLeftBehind, Held
<1>5. NoneToBegin'
  BY <1>1 DEF CloseStep, CloseBegins, DrainEnds, CloseReturns, OwnersInv, NoneToBegin, In,
              InTasks, Unfinished
<1>6. OwnTaskKept'
  <2>1. CASE DrainEnds
    BY <2>1 DEF DrainEnds, OwnTaskKept
  <2>2. CASE CloseBegins \/ CloseReturns
    <3>1. UNCHANGED cancelling
      BY <2>2 DEF CloseBegins, CloseReturns, taskVars
    <3>2. closing \in {"cancelling", "closed"} => closing' \in {"cancelling", "closed"}
      BY <2>2 DEF CloseBegins, CloseReturns
    <3>3. QED BY <1>1, <3>1, <3>2 DEF OwnersInv, OwnTaskKept, Held
  <2>3. QED BY <2>1, <2>2 DEF CloseStep
<1>7. QED BY <1>3, <1>4, <1>5, <1>6 DEF OwnersInv

LEMMA OwnersStep ==
    ASSUME IInv, FirstStepTaken, QueueInv, OwnersInv, [Next]_vars
    PROVE  OwnersInv'
<1>1. CASE \E n \in Submits, c \in CaseIds : Submit(n, c)
  BY <1>1, SubmitOwns
<1>2. CASE \E c \in CaseIds : SubmitRefused(c)
  <2>1. PICK V \in Evictions : cases' = Evicted(V)
    BY <1>2 DEF SubmitRefused, Conflict
  <2>2. UNCHANGED <<phase, caseOf, cancelling, closing>>
    BY <1>2 DEF SubmitRefused, taskVars
  <2>3. QED BY <2>1, <2>2, EvictedRecords, FewerRecords
<1>3. CASE \E c \in CaseIds : Discard(c)
  BY <1>3, DiscardOwns
<1>4. CASE \E n \in Submits : \/ Start(n) \/ NeverStart(n) \/ Resume(n) \/ LeaveQueue(n)
                              \/ AbortRun(n) \/ Progress(n) \/ Finish(n)
  <2>1. PICK n \in Submits : \/ Start(n) \/ NeverStart(n) \/ Resume(n) \/ LeaveQueue(n)
                             \/ AbortRun(n) \/ Progress(n) \/ Finish(n)
    BY <1>4
  <2>2. /\ phase[n] \in Unfinished
        /\ \E p \in {"waiting", "running", "done"} : Goes(n, p) /\ Settles(n, p)
    BY <2>1, TaskGoes DEF QueueInv
  <2>3. QED BY <2>2, GoesKeeps
<1>5. CASE CloseStep
  BY <1>5, CloseOwns
<1>6. CASE \E n \in Submits : Retire(n)
  <2>1. PICK n \in Submits : /\ phase[n] = "done"
                             /\ phase' = [phase EXCEPT ![n] = "retired"]
    BY <1>6 DEF Retire
  <2>2. UNCHANGED <<cases, caseOf, cancelling, closing>> /\ phase \in [Submits -> Phases]
    BY <1>6 DEF Retire, IInv, TypeOK
  <2>3. /\ RecordOfNewest' /\ OwnTaskKept' /\ NoneLeftBehind' /\ EndedIsTerminal'
        /\ NoneToBegin'
    BY <2>1, <2>2 DEF OwnersInv, RecordOfNewest, OwnTaskKept, NoneLeftBehind,
       EndedIsTerminal, NoneToBegin, Held, InLine, Unfinished, In
  <2>4. QED BY <2>3 DEF OwnersInv
<1>7. CASE \/ Tick /\ UNCHANGED <<taskVars, slots, waiting, closing>>
           \/ WatchNext \/ UNCHANGED vars
  <2>1. UNCHANGED <<cases, phase, caseOf, cancelling, closing>>
    BY <1>7 DEF Tick, WatchNext, vars, taskVars
  <2>2. QED BY <2>1, FewerRecords
<1>8. QED BY <1>1, <1>2, <1>3, <1>4, <1>5, <1>6, <1>7 DEF Next, RunnerNext, TaskStep

\* A record nobody has settled is of a task that will.
\* A record nobody has settled is of a task that will.
LEMMA OwnersAct ==
    ASSUME IInv, OwnersInv PROVE RecordHasRun
<1> SUFFICES ASSUME NEW c \in CaseIds, Held(c), ~IsTerminal(cases[c])
             PROVE  phase[cases[c].sub] \in Unfinished /\ caseOf[cases[c].sub] = c
  BY DEF RecordHasRun
<1>1. /\ cases[c].sub \in Submits /\ caseOf[cases[c].sub] = c
      /\ phase[cases[c].sub] \in Phases \ {"none"}
  BY DEF OwnersInv, RecordOfNewest, IInv, TypeOK
<1>2. phase[cases[c].sub] \notin {"done", "retired"}
  BY DEF OwnersInv, EndedIsTerminal
<1>3. QED BY <1>1, <1>2 DEF Phases, Unfinished

(* However callers reuse ids, a record is of the last submission of its id, and
   nothing of an earlier one that could still take it back is ahead of its task. *)
THEOREM OwnersInvariant == Spec => []OwnersInv
<1>1. Init => FirstStepTaken /\ QueueInv /\ OwnersInv
  BY DEF Init, StoreInit, FirstStepTaken, QueueInv, BegunInOrder, GrantedFirst,
         ShutdownCancelsAll, NotBegun, OwnersInv, RecordOfNewest, OwnTaskKept,
         NoneLeftBehind, EndedIsTerminal, NoneToBegin, Held, Absent, In, Pending,
         Unfinished
<1>2. IInv /\ FirstStepTaken /\ [Next]_vars => FirstStepTaken'
  BY FirstStepTakenStep DEF IInv
<1>3. IInv /\ QueueInv /\ [Next]_vars => QueueInv'
  BY BegunInOrderStep, GrantedFirstStep, ShutdownCancelsAllStep DEF QueueInv
<1>4. IInv /\ FirstStepTaken /\ QueueInv /\ OwnersInv /\ [Next]_vars => OwnersInv'
  BY OwnersStep
<1>5. QED BY <1>1, <1>2, <1>3, <1>4, Invariance, PTL DEF Spec

(* Whoever makes the ids: a record that is not terminal has an unfinished task of
   its own, so no case is left "queued" or "running" that nothing will end. *)
THEOREM RecordsAlwaysHaveRuns == Spec => []RecordHasRun
<1>1. IInv /\ OwnersInv => RecordHasRun
  BY OwnersAct
<1>2. QED BY <1>1, Invariance, OwnersInvariant, PTL

(* Whoever makes the ids: when aclose has returned, what is left is terminal. *)
THEOREM ShutdownAlwaysSettles == Spec => []ShutdownSettles
<1>1. Init => ClosedIsOver
  BY DEF Init, ClosedIsOver
<1>2. IInv /\ ClosedIsOver /\ [Next]_vars => ClosedIsOver'
  BY ClosedStep
<1>3. ClosedIsOver /\ RecordHasRun /\ OwnersInv => ShutdownSettles
  <2> SUFFICES ASSUME ClosedIsOver, RecordHasRun, OwnersInv, closing = "closed",
                      NEW c \in CaseIds, Held(c), ~IsTerminal(cases[c])
               PROVE  FALSE
    BY DEF ShutdownSettles
  <2>1. phase[cases[c].sub] \in Unfinished /\ cases[c].sub \in Submits
    BY DEF RecordHasRun, OwnersInv, RecordOfNewest
  <2>2. QED BY <2>1 DEF ClosedIsOver, In
<1>4. QED BY <1>1, <1>2, <1>3, Invariance, RecordsAlwaysHaveRuns, OwnersInvariant, PTL
          DEF Spec
=============================================================================

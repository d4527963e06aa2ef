-------------------------- MODULE CaseRecordProofs --------------------------
(* What the records of CaseRunner say, for every value of its constants, when
   the service makes the ids (with ids that callers choose and reuse some of
   these statements fail: README, Findings).

   The inductive invariant ties the dictionary to the tasks: an id belongs to
   one task, a record to the task it was made for, a task nobody cancelled still
   has its record, and the record stands where the task does. *)
EXTENDS CaseRunnerProofs

TaskPerId ==
    \A m, n \in Submits : caseOf[m] = caseOf[n] /\ caseOf[m] # NoCase => m = n

OwnRecord ==
    \A c \in CaseIds :
        Held(c) => /\ cases[c].sub \in Submits
                   /\ caseOf[cases[c].sub] = c
                   /\ phase[cases[c].sub] # "none"

RunHeld == \A n \in In(Unfinished) : ~cancelling[n] => Held(caseOf[n])

\* The status a record has while its task is in phase p.
Stands(s, p) ==
    /\ p = "running" => s = "running"
    /\ p \in {"created", "waiting", "granted"} => s = "queued"
    /\ p \in {"done", "retired"} => s \in Settled

RecordStands ==
    \A c \in CaseIds : Held(c) => Stands(cases[c].status, phase[cases[c].sub])

AbsentOrHeld == \A c \in CaseIds : Held(c) \/ cases[c] = Absent

RecInv ==
    TaskPerId /\ OwnRecord /\ AbsentOrHeld /\ RunHeld /\ RecordStands /\ RecordCoherent

\* The steps TerminalIsFinal allows.
TerminalKept ==
    \A c \in CaseIds :
        IsTerminal(cases[c]) /\ cases'[c].sub = cases[c].sub
            => cases'[c] = cases[c]

\* Record q may follow record r of one case: it is of the same submission, the
\* trail does not shrink and the status does not step back.
GoesOn(r, q) ==
    q.sub = r.sub /\ r.events <= q.events /\ Rank(r.status) <= Rank(q.status)

\* The steps the dictionary takes: an id holds its case until it is dropped, and
\* what is put under an id no case has was made under an unused one.
RecordsGoOn ==
    \A c \in CaseIds :
        Held(c)' => IF Held(c) THEN GoesOn(cases[c], cases'[c]) ELSE c \in Unseen

\* One record is coherent.
Coherent(r) ==
    /\ r.finished_at # 0 <=> IsTerminal(r)
    /\ r.result = IF r.status = "succeeded" THEN r.sub ELSE 0
    /\ r.error # "none" <=> r.status \in {"failed", "cancelled"}

(* ------------------------------- one record ------------------------------- *)

\* RecordCoherent says it of every record.
LEMMA CoherentRecords == RecordCoherent <=> \A c \in CaseIds : Coherent(cases[c])
  BY DEF RecordCoherent, Coherent

\* An absent record is coherent, and is not terminal.
LEMMA AbsentCoherent == Coherent(Absent) /\ ~IsTerminal(Absent)
  BY DEF Coherent, Absent, IsTerminal, Settled

\* A record may follow itself.
LEMMA SameGoesOn == \A r \in Record : GoesOn(r, r)
<1> SUFFICES ASSUME NEW r \in Record PROVE GoesOn(r, r)
  OBVIOUS
<1>1. r.events \in Nat
  BY StoreAssumption DEF Record
<1>2. Rank(r.status) \in Nat
  BY DEF Rank
<1>3. QED BY <1>1, <1>2 DEF GoesOn

(* Whatever _run records of its own case follows what was recorded of it. *)
LEMMA RecordedForward ==
    ASSUME NEW r \in Record, r.status \in {"queued", "running"}, NEW q \in Record,
           q.sub = r.sub, r.events <= q.events,
           q.status = r.status \/ q.status \in {"running"} \cup Settled
    PROVE  GoesOn(r, q)
  BY DEF GoesOn, Rank, Settled

(* Whatever _run records of its own case keeps the record coherent. *)
LEMMA RecordedCoherently ==
    ASSUME NEW r \in Record, Coherent(r), r.status \in {"queued", "running"},
           NEW t \in 1..MaxTime
    PROVE  /\ Coherent([r EXCEPT !.status = "running"])
           /\ Coherent([r EXCEPT !.events = @ + 1])
           /\ Coherent([r EXCEPT !.status = "succeeded", !.finished_at = t,
                                 !.result = r.sub])
           /\ \A code \in ErrorCodes : \A s \in {"failed", "cancelled"} :
                 Coherent([r EXCEPT !.status = s, !.finished_at = t, !.error = code])
<1>1. r.finished_at = 0 /\ r.result = 0 /\ r.error = "none"
  BY DEF Coherent, IsTerminal, Settled
<1>2. t # 0
  OBVIOUS
<1>3. Coherent([r EXCEPT !.status = "running"])
  BY <1>1 DEF Coherent, Record, IsTerminal, Settled
<1>4. Coherent([r EXCEPT !.events = @ + 1])
  BY DEF Coherent, Record, IsTerminal, Settled
<1>5. Coherent([r EXCEPT !.status = "succeeded", !.finished_at = t, !.result = r.sub])
  BY <1>1, <1>2 DEF Coherent, Record, IsTerminal, Settled
<1>6. ASSUME NEW code \in ErrorCodes, NEW s \in {"failed", "cancelled"}
      PROVE  Coherent([r EXCEPT !.status = s, !.finished_at = t, !.error = code])
  <2>1. code # "none"
    BY DEF ErrorCodes
  <2>2. QED BY <1>1, <1>2, <2>1 DEF Coherent, Record, IsTerminal, Settled
<1>7. QED BY <1>3, <1>4, <1>5, <1>6

(* The record under the id of a task is the one made for it. *)
LEMMA OwnTask ==
    ASSUME IInv, RecInv, NEW n \in Submits, phase[n] # "none", Held(caseOf[n])
    PROVE  /\ caseOf[n] \in CaseIds /\ cases[caseOf[n]] \in Record
           /\ cases[caseOf[n]].sub = n
           /\ Stands(cases[caseOf[n]].status, phase[n])
           /\ Coherent(cases[caseOf[n]])
<1>1. caseOf[n] \in CaseIds /\ caseOf[n] # NoCase
  BY StoreAssumption DEF IInv, TasksNamed
<1>2. cases[caseOf[n]].sub = n
  BY <1>1 DEF RecInv, OwnRecord, TaskPerId
<1>3. cases[caseOf[n]] \in Record
  BY <1>1 DEF IInv, TypeOK, StoreTypeOK
<1>4. QED BY <1>1, <1>2, <1>3, CoherentRecords DEF RecInv, RecordStands

(* ------------------------------ one task's step --------------------------- *)

\* Task n moves to phase p; others are at most granted a slot.
Moves(n, p) ==
    /\ phase'[n] = p
    /\ \A m \in Submits \ {n} :
          \/ phase'[m] = phase[m]
          \/ phase[m] = "waiting" /\ phase'[m] = "granted"
    /\ UNCHANGED <<caseOf, cancelling>>

\* It leaves the records alone, which fits where it has got to.
LeavesRecords(n, p) ==
    /\ cases' = cases
    /\ Held(caseOf[n]) => Stands(cases[caseOf[n]].status, p)

\* It replaces its own record by one that fits.
ReplacesRecord(n, p) ==
    /\ Held(caseOf[n])
    /\ \E r \in Record :
          /\ cases' = [cases EXCEPT ![caseOf[n]] = r]
          /\ GoesOn(cases[caseOf[n]], r)
          /\ r.status # "absent"
          /\ Stands(r.status, p)
          /\ Coherent(r)

(* Such a step keeps the invariant, and it changes no terminal record: while a
   task is unfinished its record is not terminal. *)
LEMMA TaskMoves ==
    ASSUME IInv, RecInv, NEW n \in Submits, phase[n] \in Unfinished,
           NEW p \in {"waiting", "running", "done"}, Moves(n, p),
           LeavesRecords(n, p) \/ ReplacesRecord(n, p)
    PROVE  RecInv' /\ TerminalKept /\ RecordsGoOn
<1>1. caseOf[n] \in CaseIds /\ phase[n] # "none" /\ UNCHANGED <<caseOf, cancelling>>
  BY DEF IInv, TasksNamed, Unfinished, Moves
<1>2. TaskPerId'
  BY <1>1 DEF RecInv, TaskPerId
<1>3. \A m \in Submits : /\ phase'[m] = "none" <=> phase[m] = "none"
                         /\ phase'[m] \in Unfinished => phase[m] \in Unfinished
  BY <1>1 DEF Moves, Unfinished
<1>4. \A s : \A m \in Submits \ {n} : Stands(s, phase[m]) => Stands(s, phase'[m])
  BY DEF Moves, Stands
<1>5. CASE LeavesRecords(n, p)
  <2>1. OwnRecord' /\ AbsentOrHeld' /\ RecordCoherent' /\ TerminalKept
    BY <1>1, <1>3, <1>5
       DEF LeavesRecords, RecInv, OwnRecord, AbsentOrHeld, RecordCoherent, TerminalKept, Held
  <2>2. RunHeld'
    BY <1>1, <1>3, <1>5 DEF LeavesRecords, RecInv, RunHeld, In, Held
  <2>3. ASSUME NEW c \in CaseIds, Held(c)
        PROVE  Stands(cases[c].status, phase'[cases[c].sub])
    <3>1. CASE cases[c].sub = n
      <4>1. c = caseOf[n]
        BY <2>3, <3>1 DEF RecInv, OwnRecord
      <4>2. QED BY <1>5, <2>3, <3>1, <4>1 DEF LeavesRecords, Moves
    <3>2. CASE cases[c].sub # n
      <4>1. cases[c].sub \in Submits \ {n} /\ Stands(cases[c].status, phase[cases[c].sub])
        BY <2>3, <3>2 DEF RecInv, OwnRecord, RecordStands
      <4>2. QED BY <1>4, <4>1
    <3>3. QED BY <3>1, <3>2
  <2>4. RecordStands'
    BY <1>5, <2>3 DEF LeavesRecords, RecordStands, Held
  <2>5. RecordsGoOn
    BY <1>5, SameGoesOn DEF LeavesRecords, RecordsGoOn, Held, IInv, TypeOK, StoreTypeOK
  <2>6. QED BY <1>2, <2>1, <2>2, <2>4, <2>5 DEF RecInv
<1>6. CASE ReplacesRecord(n, p)
  <2> DEFINE id == caseOf[n]
  <2>1. PICK r \in Record :
           /\ cases' = [cases EXCEPT ![id] = r]
           /\ GoesOn(cases[id], r)
           /\ r.status # "absent"
           /\ Stands(r.status, p)
           /\ Coherent(r)
    BY <1>6 DEF ReplacesRecord
  <2>2. cases[id].sub = n /\ Stands(cases[id].status, phase[n])
    BY <1>1, <1>6, OwnTask DEF ReplacesRecord
  <2>3. cases'[id] = r /\ \A c \in CaseIds \ {id} : cases'[c] = cases[c]
    BY <1>1, <2>1 DEF IInv, TypeOK, StoreTypeOK
  <2>4. \A c \in CaseIds : Held(c)' <=> Held(c)
    BY <1>6, <2>1, <2>3 DEF Held, ReplacesRecord
  <2>5. \A c \in CaseIds : cases'[c].sub = cases[c].sub
    BY <2>1, <2>3 DEF GoesOn
  <2>6. OwnRecord' /\ AbsentOrHeld'
    <3>1. OwnRecord'
      BY <1>1, <1>3, <2>4, <2>5 DEF RecInv, OwnRecord
    <3>2. AbsentOrHeld'
      BY <1>6, <2>3, <2>4 DEF RecInv, AbsentOrHeld, ReplacesRecord
    <3>3. QED BY <3>1, <3>2
  <2>7. RunHeld'
    <3>1. ASSUME NEW m \in Submits, phase'[m] \in Unfinished, ~cancelling[m]
          PROVE  Held(caseOf[m])'
      <4>1. Held(caseOf[m]) /\ caseOf[m] \in CaseIds
        BY <1>3, <3>1 DEF RecInv, RunHeld, In, IInv, TasksNamed, Unfinished
      <4>2. Held(caseOf[m])' <=> cases'[caseOf[m]].status # "absent"
        BY <1>1 DEF Held
      <4>3. QED BY <2>1, <2>3, <4>1, <4>2 DEF Held
    <3>2. QED BY <1>1, <3>1 DEF RunHeld, In
  <2>8. RecordCoherent'
    BY <2>1, <2>3 DEF RecInv, RecordCoherent, Coherent
  <2>9. RecordStands'
    <3>1. ASSUME NEW c \in CaseIds, Held(c)'
          PROVE  Stands(cases'[c].status, phase'[cases'[c].sub])
      <4>1. CASE c = id
        BY <2>1, <2>2, <2>3, <2>5, <4>1 DEF Moves
      <4>2. CASE c # id
        <5>1. cases[c].sub # n /\ cases[c].sub \in Submits
          BY <2>4, <3>1, <4>2 DEF RecInv, OwnRecord
        <5>2. Stands(cases[c].status, phase[cases[c].sub])
          BY <2>4, <3>1 DEF RecInv, RecordStands
        <5>3. QED BY <1>4, <2>3, <4>2, <5>1, <5>2
      <4>3. QED BY <4>1, <4>2
    <3>2. QED BY <3>1 DEF RecordStands
  <2>10. TerminalKept
    <3>1. ~IsTerminal(cases[id])
      BY <2>2 DEF Stands, IsTerminal, Settled, Unfinished
    <3>2. QED BY <2>3, <3>1 DEF TerminalKept
  <2>11. RecordsGoOn
    <3>1. \A c \in CaseIds \ {id} : GoesOn(cases[c], cases'[c])
      BY <2>3, SameGoesOn DEF IInv, TypeOK, StoreTypeOK
    <3>2. QED BY <2>1, <2>3, <2>4, <3>1 DEF RecordsGoOn
  <2>12. QED BY <1>2, <2>6, <2>7, <2>8, <2>9, <2>10, <2>11 DEF RecInv
<1>7. QED BY <1>5, <1>6

(* Handing slots on moves waiters only. *)
LEMMA HandPhases ==
    ASSUME TypeOK, NEW n \in Submits, NEW to \in {"running", "done"}, NEW free, NEW wake,
           Hand(n, to, free, wake), UNCHANGED <<caseOf, cancelling>>
    PROVE  Moves(n, to)
<1>1. PICK G \in Longest(wake) :
          phase' = [m \in Submits |-> IF m = n THEN to
                                      ELSE IF m \in G THEN "granted"
                                      ELSE phase[m]]
  BY DEF Hand
<1>2. \A m \in G : phase[m] = "waiting"
  BY DEF Longest, Pending
<1>3. QED BY <1>1, <1>2 DEF Moves, TypeOK

\* Task n alone moves.
LEMMA AloneMoves ==
    ASSUME TypeOK, NEW n \in Submits, NEW p, phase' = [phase EXCEPT ![n] = p],
           UNCHANGED <<caseOf, cancelling>>
    PROVE  Moves(n, p)
  BY DEF Moves, TypeOK

(* What a task records of its own case fits the phase it moves to. *)
LEMMA Recorded ==
    ASSUME IInv, RecInv, NEW n \in Submits, phase[n] \in Unfinished, Held(caseOf[n]),
           now' = now
    PROVE  /\ MarkRunning(caseOf[n]) => ReplacesRecord(n, "running")
           /\ Cancel(caseOf[n]) => ReplacesRecord(n, "done")
           /\ \A e \in Endings : RecordOutcome(n, e) => ReplacesRecord(n, "done")
           /\ phase[n] = "running" /\ cases[caseOf[n]].events < MaxEvents
              /\ AppendEvent(caseOf[n]) => ReplacesRecord(n, "running")
<1> DEFINE r == cases[caseOf[n]]
<1>1. /\ caseOf[n] \in CaseIds /\ r \in Record /\ r.sub = n
      /\ Stands(r.status, phase[n]) /\ Coherent(r)
  BY OwnTask DEF Unfinished
<1>2. r.status \in {"queued", "running"} /\ now \in 1..MaxTime
  BY <1>1 DEF Stands, Unfinished, IInv, TypeOK, StoreTypeOK
<1>3. ASSUME NEW q \in Record, NEW p, Publish(caseOf[n], q), q.sub = n,
             r.events <= q.events,
             q.status = r.status \/ q.status \in {"running"} \cup Settled,
             Stands(q.status, p), Coherent(q)
      PROVE  ReplacesRecord(n, p)
  <2>1. GoesOn(r, q)
    BY <1>1, <1>2, <1>3, RecordedForward
  <2>2. q.status # "absent"
    BY <1>2, <1>3 DEF Settled
  <2>3. QED BY <1>1, <1>3, <2>1, <2>2 DEF ReplacesRecord, Publish
<1> r.events \in Nat
  BY <1>1, StoreAssumption DEF Record
<1>4. MarkRunning(caseOf[n]) => ReplacesRecord(n, "running")
  <2> DEFINE q == [r EXCEPT !.status = "running"]
  <2>1. q \in Record /\ Coherent(q)
    BY <1>1, <1>2, RecordFields, RecordedCoherently
  <2>2. q.sub = n /\ q.status = "running" /\ r.events <= q.events
    BY <1>1 DEF Record
  <2>3. Stands(q.status, "running")
    BY <2>2 DEF Stands
  <2>4. QED BY <1>3, <2>1, <2>2, <2>3 DEF MarkRunning
<1>5. ASSUME NEW code \in ErrorCodes, NEW s \in {"failed", "cancelled"},
             Publish(caseOf[n], [r EXCEPT !.status = s, !.finished_at = now,
                                          !.error = code])
      PROVE  ReplacesRecord(n, "done")
  <2> DEFINE q == [r EXCEPT !.status = s, !.finished_at = now, !.error = code]
  <2>1. q \in Record
    BY <1>1, <1>2, RecordFields
  <2>2. Coherent(q)
    BY <1>1, <1>2, RecordedCoherently
  <2>3. q.sub = n /\ q.status = s /\ r.events <= q.events
    BY <1>1 DEF Record
  <2>4. Stands(q.status, "done") /\ q.status \in Settled
    BY <2>3 DEF Stands, Settled
  <2>5. QED BY <1>3, <1>5, <2>1, <2>2, <2>3, <2>4
<1>6. Cancel(caseOf[n]) => ReplacesRecord(n, "done")
  BY <1>5 DEF Cancel, ErrorCodes
<1>7. ASSUME NEW e \in Endings, RecordOutcome(n, e) PROVE ReplacesRecord(n, "done")
  <2>1. CASE e = "report"
    <3> DEFINE q == [r EXCEPT !.status = "succeeded", !.finished_at = now, !.result = n]
    <3>1. q \in Record /\ Coherent(q)
      BY <1>1, <1>2, RecordFields, RecordedCoherently
    <3>2. q.sub = n /\ q.status = "succeeded" /\ r.events <= q.events
      BY <1>1 DEF Record
    <3>3. Stands(q.status, "done") /\ q.status \in Settled
      BY <3>2 DEF Stands, Settled
    <3>4. Publish(caseOf[n], q)
      BY <1>7, <2>1 DEF RecordOutcome, Succeed
    <3>5. QED BY <1>3, <3>1, <3>2, <3>3, <3>4
  <2>2. CASE e = "RunCancelled"
    BY <1>6, <1>7, <2>2 DEF RecordOutcome
  <2>3. CASE e \in DOMAIN FailureCode
    <3>1. FailureCode[e] \in ErrorCodes /\ e # "report" /\ e # "RunCancelled"
      BY <2>3 DEF FailureCode, ErrorCodes
    <3>2. Fail(caseOf[n], FailureCode[e])
      BY <1>7, <3>1 DEF RecordOutcome
    <3>3. QED BY <1>5, <3>1, <3>2 DEF Fail
  <2>4. QED BY <2>1, <2>2, <2>3, RunnerAssumption
<1>8. ASSUME phase[n] = "running", r.events < MaxEvents, AppendEvent(caseOf[n])
      PROVE  ReplacesRecord(n, "running")
  <2> DEFINE q == [r EXCEPT !.events = @ + 1]
  <2>1. q \in Record /\ Coherent(q)
    BY <1>1, <1>2, <1>8, RecordFields, RecordedCoherently
  <2>2. q.sub = n /\ q.status = r.status /\ r.events <= q.events
    BY <1>1 DEF Record
  <2>3. Stands(q.status, "running")
    BY <1>1, <1>2, <1>8, <2>2 DEF Stands
  <2>4. QED BY <1>3, <1>8, <2>1, <2>2, <2>3 DEF AppendEvent
<1>9. QED BY <1>4, <1>6, <1>7, <1>8

(* Every step of an unfinished task, but one whose first step never came, is of
   this kind; a record that was dropped stays dropped. *)
LEMMA TaskStepKeeps ==
    ASSUME IInv, RecInv, NEW n \in Submits,
           Start(n) \/ Resume(n) \/ LeaveQueue(n) \/ Progress(n) \/ Finish(n) \/ AbortRun(n)
    PROVE  RecInv' /\ TerminalKept /\ RecordsGoOn
<1>1. phase[n] \in Unfinished /\ UNCHANGED <<caseOf, cancelling, now>> /\ TypeOK
  BY DEF Start, Resume, LeaveQueue, Progress, Finish, AbortRun, IsNext, Unfinished, IInv
<1>2. CASE Start(n)
  <2>1. CASE phase' = [phase EXCEPT ![n] = "waiting"] /\ cases' = cases
    <3>1. Moves(n, "waiting")
      BY <1>1, <2>1, AloneMoves
    <3>2. phase[n] = "created"
      BY <1>2 DEF Start, IsNext
    <3>3. Held(caseOf[n]) => Stands(cases[caseOf[n]].status, "waiting")
      BY <3>2, OwnTask DEF Stands
    <3>4. QED BY <1>1, <2>1, <3>1, <3>3, TaskMoves DEF LeavesRecords
  <2>2. CASE /\ Held(caseOf[n]) /\ MarkRunning(caseOf[n])
             /\ phase' = [phase EXCEPT ![n] = "running"]
    BY <1>1, <2>2, AloneMoves, Recorded, TaskMoves
  <2>3. CASE ~Held(caseOf[n]) /\ phase' = [phase EXCEPT ![n] = "done"] /\ cases' = cases
    BY <1>1, <2>3, AloneMoves, TaskMoves DEF LeavesRecords
  <2>4. QED BY <1>2, <2>1, <2>2, <2>3 DEF Start
<1>3. CASE Resume(n)
  <2>1. CASE /\ Held(caseOf[n]) /\ MarkRunning(caseOf[n])
             /\ Hand(n, "running", slots, slots)
    <3>1. Moves(n, "running")
      BY <1>1, <2>1, HandPhases
    <3>2. QED BY <1>1, <2>1, <3>1, Recorded, TaskMoves
  <2>2. CASE ~Held(caseOf[n]) /\ cases' = cases /\ Hand(n, "done", slots + 1, slots + 1)
    <3>1. Moves(n, "done")
      BY <1>1, <2>2, HandPhases
    <3>2. QED BY <1>1, <2>2, <3>1, TaskMoves DEF LeavesRecords
  <2>3. QED BY <1>3, <2>1, <2>2 DEF Resume
<1>4. ASSUME RecordCancelled(n), Moves(n, "done")
      PROVE  RecInv' /\ TerminalKept /\ RecordsGoOn
  <2>1. CASE Held(caseOf[n])
    BY <1>1, <1>4, <2>1, Recorded, TaskMoves DEF RecordCancelled
  <2>2. CASE ~Held(caseOf[n])
    BY <1>1, <1>4, <2>2, TaskMoves DEF RecordCancelled, LeavesRecords
  <2>3. QED BY <2>1, <2>2
<1>5. CASE LeaveQueue(n)
  <2>1. Hand(n, "done", slots, slots) \/ Hand(n, "done", slots + 1, slots + 1)
    BY <1>5 DEF LeaveQueue
  <2>2. Moves(n, "done")
    BY <1>1, <2>1, HandPhases
  <2>3. QED BY <1>4, <1>5, <2>2 DEF LeaveQueue
<1>6. CASE AbortRun(n)
  <2>1. Moves(n, "done")
    BY <1>1, <1>6, HandPhases DEF AbortRun, Release
  <2>2. QED BY <1>4, <1>6, <2>1 DEF AbortRun
<1>7. CASE Progress(n)
  <2>1. CASE /\ Held(caseOf[n]) /\ cases[caseOf[n]].events < MaxEvents
             /\ AppendEvent(caseOf[n]) /\ phase' = phase
    <3>1. phase[n] = "running"
      BY <1>7 DEF Progress
    <3>2. Moves(n, "running")
      BY <1>1, <2>1, <3>1 DEF Moves
    <3>3. QED BY <1>1, <2>1, <3>1, <3>2, Recorded, TaskMoves
  <2>2. CASE ~Held(caseOf[n]) /\ Release(n) /\ cases' = cases
    <3>1. Moves(n, "done")
      BY <1>1, <2>2, HandPhases DEF Release
    <3>2. QED BY <1>1, <2>2, <3>1, TaskMoves DEF LeavesRecords
  <2>3. QED BY <1>7, <2>1, <2>2 DEF Progress
<1>8. CASE Finish(n)
  <2>1. Moves(n, "done")
    BY <1>1, <1>8, HandPhases DEF Finish, Release
  <2>2. CASE Held(caseOf[n])
    BY <1>1, <1>8, <2>1, <2>2, Recorded, TaskMoves DEF Finish
  <2>3. CASE ~Held(caseOf[n])
    BY <1>1, <1>8, <2>1, <2>3, TaskMoves DEF Finish, LeavesRecords
  <2>4. QED BY <2>2, <2>3
<1>9. QED BY <1>2, <1>3, <1>5, <1>6, <1>7, <1>8

(* -------------------------------- callers --------------------------------- *)

(* What an eviction deletes is finished; its task is not. *)
LEMMA EvictionsSettled ==
    ASSUME IInv, RecInv, NEW V \in Evictions
    PROVE  /\ V \subseteq CaseIds
           /\ \A v \in V : Held(v) /\ IsTerminal(cases[v])
           /\ \A c \in CaseIds : Evicted(V)[c] = IF c \in V THEN Absent ELSE cases[c]
<1>1. V \subseteq Finished
  BY DEF Evictions
<1>2. \A c \in Finished : c \in CaseIds /\ IsTerminal(cases[c])
  BY CoherentRecords DEF Finished, RecInv, Coherent
<1>3. \A c \in CaseIds : IsTerminal(cases[c]) => Held(c)
  BY DEF IsTerminal, Settled, Held
<1>4. QED BY <1>1, <1>2, <1>3 DEF Evicted

(* An id the service makes is new: nothing is held under it. *)
LEMMA MadeIdIsNew ==
    ASSUME ~CallersBringIds, RecInv, NEW c \in CaseIds, MayName(c)
    PROVE  c \in Unseen /\ ~Held(c)
  BY DEF MayName, Unseen, RecInv, OwnRecord

\* A new case gets its record, and what it pushes out of the store is over.
LEMMA SubmitKeeps ==
    ASSUME ~CallersBringIds, IInv, RecInv, NEW n \in Submits, NEW c \in CaseIds,
           Submit(n, c)
    PROVE  RecInv' /\ TerminalKept /\ RecordsGoOn
<1>1. /\ c \in Unseen /\ ~Held(c) /\ phase[n] = "none" /\ TypeOK
      /\ phase' = [phase EXCEPT ![n] = "created"]
      /\ caseOf' = [caseOf EXCEPT ![n] = c]
      /\ cancelling' = cancelling
  BY MadeIdIsNew DEF Submit, IsNext, IInv
<1>2. /\ phase'[n] = "created" /\ caseOf'[n] = c
      /\ \A m \in Submits \ {n} : phase'[m] = phase[m] /\ caseOf'[m] = caseOf[m]
  BY <1>1 DEF TypeOK
<1>3. PICK V \in Evictions : cases' = [Evicted(V) EXCEPT ![c] = Queued(n)]
  BY DEF Submit, Create
<1>4. /\ cases'[c] = Queued(n)
      /\ \A d \in CaseIds \ {c} : cases'[d] = IF d \in V THEN Absent ELSE cases[d]
      /\ \A v \in V : Held(v) /\ IsTerminal(cases[v])
  BY <1>3, EvictionsSettled DEF Evicted
<1>5. /\ Queued(n).sub = n /\ Queued(n).status = "queued" /\ Coherent(Queued(n))
      /\ Absent.status = "absent" /\ Absent.sub = 0
  BY DEF Queued, Absent, Coherent, IsTerminal, Settled
<1>6. TaskPerId'
  <2>1. \A m \in Submits : caseOf[m] # c
    BY <1>1 DEF Unseen
  <2>2. QED BY <1>2, <2>1 DEF RecInv, TaskPerId
<1>7. \A d \in CaseIds \ {c} : Held(d)' =>
         /\ cases'[d] = cases[d] /\ Held(d)
         /\ cases[d].sub \in Submits \ {n} /\ caseOf[cases[d].sub] = d
         /\ phase[cases[d].sub] # "none"
  BY <1>1, <1>4, <1>5 DEF Held, RecInv, OwnRecord
<1>8. OwnRecord'
  <2>1. ASSUME NEW d \in CaseIds, Held(d)'
        PROVE  cases'[d].sub \in Submits /\ caseOf'[cases'[d].sub] = d
               /\ phase'[cases'[d].sub] # "none"
    <3>1. CASE d = c
      BY <1>2, <1>4, <1>5, <3>1
    <3>2. CASE d # c
      BY <1>2, <1>7, <2>1, <3>2
    <3>3. QED BY <3>1, <3>2
  <2>2. QED BY <2>1 DEF OwnRecord
<1>9. RecordStands'
  <2>1. ASSUME NEW d \in CaseIds, Held(d)'
        PROVE  Stands(cases'[d].status, phase'[cases'[d].sub])
    <3>1. CASE d = c
      BY <1>2, <1>4, <1>5, <3>1 DEF Stands
    <3>2. CASE d # c
      BY <1>2, <1>7, <2>1, <3>2 DEF RecInv, RecordStands
    <3>3. QED BY <3>1, <3>2
  <2>2. QED BY <2>1 DEF RecordStands
<1>10. RunHeld'
  <2>1. ASSUME NEW m \in Submits, phase'[m] \in Unfinished, ~cancelling[m]
        PROVE  cases'[caseOf'[m]].status # "absent"
    <3>1. CASE m = n
      BY <1>2, <1>4, <1>5, <3>1
    <3>2. CASE m # n
      <4>1. /\ phase[m] \in Unfinished /\ caseOf'[m] = caseOf[m] /\ Held(caseOf[m])
            /\ phase[m] # "none"
        BY <1>2, <2>1, <3>2 DEF RecInv, RunHeld, In, Unfinished
      <4>2. Stands(cases[caseOf[m]].status, phase[m]) /\ caseOf[m] \in CaseIds
        BY <4>1, OwnTask
      <4>3. ~IsTerminal(cases[caseOf[m]])
        BY <4>1, <4>2 DEF Stands, IsTerminal, Settled, Unfinished
      <4>4. caseOf[m] \notin V /\ caseOf[m] # c
        BY <1>1, <1>4, <4>1, <4>3 DEF Unseen
      <4>5. QED BY <1>4, <4>1, <4>2, <4>4 DEF Held
    <3>3. QED BY <3>1, <3>2
  <2>2. QED BY <1>1, <2>1 DEF RunHeld, In, Held
<1>11. RecordCoherent'
  <2>1. \A d \in CaseIds : Coherent(cases'[d])
    BY <1>4, <1>5, AbsentCoherent, CoherentRecords DEF RecInv
  <2>2. QED BY <2>1 DEF RecordCoherent, Coherent
<1>12. AbsentOrHeld'
  <2>1. ASSUME NEW d \in CaseIds PROVE cases'[d].status # "absent" \/ cases'[d] = Absent
    BY <1>4, <1>5 DEF RecInv, AbsentOrHeld, Held
  <2>2. QED BY <2>1 DEF AbsentOrHeld, Held
<1>13. TerminalKept
  <2>1. ASSUME NEW d \in CaseIds, IsTerminal(cases[d]), cases'[d].sub = cases[d].sub
        PROVE  cases'[d] = cases[d]
    <3>1. Held(d)
      BY <2>1 DEF IsTerminal, Settled, Held
    <3>2. d # c /\ cases[d].sub \in Submits
      BY <1>1, <3>1 DEF RecInv, OwnRecord
    <3>3. d \notin V
      BY <1>4, <1>5, <2>1, <3>2 DEF Submits
    <3>4. QED BY <1>4, <3>2, <3>3
  <2>2. QED BY <2>1 DEF TerminalKept
<1>14. RecordsGoOn
  BY <1>1, <1>7, SameGoesOn DEF RecordsGoOn, TypeOK, StoreTypeOK
<1>15. QED BY <1>6, <1>8, <1>9, <1>10, <1>11, <1>12, <1>13, <1>14 DEF RecInv

(* A deletion cancels the one task whose record it drops. *)
LEMMA DiscardKeeps ==
    ASSUME ~CallersBringIds, IInv, RecInv, NEW c \in CaseIds, Discard(c)
    PROVE  RecInv' /\ TerminalKept /\ RecordsGoOn
<1>1. UNCHANGED <<phase, caseOf>> /\ cases' = [cases EXCEPT ![c] = Absent] /\ Held(c)
  BY DEF Discard, Forget
<1>2. /\ cases'[c] = Absent /\ Absent.sub = 0 /\ Absent.status = "absent"
      /\ \A d \in CaseIds \ {c} : cases'[d] = cases[d]
  BY <1>1 DEF IInv, TypeOK, StoreTypeOK, Absent
<1>3. PICK S \in SUBSET Named(c) : Interrupt(S) /\ (Named(c) # {} => S # {})
  BY DEF Discard
<1>4. \A m \in Submits : /\ ~cancelling'[m] => ~cancelling[m]
                         /\ m \in S /\ phase[m] \in Unfinished => cancelling'[m]
  BY <1>3, Zenon DEF Interrupt
<1>5. \A d \in CaseIds : Held(d)' => Held(d) /\ d # c
  BY <1>2 DEF Held
<1>6. TaskPerId' /\ OwnRecord' /\ AbsentOrHeld' /\ RecordStands'
  <2>1. AbsentOrHeld'
    BY <1>2 DEF RecInv, AbsentOrHeld, Held
  <2>2. QED BY <1>1, <1>2, <1>5, <2>1 DEF RecInv, TaskPerId, OwnRecord, RecordStands
<1>7. RunHeld'
  <2>1. ASSUME NEW m \in Submits, phase[m] \in Unfinished, ~cancelling'[m]
        PROVE  cases'[caseOf[m]].status # "absent"
    <3>1. Held(caseOf[m]) /\ caseOf[m] \in CaseIds
      BY <1>4, <2>1 DEF RecInv, RunHeld, In, IInv, TasksNamed, Unfinished
    <3>2. CASE caseOf[m] = c
      <4>1. m \in Named(c)
        BY <2>1, <3>2 DEF Named, InTasks
      <4>2. PICK k \in S : k \in Named(c)
        BY <1>3, <4>1
      <4>3. k = m
        BY <3>1, <3>2, <4>2, StoreAssumption DEF Named, RecInv, TaskPerId
      <4>4. QED BY <1>4, <2>1, <4>2, <4>3
    <3>3. CASE caseOf[m] # c
      BY <1>2, <3>1, <3>3 DEF Held
    <3>4. QED BY <3>2, <3>3
  <2>2. QED BY <1>1, <2>1 DEF RunHeld, In, Held
<1>8. RecordCoherent'
  <2>1. \A d \in CaseIds : Coherent(cases'[d])
    BY <1>2, AbsentCoherent, CoherentRecords DEF RecInv
  <2>2. QED BY <2>1 DEF RecordCoherent, Coherent
<1>9. TerminalKept
  <2>1. cases[c].sub \in Submits
    BY <1>1 DEF RecInv, OwnRecord
  <2>2. cases'[c].sub # cases[c].sub
    BY <1>2, <2>1 DEF Submits
  <2>3. QED BY <1>2, <2>2 DEF TerminalKept
<1>10. RecordsGoOn
  BY <1>2, <1>5, SameGoesOn DEF RecordsGoOn, IInv, TypeOK, StoreTypeOK
<1>11. QED BY <1>6, <1>7, <1>8, <1>9, <1>10 DEF RecInv

(* ----------------------------- the other steps ---------------------------- *)

\* A finished task retires; cancelling only ever adds; nothing else matters.
LEMMA QuietKeeps ==
    ASSUME IInv, RecInv, cases' = cases, caseOf' = caseOf,
           \A m \in Submits : ~cancelling'[m] => ~cancelling[m],
           \A m \in Submits : \/ phase'[m] = phase[m]
                              \/ phase[m] = "done" /\ phase'[m] = "retired"
    PROVE  RecInv' /\ TerminalKept /\ RecordsGoOn
<1>1. TaskPerId' /\ AbsentOrHeld' /\ RecordCoherent' /\ TerminalKept
  BY DEF RecInv, TaskPerId, AbsentOrHeld, Held, RecordCoherent, TerminalKept
<1>2. OwnRecord'
  BY DEF RecInv, OwnRecord, Held
<1>3. RunHeld'
  BY DEF RecInv, RunHeld, In, Held, Unfinished
<1>4. RecordStands'
  <2>1. \A s : \A m \in Submits : Stands(s, phase[m]) => Stands(s, phase'[m])
    BY DEF Stands
  <2>2. QED BY <2>1 DEF RecInv, RecordStands, OwnRecord, Held
<1>5. RecordsGoOn
  BY SameGoesOn DEF RecordsGoOn, Held, IInv, TypeOK, StoreTypeOK
<1>6. QED BY <1>1, <1>2, <1>3, <1>4, <1>5 DEF RecInv

\* Every step keeps the invariant and changes no terminal record.
LEMMA RecordStep ==
    ASSUME ~CallersBringIds, IInv, FirstStepTaken, RecInv, [Next]_vars
    PROVE  RecInv' /\ TerminalKept /\ RecordsGoOn
<1>1. CASE \E n \in Submits, c \in CaseIds : Submit(n, c)
  BY <1>1, SubmitKeeps
<1>2. CASE \E c \in CaseIds : SubmitRefused(c)
  <2>1. PICK c \in CaseIds : SubmitRefused(c)
    BY <1>2
  <2>2. PICK V \in Evictions : Evicted(V)[c] # Absent
    BY <2>1 DEF SubmitRefused, Conflict
  <2>3. ~Held(c)
    BY <2>1, MadeIdIsNew DEF SubmitRefused
  <2>4. cases[c] # Absent /\ c \notin V
    BY <2>2, <2>3, EvictionsSettled
  <2>5. QED BY <2>3, <2>4 DEF RecInv, AbsentOrHeld
<1>3. CASE \E c \in CaseIds : Discard(c)
  BY <1>3, DiscardKeeps
<1>4. CASE \E n \in Submits : \/ Start(n) \/ Resume(n) \/ LeaveQueue(n)
                              \/ Progress(n) \/ Finish(n) \/ AbortRun(n)
  BY <1>4, TaskStepKeeps
<1>5. CASE \E n \in Submits : NeverStart(n)
  BY <1>5 DEF NeverStart, IsNext, FirstStepTaken
<1>6. CASE \/ \E n \in Submits : Retire(n)
           \/ CloseStep
           \/ Tick /\ UNCHANGED <<taskVars, slots, waiting, closing>>
           \/ WatchNext
           \/ UNCHANGED vars
  <2>1. cases' = cases /\ caseOf' = caseOf
    BY <1>6 DEF Retire, CloseStep, CloseBegins, DrainEnds, CloseReturns, Tick,
                WatchNext, taskVars, vars
  <2>2. \A m \in Submits : ~cancelling'[m] => ~cancelling[m]
    <3>1. UNCHANGED cancelling \/ Interrupt(Submits)
      BY <1>6 DEF Retire, CloseStep, CloseBegins, DrainEnds, CloseReturns,
                  WatchNext, taskVars, vars
    <3>2. QED BY <3>1, Zenon DEF Interrupt
  <2>3. \A m \in Submits : \/ phase'[m] = phase[m]
                           \/ phase[m] = "done" /\ phase'[m] = "retired"
    <3>1. UNCHANGED phase \/ \E n \in Submits : Retire(n)
      BY <1>6 DEF CloseStep, CloseBegins, DrainEnds, CloseReturns, WatchNext,
                  taskVars, vars
    <3>2. QED BY <3>1 DEF Retire, IInv, TypeOK
  <2>4. QED BY <2>1, <2>2, <2>3, QuietKeeps
<1>7. QED BY <1>1, <1>2, <1>3, <1>4, <1>5, <1>6 DEF Next, RunnerNext, TaskStep

\* The store starts empty.
LEMMA RecordInit == Init => RecInv
<1> SUFFICES ASSUME Init PROVE RecInv
  OBVIOUS
<1>1. \A c \in CaseIds : cases[c] = Absent
  BY DEF Init, StoreInit
<1>2. OwnRecord /\ AbsentOrHeld /\ RecordStands
  BY <1>1 DEF OwnRecord, AbsentOrHeld, RecordStands, Held, Absent
<1>3. TaskPerId /\ RunHeld
  BY DEF Init, TaskPerId, RunHeld, In, Unfinished
<1>4. RecordCoherent
  BY <1>1, AbsentCoherent, CoherentRecords
<1>5. QED BY <1>2, <1>3, <1>4 DEF RecInv

(* ------------------------------- theorems --------------------------------- *)

(* With made ids the records are always true to the tasks. *)
THEOREM RecordsInvariant == ~CallersBringIds => (Spec => [](IInv /\ FirstStepTaken /\ RecInv))
<1> SUFFICES ASSUME ~CallersBringIds
             PROVE  Spec => [](IInv /\ FirstStepTaken /\ RecInv)
  OBVIOUS
<1>1. Init => FirstStepTaken
  BY DEF Init, FirstStepTaken
<1>2. IInv /\ FirstStepTaken /\ RecInv /\ [Next]_vars => FirstStepTaken' /\ RecInv'
  BY FirstStepTakenStep, RecordStep DEF IInv
<1>3. QED BY <1>1, <1>2, RecordInit, Invariance, PTL DEF Spec

\* What the invariant says of a run nobody cancelled.
LEMMA RunHasRecordFollows == IInv /\ RecInv => RunHasRecord
<1> SUFFICES ASSUME IInv, RecInv, NEW n \in In(Unfinished), ~cancelling[n]
             PROVE  /\ cases[caseOf[n]].sub = n
                    /\ cases[caseOf[n]].status =
                          IF phase[n] = "running" THEN "running" ELSE "queued"
  BY DEF RunHasRecord
<1>1. n \in Submits /\ phase[n] \in Unfinished /\ Held(caseOf[n])
  BY DEF RecInv, RunHeld, In
<1>2. QED BY <1>1, OwnTask DEF Stands, Unfinished

\* What it says of a record that is not terminal.
LEMMA RecordHasRunFollows == IInv /\ RecInv => RecordHasRun
<1> SUFFICES ASSUME IInv, RecInv, NEW c \in CaseIds, Held(c), ~IsTerminal(cases[c])
             PROVE  phase[cases[c].sub] \in Unfinished /\ caseOf[cases[c].sub] = c
  BY DEF RecordHasRun
<1>1. /\ cases[c].sub \in Submits /\ caseOf[cases[c].sub] = c
      /\ phase[cases[c].sub] \in Phases \ {"none"}
  BY DEF RecInv, OwnRecord, IInv, TypeOK
<1>2. cases[c].status \notin Settled /\ Stands(cases[c].status, phase[cases[c].sub])
  BY DEF RecInv, RecordStands, IsTerminal
<1>3. QED BY <1>1, <1>2 DEF Stands, Phases, Unfinished

(* A run nobody cancelled has its record, which says where the run stands. *)
THEOREM RunsHaveRecords == ~CallersBringIds => (Spec => []RunHasRecord)
  BY RunHasRecordFollows, RecordsInvariant, PTL

(* Whatever is recorded, and in whatever order, a record fits together. *)
THEOREM RecordsFitTogether == ~CallersBringIds => (Spec => []RecordCoherent)
<1>1. RecInv => RecordCoherent
  BY DEF RecInv
<1>2. QED BY <1>1, RecordsInvariant, PTL

(* A record that is not terminal has an unfinished task of its own: no case is
   left "queued" or "running" that nothing will end. *)
THEOREM RecordsHaveRuns == ~CallersBringIds => (Spec => []RecordHasRun)
  BY RecordHasRunFollows, RecordsInvariant, PTL

(* No record changes once it is terminal, until it is dropped. *)
THEOREM TerminalStaysFinal == ~CallersBringIds => (Spec => TerminalIsFinal)
<1> SUFFICES ASSUME ~CallersBringIds PROVE Spec => TerminalIsFinal
  OBVIOUS
<1>1. IInv /\ FirstStepTaken /\ RecInv /\ [Next]_vars => [TerminalKept]_cases
  BY RecordStep
<1>2. Spec => [][TerminalKept]_cases
  BY <1>1, RecordsInvariant, PTL DEF Spec
<1>3. QED BY <1>2 DEF TerminalIsFinal, TerminalKept

(* ------------------------------- shutting down ---------------------------- *)

ClosedIsOver == closing = "closed" => In(Unfinished) = {}

\* Once shut down nothing is submitted, and what is over does not begin again.
LEMMA ClosedStep ==
    ASSUME IInv, ClosedIsOver, [Next]_vars
    PROVE  ClosedIsOver'
<1>1. CASE closing = "closed"
  <2>1. In(Unfinished) = {}
    BY <1>1 DEF ClosedIsOver
  <2>2. \A n \in Submits : phase[n] \notin Unfinished
    BY <2>1 DEF In
  <2>3. \/ UNCHANGED phase
        \/ \E n \in Submits : phase' = [phase EXCEPT ![n] = "retired"]
    BY <1>1, <2>2 DEF Next, RunnerNext, TaskStep, Submit, SubmitRefused, Admitting,
         Discard, Start, NeverStart, Resume, LeaveQueue, AbortRun, Retire, Progress,
         Finish, CloseStep, CloseBegins, DrainEnds, CloseReturns, WatchNext, IsNext,
         Unfinished, taskVars, vars
  <2>4. \A n \in Submits : phase'[n] \in Unfinished => phase[n] \in Unfinished
    BY <2>3 DEF IInv, TypeOK, Unfinished
  <2>5. QED BY <2>2, <2>4 DEF ClosedIsOver, In
<1>2. CASE closing # "closed" /\ closing' = "closed"
  <2>1. CloseStep
    BY <1>2 DEF Next, RunnerNext, TaskStep, Submit, SubmitRefused,
         Discard, Start, NeverStart, Resume, LeaveQueue, AbortRun, Retire, Progress,
         Finish, WatchNext, vars
  <2>2. UNCHANGED phase /\ In(Unfinished) = {}
    BY <1>2, <2>1 DEF CloseStep, CloseBegins, DrainEnds, CloseReturns, In, InTasks,
                      taskVars
  <2>3. QED BY <2>2 DEF ClosedIsOver, In
<1>3. QED BY <1>1, <1>2 DEF ClosedIsOver

\* What is left when every task has ended is terminal.
LEMMA ShutdownFollows ==
    ASSUME ClosedIsOver, RecordHasRun, RecInv
    PROVE  ShutdownSettles
<1> SUFFICES ASSUME In(Unfinished) = {}, NEW c \in CaseIds, Held(c), ~IsTerminal(cases[c])
             PROVE  FALSE
  BY DEF ClosedIsOver, ShutdownSettles
<1>1. phase[cases[c].sub] \in Unfinished /\ cases[c].sub \in Submits
  BY DEF RecordHasRun, RecInv, OwnRecord
<1>2. QED BY <1>1 DEF In

(* When aclose has returned, what a caller can still read is terminal. *)
THEOREM ShutdownLeavesNothing == ~CallersBringIds => (Spec => []ShutdownSettles)
<1>1. Init => ClosedIsOver
  BY DEF Init, ClosedIsOver
<1>2. IInv /\ ClosedIsOver /\ [Next]_vars => ClosedIsOver'
  BY ClosedStep
<1>3. ClosedIsOver /\ RecordHasRun /\ RecInv => ShutdownSettles
  BY ShutdownFollows
<1>4. QED BY <1>1, <1>2, <1>3, Invariance, RecordsInvariant, RecordsHaveRuns, PTL DEF Spec

(* -------------------------------- watching -------------------------------- *)

\* What a watcher was shown was a record.
SeenHeld ==
    \A w \in Watchers :
        watch[w].phase \in {"emitting", "waiting"} => watch[w].seen.status # "absent"

WakeInv == SeenHeld /\ NoLostWakeup

(* Every change of a record is told to those who saw it, or is one of a record
   that is terminal or not there, which nobody waits on. *)
LEMMA ChangesAreTold ==
    ASSUME ~CallersBringIds, IInv, RecInv, [Next]_vars
    PROVE  \/ UNCHANGED <<cases, watch>>
           \/ \E c \in CaseIds : \E r : Publish(c, r)
           \/ /\ UNCHANGED watch
              /\ \A c \in CaseIds : \/ cases'[c] = cases[c]
                                    \/ ~Held(c) \/ IsTerminal(cases[c])
           \/ WatchNext
<1> DEFINE Told == UNCHANGED <<cases, watch>> \/ \E c \in CaseIds : \E r : Publish(c, r)
<1>1. \A n \in Submits : phase[n] # "none" => caseOf[n] \in CaseIds
  BY DEF IInv, TasksNamed
<1>2. ASSUME NEW n \in Submits, TaskStep(n) \/ Progress(n) \/ Finish(n)
      PROVE  Told
  <2>1. phase[n] # "none"
    BY <1>2 DEF TaskStep, Start, NeverStart, Resume, LeaveQueue, AbortRun, Retire,
                Progress, Finish, IsNext
  <2>2. caseOf[n] \in CaseIds
    BY <1>1, <2>1
  <2>3. \/ UNCHANGED <<cases, watch>>
        \/ MarkRunning(caseOf[n]) \/ AppendEvent(caseOf[n]) \/ Cancel(caseOf[n])
        \/ \E e \in Endings : RecordOutcome(n, e)
    BY <1>2 DEF TaskStep, Start, NeverStart, Resume, LeaveQueue, AbortRun, Retire,
                Progress, Finish, RecordCancelled
  <2>4. UNCHANGED <<cases, watch>> \/ \E r : Publish(caseOf[n], r)
    BY <2>3, Zenon DEF MarkRunning, AppendEvent, Cancel, RecordOutcome, Succeed, Fail
  <2>5. QED BY <2>2, <2>4
<1>3. ASSUME NEW c \in CaseIds, Discard(c)
      PROVE  Told
  BY <1>3 DEF Discard, Forget, Publish
<1>4. ASSUME NEW c \in CaseIds, SubmitRefused(c) \/ \E n \in Submits : Submit(n, c)
      PROVE  /\ UNCHANGED watch
             /\ \A d \in CaseIds : \/ cases'[d] = cases[d]
                                   \/ ~Held(d) \/ IsTerminal(cases[d])
  <2>1. ~Held(c)
    BY <1>4, MadeIdIsNew DEF SubmitRefused, Submit
  <2>2. PICK V \in Evictions :
           /\ UNCHANGED watch
           /\ \A d \in CaseIds \ {c} : cases'[d] = Evicted(V)[d]
    BY <1>4 DEF SubmitRefused, Submit, Create, Conflict, Evicted
  <2>3. \A d \in CaseIds \ {c} : cases'[d] = cases[d] \/ IsTerminal(cases[d])
    BY <2>2, EvictionsSettled
  <2>4. QED BY <2>1, <2>2, <2>3
<1>5. CASE CloseStep \/ (Tick /\ UNCHANGED <<taskVars, slots, waiting, closing>>)
  BY <1>5 DEF CloseStep, CloseBegins, DrainEnds, CloseReturns, Tick
<1>6. CASE UNCHANGED vars
  BY <1>6 DEF vars
<1>7. QED BY <1>2, <1>3, <1>4, <1>5, <1>6 DEF Next, RunnerNext

\* A watcher with an unset event holds the current record after every step, too.
LEMMA WakeStep ==
    ASSUME ~CallersBringIds, IInv, RecInv, WakeInv, [Next]_vars
    PROVE  WakeInv'
<1>1. watch \in [Watchers -> Watch] /\ WatchersNamed /\ cases \in [CaseIds -> Record]
  BY DEF IInv, TypeOK, StoreTypeOK
<1>2. ASSUME NEW w \in Watchers, watch[w].phase \in {"emitting", "waiting"},
             ~watch[w].woken, ~IsTerminal(watch[w].seen)
      PROVE  /\ watch[w].case \in CaseIds
             /\ cases[watch[w].case] = watch[w].seen
             /\ Held(watch[w].case)
  BY <1>1, <1>2 DEF WakeInv, NoLostWakeup, SeenHeld, WatchersNamed, Held
<1>3. CASE UNCHANGED <<cases, watch>>
  BY <1>3 DEF WakeInv, SeenHeld, NoLostWakeup
<1>4. CASE \E c \in CaseIds : \E r : Publish(c, r)
  <2>1. PICK c \in CaseIds : \E r : Publish(c, r)
    BY <1>4
  <2>2. \A w \in Watchers :
           /\ watch'[w].phase = watch[w].phase /\ watch'[w].case = watch[w].case
           /\ watch'[w].seen = watch[w].seen
           /\ ~watch'[w].woken => ~watch[w].woken /\ ~HoldsEvent(w, c)
    <3>1. ASSUME NEW w \in Watchers
          PROVE  /\ watch'[w].phase = watch[w].phase /\ watch'[w].case = watch[w].case
                 /\ watch'[w].seen = watch[w].seen
                 /\ ~watch'[w].woken => ~watch[w].woken /\ ~HoldsEvent(w, c)
      <4>1. watch'[w] = IF HoldsEvent(w, c) THEN [watch[w] EXCEPT !.woken = TRUE]
                        ELSE watch[w]
        BY <2>1 DEF Publish, Wake
      <4>2. watch[w] \in Watch
        BY <1>1
      <4>3. CASE HoldsEvent(w, c)
        BY <4>1, <4>2, <4>3 DEF Watch
      <4>4. CASE ~HoldsEvent(w, c)
        BY <4>1, <4>4
      <4>5. QED BY <4>3, <4>4
    <3>2. QED BY <3>1
  <2>3. \A d \in CaseIds \ {c} : cases'[d] = cases[d]
    BY <1>1, <2>1 DEF Publish
  <2>4. SeenHeld'
    BY <2>2 DEF WakeInv, SeenHeld
  <2>5. ASSUME NEW w \in Watchers, watch'[w].phase \in {"emitting", "waiting"},
               ~watch'[w].woken, ~IsTerminal(watch'[w].seen)
        PROVE  cases'[watch'[w].case] = watch'[w].seen
    <3>1. /\ watch[w].phase \in {"emitting", "waiting"} /\ ~watch[w].woken
          /\ ~IsTerminal(watch[w].seen) /\ ~HoldsEvent(w, c)
      BY <2>2, <2>5
    <3>2. watch[w].case \in CaseIds /\ cases[watch[w].case] = watch[w].seen
      BY <1>2, <3>1
    <3>3. watch[w].case # c
      BY <3>1, <3>2 DEF HoldsEvent
    <3>4. QED BY <2>2, <2>3, <3>2, <3>3
  <2>6. QED BY <2>4, <2>5 DEF WakeInv, NoLostWakeup, IsTerminal
<1>5. CASE /\ UNCHANGED watch
           /\ \A c \in CaseIds : \/ cases'[c] = cases[c]
                                 \/ ~Held(c) \/ IsTerminal(cases[c])
  <2>1. SeenHeld'
    BY <1>5 DEF WakeInv, SeenHeld
  <2>2. ASSUME NEW w \in Watchers, watch[w].phase \in {"emitting", "waiting"},
               ~watch[w].woken, ~IsTerminal(watch[w].seen)
        PROVE  cases'[watch[w].case] = watch[w].seen
    BY <1>2, <1>5, <2>2
  <2>3. QED BY <1>5, <2>1, <2>2 DEF WakeInv, NoLostWakeup
<1>6. CASE WatchNext
  <2>1. PICK w \in Watchers : (\E c \in CaseIds : BeginWatch(w, c)) \/ WatchStep(w)
    BY <1>6 DEF WatchNext
  <2>2. cases' = cases
    BY <1>6 DEF WatchNext
  <2>3. /\ \A v \in Watchers \ {w} : watch'[v] = watch[v]
        /\ \/ watch'[w].phase \notin {"emitting", "waiting"}
           \/ /\ Held(watch[w].case)
              /\ watch'[w].case = watch[w].case
              /\ watch'[w].seen = cases[watch[w].case]
           \/ /\ watch[w].phase = "emitting"
              /\ watch'[w].case = watch[w].case
              /\ watch'[w].seen = watch[w].seen
              /\ watch'[w].woken = watch[w].woken
    <3>1. watch[w] \in Watch
      BY <1>1
    <3>2. CASE \E c \in CaseIds : BeginWatch(w, c)
      BY <1>1, <3>1, <3>2 DEF BeginWatch, Watch
    <3>3. CASE Look(w)
      BY <1>1, <3>1, <3>3 DEF Look, Watch
    <3>4. CASE Park(w)
      BY <1>1, <3>1, <3>4 DEF Park, Watch
    <3>5. CASE EndWatch(w)
      BY <1>1, <3>1, <3>5 DEF EndWatch, Watch
    <3>6. QED BY <2>1, <3>2, <3>3, <3>4, <3>5 DEF WatchStep
  <2>4. SeenHeld'
    BY <2>3 DEF WakeInv, SeenHeld, Held
  <2>5. NoLostWakeup'
    BY <2>2, <2>3 DEF WakeInv, NoLostWakeup
  <2>6. QED BY <2>4, <2>5 DEF WakeInv
<1>7. QED BY <1>3, <1>4, <1>5, <1>6, ChangesAreTold

(* No watcher sleeps through a change of the record it watches. *)
THEOREM NoWakeupIsLost == ~CallersBringIds => (Spec => []NoLostWakeup)
<1> SUFFICES ASSUME ~CallersBringIds PROVE Spec => []NoLostWakeup
  OBVIOUS
<1>1. Init => WakeInv
  BY DEF Init, StoreInit, WakeInv, SeenHeld, NoLostWakeup
<1>2. IInv /\ RecInv /\ WakeInv /\ [Next]_vars => WakeInv'
  BY WakeStep
<1>3. WakeInv => NoLostWakeup
  BY DEF WakeInv
<1>4. QED BY <1>1, <1>2, <1>3, RecordsInvariant, PTL DEF Spec

(* What a watcher has seen was recorded for a task of the case it watches, and
   the record it would read now, if there is one, goes on from there. *)
SeenIsPast ==
    \A w \in Watchers :
        /\ watch[w].phase = "idle" => watch[w].seen = Absent
        /\ watch[w].seen # Absent =>
              /\ watch[w].seen.sub \in Submits
              /\ phase[watch[w].seen.sub] # "none"
              /\ watch[w].case \in CaseIds
              /\ caseOf[watch[w].seen.sub] = watch[w].case
              /\ Held(watch[w].case) => GoesOn(watch[w].seen, cases[watch[w].case])

\* The step WatcherMovesForward allows.
ShownForward ==
    \A w \in Watchers :
        LET seen == watch[w].seen
            next == watch'[w].seen
        IN  seen # Absent => /\ next.sub = seen.sub
                             /\ seen.events <= next.events
                             /\ Rank(seen.status) <= Rank(next.status)

LEMMA GoesOnOn ==
    ASSUME NEW r \in Record, NEW q \in Record, NEW s \in Record,
           GoesOn(r, q), GoesOn(q, s)
    PROVE  GoesOn(r, s)
<1>1. r.events \in Nat /\ q.events \in Nat /\ s.events \in Nat
  BY StoreAssumption DEF Record
<1>2. Rank(r.status) \in Nat /\ Rank(q.status) \in Nat /\ Rank(s.status) \in Nat
  BY DEF Rank
<1>3. QED BY <1>1, <1>2 DEF GoesOn

\* A task, once made, keeps the id it was made under.
LEMMA TasksStay ==
    ASSUME IInv, [Next]_vars
    PROVE  \A n \in Submits :
              phase[n] # "none" => phase'[n] # "none" /\ caseOf'[n] = caseOf[n]
<1>1. CASE \E n \in Submits, c \in CaseIds : Submit(n, c)
  BY <1>1 DEF Submit, IsNext, IInv, TypeOK
<1>2. CASE UNCHANGED <<phase, caseOf>>
  BY <1>2
<1>3. CASE \E n \in Submits : \E p \in {"waiting", "running", "done", "retired"} :
              phase' = [phase EXCEPT ![n] = p] /\ caseOf' = caseOf
  BY <1>3 DEF IInv, TypeOK
<1>4. CASE \E n \in Submits : \E p \in {"running", "done"} : \E f, k :
              Hand(n, p, f, k) /\ caseOf' = caseOf
  BY <1>4 DEF Hand
<1>5. QED
  BY <1>1, <1>2, <1>3, <1>4
     DEF Next, RunnerNext, TaskStep, SubmitRefused, Discard, Start, NeverStart, Resume,
         LeaveQueue, AbortRun, Retire, Progress, Finish, Release, CloseStep, CloseBegins,
         DrainEnds, CloseReturns, WatchNext, taskVars, vars

\* Only a watcher's own step changes what it has seen.
LEMMA OthersShowNothing ==
    ASSUME ~CallersBringIds, IInv, RecInv, [Next]_vars
    PROVE  \/ WatchNext
           \/ \A w \in Watchers : /\ watch'[w].phase = watch[w].phase
                                  /\ watch'[w].case = watch[w].case
                                  /\ watch'[w].seen = watch[w].seen
<1>1. CASE UNCHANGED watch
  BY <1>1
<1>2. ASSUME NEW c \in CaseIds, NEW r, Publish(c, r), NEW w \in Watchers
      PROVE  /\ watch'[w].phase = watch[w].phase
             /\ watch'[w].case = watch[w].case
             /\ watch'[w].seen = watch[w].seen
  <2>1. /\ watch[w] \in Watch
        /\ watch'[w] = IF HoldsEvent(w, c) THEN [watch[w] EXCEPT !.woken = TRUE]
                       ELSE watch[w]
    BY <1>2 DEF Publish, Wake, IInv, TypeOK, StoreTypeOK
  <2>2. QED BY <2>1 DEF Watch
<1>3. QED BY <1>1, <1>2, ChangesAreTold

\* What a watcher sees is one case, going forward.
LEMMA SeenStep ==
    ASSUME ~CallersBringIds, IInv, FirstStepTaken, RecInv, SeenIsPast, [Next]_vars
    PROVE  SeenIsPast' /\ ShownForward
<1>1. /\ \A w \in Watchers : watch[w] \in Watch /\ watch[w].seen \in Record
      /\ \A c \in CaseIds : cases[c] \in Record
  BY DEF IInv, TypeOK, StoreTypeOK, Watch
<1>2. CASE WatchNext
  <2>1. UNCHANGED <<cases, phase, caseOf>>
    BY <1>2 DEF WatchNext, taskVars
  <2>2. PICK w \in Watchers : (\E c \in CaseIds : BeginWatch(w, c)) \/ WatchStep(w)
    BY <1>2 DEF WatchNext
  <2>3. /\ \A v \in Watchers \ {w} : watch'[v] = watch[v]
        /\ \/ /\ watch[w].phase = "idle"
              /\ watch'[w].seen = watch[w].seen
           \/ /\ watch[w].phase # "idle" /\ watch'[w].phase # "idle"
              /\ watch'[w].case = watch[w].case
              /\ \/ watch'[w].seen = watch[w].seen
                 \/ Held(watch[w].case) /\ watch'[w].seen = cases[watch[w].case]
    <3>1. watch \in [Watchers -> Watch] /\ watch[w] \in Watch
      BY DEF IInv, TypeOK, StoreTypeOK
    <3>2. CASE \E c \in CaseIds : BeginWatch(w, c)
      BY <3>1, <3>2 DEF BeginWatch, Watch
    <3>3. CASE Look(w)
      BY <3>1, <3>3 DEF Look, Watch
    <3>4. CASE Park(w) \/ EndWatch(w)
      BY <3>1, <3>4 DEF Park, EndWatch, Watch
    <3>5. QED BY <2>2, <3>2, <3>3, <3>4 DEF WatchStep
  <2>4. ShownForward
    BY <1>1, <2>3, SameGoesOn DEF SeenIsPast, ShownForward, GoesOn
  <2>5. CASE watch'[w].seen = watch[w].seen
    BY <2>1, <2>3, <2>4, <2>5 DEF SeenIsPast, Held
  <2>6. CASE /\ watch'[w].case = watch[w].case /\ watch'[w].phase # "idle"
             /\ watch[w].phase # "idle" /\ Held(watch[w].case)
             /\ watch'[w].seen = cases[watch[w].case]
    <3> DEFINE c == watch[w].case
    <3>1. c \in CaseIds /\ cases[c].sub \in Submits /\ caseOf[cases[c].sub] = c
          /\ phase[cases[c].sub] # "none"
      BY <2>6 DEF IInv, WatchersNamed, RecInv, OwnRecord
    <3>2. GoesOn(cases[c], cases[c])
      BY <1>1, <3>1, SameGoesOn
    <3>3. QED BY <2>1, <2>3, <2>4, <2>6, <3>1, <3>2 DEF SeenIsPast, Held
  <2>7. QED BY <2>3, <2>4, <2>5, <2>6
<1>3. CASE \A w \in Watchers : /\ watch'[w].phase = watch[w].phase
                               /\ watch'[w].case = watch[w].case
                               /\ watch'[w].seen = watch[w].seen
  <2>1. ShownForward
    BY <1>1, <1>3, SameGoesOn DEF ShownForward, GoesOn
  <2>2. ASSUME NEW w \in Watchers, watch[w].seen # Absent
        PROVE  /\ phase'[watch[w].seen.sub] # "none"
               /\ caseOf'[watch[w].seen.sub] = watch[w].case
               /\ cases'[watch[w].case].status # "absent" =>
                     GoesOn(watch[w].seen, cases'[watch[w].case])
    <3> DEFINE c == watch[w].case
    <3>1. /\ c \in CaseIds /\ watch[w].seen.sub \in Submits
          /\ phase[watch[w].seen.sub] # "none" /\ caseOf[watch[w].seen.sub] = c
          /\ Held(c) => GoesOn(watch[w].seen, cases[c])
      BY <2>2 DEF SeenIsPast
    <3>2. c \notin Unseen
      BY <3>1 DEF Unseen
    <3>3. RecordsGoOn /\ cases'[c] \in Record
      BY <3>1, RecordStep, Inductive DEF IInv, TypeOK, StoreTypeOK
    <3>4. cases'[c].status # "absent" => GoesOn(watch[w].seen, cases'[c])
      BY <1>1, <3>1, <3>2, <3>3, GoesOnOn DEF RecordsGoOn, Held
    <3>5. QED BY <3>1, <3>4, TasksStay
  <2>3. QED BY <1>3, <2>1, <2>2 DEF SeenIsPast, Held
<1>4. QED BY <1>2, <1>3, OthersShowNothing

(* No watcher is shown a record older than one it was shown, or one of a case
   that was submitted since under the same id. *)
THEOREM WatchersMoveForward == ~CallersBringIds => (Spec => WatcherMovesForward)
<1> SUFFICES ASSUME ~CallersBringIds PROVE Spec => WatcherMovesForward
  OBVIOUS
<1>1. Init => SeenIsPast
  BY DEF Init, StoreInit, SeenIsPast
<1>2. /\ IInv /\ FirstStepTaken /\ RecInv /\ SeenIsPast /\ [Next]_vars => SeenIsPast'
      /\ IInv /\ FirstStepTaken /\ RecInv /\ SeenIsPast /\ [Next]_vars => [ShownForward]_watch
  BY SeenStep
<1>3. Spec => [][ShownForward]_watch
  BY <1>1, <1>2, RecordsInvariant, PTL DEF Spec
<1>4. QED BY <1>3 DEF WatcherMovesForward, ShownForward
=============================================================================

-------------------------- MODULE CaseStreamsProofs --------------------------
(* Theorems about CaseStreams, for any number of sessions, cases and streams
   and whatever ids the callers choose.

   The inductive invariant says which stream an entry of the table may hold,
   and of the first stream of a session and case that as long as nothing
   stopped it the table knows it, with no other stream that could take its
   place.

   The second half composes: a step of the service is a step of CaseRunner, or a
   stream that ends as no bare watcher does, and what CaseRunnerProofs and
   CaseRecordProofs show of the runner is kept by both. *)
EXTENDS CaseStreams, CaseRecordProofs

\* Every watcher has its four fields.
Shaped ==
    /\ watch = [i \in Watchers |-> watch[i]]
    /\ \A i \in Watchers :
          watch[i] \in [phase : WatchPhases, case : CaseIds \cup {NoCase},
                       seen : {watch[i].seen}, woken : BOOLEAN]

StreamTypes ==
    /\ session \in [Sessions -> {"open", "gone"}]
    /\ table \in [Sessions -> [CaseIds -> Watchers \cup {0}]]
    /\ owner \in [Watchers -> Sessions \cup {0}]
    /\ stopping \in [Watchers -> BOOLEAN]
    /\ retired \subseteq Watchers

\* A stream is idle, or was started for a session and a case.
Started ==
    \A i \in Watchers :
        /\ watch[i].phase \in WatchPhases
        /\ watch[i].phase = "idle" => watch[i].case = NoCase
        /\ watch[i].phase # "idle" => watch[i].case \in CaseIds /\ owner[i] \in Sessions

\* Streams are numbered in the order in which they were started.
IdleLast ==
    \A i, j \in Watchers :
        i < j /\ watch[i].phase = "idle" => watch[j].phase = "idle"

RetiredOver == \A i \in retired : Over(i)

\* An entry holds a stream of its own session and case.
TableOwns ==
    \A s \in Sessions : \A c \in CaseIds : \A i \in Watchers :
        table[s][c] = i => owner[i] = s /\ watch[i].case = c

SameKey(i, j) == owner[j] = owner[i] /\ watch[j].case = watch[i].case
First(i) == \A j \in Watchers : j < i => ~SameKey(i, j)

\* Nothing else can make the table forget a first stream that is not stopped.
FirstTabled ==
    \A i \in Watchers :
        Live(i) /\ ~stopping[i] /\ First(i) =>
            /\ table[owner[i]][watch[i].case] = i
            /\ \A j \in Watchers : SameKey(i, j) => j = i

StreamInv ==
    /\ Shaped /\ StreamTypes /\ Started /\ IdleLast
    /\ RetiredOver /\ TableOwns /\ TableForgets /\ FirstTabled

\* Streams are numbered from one.
LEMMA StreamNumbers == Watchers \subseteq Nat \ {0}
  BY StreamAssumption

\* At first there is no stream.
LEMMA StreamsInit ==
    ASSUME StreamInit PROVE StreamInv
<1>1. watch = [w \in Watchers |-> [phase |-> "idle", case |-> NoCase, seen |-> Absent,
                                   woken |-> FALSE]]
  BY DEF StreamInit, Init, StoreInit
<1>2. /\ session = [s \in Sessions |-> "open"]
      /\ table = [s \in Sessions |-> [c \in CaseIds |-> 0]]
      /\ owner = [i \in Watchers |-> 0]
      /\ stopping = [i \in Watchers |-> FALSE]
      /\ retired = {}
  BY DEF StreamInit
<1>3. Shaped
  BY <1>1 DEF Shaped, WatchPhases
<1>4. StreamTypes
  BY <1>2 DEF StreamTypes
<1>5. Started /\ IdleLast /\ RetiredOver
  BY <1>1, <1>2 DEF Started, IdleLast, RetiredOver, WatchPhases
<1>6. TableOwns /\ TableForgets
  BY <1>2, StreamNumbers DEF TableOwns, TableForgets
<1>7. FirstTabled
  BY <1>1 DEF FirstTabled, Live
<1> QED
  BY <1>3, <1>4, <1>5, <1>6, <1>7 DEF StreamInv

\* How a stream may move by itself: it keeps its case, and what is over stays so.
Onwards(i) ==
    /\ watch'[i].case = watch[i].case
    /\ watch'[i].phase \in WatchPhases
    /\ watch'[i].phase = "idle" <=> watch[i].phase = "idle"
    /\ Over(i) => Over(i)'

\* A stream that moves by itself, with the table as it was, keeps the invariant.
LEMMA MovingOnKeeps ==
    ASSUME StreamInv, Shaped', UNCHANGED streamVars, \A i \in Watchers : Onwards(i)
    PROVE  StreamInv'
<1>1. /\ session' = session /\ table' = table /\ owner' = owner
      /\ stopping' = stopping /\ retired' = retired
  BY DEF streamVars
<1>2. StreamTypes' /\ TableForgets'
  BY <1>1 DEF StreamInv, StreamTypes, TableForgets
<1>3. Started' /\ IdleLast'
  BY <1>1 DEF StreamInv, Started, IdleLast, Onwards
<1>4. RetiredOver'
  BY <1>1 DEF StreamInv, RetiredOver, StreamTypes, Onwards
<1>5. TableOwns'
  BY <1>1 DEF StreamInv, TableOwns, Onwards
<1>6. ASSUME NEW i \in Watchers, Live(i)'
      PROVE  Live(i)
  BY <1>6 DEF Live, Onwards, Over, StreamInv, Started, WatchPhases
<1>7. ASSUME NEW i \in Watchers, NEW j \in Watchers
      PROVE  SameKey(i, j)' <=> SameKey(i, j)
  BY <1>1 DEF SameKey, Onwards
<1>8. FirstTabled'
  BY <1>1, <1>6, <1>7 DEF StreamInv, FirstTabled, First, Onwards
<1> QED
  BY <1>2, <1>3, <1>4, <1>5, <1>8 DEF StreamInv

\* The runner does nothing to a stream but set the event it waits on.
LEMMA RunnerWakes ==
    ASSUME RunnerNext PROVE UNCHANGED watch \/ \E c : Wake(c)
<1>1. ASSUME NEW n \in Submits, TaskStep(n) \/ Progress(n) \/ Finish(n)
      PROVE  UNCHANGED watch \/ \E c : Wake(c)
  <2>1. \/ UNCHANGED watch
        \/ MarkRunning(caseOf[n]) \/ AppendEvent(caseOf[n]) \/ Cancel(caseOf[n])
        \/ \E e \in Endings : RecordOutcome(n, e)
    BY <1>1 DEF TaskStep, Start, NeverStart, Resume, LeaveQueue, AbortRun, Retire,
                Progress, Finish, RecordCancelled
  <2>2. UNCHANGED watch \/ Wake(caseOf[n])
    BY <2>1, Zenon DEF MarkRunning, AppendEvent, Cancel, RecordOutcome, Succeed, Fail,
                       Publish
  <2> QED
    BY <2>2
<1>2. ASSUME NEW c \in CaseIds,
             Discard(c) \/ SubmitRefused(c) \/ \E n \in Submits : Submit(n, c)
      PROVE  UNCHANGED watch \/ \E d : Wake(d)
  BY <1>2 DEF Discard, Forget, SubmitRefused, Conflict, Submit, Create
<1>3. CASE CloseStep \/ (Tick /\ UNCHANGED <<taskVars, slots, waiting, closing>>)
  BY <1>3 DEF CloseStep, CloseBegins, DrainEnds, CloseReturns, Tick
<1> QED
  BY <1>1, <1>2, <1>3 DEF RunnerNext

\* Setting an event leaves the streams where they are.
LEMMA WakingKeeps ==
    ASSUME StreamInv, UNCHANGED streamVars, UNCHANGED watch \/ \E c : Wake(c)
    PROVE  StreamInv'
<1>1. Shaped /\ Started
  BY DEF StreamInv
<1>2. CASE UNCHANGED watch
  <2>1. Shaped' /\ \A i \in Watchers : Onwards(i)
    BY <1>1, <1>2 DEF Shaped, Onwards, Over, Started
  <2> QED
    BY <2>1, MovingOnKeeps
<1>3. ASSUME NEW c, Wake(c)
      PROVE  StreamInv'
  <2>1. ASSUME NEW i \in Watchers
        PROVE  /\ watch'[i] \in [phase : WatchPhases, case : CaseIds \cup {NoCase},
                                seen : {watch[i].seen}, woken : BOOLEAN]
               /\ watch'[i].phase = watch[i].phase /\ watch'[i].case = watch[i].case
               /\ watch'[i].seen = watch[i].seen
    <3>1. watch'[i] = IF HoldsEvent(i, c) THEN [watch[i] EXCEPT !.woken = TRUE]
                      ELSE watch[i]
      BY <1>3 DEF Wake
    <3>2. watch[i] \in [phase : WatchPhases, case : CaseIds \cup {NoCase},
                        seen : {watch[i].seen}, woken : BOOLEAN]
      BY <1>1 DEF Shaped
    <3>3. /\ [watch[i] EXCEPT !.woken = TRUE]
               \in [phase : WatchPhases, case : CaseIds \cup {NoCase},
                   seen : {watch[i].seen}, woken : BOOLEAN]
          /\ [watch[i] EXCEPT !.woken = TRUE].phase = watch[i].phase
          /\ [watch[i] EXCEPT !.woken = TRUE].case = watch[i].case
          /\ [watch[i] EXCEPT !.woken = TRUE].seen = watch[i].seen
      BY <3>2
    <3> QED
      BY <3>1, <3>2, <3>3
  <2>2. watch' = [i \in Watchers |-> watch'[i]]
    BY <1>3 DEF Wake
  <2>4. Shaped' /\ \A i \in Watchers : Onwards(i)
    BY <1>1, <2>1, <2>2 DEF Shaped, Onwards, Over, Started
  <2> QED
    BY <2>4, MovingOnKeeps
<1> QED
  BY <1>2, <1>3

\* A stream that delivers, waits, ends or is cancelled moves by itself.
LEMMA PumpingKeeps ==
    ASSUME StreamInv, NEW i \in Watchers, Pump(i) \/ EmitRaises(i) \/ Stopped(i)
    PROVE  StreamInv'
<1>1. /\ watch = [j \in Watchers |-> watch[j]]
      /\ watch[i] \in [phase : WatchPhases, case : CaseIds \cup {NoCase},
                       seen : {watch[i].seen}, woken : BOOLEAN]
      /\ UNCHANGED streamVars
  BY DEF StreamInv, Shaped, Pump, EmitRaises, Stopped
<1>2. /\ watch' = [watch EXCEPT ![i] = watch'[i]]
      /\ watch'[i] \in [phase : WatchPhases, case : CaseIds \cup {NoCase},
                        seen : {watch'[i].seen}, woken : BOOLEAN]
      /\ watch'[i].case = watch[i].case
      /\ watch[i].phase \in {"starting", "emitting", "waiting"}
      /\ watch'[i].phase # "idle"
  <2>1. CASE Look(i)
    BY <1>1, <2>1 DEF Look, WatchPhases
  <2>2. CASE Park(i)
    BY <1>1, <2>2 DEF Park, WatchPhases
  <2>3. CASE EndWatch(i)
    BY <1>1, <2>3 DEF EndWatch, WatchPhases
  <2>4. CASE EmitRaises(i) \/ Stopped(i)
    BY <1>1, <2>4 DEF EmitRaises, Stopped, Live, WatchPhases
  <2> QED
    BY <2>1, <2>2, <2>3, <2>4 DEF Pump, WatchStep
<1>3. \A j \in Watchers : j # i => watch'[j] = watch[j]
  BY <1>1, <1>2
<1>4. Shaped'
  BY <1>1, <1>2, <1>3 DEF StreamInv, Shaped
<1>5. \A j \in Watchers : Onwards(j)
  BY <1>2, <1>3 DEF Onwards, Over, WatchPhases, StreamInv, Started
<1> QED
  BY <1>1, <1>4, <1>5, MovingOnKeeps

\* A subscription takes the place of the one there was, and stops it.
LEMMA SubscribeKeeps ==
    ASSUME StreamInv, NEW s \in Sessions, NEW c \in CaseIds, NEW i \in Watchers,
           Subscribe(s, c, i)
    PROVE  StreamInv'
<1>1. /\ session[s] = "open" /\ watch[i].phase = "idle"
      /\ \A j \in Watchers : j < i => watch[j].phase # "idle"
      /\ stopping' = StopAll({table[s][c]})
      /\ owner' = [owner EXCEPT ![i] = s]
      /\ table' = [table EXCEPT ![s][c] = i]
      /\ session' = session /\ retired' = retired
  BY DEF Subscribe
<1>2. StreamTypes
  BY DEF StreamInv
<1>3. /\ watch' = [watch EXCEPT ![i] = watch'[i]]
      /\ watch'[i] \in [phase : WatchPhases, case : CaseIds \cup {NoCase},
                        seen : {watch'[i].seen}, woken : BOOLEAN]
      /\ watch'[i].case = c /\ watch'[i].phase = "starting"
      /\ \A j \in Watchers : j # i => watch'[j] = watch[j]
  BY DEF StreamInv, Shaped, Subscribe, BeginWatch, WatchPhases
<1>4. Shaped'
  BY <1>3 DEF StreamInv, Shaped
<1>5. StreamTypes'
  BY <1>1, <1>2 DEF StreamTypes, StopAll
<1>6. owner'[i] = s /\ \A j \in Watchers : j # i => owner'[j] = owner[j]
  BY <1>1, <1>2 DEF StreamTypes
<1>7. Started'
  BY <1>3, <1>6 DEF StreamInv, Started, WatchPhases
<1>8. IdleLast'
  BY <1>1, <1>3, StreamNumbers DEF StreamInv, IdleLast
<1>9. i \notin retired
  BY <1>1 DEF StreamInv, RetiredOver, Over
<1>10. RetiredOver'
  BY <1>1, <1>2, <1>3, <1>9 DEF StreamInv, RetiredOver, Over, StreamTypes
<1>11. \A t \in Sessions : \A d \in CaseIds :
          table'[t][d] = IF t = s /\ d = c THEN i ELSE table[t][d]
  BY <1>1, <1>2 DEF StreamTypes
<1>12. \A t \in Sessions : \A d \in CaseIds : table[t][d] # i
  BY <1>1, StoreAssumption DEF StreamInv, TableOwns, Started
<1>13. TableOwns'
  BY <1>3, <1>6, <1>11, <1>12 DEF StreamInv, TableOwns
<1>14. TableForgets'
  BY <1>1, <1>9, <1>11 DEF StreamInv, TableForgets
<1>15. FirstTabled'
  <2> SUFFICES ASSUME NEW j \in Watchers, Live(j)', ~stopping'[j], First(j)'
               PROVE  /\ table'[owner'[j]][watch'[j].case] = j
                      /\ \A k \in Watchers : SameKey(j, k)' => k = j
    BY DEF FirstTabled
  <2>1. CASE j = i
    <3>1. owner'[j] = s /\ watch'[j].case = c
      BY <1>3, <1>6, <2>1
    <3>2. ASSUME NEW k \in Watchers, SameKey(j, k)', k # j
          PROVE  FALSE
      <4>1. ~(k < j)
        BY <3>2 DEF First
      <4>2. j < k
        BY <3>2, <4>1, StreamNumbers
      <4>3. watch[k].phase = "idle" /\ watch'[k] = watch[k]
        BY <1>1, <1>3, <2>1, <3>2, <4>2 DEF StreamInv, IdleLast
      <4>4. watch'[k].case = NoCase
        BY <4>3 DEF StreamInv, Started
      <4> QED
        BY <3>1, <3>2, <4>4, StoreAssumption DEF SameKey
    <3> QED
      BY <1>11, <2>1, <3>1, <3>2
  <2>2. CASE j # i
    <3>1. watch'[j] = watch[j] /\ owner'[j] = owner[j] /\ Live(j)
      BY <1>3, <1>6, <2>2 DEF Live
    <3>2. ~stopping[j]
      BY <1>1, <1>2 DEF StopAll, StreamTypes
    <3>3. watch[j].phase # "idle" /\ j < i
      <4>1. watch[j].phase # "idle"
        BY <3>1 DEF Live
      <4> QED
        BY <1>1, <2>2, <4>1, StreamNumbers DEF StreamInv, IdleLast
    <3>4. First(j)
      BY <1>3, <1>6, <3>1, <3>3, StreamNumbers DEF First, SameKey
    <3>5. /\ table[owner[j]][watch[j].case] = j
          /\ \A k \in Watchers : SameKey(j, k) => k = j
      BY <3>1, <3>2, <3>4 DEF StreamInv, FirstTabled
    <3>6. ~(owner[j] = s /\ watch[j].case = c)
      <4>1. owner[j] = s /\ watch[j].case = c => table[s][c] = j
        BY <3>5
      <4>2. table[s][c] = j => stopping'[j]
        BY <1>1, <3>1 DEF StopAll
      <4> QED
        BY <4>1, <4>2
    <3>7. owner[j] \in Sessions /\ watch[j].case \in CaseIds
      BY <3>3 DEF StreamInv, Started
    <3>8. table'[owner'[j]][watch'[j].case] = j
      BY <1>11, <3>1, <3>5, <3>6, <3>7
    <3>9. ASSUME NEW k \in Watchers, SameKey(j, k)'
          PROVE  k = j
      <4>1. k # i
        BY <1>3, <1>6, <3>1, <3>6, <3>9 DEF SameKey
      <4> QED
        BY <1>3, <1>6, <3>1, <3>5, <3>9, <4>1 DEF SameKey
    <3> QED
      BY <3>8, <3>9
  <2> QED
    BY <2>1, <2>2
<1> QED
  BY <1>4, <1>5, <1>7, <1>8, <1>10, <1>13, <1>14, <1>15 DEF StreamInv

\* Entries that are taken out of the table are those of streams that are stopped
\* or over.
LEMMA ClearingKeeps ==
    ASSUME StreamInv, UNCHANGED <<watch, owner>>, StreamTypes', RetiredOver',
           \A s \in Sessions : \A c \in CaseIds :
              \/ table'[s][c] = 0
              \/ table'[s][c] = table[s][c] /\ session'[s] = session[s],
           \A i \in retired' \ retired : table'[owner[i]][watch[i].case] # i,
           \A i \in Watchers :
              /\ stopping[i] => stopping'[i]
              /\ Live(i) /\ ~stopping[i] /\ First(i)
                 => stopping'[i] \/ table'[owner[i]][watch[i].case] = i
    PROVE  StreamInv'
<1>1. Shaped' /\ Started' /\ IdleLast'
  BY DEF StreamInv, Shaped, Started, IdleLast
<1>2. TableOwns'
  <2>1. ASSUME NEW s \in Sessions, NEW c \in CaseIds, NEW i \in Watchers, table'[s][c] = i
        PROVE  table[s][c] = i
    BY <2>1, StreamNumbers
  <2> QED
    BY <2>1 DEF StreamInv, TableOwns
<1>3. TableForgets'
  <2> SUFFICES ASSUME NEW s \in Sessions, NEW c \in CaseIds, table'[s][c] # 0
               PROVE  table'[s][c] \notin retired' /\ session'[s] = "open"
    BY DEF TableForgets
  <2>1. table'[s][c] = table[s][c] /\ table[s][c] \notin retired /\ session'[s] = "open"
    BY DEF StreamInv, TableForgets
  <2>2. table[s][c] \in Watchers
    BY <2>1 DEF StreamInv, StreamTypes
  <2>3. owner[table[s][c]] = s /\ watch[table[s][c]].case = c
    BY <2>2 DEF StreamInv, TableOwns
  <2> QED
    BY <2>1, <2>3
<1>4. FirstTabled'
  <2>1. \A i \in Watchers : Live(i)' = Live(i) /\ (First(i)' <=> First(i))
    BY DEF Live, First, SameKey
  <2>2. \A i, j \in Watchers : SameKey(i, j)' <=> SameKey(i, j)
    BY DEF SameKey
  <2> QED
    BY <2>1, <2>2 DEF StreamInv, FirstTabled
<1> QED
  BY <1>1, <1>2, <1>3, <1>4 DEF StreamInv

\* So it is when a client unsubscribes or goes, and when a stream's end is told.
LEMMA LeavingKeeps ==
    ASSUME StreamInv,
           \/ \E s \in Sessions : Disconnect(s) \/ \E c \in CaseIds : Unsubscribe(s, c)
           \/ \E i \in Watchers : StreamRetires(i)
    PROVE  StreamInv'
<1>1. StreamTypes /\ RetiredOver
  BY DEF StreamInv
<1>2. ASSUME NEW s \in Sessions, NEW c \in CaseIds, Unsubscribe(s, c)
      PROVE  StreamInv'
  <2>1. /\ stopping' = StopAll({table[s][c]})
        /\ table' = [table EXCEPT ![s][c] = 0]
        /\ UNCHANGED <<watch, session, owner, retired>>
    BY <1>2 DEF Unsubscribe
  <2>2. StreamTypes' /\ RetiredOver'
    BY <1>1, <2>1 DEF StreamTypes, StopAll, RetiredOver, Over
  <2>3. \A t \in Sessions : \A d \in CaseIds :
           table'[t][d] = IF t = s /\ d = c THEN 0 ELSE table[t][d]
    BY <1>1, <2>1 DEF StreamTypes
  <2>4. ASSUME NEW i \in Watchers
        PROVE  /\ stopping[i] => stopping'[i]
               /\ Live(i) /\ ~stopping[i] /\ First(i)
                  => stopping'[i] \/ table'[owner[i]][watch[i].case] = i
    <3>1. Live(i) => owner[i] \in Sessions /\ watch[i].case \in CaseIds
      BY DEF StreamInv, Started, Live
    <3>2. /\ stopping[i] => stopping'[i]
          /\ i \in {table[s][c]} /\ Live(i) => stopping'[i]
      BY <2>1, Zenon DEF StopAll
    <3>3. Live(i) /\ ~stopping[i] /\ First(i) => table[owner[i]][watch[i].case] = i
      BY DEF StreamInv, FirstTabled
    <3> QED
      BY <2>3, <3>1, <3>2, <3>3
  <2>5. /\ UNCHANGED <<watch, owner>> /\ retired' \ retired = {}
        /\ \A t \in Sessions : \A d \in CaseIds :
              \/ table'[t][d] = 0
              \/ table'[t][d] = table[t][d] /\ session'[t] = session[t]
    BY <2>1, <2>3
  <2> QED
    BY <2>2, <2>4, <2>5, ClearingKeeps
<1>3. ASSUME NEW s \in Sessions, Disconnect(s)
      PROVE  StreamInv'
  <2>1. /\ session' = [session EXCEPT ![s] = "gone"]
        /\ stopping' = StopAll({table[s][c] : c \in CaseIds})
        /\ table' = [table EXCEPT ![s] = [c \in CaseIds |-> 0]]
        /\ UNCHANGED <<watch, owner, retired>>
    BY <1>3 DEF Disconnect
  <2>2. StreamTypes' /\ RetiredOver'
    BY <1>1, <2>1 DEF StreamTypes, StopAll, RetiredOver, Over
  <2>3. \A t \in Sessions : \A d \in CaseIds :
           /\ table'[t][d] = IF t = s THEN 0 ELSE table[t][d]
           /\ t # s => session'[t] = session[t]
    BY <1>1, <2>1 DEF StreamTypes
  <2>4. ASSUME NEW i \in Watchers
        PROVE  /\ stopping[i] => stopping'[i]
               /\ Live(i) /\ ~stopping[i] /\ First(i)
                  => stopping'[i] \/ table'[owner[i]][watch[i].case] = i
    <3>1. Live(i) => owner[i] \in Sessions /\ watch[i].case \in CaseIds
      BY DEF StreamInv, Started, Live
    <3>2. /\ stopping[i] => stopping'[i]
          /\ i \in {table[s][d] : d \in CaseIds} /\ Live(i) => stopping'[i]
      BY <2>1, Zenon DEF StopAll
    <3>3. Live(i) /\ ~stopping[i] /\ First(i) => table[owner[i]][watch[i].case] = i
      BY DEF StreamInv, FirstTabled
    <3> QED
      BY <2>3, <3>1, <3>2, <3>3
  <2> QED
    BY <2>1, <2>2, <2>3, <2>4, ClearingKeeps
<1>4. ASSUME NEW i \in Watchers, StreamRetires(i)
      PROVE  StreamInv'
  <2>1. /\ Over(i) /\ retired' = retired \cup {i}
        /\ table' = [table EXCEPT ![owner[i]][watch[i].case] = 0]
        /\ UNCHANGED <<watch, session, owner, stopping>>
    BY <1>4 DEF StreamRetires
  <2>2. owner[i] \in Sessions /\ watch[i].case \in CaseIds
    BY <2>1 DEF StreamInv, Started, Over
  <2>3. StreamTypes' /\ RetiredOver'
    BY <1>1, <2>1, <2>2 DEF StreamTypes, RetiredOver, Over
  <2>4. \A t \in Sessions : \A d \in CaseIds :
           table'[t][d] = IF t = owner[i] /\ d = watch[i].case THEN 0 ELSE table[t][d]
    BY <1>1, <2>1, <2>2 DEF StreamTypes
  <2>5. table'[owner[i]][watch[i].case] # i
    BY <2>2, <2>4, StreamNumbers
  <2>6. ASSUME NEW j \in Watchers, Live(j), ~stopping[j], First(j)
        PROVE  table'[owner[j]][watch[j].case] = j
    <3>1. /\ table[owner[j]][watch[j].case] = j
          /\ owner[j] \in Sessions /\ watch[j].case \in CaseIds
      BY <2>6 DEF StreamInv, FirstTabled, Started, Live
    <3>2. ~SameKey(j, i)
      BY <2>1, <2>6 DEF StreamInv, FirstTabled, Live, Over
    <3> QED
      BY <2>4, <3>1, <3>2 DEF SameKey
  <2>7. \A s \in Sessions : \A c \in CaseIds :
           \/ table'[s][c] = 0
           \/ table'[s][c] = table[s][c] /\ session'[s] = session[s]
    BY <2>1, <2>4
  <2>8. retired' \ retired \subseteq {i}
    BY <2>1
  <2>9. \A j \in Watchers :
            /\ stopping[j] => stopping'[j]
            /\ Live(j) /\ ~stopping[j] /\ First(j)
               => stopping'[j] \/ table'[owner[j]][watch[j].case] = j
    BY <2>1, <2>6
  <2> QED
    BY <2>1, <2>3, <2>5, <2>7, <2>8, <2>9, ClearingKeeps
<1> QED
  BY <1>2, <1>3, <1>4

(* The table and the streams agree in every state of the service. *)
THEOREM StreamsInvariant == ServiceSpec => []StreamInv
<1>1. StreamInit => StreamInv
  BY StreamsInit
<1>2. StreamInv /\ [ServiceNext]_allVars => StreamInv'
  <2> SUFFICES ASSUME StreamInv, [ServiceNext]_allVars PROVE StreamInv'
    OBVIOUS
  <2>1. CASE RunnerNext /\ UNCHANGED streamVars
    BY <2>1, RunnerWakes, WakingKeeps
  <2>2. CASE UNCHANGED allVars
    BY <2>2, WakingKeeps DEF allVars, vars
  <2>3. CASE StreamNext
    BY <2>3, PumpingKeeps, SubscribeKeeps, LeavingKeeps
    DEF StreamNext, ClientStep, StreamStep
  <2> QED
    BY <2>1, <2>2, <2>3 DEF ServiceNext
<1> QED
  BY <1>1, <1>2, PTL DEF ServiceSpec

(* The table of subscriptions never holds a stream whose end it was told of, nor
   any stream of a session that is gone (events.py, build_socket_app). *)
THEOREM NothingAccumulates == ServiceSpec => []TableForgets
<1>1. StreamInv => TableForgets
  BY DEF StreamInv
<1> QED
  BY <1>1, StreamsInvariant, PTL

(* A stream that replaced none is stopped by the end of its session, whatever
   unsubscribes, replaces and retires the streams in between. *)
THEOREM FirstStreamsStop == ServiceSpec => []FirstStreamStops
<1>1. StreamInv => FirstStreamStops
  <2> SUFFICES ASSUME StreamInv, NEW i \in Watchers, Live(i), ~stopping[i],
                      session[owner[i]] = "gone", First(i)
               PROVE  FALSE
    BY DEF FirstStreamStops, First, SameKey
  <2>1. table[owner[i]][watch[i].case] = i
    BY DEF StreamInv, FirstTabled
  <2>2. owner[i] \in Sessions /\ watch[i].case \in CaseIds /\ i # 0
    BY StreamNumbers DEF StreamInv, Started, Live
  <2> QED
    BY <2>1, <2>2 DEF StreamInv, TableForgets
<1> QED
  BY <1>1, StreamsInvariant, PTL

(* ------------------------ the runner under its streams --------------------- *)

\* A stream ends as a bare watcher never does: stopped, or by an emit that raises.
Broken ==
    \E i \in Watchers : \E p \in {"lost", "stopped"} :
        /\ watch' = [watch EXCEPT ![i].phase = p]
        /\ watch[i].phase # "idle"
        /\ UNCHANGED <<cases, now, taskVars, slots, waiting, closing>>

\* What the sessions do is what watchers do, and that.
LEMMA StreamsWatch ==
    ASSUME [ServiceNext]_allVars PROVE [Next]_vars \/ Broken
<1>1. CASE RunnerNext \/ UNCHANGED allVars
  BY <1>1 DEF Next, allVars
<1>2. CASE StreamNext
  <2>1. UNCHANGED <<cases, now, taskVars, slots, waiting, closing>>
    BY <1>2 DEF StreamNext
  <2>2. ASSUME NEW i \in Watchers, NEW c \in CaseIds, BeginWatch(i, c) PROVE Next
    BY <2>1, <2>2 DEF Next, WatchNext
  <2>3. ASSUME NEW i \in Watchers, WatchStep(i) PROVE Next
    BY <2>1, <2>3 DEF Next, WatchNext
  <2>4. CASE UNCHANGED watch
    BY <2>1, <2>4 DEF vars, taskVars
  <2>5. ASSUME NEW i \in Watchers, EmitRaises(i) \/ Stopped(i) PROVE Broken
    BY <2>1, <2>5 DEF Broken, EmitRaises, Stopped, Live
  <2>6. \/ \E i \in Watchers : \/ \E c \in CaseIds : BeginWatch(i, c)
                               \/ WatchStep(i)
                               \/ EmitRaises(i) \/ Stopped(i)
        \/ UNCHANGED watch
    BY <1>2 DEF StreamNext, ClientStep, Subscribe, Unsubscribe, Disconnect, StreamStep,
                Pump, StreamRetires
  <2> QED
    BY <2>2, <2>3, <2>4, <2>5, <2>6
<1> QED
  BY <1>1, <1>2 DEF ServiceNext

\* The runner does not notice how a stream ends.
LEMMA BrokenKeeps ==
    ASSUME IInv, Broken
    PROVE  /\ IInv'
           /\ FirstStepTaken => FirstStepTaken'
           /\ RecInv => RecInv'
           /\ NoSlotIdles => NoSlotIdles'
           /\ ClosedIsOver => ClosedIsOver'
           /\ WakeInv => WakeInv'
           /\ SeenIsPast => SeenIsPast' /\ ShownForward
<1>1. PICK i \in Watchers, p \in {"lost", "stopped"} :
         /\ watch' = [watch EXCEPT ![i].phase = p]
         /\ watch[i].phase # "idle"
         /\ UNCHANGED <<cases, now, phase, caseOf, cancelling, slots, waiting, closing>>
  BY DEF Broken, taskVars
<1>2. /\ watch \in [Watchers -> Watch]
      /\ \A w \in Watchers : watch[w] \in Watch
  BY DEF IInv, TypeOK, StoreTypeOK
<1>3. /\ watch' \in [Watchers -> Watch]
      /\ watch'[i].phase = p
      /\ \A w \in Watchers : /\ watch'[w].case = watch[w].case
                             /\ watch'[w].seen = watch[w].seen
                             /\ watch'[w].woken = watch[w].woken
                             /\ w # i => watch'[w].phase = watch[w].phase
  BY <1>1, <1>2 DEF Watch, WatchPhases
<1>4. IInv'
  BY <1>1, <1>3 DEF IInv, TypeOK, StoreTypeOK, SlotsConserved, Holding, QueueCounted,
     InQueue, In, TasksNamed, WatchersNamed
<1>5. (FirstStepTaken => FirstStepTaken') /\ (ClosedIsOver => ClosedIsOver')
  BY <1>1 DEF FirstStepTaken, ClosedIsOver, In
<1>6. NoSlotIdles => NoSlotIdles'
  BY <1>1 DEF NoSlotIdles, Pending, In
<1>7. RecInv => RecInv'
  BY <1>1 DEF RecInv, TaskPerId, OwnRecord, RunHeld, RecordStands, AbsentOrHeld, Held, In,
     RecordCoherent
<1>8. WakeInv => WakeInv'
  BY <1>1, <1>3 DEF WakeInv, SeenHeld, NoLostWakeup
<1>9. SeenIsPast => SeenIsPast' /\ ShownForward
  <2>1. \A w \in Watchers : watch[w].seen \in Record
    BY <1>2 DEF Watch
  <2>2. ShownForward
    BY <1>3, <2>1, SameGoesOn DEF ShownForward, GoesOn
  <2>3. SeenIsPast => SeenIsPast'
    BY <1>1, <1>3 DEF SeenIsPast, Held
  <2> QED
    BY <2>2, <2>3
<1> QED
  BY <1>4, <1>5, <1>6, <1>7, <1>8, <1>9

(* Whatever the sessions do, the runner under them conserves its slots, bounds
   its queue and leaves no slot idle: the socket layer only reads. *)
THEOREM StreamsDisturbNoSlot ==
    ServiceSpec => [](TypeOK /\ SlotsConserved /\ QueueBounded /\ NoSlotIdles)
<1>1. StreamInit => IInv /\ NoSlotIdles
  BY InitHolds DEF StreamInit, Init, NoSlotIdles, Pending
<1>2. IInv /\ NoSlotIdles /\ [ServiceNext]_allVars => IInv' /\ NoSlotIdles'
  BY StreamsWatch, Inductive, NoSlotIdlesStep, BrokenKeeps
<1>3. IInv => TypeOK /\ SlotsConserved /\ QueueBounded
  BY RunnerAssumption DEF IInv, QueueCounted, QueueBounded, TypeOK
<1> QED
  BY <1>1, <1>2, <1>3, PTL DEF ServiceSpec

\* All that is known of the records and of who watches them, with made ids.
ServedInv ==
    IInv /\ FirstStepTaken /\ RecInv /\ ClosedIsOver /\ WakeInv /\ SeenIsPast

\* It holds before anything was submitted.
LEMMA ServedStarts ==
    ASSUME StreamInit PROVE ServedInv
<1>1. Init
  BY DEF StreamInit
<1>2. FirstStepTaken /\ ClosedIsOver
  BY <1>1 DEF Init, FirstStepTaken, ClosedIsOver
<1>3. WakeInv /\ SeenIsPast
  BY <1>1 DEF Init, StoreInit, WakeInv, SeenHeld, NoLostWakeup, SeenIsPast
<1> QED
  BY <1>1, <1>2, <1>3, InitHolds, RecordInit DEF ServedInv

\* A step of the runner, of its watchers or of the sessions keeps it.
LEMMA ServedStep ==
    ASSUME ~CallersBringIds, ServedInv, [ServiceNext]_allVars
    PROVE  ServedInv' /\ [ShownForward]_watch
<1>1. CASE [Next]_vars
  <2>1. IInv' /\ FirstStepTaken' /\ RecInv'
    BY <1>1, Inductive, FirstStepTakenStep, RecordStep DEF ServedInv, IInv
  <2>2. ClosedIsOver' /\ WakeInv'
    BY <1>1, ClosedStep, WakeStep DEF ServedInv
  <2>3. SeenIsPast' /\ ShownForward
    BY <1>1, SeenStep DEF ServedInv
  <2> QED
    BY <2>1, <2>2, <2>3 DEF ServedInv
<1>2. CASE Broken
  BY <1>2, BrokenKeeps DEF ServedInv
<1> QED
  BY <1>1, <1>2, StreamsWatch

(* With made ids all that holds of the records holds under the streams, too,
   and no stream waits on an unset event beside a record that has changed. *)
THEOREM StreamsDisturbNoRecord ==
    ~CallersBringIds =>
        (ServiceSpec => [](/\ RunHasRecord /\ RecordHasRun /\ RecordCoherent
                           /\ ShutdownSettles /\ NoLostWakeup))
<1> SUFFICES ASSUME ~CallersBringIds
             PROVE  ServiceSpec => [](/\ RunHasRecord /\ RecordHasRun /\ RecordCoherent
                                      /\ ShutdownSettles /\ NoLostWakeup)
  OBVIOUS
<1>1. StreamInit => ServedInv
  BY ServedStarts
<1>2. ServedInv /\ [ServiceNext]_allVars => ServedInv'
  BY ServedStep
<1>3. ServedInv => /\ RunHasRecord /\ RecordHasRun /\ RecordCoherent
                   /\ ShutdownSettles /\ NoLostWakeup
  <2>1. ServedInv => RunHasRecord /\ RecordHasRun
    BY RunHasRecordFollows, RecordHasRunFollows DEF ServedInv
  <2>2. ServedInv => RecordCoherent /\ NoLostWakeup
    BY DEF ServedInv, RecInv, WakeInv
  <2>3. ServedInv => ShutdownSettles
    BY <2>1, ShutdownFollows DEF ServedInv
  <2> QED
    BY <2>1, <2>2, <2>3
<1> QED
  BY <1>1, <1>2, <1>3, PTL DEF ServiceSpec

(* What a stream emits of a case only moves forward, whoever subscribes,
   unsubscribes, disconnects and whichever emits raise (events.py, stream_case). *)
THEOREM StreamsMoveForward == ~CallersBringIds => (ServiceSpec => WatcherMovesForward)
<1> SUFFICES ASSUME ~CallersBringIds PROVE ServiceSpec => WatcherMovesForward
  OBVIOUS
<1>1. StreamInit => ServedInv
  BY ServedStarts
<1>2. /\ ServedInv /\ [ServiceNext]_allVars => ServedInv'
      /\ ServedInv /\ [ServiceNext]_allVars => [ShownForward]_watch
  BY ServedStep
<1>3. ServiceSpec => [][ShownForward]_watch
  BY <1>1, <1>2, PTL DEF ServiceSpec
<1> QED
  BY <1>3 DEF WatcherMovesForward, ShownForward
=============================================================================

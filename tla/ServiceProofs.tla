---------------------------- MODULE ServiceProofs ----------------------------
(* Theorems about Service, and the reader and the upload in it, for every value
   of the constants: any number of documents, pages and places, any budget.

   Inductive invariants, each with a section below: ReadInv says of each document
   what its read tells of its pages, and of the process what its stage tells of
   the run and the client; PlacesConserved is inductive beside it; UploadInv needs
   neither.  ReadableInv adds the bytes an upload holds, which are a fold over the
   files kept: the lemmas before it unfold that fold one file at a time, by
   induction on a set of natural numbers. *)
EXTENDS Service, TLAPS, FiniteSetTheorems

Going == {"splitting", "reading"}
ReadStates == {"none"} \cup Going \cup Over
PageStates == {"waiting", "calling", "hanging up"} \cup Ended

Typed ==
    /\ read \in [Documents -> ReadStates]
    /\ page \in [Documents -> Seq(PageStates)]
    /\ places \in Nat

\* A read that has not got as far has no pages; one that has, has some.
PagesFollow ==
    \A d \in Documents :
        /\ read[d] \in {"none", "splitting", "unsupported"} => Len(page[d]) = 0
        /\ read[d] = "reading" => Len(page[d]) >= 1
        /\ Len(page[d]) <= MaxPages

\* Reads belong to a run, and the client outlives it.
RunHasClient ==
    /\ \A d \in Documents : read[d] \in Going => task = "running" /\ OcrAvailable
    /\ client \in {"none", "open", "closed"}
    /\ task \in {"none", "running", "refused", "ended"}
    /\ stage \in {"starting", "loaded", "serving", "draining", "cancelling", "closed",
                  "stopped", "down"}
    /\ task # "none" => answer = "accepted"
    /\ stage \in {"starting", "loaded"} => task = "none"
    /\ stage \in {"closed", "stopped", "down"} => task # "running"
    /\ client = "closed" => stage \in {"stopped", "down"}

ReadInv ==
    Typed /\ PagesFollow /\ RunHasClient
    /\ WholeOrNothing /\ OnlyFailureLeavesPages

(* -------------------------------- the pages ------------------------------- *)

LEMMA PageIsFunction ==
    ASSUME Typed, NEW d \in Documents
    PROVE  page[d] \in [DOMAIN page[d] -> PageStates]
           /\ DOMAIN page[d] = 1..Len(page[d]) /\ Len(page[d]) \in Nat
  BY DEF Typed

(* What the pages are when one of them turns to another state. *)
LEMMA PageTurns ==
    ASSUME Typed, NEW e \in Documents, NEW j \in DOMAIN page[e],
           NEW s \in PageStates, Turn(<<e, j>>, s)
    PROVE  /\ page' \in [Documents -> Seq(PageStates)]
           /\ \A d \in Documents :
                 /\ DOMAIN page'[d] = DOMAIN page[d]
                 /\ Len(page'[d]) = Len(page[d])
                 /\ \A i \in DOMAIN page[d] :
                       page'[d][i] = IF d = e /\ i = j THEN s ELSE page[d][i]
<1>1. page' = [page EXCEPT ![e] = [page[e] EXCEPT ![j] = s]]
  BY DEF Turn
<1>2. page[e] \in Seq(PageStates)
  BY DEF Typed
<1>3. [page[e] EXCEPT ![j] = s] \in Seq(PageStates)
      /\ DOMAIN [page[e] EXCEPT ![j] = s] = DOMAIN page[e]
      /\ Len([page[e] EXCEPT ![j] = s]) = Len(page[e])
  BY <1>2
<1>4. page'[e] = [page[e] EXCEPT ![j] = s]
      /\ \A d \in Documents : d # e => page'[d] = page[d]
  BY <1>1 DEF Typed
<1>5. page' \in [Documents -> Seq(PageStates)]
  BY <1>1, <1>3 DEF Typed
<1>6. \A d \in Documents : \A i \in DOMAIN page[d] :
         page'[d][i] = IF d = e /\ i = j THEN s ELSE page[d][i]
  BY <1>4
<1> QED
  BY <1>3, <1>4, <1>5, <1>6

(* A page in flight may turn as long as it calls only after waiting. *)
LEMMA TurnKeeps ==
    ASSUME ReadInv, NEW e \in Documents, NEW j \in DOMAIN page[e],
           page[e][j] \in {"waiting", "calling", "hanging up"},
           NEW s \in PageStates, Turn(<<e, j>>, s),
           s = "calling" => page[e][j] = "waiting", s # "waiting",
           read' = read, places' \in Nat, UNCHANGED <<uploadVars, serviceVars>>
    PROVE  ReadInv'
<1>1. /\ page' \in [Documents -> Seq(PageStates)]
      /\ \A d \in Documents :
            /\ DOMAIN page'[d] = DOMAIN page[d]
            /\ Len(page'[d]) = Len(page[d])
            /\ \A i \in DOMAIN page[d] :
                  page'[d][i] = IF d = e /\ i = j THEN s ELSE page[d][i]
  <2>1. Typed
    BY DEF ReadInv
  <2> QED
    BY <2>1, PageTurns DEF Turn
<1>2. Typed'
  BY <1>1 DEF ReadInv, Typed
<1>3. PagesFollow'
  BY <1>1 DEF ReadInv, PagesFollow
<1>4. RunHasClient'
  BY DEF ReadInv, RunHasClient, OcrAvailable, uploadVars, serviceVars
<1>5. ASSUME NEW d \in Documents, read[d] = "returned"
      PROVE  Len(page'[d]) >= 1 /\ \A i \in DOMAIN page'[d] : page'[d][i] \in {"text", "blank"}
  <2>1. Len(page[d]) >= 1 /\ \A i \in DOMAIN page[d] : page[d][i] \in {"text", "blank"}
    BY <1>5 DEF ReadInv, WholeOrNothing, Settled
  <2> QED
    BY <1>1, <2>1
<1>6. ASSUME NEW d \in Documents, NEW i \in DOMAIN page'[d],
             page'[d][i] \in {"waiting", "calling"}, read[d] # "reading"
      PROVE  \E k \in DOMAIN page'[d] : page'[d][k] = "failed"
  <2>1. i \in DOMAIN page[d] /\ page[d][i] \in {"waiting", "calling"}
    BY <1>1, <1>6
  <2>2. PICK k \in DOMAIN page[d] : page[d][k] = "failed"
    BY <1>6, <2>1 DEF ReadInv, OnlyFailureLeavesPages, Unfinished, Broken
  <2> QED
    BY <1>1, <2>2
<1> QED
  BY <1>2, <1>3, <1>4, <1>5, <1>6
  DEF ReadInv, WholeOrNothing, OnlyFailureLeavesPages, Unfinished, Broken, Settled

(* The tasks of a document that is gathered. *)
LEMMA GatherType ==
    ASSUME Typed, NEW d \in Documents, NEW count \in Nat, Gather(d, count)
    PROVE  /\ read' = [read EXCEPT ![d] = "reading"]
           /\ page' \in [Documents -> Seq(PageStates)]
           /\ Len(page'[d]) = count
           /\ \A e \in Documents : e # d => page'[e] = page[e]
<1>1. [i \in 1..count |-> "waiting"] \in Seq(PageStates)
      /\ Len([i \in 1..count |-> "waiting"]) = count
  BY DEF PageStates
<1> QED
  BY <1>1 DEF Typed, Gather

(* What is to be shown of a step that moves the read of one document and leaves
   the pages of the others alone. *)
LEMMA OneReadMoves ==
    ASSUME ReadInv, NEW d \in Documents, NEW r \in ReadStates,
           read' = [read EXCEPT ![d] = r],
           page' \in [Documents -> Seq(PageStates)],
           \A e \in Documents : e # d => page'[e] = page[e],
           UNCHANGED <<places, uploadVars, serviceVars>>,
           r \in {"none", "splitting", "unsupported"} => Len(page'[d]) = 0,
           r = "reading" => Len(page'[d]) >= 1, Len(page'[d]) <= MaxPages,
           r \in Going => task = "running" /\ OcrAvailable,
           r = "returned" => /\ Len(page'[d]) >= 1
                             /\ \A i \in DOMAIN page'[d] : page'[d][i] \in {"text", "blank"},
           \/ r = "reading"
           \/ \E i \in DOMAIN page'[d] : page'[d][i] = "failed"
           \/ \A i \in DOMAIN page'[d] : page'[d][i] \notin {"waiting", "calling"}
    PROVE  ReadInv'
<1>1. read'[d] = r /\ \A e \in Documents : e # d => read'[e] = read[e]
  BY DEF ReadInv, Typed
<1>2. Typed'
  BY DEF ReadInv, Typed
<1>3. PagesFollow'
  BY <1>1 DEF ReadInv, PagesFollow
<1>4. RunHasClient'
  BY <1>1 DEF ReadInv, RunHasClient, OcrAvailable, uploadVars, serviceVars
<1>5. WholeOrNothing'
  BY <1>1 DEF ReadInv, WholeOrNothing, Settled
<1>6. OnlyFailureLeavesPages'
  BY <1>1 DEF ReadInv, OnlyFailureLeavesPages, Unfinished, Broken
<1> QED
  BY <1>2, <1>3, <1>4, <1>5, <1>6 DEF ReadInv

(* ------------------------------ the invariant ----------------------------- *)

(* A step outside the reader: what is to be shown is that reads keep their run
   and their client. *)
LEMMA QuietKeeps ==
    ASSUME ReadInv, UNCHANGED <<read, page, places>>, RunHasClient'
    PROVE  ReadInv'
  BY DEF ReadInv, Typed, PagesFollow, WholeOrNothing, OnlyFailureLeavesPages,
         Settled, Unfinished, Broken

\* No read has begun, and there is neither run nor client.
LEMMA InitHolds ==
    ASSUME ServiceInit PROVE ReadInv
<1>1. /\ read = [d \in Documents |-> "none"]
      /\ page = [d \in Documents |-> <<>>]
      /\ places = MaxParallelReads
      /\ stage = "starting" /\ client = "none" /\ task = "none"
  BY DEF ServiceInit, Init
<1>2. Typed
  BY <1>1, ReaderAssumption DEF Typed, ReadStates
<1>3. PagesFollow
  BY <1>1, ReaderAssumption DEF PagesFollow
<1>4. RunHasClient
  BY <1>1 DEF RunHasClient, Going
<1>5. WholeOrNothing /\ OnlyFailureLeavesPages
  BY <1>1 DEF WholeOrNothing, OnlyFailureLeavesPages, Unfinished
<1> QED
  BY <1>2, <1>3, <1>4, <1>5 DEF ReadInv

(* A new read belongs to a run that has a client. *)
LEMMA BeginKeeps ==
    ASSUME ReadInv, NEW d \in Documents, BeginRead(d), UNCHANGED <<uploadVars, serviceVars>>
    PROVE  ReadInv'
<1>1. task = "running" /\ OcrAvailable /\ read[d] = "none" /\ UNCHANGED places
  BY DEF BeginRead, Begin
<1>2. Typed /\ Len(page[d]) = 0 /\ Len(page[d]) <= MaxPages
  BY <1>1 DEF ReadInv, PagesFollow
<1>3. DOMAIN page[d] = {}
  BY <1>2, PageIsFunction
<1>4. ASSUME NEW count \in Nat, count = 1, Gather(d, count)
      PROVE  ReadInv'
  <2>1. /\ read' = [read EXCEPT ![d] = "reading"]
        /\ page' \in [Documents -> Seq(PageStates)]
        /\ Len(page'[d]) = 1
        /\ \A e \in Documents : e # d => page'[e] = page[e]
    BY <1>2, <1>4, GatherType
  <2>2. Len(page'[d]) >= 1 /\ Len(page'[d]) <= MaxPages
    BY <1>4, <2>1, ReaderAssumption
  <2> QED
    BY <1>1, <1>2, <2>1, <2>2, OneReadMoves DEF ReadStates, Going
<1>5. ASSUME NEW r \in {"splitting", "unsupported"},
             read' = [read EXCEPT ![d] = r], UNCHANGED page
      PROVE  ReadInv'
  BY <1>1, <1>2, <1>5, <1>3, OneReadMoves DEF ReadStates, Going, Over, Typed
<1> QED
  BY <1>4, <1>5 DEF BeginRead, Begin

\* A document is split into at least one page, and no more than are allowed.
LEMMA SplitKeeps ==
    ASSUME ReadInv, NEW d \in Documents, Split(d), UNCHANGED <<uploadVars, serviceVars>>
    PROVE  ReadInv'
<1>1. read[d] = "splitting" /\ UNCHANGED places
  BY DEF Split
<1>2. Typed /\ task = "running" /\ OcrAvailable /\ Len(page[d]) <= MaxPages
          /\ Len(page[d]) = 0
  BY <1>1 DEF ReadInv, RunHasClient, PagesFollow, Going
<1>3. DOMAIN page[d] = {}
  BY <1>2, PageIsFunction
<1>4. ASSUME NEW count \in 1..MaxPages, Gather(d, count)
      PROVE  ReadInv'
  <2>1. count \in Nat /\ count >= 1 /\ count <= MaxPages
    BY ReaderAssumption
  <2>2. /\ read' = [read EXCEPT ![d] = "reading"]
        /\ page' \in [Documents -> Seq(PageStates)]
        /\ Len(page'[d]) = count
        /\ \A e \in Documents : e # d => page'[e] = page[e]
    BY <1>2, <1>4, <2>1, GatherType
  <2> QED
    BY <1>1, <1>2, <2>1, <2>2, OneReadMoves DEF ReadStates, Going
<1>5. ASSUME read' = [read EXCEPT ![d] = "raised"], UNCHANGED page
      PROVE  ReadInv'
  BY <1>1, <1>2, <1>5, <1>3, OneReadMoves DEF ReadStates, Going, Over, Typed
<1> QED
  BY <1>4, <1>5 DEF Split

(* A read that returns has all its pages, and they were read. *)
LEMMA ReturnKeeps ==
    ASSUME ReadInv, NEW d \in Documents, Return(d) \/ Raise(d),
           UNCHANGED <<uploadVars, serviceVars>>
    PROVE  ReadInv'
<1>1. read[d] = "reading" /\ UNCHANGED <<page, places>>
  BY DEF Return, Raise
<1>2. Typed /\ Len(page[d]) >= 1 /\ Len(page[d]) <= MaxPages
  BY <1>1 DEF ReadInv, PagesFollow
<1>3. CASE Return(d)
  <2>1. /\ read' = [read EXCEPT ![d] = "returned"]
        /\ \A i \in DOMAIN page[d] : page[d][i] \in {"text", "blank"}
    BY <1>3 DEF Return, Settled
  <2> QED
    BY <1>1, <1>2, <2>1, OneReadMoves DEF ReadStates, Going, Over, Typed
<1>4. CASE Raise(d)
  <2>1. PICK r \in {"raised", "cancelled"} : read' = [read EXCEPT ![d] = r]
    BY <1>4 DEF Raise
  <2>2. \E i \in DOMAIN page[d] : page[d][i] = "failed"
    BY <1>4 DEF Raise, Broken
  <2> QED
    BY <1>1, <1>2, <2>1, <2>2, OneReadMoves DEF ReadStates, Going, Over, Typed
<1> QED
  BY <1>3, <1>4

(* Every page of a read that is abandoned leaves its states before the call. *)
LEMMA AbandonKeeps ==
    ASSUME ReadInv, NEW d \in Documents, Abandon(d), UNCHANGED <<uploadVars, serviceVars>>
    PROVE  ReadInv'
<1> DEFINE left == [i \in DOMAIN page[d] |->
                      CASE page[d][i] = "waiting" -> "cancelled"
                        [] page[d][i] = "calling" -> "hanging up"
                        [] OTHER -> page[d][i]]
<1>1. Typed
  BY DEF ReadInv
<1>2. page' = [page EXCEPT ![d] = left] /\ UNCHANGED places
  BY DEF Abandon
<1>3. page[d] \in [1..Len(page[d]) -> PageStates] /\ Len(page[d]) \in Nat
      /\ DOMAIN page[d] = 1..Len(page[d])
  BY <1>1 DEF Typed
<1>4. left \in [1..Len(page[d]) -> PageStates]
  BY <1>3 DEF PageStates, Ended
<1>5. \A i \in DOMAIN left : left[i] \notin {"waiting", "calling"}
  OBVIOUS
<1> HIDE DEF left
<1>6. left \in Seq(PageStates) /\ Len(left) <= MaxPages
  BY <1>3, <1>4 DEF ReadInv, PagesFollow
<1>7. /\ page' \in [Documents -> Seq(PageStates)] /\ page'[d] = left
      /\ \A e \in Documents : e # d => page'[e] = page[e]
  BY <1>1, <1>2, <1>6 DEF Typed
<1>8. PICK r \in {"raised", "cancelled"} : read' = [read EXCEPT ![d] = r]
  BY DEF Abandon
<1> QED
  BY <1>2, <1>5, <1>6, <1>7, <1>8, OneReadMoves DEF ReadStates, Going, Over

\* A place is taken by a page that waits, and returned by one that calls.
LEMMA PageKeeps ==
    ASSUME ReadInv, PageStep, UNCHANGED <<uploadVars, serviceVars>>
    PROVE  ReadInv'
<1>1. Typed /\ read' = read /\ places' \in Nat
  <2>1. Typed /\ places \in Nat
    BY DEF ReadInv, Typed
  <2>2. /\ read' = read
        /\ \/ places > 0 /\ places' = places - 1
           \/ places' = places + 1
    BY DEF PageStep, Call, Answer, HangUp
  <2> QED
    BY <2>1, <2>2
<1>2. \A states : \A p \in PagesIn(states) :
         \E e \in Documents, j \in 1..MaxPages :
            p = <<e, j>> /\ j \in DOMAIN page[e] /\ page[e][j] \in states
  BY DEF PagesIn, Pages
<1>3. CASE Call
  <2>1. PICK e \in Documents, j \in 1..MaxPages :
           Head(line) = <<e, j>> /\ j \in DOMAIN page[e] /\ page[e][j] = "waiting"
    BY <1>2, <1>3 DEF Call
  <2>2. Turn(<<e, j>>, "calling")
    BY <1>3, <2>1 DEF Call
  <2> QED
    BY <1>1, <2>1, <2>2, TurnKeeps DEF PageStates
<1>4. ASSUME NEW p \in Pages, Answer(p) PROVE ReadInv'
  <2>1. PICK e \in Documents, j \in 1..MaxPages :
           p = <<e, j>> /\ j \in DOMAIN page[e] /\ page[e][j] = "calling"
    BY <1>2, <1>4 DEF Answer
  <2>2. PICK s \in {"text", "blank", "failed"} : Turn(<<e, j>>, s)
    BY <1>4, <2>1 DEF Answer
  <2> QED
    BY <1>1, <2>1, <2>2, TurnKeeps DEF PageStates, Ended
<1>5. ASSUME NEW p \in Pages, HangUp(p) PROVE ReadInv'
  <2> p \in PagesIn({"hanging up"})
    BY <1>5 DEF HangUp
  <2>1. PICK e \in Documents, j \in 1..MaxPages :
           p = <<e, j>> /\ j \in DOMAIN page[e] /\ page[e][j] \in {"hanging up"}
    BY <1>2
  <2>2. Turn(<<e, j>>, "cancelled")
    BY <1>5, <2>1 DEF HangUp
  <2> QED
    BY <1>1, <2>1, <2>2, TurnKeeps DEF PageStates, Ended
<1> QED
  BY <1>3, <1>4, <1>5 DEF PageStep

(* The loop ends: no read is going on by then, and a page that was read stays
   read. *)
LEMMA ExitKeeps ==
    ASSUME ReadInv, Exit
    PROVE  ReadInv'
<1> DEFINE cut(d) == [i \in DOMAIN page[d] |->
                        IF page[d][i] \in Ended THEN page[d][i] ELSE "cancelled"]
<1>1. /\ page' = [d \in Documents |-> cut(d)]
      /\ read' = read /\ places' = MaxParallelReads
  BY DEF Exit
<1>2. ASSUME NEW d \in Documents
      PROVE  /\ cut(d) \in [1..Len(page[d]) -> PageStates]
             /\ Len(page[d]) \in Nat /\ DOMAIN page[d] = 1..Len(page[d])
             /\ \A i \in DOMAIN page[d] : cut(d)[i] \notin {"waiting", "calling"}
             /\ Settled(d) => \A i \in DOMAIN page[d] : cut(d)[i] \in {"text", "blank"}
  <2>1. page[d] \in [1..Len(page[d]) -> PageStates] /\ Len(page[d]) \in Nat
        /\ DOMAIN page[d] = 1..Len(page[d])
    BY DEF ReadInv, Typed
  <2> QED
    BY <2>1 DEF PageStates, Ended, Settled
<1>3. \A d \in Documents : page'[d] = cut(d)
  BY <1>1
<1> HIDE DEF cut
<1>4. \A d \in Documents : cut(d) \in Seq(PageStates) /\ Len(cut(d)) = Len(page[d])
                           /\ DOMAIN cut(d) = DOMAIN page[d]
  BY <1>2
<1>5. Typed'
  BY <1>1, <1>4, ReaderAssumption DEF ReadInv, Typed
<1>6. PagesFollow'
  BY <1>1, <1>3, <1>4 DEF ReadInv, PagesFollow
<1>7. RunHasClient'
  BY DEF Exit, ReadInv, RunHasClient, OcrAvailable, uploadVars, Going
<1>8. WholeOrNothing'
  BY <1>1, <1>2, <1>3, <1>4 DEF ReadInv, WholeOrNothing, Settled
<1>9. OnlyFailureLeavesPages'
  BY <1>2, <1>3, <1>4 DEF OnlyFailureLeavesPages, Unfinished
<1> QED
  BY <1>5, <1>6, <1>7, <1>8, <1>9 DEF ReadInv

\* The steps of the reader together.
LEMMA ReadKeeps ==
    ASSUME ReadInv, Read PROVE ReadInv'
<1>1. UNCHANGED <<uploadVars, serviceVars>>
  BY DEF Read
<1>2. CASE PageStep
  BY <1>1, <1>2, PageKeeps
<1>3. ASSUME NEW d \in Documents, BeginRead(d) \/ ReadStep(d) PROVE ReadInv'
  BY <1>1, <1>3, BeginKeeps, SplitKeeps, ReturnKeeps, AbandonKeeps DEF ReadStep
<1> QED
  BY <1>2, <1>3 DEF Read

\* The requests, the end of the run, and the steps of the lifespan but the last.
LEMMA QuietSteps ==
    ASSUME ReadInv,
           LoadPrompts \/ Start \/ StartFails \/ Upload \/ Delete \/ EndRun \/ CloseBegins
              \/ GraceEnds \/ RunnerClosed \/ CloseClient
    PROVE  ReadInv'
<1>1. UNCHANGED <<read, page, places>>
  BY DEF LoadPrompts, Start, StartFails, Upload, Delete, GiveUp, EndRun, CloseBegins,
         GraceEnds, RunnerClosed, CloseClient, vars, readVars
<1>2. RunHasClient
  BY DEF ReadInv
<1>3. CASE Start
  BY <1>1, <1>2, <1>3, QuietKeeps
  DEF RunHasClient, OcrAvailable, Going, Start, OpenPipeline, WithOcr, WithoutOcr, HandedToRuns,
      vars, readVars, uploadVars
<1>4. CASE Upload
  <2>1. answer = "none"
    BY <1>4 DEF Upload, UploadStep, RefuseCount, ReadChunk, EndOfFile, Reading
  <2>2. /\ UNCHANGED <<read, stage, client>> /\ HasRunner
        /\ task' = IF answer' # "accepted" THEN task
                   ELSE IF stage = "serving" THEN "running" ELSE "refused"
    BY <1>4 DEF Upload, readVars
  <2> QED
    BY <1>2, <2>1, <2>2, QuietKeeps, <1>1 DEF RunHasClient, OcrAvailable, HasRunner
<1>5. CASE EndRun
  BY <1>1, <1>2, <1>5, QuietKeeps
  DEF RunHasClient, OcrAvailable, EndRun, Going, vars, uploadVars
<1>6. CASE LoadPrompts \/ StartFails \/ Delete \/ CloseBegins \/ GraceEnds \/ RunnerClosed \/ CloseClient
  <2>1. RunHasClient'
    BY <1>2, <1>6 DEF RunHasClient, OcrAvailable, LoadPrompts, StartFails, Delete, GiveUp,
       CloseBegins, GraceEnds, RunnerClosed, CloseClient, vars, readVars, uploadVars,
       serviceVars, Going
  <2> QED
    BY <1>1, <2>1, QuietKeeps
<1> QED
  BY <1>1, <1>3, <1>4, <1>5, <1>6, QuietKeeps

\* ReadInv is inductive.
LEMMA Inductive ==
    ASSUME ReadInv, [ServiceNext]_allVars PROVE ReadInv'
<1>1. CASE UNCHANGED allVars
  <2>1. UNCHANGED <<read, page, places>> /\ RunHasClient'
    BY <1>1 DEF ReadInv, RunHasClient, OcrAvailable, allVars, vars, readVars,
       uploadVars, serviceVars
  <2> QED
    BY <2>1, QuietKeeps
<1> QED
  BY <1>1, QuietSteps, ReadKeeps, ExitKeeps DEF ServiceNext, Unwind

(* A read tells of its pages, and the stage of the run and the client, in every
   state of the service (ocr.py, app.py). *)
THEOREM ReadIsInvariant == ServiceSpec => []ReadInv
<1>1. ServiceInit => ReadInv
  BY InitHolds
<1>2. ReadInv /\ [ServiceNext]_allVars => ReadInv'
  BY Inductive
<1> QED
  BY <1>1, <1>2, PTL DEF ServiceSpec

(* -------------------------------- the places ------------------------------ *)

Busy == PagesIn({"calling", "hanging up"})

\* There are as many pages as documents and pages may be.
LEMMA BusyFinite == IsFiniteSet(Busy)
<1>1. IsFiniteSet(1..MaxDocuments) /\ IsFiniteSet(1..MaxPages)
  BY FS_Interval, UploadAssumption, ReaderAssumption
<1>2. IsFiniteSet((1..MaxDocuments) \X (1..MaxPages))
  BY <1>1, FS_Product
<1>3. Pages \subseteq (1..MaxDocuments) \X (1..MaxPages)
  BY DEF Pages, Documents
<1>4. Busy \subseteq Pages
  BY DEF Busy, PagesIn
<1> QED
  BY <1>2, <1>3, <1>4, FS_Subset

\* What it takes for a page to be busy, now and after a step.
LEMMA BusyMember ==
    /\ Busy \subseteq Pages /\ Busy' \subseteq Pages
    /\ \A p \in Pages : \E e \in Documents, j \in 1..MaxPages : p = <<e, j>>
    /\ \A e \in Documents, j \in 1..MaxPages :
          /\ <<e, j>> \in Busy <=>
                j \in DOMAIN page[e] /\ page[e][j] \in {"calling", "hanging up"}
          /\ <<e, j>> \in Busy' <=>
                j \in DOMAIN page'[e] /\ page'[e][j] \in {"calling", "hanging up"}
<1>1. Busy \subseteq Pages /\ Busy' \subseteq Pages
  BY DEF Busy, PagesIn
<1>2. \A p \in Pages : \E e \in Documents, j \in 1..MaxPages : p = <<e, j>>
  BY DEF Pages
<1>3. ASSUME NEW e \in Documents, NEW j \in 1..MaxPages
      PROVE  /\ <<e, j>> \in Busy <=>
                   j \in DOMAIN page[e] /\ page[e][j] \in {"calling", "hanging up"}
             /\ <<e, j>> \in Busy' <=>
                   j \in DOMAIN page'[e] /\ page'[e][j] \in {"calling", "hanging up"}
  <2>1. <<e, j>> \in Pages /\ <<e, j>>[1] = e /\ <<e, j>>[2] = j
    BY DEF Pages
  <2>2. ASSUME NEW p \in Pages, p[1] = e, p[2] = j
        PROVE  /\ p \in Busy <=>
                     j \in DOMAIN page[e] /\ page[e][j] \in {"calling", "hanging up"}
               /\ p \in Busy' <=>
                     j \in DOMAIN page'[e] /\ page'[e][j] \in {"calling", "hanging up"}
    BY <2>2 DEF Busy, PagesIn
  <2> QED
    BY <2>1, <2>2
<1> QED
  BY <1>1, <1>2, <1>3

(* A page that turns enters the busy ones, or leaves them. *)
LEMMA BusyTurns ==
    ASSUME Typed, NEW e \in Documents, NEW j \in 1..MaxPages, j \in DOMAIN page[e],
           NEW s \in PageStates, Turn(<<e, j>>, s)
    PROVE  Busy' = IF s \in {"calling", "hanging up"}
                   THEN Busy \cup {<<e, j>>} ELSE Busy \ {<<e, j>>}
<1>1. \A d \in Documents :
         /\ DOMAIN page'[d] = DOMAIN page[d]
         /\ \A i \in DOMAIN page[d] :
               page'[d][i] = IF d = e /\ i = j THEN s ELSE page[d][i]
  BY PageTurns DEF Turn
<1>2. ASSUME NEW d \in Documents, NEW i \in 1..MaxPages
      PROVE  <<d, i>> \in Busy' <=>
                IF d = e /\ i = j THEN s \in {"calling", "hanging up"}
                                 ELSE <<d, i>> \in Busy
  BY <1>1, BusyMember
<1>3. ASSUME NEW p \in Pages
      PROVE  p \in Busy' <=> IF p = <<e, j>> THEN s \in {"calling", "hanging up"}
                                             ELSE p \in Busy
  <2>1. PICK d \in Documents, i \in 1..MaxPages : p = <<d, i>>
    BY BusyMember
  <2>2. p = <<e, j>> <=> d = e /\ i = j
    BY <2>1
  <2> QED
    BY <1>2, <2>1, <2>2
<1>4. Busy \subseteq Pages /\ Busy' \subseteq Pages
  BY BusyMember
<1>5. <<e, j>> \in Pages
  BY DEF Pages
<1> QED
  BY <1>3, <1>4, <1>5

(* A read moves without a page of its document becoming busy, or free. *)
LEMMA BusyStays ==
    ASSUME \A d \in Documents, i \in 1..MaxPages :
              (i \in DOMAIN page'[d] /\ page'[d][i] \in {"calling", "hanging up"})
              <=> (i \in DOMAIN page[d] /\ page[d][i] \in {"calling", "hanging up"})
    PROVE  Busy' = Busy
<1>1. ASSUME NEW p \in Pages PROVE p \in Busy' <=> p \in Busy
  <2>1. PICK d \in Documents, i \in 1..MaxPages : p = <<d, i>>
    BY BusyMember
  <2> QED
    BY <2>1, BusyMember
<1>2. Busy \subseteq Pages /\ Busy' \subseteq Pages
  BY BusyMember
<1> QED
  BY <1>1, <1>2

\* A call takes one place and its end returns one.
LEMMA PageStepConserves ==
    ASSUME ReadInv, PlacesConserved, PageStep
    PROVE  PlacesConserved'
<1>1. Typed /\ places \in Int /\ IsFiniteSet(Busy)
  BY BusyFinite DEF ReadInv, Typed
<1>2. places + Cardinality(Busy) = MaxParallelReads
  BY DEF PlacesConserved, Busy
<1>3. SUFFICES places' + Cardinality(Busy') = MaxParallelReads
  BY DEF PlacesConserved, Busy
<1>4. \A states : \A p \in PagesIn(states) :
         \E e \in Documents, j \in 1..MaxPages :
            p = <<e, j>> /\ j \in DOMAIN page[e] /\ page[e][j] \in states
  BY DEF PagesIn, Pages
<1>5. Cardinality(Busy) \in Nat
  BY <1>1, FS_CardinalityType
<1>6. CASE Call
  <2>1. PICK e \in Documents, j \in 1..MaxPages :
           Head(line) = <<e, j>> /\ j \in DOMAIN page[e] /\ page[e][j] = "waiting"
    BY <1>4, <1>6 DEF Call
  <2>2. Turn(<<e, j>>, "calling") /\ places' = places - 1
    BY <1>6, <2>1 DEF Call
  <2>3. Busy' = Busy \cup {<<e, j>>}
    BY <1>1, <2>1, <2>2, BusyTurns DEF PageStates
  <2>4. <<e, j>> \notin Busy
    BY <2>1, BusyMember
  <2>5. Cardinality(Busy') = Cardinality(Busy) + 1
    BY <1>1, <2>3, <2>4, FS_AddElement
  <2> QED
    BY <1>1, <1>2, <1>5, <2>2, <2>5
<1>7. ASSUME NEW p \in Pages, Answer(p) \/ HangUp(p)
      PROVE  places' + Cardinality(Busy') = MaxParallelReads
  <2> p \in Busy
    BY <1>7 DEF Answer, HangUp, Busy, PagesIn
  <2>1. PICK e \in Documents, j \in 1..MaxPages :
           p = <<e, j>> /\ j \in DOMAIN page[e] /\ page[e][j] \in {"calling", "hanging up"}
    BY <1>4 DEF Busy
  <2>2. PICK s \in {"text", "blank", "failed", "cancelled"} : Turn(<<e, j>>, s)
    BY <1>7, <2>1 DEF Answer, HangUp
  <2>3. Busy' = Busy \ {<<e, j>>}
    BY <1>1, <2>1, <2>2, BusyTurns DEF PageStates, Ended
  <2>4. <<e, j>> \in Busy
    BY <2>1, BusyMember
  <2>5. places' = places + 1
    BY <1>7 DEF Answer, HangUp
  <2>6. Cardinality(Busy') = Cardinality(Busy) - 1
    BY <1>1, <2>3, <2>4, FS_RemoveElement
  <2> QED
    BY <1>1, <1>2, <1>5, <2>5, <2>6
<1> QED
  BY <1>6, <1>7 DEF PageStep

\* The pages of a document that is gathered wait.
LEMMA GatherConserves ==
    ASSUME Typed, NEW d \in Documents, NEW count \in Nat, Gather(d, count),
           Len(page[d]) = 0
    PROVE  Busy' = Busy
<1>1. /\ \A i \in DOMAIN page'[d] : page'[d][i] = "waiting"
      /\ \A e \in Documents : e # d => page'[e] = page[e]
  BY DEF Typed, Gather
<1>2. DOMAIN page[d] = {}
  BY DEF Typed
<1>3. ASSUME NEW e \in Documents, NEW i \in 1..MaxPages
      PROVE  (i \in DOMAIN page'[e] /\ page'[e][i] \in {"calling", "hanging up"})
             <=> (i \in DOMAIN page[e] /\ page[e][i] \in {"calling", "hanging up"})
  BY <1>1, <1>2
<1> QED
  BY <1>3, BusyStays

\* No step of a read takes or returns a place.
LEMMA ReadStepConserves ==
    ASSUME ReadInv, NEW d \in Documents, BeginRead(d) \/ ReadStep(d)
    PROVE  Busy' = Busy /\ UNCHANGED places
<1>1. UNCHANGED places
  BY DEF BeginRead, Begin, ReadStep, Split, Return, Raise, Abandon
<1>2. Typed
  BY DEF ReadInv
<1>3. CASE UNCHANGED page
  BY <1>1, <1>3, BusyStays
<1>4. ASSUME NEW count \in Nat, Gather(d, count), read[d] \in {"none", "splitting"}
      PROVE  Busy' = Busy
  <2>1. Len(page[d]) = 0
    BY <1>4 DEF ReadInv, PagesFollow
  <2> QED
    BY <1>2, <1>4, <2>1, GatherConserves
<1>5. CASE Abandon(d)
  <2>1. \A e \in Documents : e # d => page'[e] = page[e]
    BY <1>2, <1>5 DEF Abandon, Typed
  <2>2. /\ DOMAIN page'[d] = DOMAIN page[d]
        /\ \A i \in DOMAIN page[d] :
              page'[d][i] = CASE page[d][i] = "waiting" -> "cancelled"
                              [] page[d][i] = "calling" -> "hanging up"
                              [] OTHER -> page[d][i]
    BY <1>2, <1>5 DEF Abandon, Typed
  <2> QED
    <3>1. ASSUME NEW e \in Documents, NEW i \in 1..MaxPages
          PROVE  (i \in DOMAIN page'[e] /\ page'[e][i] \in {"calling", "hanging up"})
                 <=> (i \in DOMAIN page[e] /\ page[e][i] \in {"calling", "hanging up"})
      BY <2>1, <2>2
    <3> QED
      BY <1>1, <3>1, BusyStays
<1>6. CASE BeginRead(d)
  <2>1. read[d] = "none" /\ (Gather(d, 1) \/ UNCHANGED page)
    BY <1>6 DEF BeginRead, Begin
  <2>2. ASSUME NEW count \in Nat, count = 1, Gather(d, count) PROVE Busy' = Busy
    BY <1>4, <2>1, <2>2
  <2> QED
    BY <1>1, <1>3, <2>1, <2>2
<1>7. CASE Split(d)
  <2>1. read[d] = "splitting"
    BY <1>7 DEF Split
  <2>2. UNCHANGED page \/ \E count \in 1..MaxPages : Gather(d, count)
    BY <1>7 DEF Split
  <2> QED
    BY <1>1, <1>3, <1>4, <2>1, <2>2, ReaderAssumption
<1> QED
  BY <1>1, <1>3, <1>5, <1>6, <1>7 DEF ReadStep, Return, Raise

\* PlacesConserved is inductive beside ReadInv.
LEMMA StepConserves ==
    ASSUME ReadInv, PlacesConserved, [ServiceNext]_allVars
    PROVE  PlacesConserved'
<1>1. CASE UNCHANGED <<page, places>>
  BY <1>1 DEF PlacesConserved, PagesIn
<1>2. CASE PageStep
  BY <1>2, PageStepConserves
<1>3. ASSUME NEW d \in Documents, BeginRead(d) \/ ReadStep(d) PROVE PlacesConserved'
  BY <1>3, ReadStepConserves DEF PlacesConserved, Busy
<1>4. CASE Exit
  <2>1. \A d \in Documents : \A i \in DOMAIN page'[d] :
           page'[d][i] \notin {"calling", "hanging up"}
    BY <1>4 DEF Exit, Ended
  <2>2. ASSUME NEW p \in Busy' PROVE FALSE
    <3>1. PICK d \in Documents, i \in 1..MaxPages : p = <<d, i>>
      BY BusyMember
    <3> QED
      BY <2>1, <3>1, BusyMember
  <2>3. Busy' = {}
    BY <2>2
  <2>4. PagesIn({"calling", "hanging up"})' = {}
    BY <2>3 DEF Busy
  <2>5. Cardinality({}) = 0
    BY FS_EmptySet
  <2>6. places' + 0 = MaxParallelReads
    BY <1>4, ReaderAssumption DEF Exit
  <2> QED
    BY <2>4, <2>5, <2>6 DEF PlacesConserved
<1>5. CASE \/ LoadPrompts \/ Start \/ StartFails \/ Upload \/ Delete \/ EndRun \/ CloseBegins
           \/ GraceEnds \/ RunnerClosed \/ CloseClient \/ UNCHANGED allVars
  <2>1. UNCHANGED <<page, places>>
    BY <1>5 DEF LoadPrompts, Start, StartFails, Upload, Delete, GiveUp, EndRun, CloseBegins,
       GraceEnds, RunnerClosed, CloseClient, allVars, vars, readVars
  <2> QED
    BY <1>1, <2>1
<1> QED
  BY <1>2, <1>3, <1>4, <1>5 DEF ServiceNext, Unwind, Read

(* -------------------------------- the upload ------------------------------ *)

\* What is read of the files stays within what is left of the case's budget.
UploadInv ==
    /\ files \in Seq(FileKinds)
    /\ kept \in Seq(FileKinds)
    /\ size \in Nat /\ remaining \in 0..MaxCaseBytes
    /\ current \in Nat \ {0}
    /\ answer \in {"none", "accepted"} \cup Refusals
    /\ answer = "none" => size <= remaining /\ (files # <<>> => current <= Len(files))

\* The smaller of two.
LEMMA MinOfTwo ==
    ASSUME NEW a \in Int, NEW b \in Int
    PROVE  Min({a, b}) = IF a <= b THEN a ELSE b
  BY DEF Min

\* Nothing is read yet.
LEMMA UploadStarts ==
    ASSUME UploadInit PROVE UploadInv
<1>1. PICK n \in Nat : files \in [1..n -> FileKinds]
  BY UploadAssumption DEF UploadInit
<1>2. files \in Seq(FileKinds) /\ (files # <<>> => 1 <= Len(files))
  BY <1>1
<1> QED
  BY <1>2, UploadAssumption DEF UploadInit, UploadInv

\* A chunk that leaves the file within its limit leaves it within the budget.
LEMMA UploadKeeps ==
    ASSUME UploadInv, UploadStep PROVE UploadInv'
<1>1. CASE RefuseCount
  BY <1>1 DEF UploadInv, RefuseCount, Reject, Refusals
<1>2. ASSUME Reading
      PROVE  current \in DOMAIN files /\ files[current] \in FileKinds
             /\ files[current].size \in Nat /\ Len(files) \in Nat /\ answer = "none"
  <2>1. Len(files) \in Nat /\ answer = "none" /\ current \in DOMAIN files
    BY <1>2 DEF Reading, UploadInv
  <2>2. files[current] \in FileKinds
    BY <2>1 DEF UploadInv
  <2> QED
    BY <2>1, <2>2, UploadAssumption
<1>3. CASE ReadChunk
  <2>1. size' \in Nat
    <3>1. files[current].size - size \in Nat /\ ChunkBytes \in Nat
      BY <1>2, <1>3, UploadAssumption DEF ReadChunk, UploadInv
    <3>2. Chunk \in Nat
      BY <3>1, MinOfTwo DEF Chunk
    <3> QED
      BY <1>3, <3>2 DEF ReadChunk, UploadInv
  <2>2. MaxDocumentBytes \in Int /\ remaining \in Int
    BY UploadAssumption DEF UploadInv
  <2>3. Limit \in Int /\ Limit <= remaining
    BY <2>2, MinOfTwo DEF Limit
  <2>4. answer' = "none" => size' <= Limit
    BY <1>3, <2>1, <2>3 DEF ReadChunk
  <2> QED
    BY <1>2, <1>3, <2>1, <2>2, <2>3, <2>4 DEF ReadChunk, UploadInv, Refusals
<1>4. CASE EndOfFile
  <2>1. Reading /\ size <= remaining
    BY <1>4 DEF EndOfFile, Reading, UploadInv
  <2>2. CASE /\ Useless /\ answer' \in Refusals
             /\ UNCHANGED <<current, size, remaining, kept, files>>
    BY <2>2 DEF UploadInv, Refusals
  <2>3. CASE /\ kept' = Append(kept, files[current])
             /\ remaining' = remaining - size
             /\ current' = current + 1
             /\ size' = 0
             /\ answer' = IF current = Len(files) THEN "accepted" ELSE "none"
             /\ UNCHANGED files
    <3>1. kept' \in Seq(FileKinds)
      BY <1>2, <2>1, <2>3 DEF UploadInv
    <3>2. remaining' \in 0..MaxCaseBytes
      BY <2>1, <2>3, UploadAssumption DEF UploadInv
    <3>3. answer' = "none" => current' <= Len(files')
      BY <1>2, <2>1, <2>3 DEF UploadInv
    <3> QED
      BY <2>3, <3>1, <3>2, <3>3 DEF UploadInv
  <2> QED
    BY <1>4, <2>2, <2>3 DEF EndOfFile, Reject
<1> QED
  BY <1>1, <1>3, <1>4 DEF UploadStep

(* While a file is being read what is in memory of it fits what is left of the
   case's budget: submit_uploads refuses it at the first chunk that does not. *)
THEOREM UploadIsInvariant == ServiceSpec => []UploadInv
<1>1. ServiceInit => UploadInv
  BY UploadStarts DEF ServiceInit, Init
<1>2. UploadInv /\ [ServiceNext]_allVars => UploadInv'
  <2> SUFFICES ASSUME UploadInv, [ServiceNext]_allVars PROVE UploadInv'
    OBVIOUS
  <2>1. CASE UNCHANGED uploadVars
    BY <2>1 DEF uploadVars, UploadInv
  <2>2. CASE Upload
    BY <2>2, UploadKeeps DEF Upload
  <2>3. UNCHANGED uploadVars \/ Upload
    BY DEF ServiceNext, LoadPrompts, Start, StartFails, Delete, EndRun, CloseBegins, Unwind, Read,
       GraceEnds, RunnerClosed, CloseClient, Exit, allVars, vars
  <2> QED
    BY <2>1, <2>2, <2>3
<1> QED
  BY <1>1, <1>2, PTL DEF ServiceSpec

(* --------------------------- what is kept of it --------------------------- *)

\* Induction on the natural numbers, for a set of them.
LEMMA NatSetInduction ==
    ASSUME NEW W \in SUBSET Nat, 0 \in W, \A n \in W : n + 1 \in W
    PROVE  W = Nat
<1> SUFFICES ASSUME W # Nat PROVE FALSE
  OBVIOUS
<1> DEFINE T == Nat \ W
<1>1. T \subseteq Nat /\ T # {}
  OBVIOUS
<1>2. \E m \in T : \A y \in Nat : y < m => y \notin T
  <2>1. PICK m \in T : \A y \in T : <<y, m>> \notin OpToRel(<, Nat)
    <3> HIDE DEF T
    <3> QED BY <1>1, WFMin, NatLessThanWellFounded, Zenon
  <2> QED BY <2>1, Zenon DEF OpToRel
<1>3. PICK m \in T : \A y \in Nat : y < m => y \notin T
  BY <1>2
<1>4. m # 0 /\ m - 1 \in Nat /\ m - 1 < m /\ (m - 1) + 1 = m
  BY <1>3
<1>5. QED BY <1>3, <1>4

\* The sum BytesOf takes over the first files of q, as a function of which they are.
Totals(q, n) ==
    CHOOSE total : total = [s \in SUBSET (1..n) |->
        IF s = {} THEN 0 ELSE total[s \ {Max(s)}] + q[Max(s)].size]

LEMMA TotalsExist ==
    ASSUME NEW q, NEW n \in Nat
    PROVE  Totals(q, n) = [s \in SUBSET (1..n) |->
              IF s = {} THEN 0 ELSE Totals(q, n)[s \ {Max(s)}] + q[Max(s)].size]
<1> DEFINE Defines(k, total) ==
              total = [s \in SUBSET (1..k) |->
                         IF s = {} THEN 0 ELSE total[s \ {Max(s)}] + q[Max(s)].size]
           W == {k \in Nat : \E total : Defines(k, total)}
<1>1. 0 \in W
  <2> DEFINE zero == [s \in SUBSET (1..0) |-> 0]
  <2>1. 1..0 = {}
    OBVIOUS
  <2>2. Defines(0, zero)
    BY <2>1
  <2>3. QED BY <2>2
<1>2. ASSUME NEW k \in W PROVE k + 1 \in W
  <2>1. PICK total : Defines(k, total)
    OBVIOUS
  <2> DEFINE next == [s \in SUBSET (1..k + 1) |->
                        IF k + 1 \in s THEN total[s \ {k + 1}] + q[k + 1].size ELSE total[s]]
  <2>2. \A s \in SUBSET (1..k + 1) :
           /\ k + 1 \in s => Max(s) = k + 1 /\ s \ {k + 1} \in SUBSET (1..k)
                             /\ k + 1 \notin s \ {k + 1}
           /\ k + 1 \notin s => s \in SUBSET (1..k)
    <3>1. ASSUME NEW s \in SUBSET (1..k + 1), k + 1 \in s PROVE Max(s) = k + 1
      <4>1. \A y \in s : k + 1 >= y
        BY <3>1
      <4>2. \A x \in s : (\A y \in s : x >= y) => x = k + 1
        BY <3>1, <4>1
      <4>3. QED BY <3>1, <4>1, <4>2 DEF Max
    <3>2. \A s \in SUBSET (1..k + 1) : k + 1 \notin s => s \in SUBSET (1..k)
      OBVIOUS
    <3>3. \A s \in SUBSET (1..k + 1) : s \ {k + 1} \in SUBSET (1..k)
      OBVIOUS
    <3>4. QED BY <3>1, <3>2, <3>3
  <2>4. Defines(k + 1, next)
    BY <2>1, <2>2
  <2> HIDE DEF next, Defines
  <2>5. k + 1 \in Nat
    OBVIOUS
  <2>6. QED BY <2>4, <2>5
<1>3. W = Nat
  BY <1>1, <1>2, NatSetInduction
<1>4. QED BY <1>3 DEF Totals
\* The total of one more file.
LEMMA TotalsGrow ==
    ASSUME NEW q, NEW n \in Nat
    PROVE  /\ Totals(q, n)[1..0] = 0
           /\ \A k \in Nat : k + 1 <= n =>
                 Totals(q, n)[1..k + 1] = Totals(q, n)[1..k] + q[k + 1].size
<1> DEFINE total == Totals(q, n)
<1>1. total = [s \in SUBSET (1..n) |->
                 IF s = {} THEN 0 ELSE total[s \ {Max(s)}] + q[Max(s)].size]
  BY TotalsExist
<1> HIDE DEF total
<1>2. 1..0 = {} /\ {} \in SUBSET (1..n)
  OBVIOUS
<1>3. ASSUME NEW k \in Nat, k + 1 <= n
      PROVE  total[1..k + 1] = total[1..k] + q[k + 1].size
  <2>1. 1..k + 1 \in SUBSET (1..n) /\ 1..k + 1 # {} /\ (1..k + 1) \ {k + 1} = 1..k
    <3>1. k + 1 \in 1..k + 1 /\ \A i \in 1..k + 1 : i \in 1..n
      BY <1>3
    <3>2. (1..k + 1) \ {k + 1} = 1..k
      OBVIOUS
    <3>3. QED BY <3>1, <3>2
  <2>2. Max(1..k + 1) = k + 1
    <3>1. k + 1 \in 1..k + 1 /\ \A y \in 1..k + 1 : k + 1 >= y
      OBVIOUS
    <3>2. \A x \in 1..k + 1 : (\A y \in 1..k + 1 : x >= y) => x = k + 1
      BY <3>1
    <3>3. QED BY <3>1, <3>2 DEF Max
  <2>3. QED BY <1>1, <2>1, <2>2
<1>4. total[1..0] = 0
  BY <1>1, <1>2
<1>5. QED BY <1>3, <1>4 DEF total

\* It does not depend on what follows.
LEMMA TotalsAgree ==
    ASSUME NEW q, NEW r, NEW n \in Nat, NEW m \in Nat, n <= m,
           \A i \in 1..n : q[i] = r[i]
    PROVE  Totals(q, n)[1..n] = Totals(r, m)[1..n]
<1> DEFINE W == {k \in Nat : k <= n => Totals(q, n)[1..k] = Totals(r, m)[1..k]}
<1>1. 0 \in W
  BY TotalsGrow
<1>2. ASSUME NEW k \in W PROVE k + 1 \in W
  <2>1. CASE k + 1 <= n
    <3>1. k <= n /\ k + 1 <= m /\ q[k + 1] = r[k + 1]
      BY <2>1
    <3>2. QED BY <2>1, <3>1, TotalsGrow
  <2>2. CASE ~(k + 1 <= n)
    BY <2>2
  <2>3. QED BY <2>1, <2>2
<1>3. n \in W
  <2> HIDE DEF W
  <2>1. W \subseteq Nat
    BY DEF W
  <2>2. QED BY <1>1, <1>2, <2>1, NatSetInduction
<1>4. QED BY <1>3

LEMMA BytesAreTotals ==
    ASSUME NEW q \in Seq(FileKinds)
    PROVE  BytesOf(q) = Totals(q, Len(q))[1..Len(q)]
<1>1. DOMAIN q = 1..Len(q)
  OBVIOUS
<1>2. BytesOf(q) = (CHOOSE total : total = [s \in SUBSET DOMAIN q |->
          IF s = {} THEN 0 ELSE total[s \ {Max(s)}] + q[Max(s)].size])[DOMAIN q]
  BY DEF BytesOf, FoldLeft, MapThenFoldSet
<1>3. QED BY <1>1, <1>2 DEF Totals

\* What the files kept hold together, and that one more adds its own size.
LEMMA BytesOfNone == BytesOf(<<>>) = 0
<1>1. <<>> \in Seq(FileKinds) /\ Len(<<>>) = 0
  OBVIOUS
<1>2. QED BY <1>1, BytesAreTotals, TotalsGrow

LEMMA BytesOfOneMore ==
    ASSUME NEW q \in Seq(FileKinds), NEW file \in FileKinds
    PROVE  BytesOf(Append(q, file)) = BytesOf(q) + file.size
<1> DEFINE r == Append(q, file)
           n == Len(q)
<1>1. /\ r \in Seq(FileKinds) /\ Len(r) = n + 1 /\ n \in Nat /\ r[n + 1] = file
      /\ \A i \in 1..n : q[i] = r[i]
  OBVIOUS
<1> HIDE DEF r, n
<1>2. BytesOf(q) = Totals(q, n)[1..n] /\ BytesOf(r) = Totals(r, n + 1)[1..n + 1]
  BY <1>1, BytesAreTotals DEF n
<1>3. Totals(q, n)[1..n] = Totals(r, n + 1)[1..n]
  <2>1. PICK m \in Nat : m = n + 1 /\ n <= m
    BY <1>1
  <2>2. n \in Nat /\ \A i \in 1..n : q[i] = r[i]
    BY <1>1
  <2>3. Totals(q, n)[1..n] = Totals(r, m)[1..n]
    BY <2>1, <2>2, TotalsAgree
  <2>4. QED BY <2>1, <2>3
<1>4. Totals(r, n + 1)[1..n + 1] = Totals(r, n + 1)[1..n] + file.size
  BY <1>1, TotalsGrow
<1>5. QED BY <1>2, <1>3, <1>4 DEF r, n

\* The next file after the ones before it.
LEMMA NextFile ==
    ASSUME NEW q \in Seq(FileKinds), NEW k \in Nat, k + 1 \in 1..Len(q)
    PROVE  /\ SubSeq(q, 1, k) \in Seq(FileKinds) /\ Len(SubSeq(q, 1, k)) = k
           /\ SubSeq(q, 1, k + 1) = Append(SubSeq(q, 1, k), q[k + 1])
           /\ q[k + 1] \in FileKinds
<1> DEFINE a == SubSeq(q, 1, k + 1)
           b == Append(SubSeq(q, 1, k), q[k + 1])
<1>1. Len(q) \in Nat /\ q[k + 1] \in FileKinds /\ \A i \in 1..k : i \in 1..Len(q)
  OBVIOUS
<1>2. /\ SubSeq(q, 1, k) \in Seq(FileKinds) /\ Len(SubSeq(q, 1, k)) = k
      /\ \A i \in 1..k : SubSeq(q, 1, k)[i] = q[i]
  BY <1>1
<1>3. /\ a \in Seq(FileKinds) /\ Len(a) = k + 1
      /\ \A i \in 1..k + 1 : a[i] = q[i]
  BY <1>1
<1>4. /\ b \in Seq(FileKinds) /\ Len(b) = k + 1
      /\ \A i \in 1..k + 1 : b[i] = q[i]
  BY <1>1, <1>2
<1>5. a = b
  BY <1>3, <1>4
<1>6. QED BY <1>1, <1>2, <1>5

(* What is kept is what was read, the budget is what it leaves, and a refusal
   for size comes with the reason for it. *)
KeptInv ==
    /\ current - 1 <= Len(files) /\ kept = SubSeq(files, 1, current - 1)
    /\ BytesOf(kept) \in Nat /\ BytesOf(kept) + remaining = MaxCaseBytes
    /\ size <= remaining + ChunkBytes
    /\ answer = "none" /\ files # <<>> =>
          size <= MaxDocumentBytes /\ size <= files[current].size
    /\ answer = "upload_too_large" =>
          current <= Len(files) /\ size <= files[current].size /\ size > Limit
    /\ answer = "accepted" => Len(kept) \in 1..MaxDocuments
    /\ \A d \in DOMAIN kept :
          kept[d].size \in 1..MaxDocumentBytes /\ kept[d].format # "other"


LEMMA KeptStarts ==
    ASSUME UploadInit PROVE KeptInv
<1>1. /\ files \in Seq(FileKinds) /\ Len(files) \in Nat
      /\ files # <<>> => files[1] \in FileKinds
  <2>1. files \in Seq(FileKinds)
    BY UploadStarts DEF UploadInv
  <2>2. QED BY <2>1
<1>2. /\ current = 1 /\ size = 0 /\ remaining = MaxCaseBytes /\ kept = <<>> /\ answer = "none"
      /\ {MaxCaseBytes, MaxDocumentBytes, ChunkBytes} \subseteq Nat
  BY UploadAssumption DEF UploadInit
<1>3. files # <<>> => files[1].size \in Nat
  BY <1>1, UploadAssumption
<1>4. SubSeq(files, 1, 0) = <<>>
  BY <1>1
<1>5. QED BY <1>1, <1>2, <1>3, <1>4, BytesOfNone DEF KeptInv

LEMMA KeptKeeps ==
    ASSUME UploadInv, KeptInv, UploadStep PROVE KeptInv'
<1>1. {MaxCaseBytes, MaxDocumentBytes, MaxDocuments, ChunkBytes, size, remaining} \subseteq Nat
      /\ Len(files) \in Nat /\ current \in Nat \ {0}
  BY UploadAssumption DEF UploadInv
<1>2. CASE RefuseCount
  BY <1>2 DEF RefuseCount, Reject, KeptInv
<1>3. ASSUME Reading
      PROVE  /\ current \in 1..Len(files) /\ files # <<>> /\ answer = "none"
             /\ files[current] \in FileKinds /\ files[current].size \in Nat
             /\ size <= remaining /\ size <= MaxDocumentBytes /\ size <= files[current].size
             /\ Len(files) \in 1..MaxDocuments
  <2>1. Len(files) \in 1..MaxDocuments /\ answer = "none" /\ files # <<>>
    BY <1>1, <1>3 DEF Reading
  <2>2. current \in 1..Len(files) /\ size <= remaining
    BY <1>1, <2>1 DEF UploadInv
  <2>3. files[current] \in FileKinds
    BY <2>2 DEF UploadInv
  <2>4. QED BY <2>1, <2>2, <2>3, UploadAssumption DEF KeptInv
<1>4. /\ Limit \in Nat /\ Limit <= remaining /\ Limit <= MaxDocumentBytes
      /\ Limit = remaining \/ Limit = MaxDocumentBytes
  BY <1>1, MinOfTwo DEF Limit
<1>5. CASE ReadChunk
  <2>1. /\ Reading /\ size' = size + Chunk
        /\ answer' = IF size' > Limit THEN "upload_too_large" ELSE "none"
        /\ UNCHANGED <<files, current, remaining, kept>>
    BY <1>5 DEF ReadChunk
  <2>2. files[current].size - size \in Nat
    BY <1>1, <1>3, <2>1
  <2>3. Chunk \in Nat /\ Chunk <= ChunkBytes /\ Chunk <= files[current].size - size
    BY <1>1, <2>2, MinOfTwo DEF Chunk
  <2>4. size' \in Nat /\ size' <= remaining + ChunkBytes /\ size' <= files[current].size
    BY <1>1, <1>3, <2>1, <2>3
  <2>5. Limit' = Limit
    BY <2>1 DEF Limit
  <2>6. answer' = "none" => size' <= MaxDocumentBytes
    BY <1>1, <1>4, <2>1, <2>4
  <2>7. QED BY <1>3, <2>1, <2>4, <2>5, <2>6 DEF KeptInv
<1>6. CASE EndOfFile
  <2>1. Reading /\ size = files[current].size /\ UNCHANGED files
    BY <1>6 DEF EndOfFile
  <2>2. CASE /\ answer' \in {"invalid_case", "unsupported_media_type"}
             /\ UNCHANGED <<current, size, remaining, kept>>
    BY <2>1, <2>2 DEF KeptInv
  <2>3. CASE /\ ~Useless
             /\ kept' = Append(kept, files[current])
             /\ remaining' = remaining - size
             /\ current' = current + 1
             /\ size' = 0
             /\ answer' = IF current = Len(files) THEN "accepted" ELSE "none"
    <3>1. /\ kept = SubSeq(files, 1, current - 1) /\ kept \in Seq(FileKinds)
          /\ Len(kept) = current - 1 /\ kept' = SubSeq(files, 1, current' - 1)
      <4>1. current - 1 \in Nat /\ (current - 1) + 1 = current /\ files \in Seq(FileKinds)
            /\ current' - 1 = current
        BY <1>1, <2>3 DEF UploadInv
      <4>2. QED BY <1>3, <2>1, <2>3, <4>1, NextFile DEF KeptInv
    <3>2. BytesOf(kept') = BytesOf(kept) + size
      BY <1>3, <2>1, <2>3, <3>1, BytesOfOneMore
    <3>3. BytesOf(kept') \in Nat /\ BytesOf(kept') + remaining' = MaxCaseBytes
      BY <1>1, <2>3, <3>2 DEF KeptInv
    <3>4. remaining' \in Nat
      BY <1>1, <1>3, <2>1, <2>3
    <3>5. answer' = "none" => current' \in 1..Len(files) /\ files[current'].size \in Nat
      <4>1. answer' = "none" => current + 1 \in 1..Len(files)
        BY <1>1, <1>3, <2>1, <2>3
      <4>2. current + 1 \in 1..Len(files) => files[current + 1] \in FileKinds
        BY DEF UploadInv
      <4>3. QED BY <2>3, <4>1, <4>2, UploadAssumption
    <3>6. /\ DOMAIN kept' = 1..current /\ kept'[current] = files[current]
          /\ Len(kept') = current
          /\ \A d \in 1..current : d = current \/ (d \in DOMAIN kept /\ kept'[d] = kept[d])
      BY <1>1, <1>3, <2>1, <2>3, <3>1
    <3>7. /\ files[current].size \in 1..MaxDocumentBytes
          /\ files[current].format # "other"
      BY <1>1, <1>3, <2>1, <2>3 DEF Useless
    <3>8. \A d \in DOMAIN kept' :
             kept'[d].size \in 1..MaxDocumentBytes /\ kept'[d].format # "other"
      BY <3>6, <3>7 DEF KeptInv
    <3>9. answer' = "accepted" => Len(kept') \in 1..MaxDocuments
      BY <1>3, <2>1, <2>3, <3>6
    <3>10. current' - 1 <= Len(files) /\ size' <= remaining' + ChunkBytes
      BY <1>1, <1>3, <2>1, <2>3, <3>4
    <3>11. answer' # "upload_too_large"
      BY <2>3
    <3>12. answer' = "none" => size' <= MaxDocumentBytes /\ size' <= files[current'].size
      BY <1>1, <2>3, <3>5
    <3>13. QED BY <2>1, <3>1, <3>3, <3>8, <3>9, <3>10, <3>11, <3>12 DEF KeptInv
  <2>4. QED BY <1>6, <2>2, <2>3 DEF EndOfFile, Reject
<1>7. QED BY <1>2, <1>5, <1>6 DEF UploadStep

\* No document is of a kind the reader does not know.
ReadableInv ==
    KeptInv /\ \A d \in Documents : read[d] # "unsupported"

LEMMA ReadableStarts == ServiceInit => ReadableInv
  BY KeptStarts DEF ServiceInit, Init, ReadableInv

LEMMA ReadableKeeps ==
    ASSUME ReadInv, UploadInv, ReadableInv, [ServiceNext]_allVars
    PROVE  ReadableInv'
<1>1. KeptInv'
  <2>1. CASE UNCHANGED uploadVars
    BY <2>1 DEF uploadVars, ReadableInv, KeptInv, Limit
  <2>2. CASE Upload
    BY <2>2, KeptKeeps DEF Upload, ReadableInv
  <2>3. UNCHANGED uploadVars \/ Upload
    BY DEF ServiceNext, LoadPrompts, Start, StartFails, Delete, EndRun, CloseBegins, Unwind, Read,
       GraceEnds, RunnerClosed, CloseClient, Exit, allVars, vars
  <2>4. QED BY <2>1, <2>2, <2>3
<1>2. ASSUME NEW d \in Documents PROVE read'[d] # "unsupported"
  <2>1. CASE read' = read
    BY <2>1 DEF ReadableInv
  <2>2. ASSUME NEW e \in Documents, Begin(e) PROVE read'[d] # "unsupported"
    <3>1. e \in DOMAIN kept /\ kept[e] \in FileKinds
      BY <2>2 DEF Begin, UploadInv
    <3>2. kept[e].format \in {"pdf", "image"}
      BY <3>1, UploadAssumption DEF ReadableInv, KeptInv, Formats
    <3>3. \E s \in {"reading", "splitting"} : read' = [read EXCEPT ![e] = s]
      BY <2>2, <3>2 DEF Begin, Gather
    <3>4. QED BY <3>3 DEF ReadableInv, ReadInv, Typed
  <2>3. ASSUME NEW e \in Documents, ReadStep(e) PROVE read'[d] # "unsupported"
    <3>1. \E s \in {"reading", "returned", "raised", "cancelled"} :
             read' = [read EXCEPT ![e] = s]
      BY <2>3 DEF ReadStep, Split, Gather, Return, Raise, Abandon
    <3>2. QED BY <3>1 DEF ReadableInv, ReadInv, Typed
  <2>4. \/ read' = read \/ \E e \in Documents : Begin(e) \/ ReadStep(e)
    BY DEF ServiceNext, LoadPrompts, Start, StartFails, Upload, Delete, GiveUp, EndRun, CloseBegins,
       Unwind, Read, BeginRead, PageStep, Call, Answer, HangUp, GraceEnds, RunnerClosed,
       CloseClient, Exit, allVars, vars, readVars
  <2>5. QED BY <2>1, <2>2, <2>3, <2>4
<1>3. QED BY <1>1, <1>2 DEF ReadableInv

(* -------------------------------- theorems -------------------------------- *)

(* A document that is being read has a live client, whenever the process is
   told to stop: app.py's exit stack closes the runner before the client. *)
THEOREM ClientOutlivesReads == ServiceSpec => []ReadsHaveClient
<1>1. ReadInv => ReadsHaveClient
  BY DEF ReadInv, RunHasClient, ReadsHaveClient, Going, OcrAvailable
<1> QED
  BY <1>1, ReadIsInvariant, PTL

(* No half-read document is returned, however many its pages. *)
THEOREM NoHalfDocument == ServiceSpec => []WholeOrNothing
<1>1. ReadInv => WholeOrNothing
  BY DEF ReadInv
<1> QED
  BY <1>1, ReadIsInvariant, PTL

(* A page that goes on to call for a read that is over was left behind by one that
   failed: deleting the case or shutting down leaves none (ocr.py, _read_pages). *)
THEOREM NoCallsAfterGivingUp == ServiceSpec => []OnlyFailureLeavesPages
<1>1. ReadInv => OnlyFailureLeavesPages
  BY DEF ReadInv
<1> QED
  BY <1>1, ReadIsInvariant, PTL

(* The semaphore neither loses nor gains a place. *)
THEOREM PlacesAreConserved == ServiceSpec => []PlacesConserved
<1>1. ServiceInit => PlacesConserved
  <2> SUFFICES ASSUME ServiceInit PROVE PlacesConserved
    OBVIOUS
  <2>1. page = [d \in Documents |-> <<>>] /\ places = MaxParallelReads
    BY DEF ServiceInit, Init
  <2>2. \A d \in Documents : DOMAIN page[d] = {}
    BY <2>1
  <2>3. ASSUME NEW p \in Busy PROVE FALSE
    <3>1. PICK d \in Documents, i \in 1..MaxPages : p = <<d, i>>
      BY BusyMember
    <3> QED
      BY <2>2, <3>1, BusyMember
  <2>4. PagesIn({"calling", "hanging up"}) = {}
    BY <2>3 DEF Busy
  <2>5. Cardinality({}) = 0
    BY FS_EmptySet
  <2>6. places + 0 = MaxParallelReads
    BY <2>1, ReaderAssumption
  <2> QED
    BY <2>4, <2>5, <2>6 DEF PlacesConserved
<1>2. ReadInv /\ PlacesConserved /\ [ServiceNext]_allVars => PlacesConserved'
  BY StepConserves
<1> QED
  BY <1>1, <1>2, ReadIsInvariant, PTL DEF ServiceSpec

(* The types hold; with them the budget of a case is never overdrawn, and a
   document never has more pages than the limit allows, nor the process a run
   once the runner has closed. *)
THEOREM TypeCorrect == ServiceSpec => []ServiceTypeOK
<1>1. ReadInv /\ UploadInv /\ PlacesConserved => ServiceTypeOK
  <2> SUFFICES ASSUME ReadInv, UploadInv, PlacesConserved PROVE ServiceTypeOK
    OBVIOUS
  <2>1. places \in 0..MaxParallelReads
    <3>1. Cardinality(Busy) \in Nat /\ places \in Nat
      BY BusyFinite, FS_CardinalityType DEF ReadInv, Typed
    <3>2. places + Cardinality(Busy) = MaxParallelReads
      BY DEF PlacesConserved, Busy
    <3> QED
      BY <3>1, <3>2, ReaderAssumption
  <2>2. ASSUME NEW d \in Documents
        PROVE  /\ Len(page[d]) <= MaxPages
               /\ Range(page[d]) \subseteq {"waiting", "calling", "hanging up"} \cup Ended
    BY PageIsFunction DEF ReadInv, PagesFollow, PageStates, Range
  <2>3. TypeOK
    BY <2>1, <2>2 DEF TypeOK, ReadInv, Typed, ReadStates, Going, UploadInv
  <2> QED
    BY <2>3 DEF ServiceTypeOK, ReadInv, RunHasClient
<1> QED
  BY <1>1, ReadIsInvariant, UploadIsInvariant, PlacesAreConserved, PTL

(* What is kept of an upload is what was read of it, within its budget, and the
   reader knows every document of it. *)
THEOREM ReadableIsInvariant == ServiceSpec => []ReadableInv
<1>1. ReadInv /\ UploadInv /\ ReadableInv /\ [ServiceNext]_allVars => ReadableInv'
  BY ReadableKeeps
<1> QED
  BY <1>1, ReadableStarts, ReadIsInvariant, UploadIsInvariant, PTL DEF ServiceSpec

(* For any budget and any files: what the service holds of a case is within the
   case's budget but for the chunk that broke it. *)
THEOREM BudgetHolds == ServiceSpec => []HeldWithinBudget
<1>1. UploadInv /\ ReadableInv => HeldWithinBudget
  <2> SUFFICES ASSUME UploadInv, KeptInv PROVE HeldWithinBudget
    BY DEF ReadableInv
  <2>1. {BytesOf(kept), size, remaining, MaxCaseBytes, ChunkBytes} \subseteq Nat
    BY UploadAssumption DEF UploadInv, KeptInv
  <2> QED
    BY <2>1 DEF KeptInv, HeldWithinBudget
<1> QED
  BY <1>1, UploadIsInvariant, ReadableIsInvariant, PTL

(* For any budget and any files: what is refused as too large is too large. *)
THEOREM RefusalsForSizeAreEarned == ServiceSpec => []TooLargeForCause
<1>1. UploadInv /\ ReadableInv => TooLargeForCause
  <2> SUFFICES ASSUME UploadInv, KeptInv, answer = "upload_too_large"
               PROVE  \E n \in DOMAIN files : \/ files[n].size > MaxDocumentBytes
                                              \/ BytesOf(SubSeq(files, 1, n)) > MaxCaseBytes
    BY DEF ReadableInv, TooLargeForCause
  <2>1. /\ {BytesOf(kept), size, remaining, MaxCaseBytes, MaxDocumentBytes} \subseteq Nat
        /\ current - 1 \in Nat /\ (current - 1) + 1 = current /\ current \in 1..Len(files)
        /\ DOMAIN files = 1..Len(files) /\ files \in Seq(FileKinds)
    BY UploadAssumption DEF UploadInv, KeptInv
  <2>2. /\ files[current] \in FileKinds /\ files[current].size \in Nat
        /\ SubSeq(files, 1, current) = Append(kept, files[current]) /\ kept \in Seq(FileKinds)
    BY <2>1, NextFile, UploadAssumption DEF KeptInv
  <2>3. BytesOf(SubSeq(files, 1, current)) = BytesOf(kept) + files[current].size
    BY <2>2, BytesOfOneMore
  <2>4. files[current].size > Limit /\ (Limit = MaxDocumentBytes \/ Limit = remaining)
    BY <2>1, <2>2, MinOfTwo DEF KeptInv, Limit
  <2>5. CASE Limit = MaxDocumentBytes
    BY <2>1, <2>4, <2>5
  <2>6. CASE Limit = remaining
    <3>1. BytesOf(SubSeq(files, 1, current)) > MaxCaseBytes
      BY <2>1, <2>2, <2>3, <2>4, <2>6 DEF KeptInv
    <3> QED
      BY <2>1, <3>1
  <2> QED
    BY <2>4, <2>5, <2>6
<1> QED
  BY <1>1, UploadIsInvariant, ReadableIsInvariant, PTL

(* For any budget and any files: what the upload route accepts, ingest and the
   reader take. *)
THEOREM AcceptedCasesAreReadable == ServiceSpec => []AcceptedIsReadable
<1>1. UploadInv /\ ReadableInv => AcceptedIsReadable
  <2> SUFFICES ASSUME UploadInv, ReadableInv, answer = "accepted"
               PROVE  /\ Len(kept) \in 1..MaxDocuments
                      /\ \A d \in DOMAIN kept : kept[d].size \in 1..MaxDocumentBytes
                      /\ BytesOf(kept) <= MaxCaseBytes
                      /\ \A d \in DOMAIN kept : read[d] # "unsupported"
    BY DEF AcceptedIsReadable
  <2>1. Len(kept) \in 1..MaxDocuments /\ DOMAIN kept = 1..Len(kept)
    BY DEF ReadableInv, KeptInv, UploadInv
  <2>2. \A d \in DOMAIN kept : d \in Documents
    BY <2>1, UploadAssumption DEF Documents
  <2>3. BytesOf(kept) <= MaxCaseBytes
    <3>1. {BytesOf(kept), remaining, MaxCaseBytes} \subseteq Nat
      BY UploadAssumption DEF UploadInv, ReadableInv, KeptInv
    <3> QED
      BY <3>1 DEF ReadableInv, KeptInv
  <2> QED
    BY <2>1, <2>2, <2>3 DEF ReadableInv, KeptInv
<1> QED
  BY <1>1, UploadIsInvariant, ReadableIsInvariant, PTL
=============================================================================

--------------------------- MODULE TextractReader ---------------------------
(* services/ocr.py, TextractOCR.read: every document of an accepted case is read
   at the same time as the others.  A PDF is split on a worker thread and its
   pages are gathered; a page is one call to Textract, made while holding one
   of the places all documents share.

   An image is one page, which `read` itself waits for; it is read here as a
   PDF of one page is.

   gather raises at the first page that fails and leaves the other pages of the
   document to themselves: they go on waiting for places and calling.  Giving
   up the case cancels a read that is still gathering, and with it its pages.

   The places are an asyncio.Semaphore, first come first served; CaseRunner
   models the steps of one in detail.  Service puts the reads into a run, and
   the run into the life of the process. *)
EXTENDS Uploads, FiniteSets

CONSTANTS MaxParallelReads,  \* settings.max_parallel_ocr_calls
          MaxPages           \* settings.max_document_pages

\* The defaults are 4 and 30.  The one page of an image is read whatever MaxPages,
\* so Pages must have room for it.
ASSUME ReaderAssumption == {MaxParallelReads, MaxPages} \subseteq Nat \ {0}

VARIABLES read,    \* document -> where TextractOCR.read stands
          page,    \* document -> where each of its pages stands
          line,    \* the pages waiting for a place, longest first
          places,  \* the free places
          givenUp  \* the run of the case was cancelled

readVars == <<read, page, line, places, givenUp>>
vars == <<uploadVars, readVars>>

Documents == 1..MaxDocuments
Pages == {<<d, i>> : d \in Documents, i \in 1..MaxPages}

PagesIn(states) ==
    {p \in Pages : p[2] \in DOMAIN page[p[1]] /\ page[p[1]][p[2]] \in states}

Turn(p, state) == page' = [page EXCEPT ![p[1]][p[2]] = state]

\* Every page of d becomes a task that asks for a place, in page order.
Gather(d, count) ==
    /\ read' = [read EXCEPT ![d] = "reading"]
    /\ page' = [page EXCEPT ![d] = [i \in 1..count |-> "waiting"]]
    /\ line' = line \o [i \in 1..count |-> <<d, i>>]

(* read: the bytes decide whether a document is split, or one page, or refused.
   A branch may still get here after the case was given up, in the turn before
   the cancellation reaches it; the run it belongs to has not ended then. *)
Begin(d) ==
    /\ answer = "accepted"
    /\ d \in DOMAIN kept
    /\ read[d] = "none"
    /\ IF kept[d].format = "image"
       THEN Gather(d, 1)
       ELSE /\ read' = [read EXCEPT ![d] = IF kept[d].format = "pdf"
                                           THEN "splitting" ELSE "unsupported"]
            /\ UNCHANGED <<page, line>>
    /\ UNCHANGED <<places, givenUp>>

\* Faulty Split: the limit on pages is not looked at.
SplitUnlimited(d) ==
    /\ read[d] = "splitting"
    /\ Gather(d, kept[d].pages)
    /\ UNCHANGED <<places, givenUp>>

\* split_pdf_pages returns or raises: no pages, too many, damaged, or locked.
Split(d) ==
    /\ read[d] = "splitting"
    /\ \/ /\ kept[d].pages \in 1..MaxPages
          /\ Gather(d, kept[d].pages)
       \/ /\ read' = [read EXCEPT ![d] = "raised"]
          /\ UNCHANGED <<page, line>>
    /\ UNCHANGED <<places, givenUp>>

(* _read_one: the page at the head of the line gets a place and calls. *)
Call ==
    /\ line # <<>>
    /\ Head(line) \in PagesIn({"waiting"})
    /\ places > 0
    /\ Turn(Head(line), "calling")
    /\ line' = Tail(line)
    /\ places' = places - 1
    /\ UNCHANGED <<read, givenUp>>

\* Faulty Answer: the place is given back by hand, after a response.
AnswerKeepingPlace(p) ==
    /\ p \in PagesIn({"calling"})
    /\ \/ /\ \E state \in {"text", "blank"} : Turn(p, state)
          /\ places' = places + 1
       \/ /\ Turn(p, "failed")
          /\ UNCHANGED places
    /\ UNCHANGED <<read, line, givenUp>>

\* Textract answers with lines or with none, or raises; the place is returned.
Answer(p) ==
    /\ p \in PagesIn({"calling"})
    /\ \E state \in {"text", "blank", "failed"} : Turn(p, state)
    /\ places' = places + 1
    /\ UNCHANGED <<read, line, givenUp>>

Settled(d) == \A i \in DOMAIN page[d] : page[d][i] \in {"text", "blank"}
Broken(d) == \E i \in DOMAIN page[d] : page[d][i] = "failed"

\* Faulty Return: gather with return_exceptions, the failures left out.
ReturnWhatWasRead(d) ==
    /\ read[d] = "reading"
    /\ \A i \in DOMAIN page[d] : page[d][i] \in {"text", "blank", "failed"}
    /\ read' = [read EXCEPT ![d] = "returned"]
    /\ UNCHANGED <<page, line, places, givenUp>>

\* _read_pages: the pages are joined when all of them have been read.
Return(d) ==
    /\ read[d] = "reading"
    /\ Settled(d)
    /\ read' = [read EXCEPT ![d] = "returned"]
    /\ UNCHANGED <<page, line, places, givenUp>>

\* Faulty Raise: the failure is noticed once every page has ended well.
RaiseTooLate(d) ==
    /\ read[d] = "reading"
    /\ Broken(d) /\ Settled(d)
    /\ read' = [read EXCEPT ![d] = "raised"]
    /\ UNCHANGED <<page, line, places, givenUp>>

(* gather takes note of the first page that fails: the document has failed, and
   the others are left to themselves.  A cancellation that comes now finds nothing
   left to cancel; it only ends the read as cancelled. *)
Raise(d) ==
    /\ read[d] = "reading"
    /\ Broken(d)
    /\ \/ read' = [read EXCEPT ![d] = "raised"]
       \/ givenUp /\ read' = [read EXCEPT ![d] = "cancelled"]
    /\ UNCHANGED <<page, line, places, givenUp>>

\* The case is deleted, or the service shuts down, while it is being read.
GiveUp ==
    /\ answer = "accepted"
    /\ ~givenUp
    /\ givenUp' = TRUE
    /\ UNCHANGED <<read, page, line, places>>

Unfinished(d) == \E i \in DOMAIN page[d] : page[d][i] \in {"waiting", "calling"}

\* Faulty Abandon: the pages are tasks of their own, and nobody cancels them.
AbandonPages(d) ==
    /\ givenUp
    /\ read[d] \in {"splitting", "reading"}
    /\ read' = [read EXCEPT ![d] = IF Broken(d) /\ Unfinished(d)
                                   THEN "raised" ELSE "cancelled"]
    /\ UNCHANGED <<page, line, places, givenUp>>

(* The cancellation reaches a read that is waiting, before gather takes note of
   how its pages ended.  The pages that gather still waits for are cancelled with
   it: those in line leave it, those that call will hang up.  A page that failed
   just before then decides what gather raises. *)
Abandon(d) ==
    /\ givenUp
    /\ read[d] \in {"splitting", "reading"}
    /\ read' = [read EXCEPT ![d] = IF Broken(d) /\ Unfinished(d)
                                   THEN "raised" ELSE "cancelled"]
    /\ page' = [page EXCEPT ![d] = [i \in DOMAIN @ |->
                   CASE @[i] = "waiting" -> "cancelled"
                     [] @[i] = "calling" -> "hanging up"
                     [] OTHER -> @[i]]]
    /\ line' = SelectSeq(line, LAMBDA p : p[1] # d)
    /\ UNCHANGED <<places, givenUp>>

\* A cancelled call ends, and returns its place.
HangUp(p) ==
    /\ p \in PagesIn({"hanging up"})
    /\ Turn(p, "cancelled")
    /\ places' = places + 1
    /\ UNCHANGED <<read, line, givenUp>>

Init ==
    /\ UploadInit
    /\ read = [d \in Documents |-> "none"]
    /\ page = [d \in Documents |-> <<>>]
    /\ line = <<>>
    /\ places = MaxParallelReads
    /\ givenUp = FALSE

ReadStep(d) == Split(d) \/ Return(d) \/ Raise(d) \/ Abandon(d)
PageStep == Call \/ \E p \in Pages : Answer(p) \/ HangUp(p)

(* -------------------------------- properties ------------------------------ *)

Ended == {"text", "blank", "failed", "cancelled"}
Over == {"returned", "raised", "unsupported", "cancelled"}

TypeOK ==
    /\ kept \in Seq(FileKinds)
    /\ remaining \in 0..MaxCaseBytes
    /\ answer \in {"none", "accepted"} \cup Refusals
    /\ read \in [Documents -> {"none", "splitting", "reading"} \cup Over]
    /\ \A d \in Documents :
          /\ Len(page[d]) <= MaxPages
          /\ Range(page[d]) \subseteq {"waiting", "calling", "hanging up"} \cup Ended
    /\ places \in 0..MaxParallelReads

(* What the upload route accepted, ingest does not refuse for its size or
   number, and the reader recognises: a case that was answered 202 is never
   lost to a check that could have been made before it. *)
AcceptedIsReadable ==
    answer = "accepted" =>
        /\ Len(kept) \in 1..MaxDocuments
        /\ \A d \in DOMAIN kept : kept[d].size \in 1..MaxDocumentBytes
        /\ BytesOf(kept) <= MaxCaseBytes
        /\ \A d \in DOMAIN kept : read[d] # "unsupported"

(* Every place is free or held by one page, pages whose document has already
   failed and pages whose case was given up among them: the calls in flight
   never exceed the quota, and no way out of a call loses a place. *)
PlacesConserved ==
    places + Cardinality(PagesIn({"calling", "hanging up"})) = MaxParallelReads

(* A document is returned only when every one of its pages was read: "half a
   letter of credit ... is worse than no letter of credit at all". *)
WholeOrNothing ==
    \A d \in Documents :
        read[d] = "returned" => Len(page[d]) >= 1 /\ Settled(d)

(* Giving up a case, by deleting it or by shutting down, stops its pages wherever
   they are: one that still waits for a place or calls Textract belongs to a read
   that is going on, or was left behind by a page of its document that failed. *)
OnlyFailureLeavesPages ==
    \A d \in Documents : Unfinished(d) => read[d] = "reading" \/ Broken(d)

(* Every read ends, whatever the pages of other documents do, and every page
   gets its place and ends, a page of a failed document too. *)
EveryReadEnds ==
    \A d \in Documents :
        /\ (read[d] \in {"splitting", "reading"}) ~> (read[d] \in Over)
        /\ Unfinished(d) ~> (page[d] # <<>> /\ Range(page[d]) \subseteq Ended)
=============================================================================

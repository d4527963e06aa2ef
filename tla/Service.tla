------------------------------- MODULE Service -------------------------------
(* api/app.py, lifespan: what start-up builds and what shutdown takes down, and
   in which order, around one submission of files and the reads of its run.

   Start-up opens a Textract client if it can and builds the runner on it.  The
   exit stack unwinds in reverse: runner.aclose first, which waits for the runs
   (CaseRunner has it in detail; here there is one run), then the client, then
   the loop, which cancels what is left on it: the pages of documents that
   failed are tasks nobody waits for.

   Models, prompts and records are left out: between its reads the run is busy
   for as long as it likes. *)
EXTENDS TextractReader

VARIABLES stage,   \* how far the lifespan has got
          client,  \* the Textract client: none for a service without OCR
          task     \* the run of the case, refused if submit raised TooBusy

serviceVars == <<stage, client, task>>
allVars == <<vars, serviceVars>>

(* -------------------------------- start-up -------------------------------- *)

\* DetectorDeps.default: the client is among what every run is handed.
HandedToRuns(textract) == client' = textract

WithoutOcr == HandedToRuns("none")
WithOcr == HandedToRuns("open")

\* OCR may be switched off; and a client that cannot be made is done without.
OpenPipeline == WithoutOcr \/ WithOcr

OcrAvailable == client # "none"

\* get_prompts: the file is there, and no prompt is missing or blank.
LoadPrompts ==
    /\ stage = "starting"
    /\ stage' = "loaded"
    /\ UNCHANGED <<vars, client, task>>

Start ==
    /\ stage = "loaded"
    /\ OpenPipeline
    /\ stage' = "serving"
    /\ UNCHANGED <<vars, task>>

\* The prompts do not load, or anything else but AWS raises.
StartFails ==
    /\ stage \in {"starting", "loaded"}
    /\ stage' = "down"
    /\ UNCHANGED <<vars, client, task>>

(* -------------------------------- requests -------------------------------- *)

\* A route needs the runner, which outlives its own closing.
HasRunner == stage \notin {"starting", "loaded", "down"}

(* submit_uploads: the files are read, and what they make is submitted at once;
   a runner that is closing refuses it. *)
Upload ==
    /\ HasRunner
    /\ UploadStep
    /\ task' = IF answer' # "accepted" THEN task
               ELSE IF stage = "serving" THEN "running" ELSE "refused"
    /\ UNCHANGED <<readVars, stage, client>>

Delete ==
    /\ HasRunner
    /\ task = "running"
    /\ GiveUp
    /\ UNCHANGED <<uploadVars, serviceVars>>

(* --------------------------------- the run -------------------------------- *)

\* Without a client a document that has no text degrades, unread.
BeginRead(d) == task = "running" /\ OcrAvailable /\ Begin(d)

Read ==
    /\ PageStep \/ \E d \in Documents : BeginRead(d) \/ ReadStep(d)
    /\ UNCHANGED <<uploadVars, serviceVars>>

(* The run ends, in whatever way, when none of its reads is going on. *)
EndRun ==
    /\ task = "running"
    /\ \A d \in Documents : read[d] \notin {"splitting", "reading"}
    /\ givenUp \/ ~OcrAvailable \/ \A d \in DOMAIN kept : read[d] # "none"
    /\ task' = "ended"
    /\ UNCHANGED <<vars, stage, client>>

(* -------------------------------- shutdown -------------------------------- *)

\* Faulty CloseBegins: the stack unwinds in the order it was built.
CloseBeginsWithClient ==
    /\ stage = "serving"
    /\ stage' = "draining"
    /\ client' = IF OcrAvailable THEN "closed" ELSE "none"
    /\ UNCHANGED <<vars, task>>

\* aclose: no case is accepted from now on, the running one may finish.
CloseBegins ==
    /\ stage = "serving"
    /\ stage' = "draining"
    /\ UNCHANGED <<vars, client, task>>

\* Faulty GraceEnds: the tasks that did not finish are only waited for.
GraceEndsUncancelled ==
    /\ stage = "draining"
    /\ task = "running"
    /\ stage' = "cancelling"
    /\ UNCHANGED <<vars, client, task>>

GraceEnds ==
    /\ stage = "draining"
    /\ task = "running"
    /\ stage' = "cancelling"
    /\ givenUp' = TRUE
    /\ UNCHANGED <<uploadVars, read, page, line, places, client, task>>

\* aclose returns when no run is left.
RunnerClosed ==
    /\ stage \in {"draining", "cancelling"}
    /\ task # "running"
    /\ stage' = "closed"
    /\ UNCHANGED <<vars, client, task>>

CloseClient ==
    /\ stage = "closed"
    /\ client' = IF OcrAvailable THEN "closed" ELSE "none"
    /\ stage' = "stopped"
    /\ UNCHANGED <<vars, task>>

\* The loop ends: what is still on it is cancelled.
Exit ==
    /\ stage = "stopped"
    /\ stage' = "down"
    /\ page' = [d \in Documents |-> [i \in DOMAIN page[d] |->
                   IF page[d][i] \in Ended THEN page[d][i] ELSE "cancelled"]]
    /\ line' = <<>>
    /\ places' = MaxParallelReads
    /\ UNCHANGED <<uploadVars, read, givenUp, client, task>>

(* ------------------------------ specification ----------------------------- *)

ServiceInit ==
    /\ Init
    /\ stage = "starting"
    /\ client = "none"
    /\ task = "none"

Unwind == GraceEnds \/ RunnerClosed \/ CloseClient \/ Exit

ServiceNext ==
    \/ LoadPrompts \/ Start \/ StartFails \/ CloseBegins \/ Unwind
    \/ Upload \/ Delete \/ Read \/ EndRun

(* The reader goes on as long as it can (a call returns or raises: the client
   bounds its attempts and their time), the grace period ends and so does a run
   that was cancelled.  Nobody has to upload, to delete or to shut down, and a
   run that is left alone may take for ever over its models. *)
ServiceSpec ==
    /\ ServiceInit /\ [][ServiceNext]_allVars
    /\ WF_allVars(Read)
    /\ WF_allVars(Unwind)
    /\ WF_allVars(givenUp /\ EndRun)

(* -------------------------------- properties ------------------------------ *)

(* The types; and from the moment aclose has returned no run is left. *)
ServiceTypeOK ==
    /\ TypeOK
    /\ stage \in {"starting", "loaded", "serving", "draining", "cancelling", "closed",
                  "stopped", "down"}
    /\ client \in {"none", "open", "closed"}
    /\ task \in {"none", "running", "refused", "ended"}
    /\ stage \in {"closed", "stopped", "down"} => task # "running"

(* A document that is being read has a live client to be read with, shutdown or
   not ("a case still being read keeps a live Textract client to finish or fail
   with, rather than losing it mid-document"). *)
ReadsHaveClient ==
    \A d \in Documents : read[d] \in {"splitting", "reading"} => client = "open"

(* A shutdown comes to an end, whatever the run and its reads are doing. *)
LifespanEnds == stage = "draining" ~> stage = "down"
=============================================================================

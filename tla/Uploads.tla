------------------------------ MODULE Uploads ------------------------------
(* api/routes/cases.py, submit_uploads: one request presents some files, which
   are read into memory a chunk at a time under two budgets, that of a file and
   that of the whole case, and are refused at the first moment they turn out to
   be of no use.

   Sizes are counted in units of which a chunk is a few.  Requests share
   nothing, so one is all there is to model. *)
EXTENDS Naturals, SequencesExt

CONSTANTS FileKinds,         \* what a file may be: its size, format and pages
          MaxFiles,          \* bound: files in a request
          MaxDocuments,      \* settings.max_documents_per_case
          MaxDocumentBytes,  \* settings.max_document_bytes
          MaxCaseBytes,      \* settings.max_case_bytes
          ChunkBytes         \* UPLOAD_CHUNK_BYTES

\* What the leading bytes say: sniff_media_type; "other" is None.
Formats == {"pdf", "image", "other"}

ASSUME UploadAssumption ==
    /\ FileKinds \subseteq [size: Nat, format: Formats, pages: Nat]
    /\ {MaxFiles, MaxDocuments, MaxDocumentBytes, MaxCaseBytes} \subseteq Nat
    /\ ChunkBytes \in Nat \ {0}

VARIABLES files,      \* what the caller uploads
          current,    \* index of the file being read
          size,       \* how much of it is in memory
          remaining,  \* what is left of the case-wide budget
          kept,       \* the files read so far
          answer      \* none, accepted, or the code of the refusal

uploadVars == <<files, current, size, remaining, kept, answer>>

Reading == answer = "none" /\ Len(files) \in 1..MaxDocuments

Limit == Min({MaxDocumentBytes, remaining})

\* UploadRejected, by the code it carries past the one handler of them all.
Refusals == {"invalid_case", "upload_too_large", "unsupported_media_type"}

Reject(code) == code \in Refusals /\ answer' = code

\* _check_count: an unusable batch, before a byte of it is read.
RefuseCount ==
    /\ answer = "none"
    /\ Len(files) \notin 1..MaxDocuments
    /\ Reject("invalid_case")
    /\ UNCHANGED <<files, current, size, remaining, kept>>

Chunk == Min({ChunkBytes, files[current].size - size})

\* Faulty ReadChunk: the size is looked at once the file is there.
ReadWhole ==
    /\ Reading
    /\ size < files[current].size
    /\ size' = files[current].size
    /\ answer' = IF size' > Limit THEN "upload_too_large" ELSE "none"
    /\ UNCHANGED <<files, current, remaining, kept>>

\* Faulty ReadChunk: a file that fills its limit exactly is refused.
ReadChunkBelow ==
    /\ Reading
    /\ size < files[current].size
    /\ size' = size + Chunk
    /\ answer' = IF size' >= Limit THEN "upload_too_large" ELSE "none"
    /\ UNCHANGED <<files, current, remaining, kept>>

ReadChunk ==
    /\ Reading
    /\ size < files[current].size
    /\ size' = size + Chunk
    /\ answer' = IF size' > Limit THEN "upload_too_large" ELSE "none"
    /\ UNCHANGED <<files, current, remaining, kept>>

\* Faulty Useless: the bytes are not looked at.
UselessWhenEmpty == size = 0

Useless == size = 0 \/ files[current].format = "other"

(* The file is there in full: it is refused, or kept as the next document. *)
EndOfFile ==
    /\ Reading
    /\ size = files[current].size
    /\ \/ /\ Useless
          /\ Reject(IF size = 0 THEN "invalid_case" ELSE "unsupported_media_type")
          /\ UNCHANGED <<current, size, remaining, kept>>
       \/ /\ ~Useless
          /\ kept' = Append(kept, files[current])
          /\ remaining' = remaining - size
          /\ current' = current + 1
          /\ size' = 0
          /\ answer' = IF current = Len(files) THEN "accepted" ELSE "none"
    /\ UNCHANGED files

UploadInit ==
    /\ files \in UNION {[1..n -> FileKinds] : n \in 0..MaxFiles}
    /\ current = 1
    /\ size = 0
    /\ remaining = MaxCaseBytes
    /\ kept = <<>>
    /\ answer = "none"

UploadStep == RefuseCount \/ ReadChunk \/ EndOfFile

(* -------------------------------- properties ------------------------------ *)

BytesOf(documents) ==
    FoldLeft(LAMBDA total, file : total + file.size, 0, documents)

(* However large the upload, the service never holds more of a case than its
   budget and the chunk that broke it ("enforced while the bytes arrive"). *)
HeldWithinBudget == BytesOf(kept) + size <= MaxCaseBytes + ChunkBytes

(* A refusal is earned: only a file past its limit, or files past the case's
   limit together, are called too large (boundary values are accepted). *)
TooLargeForCause ==
    answer = "upload_too_large" =>
        \E n \in DOMAIN files :
            \/ files[n].size > MaxDocumentBytes
            \/ BytesOf(SubSeq(files, 1, n)) > MaxCaseBytes
=============================================================================

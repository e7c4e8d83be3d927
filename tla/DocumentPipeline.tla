-------------------------- MODULE DocumentPipeline --------------------------
(***************************************************************************)
(* Uploaded documents: the rows of uploaded_documents, the files in the    *)
(* storage backend, the processing jobs and the periodic tasks.            *)
(*                                                                         *)
(* A job is one run of DocumentPipeline, either the background task that   *)
(* upload_document leaves behind or a Celery task process_document.  Its   *)
(* writes to the row form one transaction, which holds the row from the    *)
(* first of them to the end; what it saves in storage is there at once.    *)
(* The content was validated by upload_document, so validate_bytes passes  *)
(* again; what can fail is storage, text extraction or the database.       *)
(***************************************************************************)
EXTENDS Naturals, FiniteSets

CONSTANTS
    Doc,
    Job,           \* slots for background tasks and queued Celery messages
    RetryLimit,    \* rows that one run of retry_failed_documents takes
    CleanupLimit,  \* rows that one run of cleanup_expired_documents takes
    MaxRetries,    \* max_retries of process_document
    MaxPatches,    \* bound on staff decisions per document
    MaxFaults,     \* bound on lost processes and failed transactions
    MaxKey,        \* bound on the storage keys built
    NoDoc, NoRow

VARIABLES
    docs,          \* committed rows
    files,         \* storage keys that have a file
    built,         \* storage keys built so far: each is fresh
    job,           \* what each job is doing
    cleanup,       \* the run of cleanup_expired_documents
    decisions,     \* staff decisions committed per document
    faults         \* lost processes and failed transactions so far

vars == <<docs, files, built, job, cleanup, decisions, faults>>

ASSUME PipelineAssumption ==
    /\ RetryLimit \in Nat \ {0}
    /\ CleanupLimit \in Nat \ {0}
    /\ MaxRetries \in Nat
    /\ MaxPatches \in Nat
    /\ MaxFaults \in Nat
    /\ MaxKey \in Nat
    /\ NoDoc \notin Doc

Status == {"uploaded", "under_review", "verified", "rejected"}
Row == [status : Status,
        storage_key : Nat,
        passed : BOOLEAN,                    \* malware_scan_status "passed"
        reason : {"none", "staff", "fault"}, \* rejection_reason, by origin
        expired : BOOLEAN,
        deleted : {"no", "user", "cleanup"}]

ASSUME NoRowAssumption == NoRow \notin Row

JobState == [kind : {"none", "background", "task"},
             pc : {"free", "queued", "start", "store", "process", "commit"},
             doc : Doc \cup {NoDoc},
             key : Nat,                      \* storage_key of the message
             new : Nat,                      \* key under which it saved
             out : {"none", "verified", "rejected"},
             retries : Nat,
             locked : BOOLEAN,               \* it has updated the row
             seen : Nat]                     \* decisions when it did
FreeJob == [kind |-> "none", pc |-> "free", doc |-> NoDoc, key |-> 0,
            new |-> 0, out |-> "none", retries |-> 0, locked |-> FALSE,
            seen |-> 0]

IdleCleanup == [running |-> FALSE, todo |-> {}, done |-> {},
                key |-> [d \in Doc |-> 0]]

Entered == {d \in Doc : docs[d] # NoRow}
Undeleted == {d \in Entered : docs[d].deleted = "no"}
UnderReview(d) == d \in Entered /\ docs[d].status = "under_review"
Waiting == {d \in Doc : UnderReview(d)}
RowFree(d) == \A j \in Job : job[j].locked => job[j].doc # d

Init ==
    /\ docs = [d \in Doc |-> NoRow]
    /\ files = {}
    /\ built = 0
    /\ job = [j \in Job |-> FreeJob]
    /\ cleanup = IdleCleanup
    /\ decisions = [d \in Doc |-> 0]
    /\ faults = 0

-----------------------------------------------------------------------------
(* Requests.                                                               *)

(* upload_document: the row, with a key under which nothing is saved, and  *)
(* the background task.                                                    *)
UploadDocument(d, j) ==
    /\ d \notin Entered
    /\ job[j] = FreeJob
    /\ built < MaxKey
    /\ built' = built + 1
    /\ docs' = [docs EXCEPT ![d] =
                   [status |-> "uploaded", storage_key |-> built + 1,
                    passed |-> FALSE, reason |-> "none", expired |-> FALSE,
                    deleted |-> "no"]]
    /\ job' = [job EXCEPT ![j] = [FreeJob EXCEPT
                   !.kind = "background", !.pc = "start", !.doc = d]]
    /\ UNCHANGED <<files, cleanup, decisions, faults>>

(* update_document_status, with or without a rejection_reason.             *)
UpdateDocumentStatus(d, status, reason) ==
    /\ d \in Entered
    /\ RowFree(d)
    /\ decisions[d] < MaxPatches
    /\ docs' = [docs EXCEPT ![d].status = status,
                            ![d].reason = IF reason = "none" THEN @ ELSE reason]
    /\ decisions' = [decisions EXCEPT ![d] = @ + 1]
    /\ UNCHANGED <<files, built, job, cleanup, faults>>

DeleteDocument(d) ==
    /\ d \in Undeleted
    /\ RowFree(d)
    /\ docs' = [docs EXCEPT ![d].deleted = "user"]
    /\ UNCHANGED <<files, built, job, cleanup, decisions, faults>>

(* is_expired is set by nothing in the backend.                            *)
MarkExpired(d) ==
    /\ d \in Entered
    /\ ~docs[d].expired
    /\ RowFree(d)
    /\ docs' = [docs EXCEPT ![d].expired = TRUE]
    /\ UNCHANGED <<files, built, job, cleanup, decisions, faults>>

-----------------------------------------------------------------------------
(* Jobs.                                                                   *)

(* What a query with a LIMIT and no ORDER BY may return of the rows S.     *)
Limited(S, limit) ==
    {T \in SUBSET S : /\ Cardinality(T) <= limit
                      /\ T # S => Cardinality(T) = limit}

Message(d) == [FreeJob EXCEPT !.kind = "task", !.pc = "queued", !.doc = d,
                              !.key = docs[d].storage_key]

(* Each row of selected becomes a message in a slot of its own.            *)
Submit(selected, slot) ==
    /\ selected # {}
    /\ \A d \in selected : job[slot[d]] = FreeJob
    /\ \A d, e \in selected : slot[d] = slot[e] => d = e
    /\ job' = [j \in Job |->
                 IF \E d \in selected : slot[d] = j
                 THEN Message(CHOOSE d \in selected : slot[d] = j)
                 ELSE job[j]]

(* Mutant: the query skips the documents a job has already passed.         *)
RetryOnlyUnpassed(selected, slot) ==
    /\ selected \in Limited({d \in Waiting : ~docs[d].passed}, RetryLimit)
    /\ Submit(selected, slot)
    /\ UNCHANGED <<docs, files, built, cleanup, decisions, faults>>

(* retry_failed_documents: RetryLimit rows UNDER_REVIEW, whichever the     *)
(* database returns, also deleted ones, also with a message already in the *)
(* queue, also those whose key has no file.                                *)
RetryFailedDocuments(selected, slot) ==
    /\ selected \in Limited(Waiting, RetryLimit)
    /\ Submit(selected, slot)
    /\ UNCHANGED <<docs, files, built, cleanup, decisions, faults>>

(* Mutant: the number of attempts is taken off max_retries.                *)
RetryCountsDown(j) ==
    IF job[j].kind = "task" /\ job[j].retries < MaxRetries
    THEN [FreeJob EXCEPT !.kind = "task", !.pc = "queued", !.doc = job[j].doc,
                         !.key = job[j].key, !.retries = job[j].retries - 1]
    ELSE FreeJob
(* self.retry, until MaxRetriesExceededError.                              *)
Retry(j) ==
    IF job[j].kind = "task" /\ job[j].retries < MaxRetries
    THEN [FreeJob EXCEPT !.kind = "task", !.pc = "queued", !.doc = job[j].doc,
                         !.key = job[j].key, !.retries = job[j].retries + 1]
    ELSE FreeJob

(* process_document reads the content; a missing file is an exception.     *)
ReadContent(j) ==
    /\ job[j].pc = "queued"
    /\ job' = [job EXCEPT ![j] = IF job[j].key \in files
                                 THEN [@ EXCEPT !.pc = "start"]
                                 ELSE Retry(j)]
    /\ UNCHANGED <<docs, files, built, cleanup, decisions, faults>>

(* Mutant: the status is no longer updated before the first stage.         *)
StartQuietly(j) ==
    /\ job[j].pc = "start"
    /\ RowFree(job[j].doc)
    /\ job' = [job EXCEPT ![j].pc = "store",
                          ![j].seen = decisions[job[j].doc]]
    /\ UNCHANGED <<docs, files, built, cleanup, decisions, faults>>

(* Stage 1: UPDATE status UNDER_REVIEW, which takes the row.               *)
Start(j) ==
    /\ job[j].pc = "start"
    /\ RowFree(job[j].doc)
    /\ job' = [job EXCEPT ![j].pc = "store", ![j].locked = TRUE,
                          ![j].seen = decisions[job[j].doc]]
    /\ UNCHANGED <<docs, files, built, cleanup, decisions, faults>>

(* Stage 2: the content is saved under a key built anew.                   *)
Store(j) ==
    /\ job[j].pc = "store"
    /\ built < MaxKey
    /\ built' = built + 1
    /\ files' = files \cup {built + 1}
    /\ job' = [job EXCEPT ![j].pc = "process", ![j].new = built + 1]
    /\ UNCHANGED <<docs, cleanup, decisions, faults>>

(* Stages 3 to 7 and _persist_results.                                     *)
Process(j) ==
    /\ job[j].pc = "process"
    /\ job' = [job EXCEPT ![j].pc = "commit", ![j].out = "verified"]
    /\ UNCHANGED <<docs, files, built, cleanup, decisions, faults>>

(* An exception in any stage is caught: UPDATE status REJECTED.            *)
StageFails(j) ==
    /\ job[j].pc \in {"store", "process"}
    /\ job' = [job EXCEPT ![j].pc = "commit", ![j].out = "rejected"]
    /\ UNCHANGED <<docs, files, built, cleanup, decisions, faults>>

(* Mutant: _persist_results leaves storage_key alone.                      *)
ResultKeepsKey(j) ==
    IF job[j].out = "verified"
    THEN [docs[job[j].doc] EXCEPT !.status = "verified", !.passed = TRUE]
    ELSE [docs[job[j].doc] EXCEPT !.status = "rejected", !.reason = "fault"]
(* What the transaction of the job commits.                                *)
Result(j) ==
    IF job[j].out = "verified"
    THEN [docs[job[j].doc] EXCEPT !.status = "verified", !.passed = TRUE,
                                  !.storage_key = job[j].new]
    ELSE [docs[job[j].doc] EXCEPT !.status = "rejected", !.reason = "fault"]

Commit(j) ==
    /\ job[j].pc = "commit"
    /\ docs' = [docs EXCEPT ![job[j].doc] = Result(j)]
    /\ job' = [job EXCEPT ![j] = FreeJob]
    /\ UNCHANGED <<files, built, cleanup, decisions, faults>>

Fault == faults < MaxFaults /\ faults' = faults + 1

(* A failed transaction: rolled back, and retried if it is a Celery task.  *)
Abort(j) ==
    /\ job[j].pc \in {"start", "store", "process", "commit"}
    /\ Fault
    /\ job' = [job EXCEPT ![j] = Retry(j)]
    /\ UNCHANGED <<docs, files, built, cleanup, decisions>>

(* A lost process: its Celery message was not acknowledged and is          *)
(* delivered again; a background task is gone.                             *)
ProcessLost(j) ==
    /\ job[j].pc \in {"start", "store", "process", "commit"}
    /\ Fault
    /\ job' = [job EXCEPT ![j] =
                  IF job[j].kind = "task"
                  THEN [FreeJob EXCEPT !.kind = "task", !.pc = "queued",
                            !.doc = job[j].doc, !.key = job[j].key,
                            !.retries = job[j].retries]
                  ELSE FreeJob]
    /\ UNCHANGED <<docs, files, built, cleanup, decisions>>

-----------------------------------------------------------------------------
(* cleanup_expired_documents.                                              *)

CleanupSelect(selected) ==
    /\ ~cleanup.running
    /\ selected # {}
    /\ selected \in Limited({d \in Undeleted : docs[d].expired}, CleanupLimit)
    /\ cleanup' = [running |-> TRUE, todo |-> selected, done |-> {},
                   key |-> [d \in Doc |-> IF d \in selected
                                          THEN docs[d].storage_key ELSE 0]]
    /\ UNCHANGED <<docs, files, built, job, decisions, faults>>

(* The file of one row is deleted, or its deletion fails and the row is    *)
(* skipped.                                                                *)
CleanupFile(d, ok) ==
    /\ d \in cleanup.todo
    /\ files' = IF ok THEN files \ {cleanup.key[d]} ELSE files
    /\ cleanup' = [cleanup EXCEPT
                     !.todo = @ \ {d},
                     !.done = IF ok THEN @ \cup {d} ELSE @]
    /\ UNCHANGED <<docs, built, job, decisions, faults>>

(* The flush waits for the rows that jobs have updated.                    *)
CleanupCommit ==
    /\ cleanup.running
    /\ cleanup.todo = {}
    /\ \A d \in cleanup.done : RowFree(d)
    /\ docs' = [d \in Doc |-> IF d \in cleanup.done
                              THEN [docs[d] EXCEPT !.deleted = "cleanup"]
                              ELSE docs[d]]
    /\ cleanup' = IdleCleanup
    /\ UNCHANGED <<files, built, job, decisions, faults>>

CleanupLost ==
    /\ cleanup.running
    /\ Fault
    /\ cleanup' = IdleCleanup
    /\ UNCHANGED <<docs, files, built, job, decisions>>

-----------------------------------------------------------------------------
Step(j) ==
    \/ ReadContent(j)
    \/ Start(j)
    \/ Store(j)
    \/ Process(j)
    \/ StageFails(j)
    \/ Commit(j)

Staff(d) ==
    \E status \in Status, reason \in {"none", "staff"} :
        UpdateDocumentStatus(d, status, reason)

RetryTask ==
    \E selected \in SUBSET Doc : \E slot \in [selected -> Job] :
        RetryFailedDocuments(selected, slot)

Next ==
    \/ \E d \in Doc : Staff(d) \/ DeleteDocument(d) \/ MarkExpired(d)
    \/ \E d \in Doc, j \in Job : UploadDocument(d, j)
    \/ RetryTask
    \/ \E j \in Job : Step(j) \/ Abort(j) \/ ProcessLost(j)
    \/ \E selected \in SUBSET Doc : CleanupSelect(selected)
    \/ \E d \in Doc, ok \in BOOLEAN : CleanupFile(d, ok)
    \/ CleanupCommit
    \/ CleanupLost

Spec == Init /\ [][Next]_vars

(* Workers take messages and run them, PostgreSQL hands a row to those who *)
(* wait for it in turn, and beat starts the task every five minutes: the   *)
(* task, which may choose the same rows each time.                         *)
Fairness ==
    /\ \A j \in Job : SF_vars(Step(j))
    /\ SF_vars(RetryTask)

FairSpec == Spec /\ Fairness

-----------------------------------------------------------------------------
(* Rows, files, jobs and the cleanup have the shape of their models.       *)
TypeOK ==
    /\ docs \in [Doc -> Row \cup {NoRow}]
    /\ files \subseteq 1..built
    /\ built \in Nat
    /\ job \in [Job -> JobState]
    /\ cleanup \in [running : BOOLEAN, todo : SUBSET Doc, done : SUBSET Doc,
                    key : [Doc -> Nat]]
    /\ decisions \in [Doc -> Nat]
    /\ faults \in Nat

(* The file of a document that a job has processed is in storage, whatever *)
(* job ran, failed or ran twice since; only the cleanup of an expired      *)
(* document takes it away (_persist_results, Store, cleanup).              *)
PassedHasFile ==
    \A d \in Entered : docs[d].passed =>
        docs[d].storage_key \in files \/ docs[d].expired

(* A job does not overwrite a staff decision that was made while it ran:   *)
(* from its first UPDATE to its commit no decision gets in between         *)
(* (DocumentPipeline.run, update_document_status).                         *)
DecisionStands ==
    \A j \in Job : job[j].pc \in {"store", "process", "commit"} =>
        job[j].seen = decisions[job[j].doc]

(* A document under review whose file is in storage is decided in the end, *)
(* whatever workers are lost on the way, if no more than RetryLimit rows   *)
(* wait at once: of more the task may choose the same ones for ever, and a *)
(* row whose key has no file never stops waiting (retry_failed_documents,  *)
(* acks_late and max_retries of process_document).                         *)
ReviewEnds ==
    \A d \in Doc :
        UnderReview(d) /\ docs[d].storage_key \in files ~>
            \/ ~UnderReview(d) \/ docs[d].expired
            \/ Cardinality(Waiting) > RetryLimit

(* "find documents stuck ... and re-submit them for processing": no        *)
(* document stays unprocessed for ever.                                    *)
StalledResubmitted ==
    \A d \in Doc :
        d \in Entered ~>
            d \in Entered /\ docs[d].status \in {"verified", "rejected"}

=============================================================================

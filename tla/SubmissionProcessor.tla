-------------------------- MODULE SubmissionProcessor --------------------------
(***************************************************************************)
(* SubmissionProcessor (submitter/submission.processor.ts): the Bull       *)
(* handlers of 'submit-single' and 'submit-batch'.  Each await is a step;  *)
(* between two steps of one handler any other handler or request may run. *)
(* A handler works on the copies of the rows it loaded (jobs[j].snaps) and *)
(* writes them back whole with save().  Nothing is locked and the current  *)
(* status is never re-read.                                                *)
(***************************************************************************)
EXTENDS SubmissionStore, SubmissionQueue, StellarService

Snap(j) == jobs[j].snaps[1]
SingleId(j) == jobs[j].ids[1]

(***************************************************************************)
(* handleSingleSubmission                                                  *)
(***************************************************************************)

\* A worker takes the job and loads the row by id.  The row always exists
\* (it is saved before the job is added and never deleted), so the
\* "not found" return is not reachable.
SingleLoad(j) ==
    /\ jobs[j].kind = "single"
    /\ jobs[j].state = "waiting"
    /\ jobs' = [jobs EXCEPT ![j].state = "active", ![j].pc = "saveProcessing",
                            ![j].snaps = <<db[SingleId(j)]>>]
    /\ UNCHANGED <<db, ledger, crashes>>

\* status = PROCESSING; await save(submission).
SingleSaveProcessing(j) ==
    LET s == [Snap(j) EXCEPT !.status = "processing"] IN
    /\ jobs[j].pc = "saveProcessing"
    /\ Save(SingleId(j), s)
    /\ jobs' = [jobs EXCEPT ![j].pc = "submit", ![j].snaps = <<s>>]
    /\ UNCHANGED <<ledger, crashes>>

\* The catch block after a failed submitTransaction: retryCount++, then
\* either FAILED and an awaited save, or RETRYING and a throw before any
\* save, so the incremented count and the RETRYING status never reach the
\* row.  The FAILED branch needs a loaded retryCount of MaxRetries - 1.
CatchSubmitError(j) ==
    LET s == [Snap(j) EXCEPT !.retryCount = @ + 1] IN
    IF s.retryCount >= MaxRetries
    THEN /\ Save(SingleId(j), [s EXCEPT !.status = "failed"])
         /\ jobs' = [jobs EXCEPT ![j].pc = "returned",
                                 ![j].snaps = <<[s EXCEPT !.status = "failed"]>>]
    ELSE /\ jobs' = [jobs EXCEPT ![j].pc = "threw",
                                 ![j].snaps = <<[s EXCEPT !.status = "retrying"]>>]
         /\ UNCHANGED db

\* Mutant: the hash taken as the ledger length before the transaction.
SingleSubmitStaleHash(j) ==
    /\ jobs[j].kind = "single"
    /\ jobs[j].pc = "submit"
    /\ \E o \in LedgerOutcomes :
          /\ SubmitTransaction(SingleId(j), o)
          /\ \/ /\ o = "ok"
                /\ jobs' = [jobs EXCEPT ![j].pc = "saveCompleted",
                                        ![j].hashes = <<Len(ledger)>>]
                /\ UNCHANGED db
             \/ /\ o # "ok"
                /\ CatchSubmitError(j)
    /\ UNCHANGED crashes

\* await stellarService.submitTransaction(submission.payload).
SingleSubmit(j) ==
    /\ jobs[j].kind = "single"
    /\ jobs[j].pc = "submit"
    /\ \E o \in LedgerOutcomes :
          /\ SubmitTransaction(SingleId(j), o)
          /\ \/ /\ o = "ok"
                /\ jobs' = [jobs EXCEPT ![j].pc = "saveCompleted",
                                        ![j].hashes = <<Len(ledger) + 1>>]
                /\ UNCHANGED db
             \/ /\ o # "ok"
                /\ CatchSubmitError(j)
    /\ UNCHANGED crashes

\* status = COMPLETED, transactionHash = txHash; await save(submission).
SingleSaveCompleted(j) ==
    LET s == [Snap(j) EXCEPT !.status = "completed",
                             !.transactionHash = jobs[j].hashes[1]] IN
    /\ jobs[j].pc = "saveCompleted"
    /\ Save(SingleId(j), s)
    /\ jobs' = [jobs EXCEPT ![j].pc = "returned", ![j].snaps = <<s>>]
    /\ UNCHANGED <<ledger, crashes>>

(***************************************************************************)
(* handleBatchSubmission                                                   *)
(***************************************************************************)

\* A worker takes the job and loads every row with findByIds.
BatchLoad(j) ==
    /\ jobs[j].kind = "batch"
    /\ jobs[j].state = "waiting"
    /\ jobs' = [jobs EXCEPT ![j].state = "active", ![j].pc = "submit",
                            ![j].snaps = [n \in 1..Len(jobs[j].ids) |->
                                              db[jobs[j].ids[n]]]]
    /\ UNCHANGED <<db, ledger, crashes>>

\* await stellarService.submitBatch(payloads): one outcome per item.
BatchSubmit(j) ==
    /\ jobs[j].kind = "batch"
    /\ jobs[j].pc = "submit"
    /\ \E outs \in [1..Len(jobs[j].ids) -> LedgerOutcomes] :
          /\ SubmitBatch(jobs[j].ids, outs)
          /\ jobs' = [jobs EXCEPT ![j].pc = "save", ![j].i = 1,
                                  ![j].hashes = SubmitBatchHashes(jobs[j].ids, outs)]
    /\ UNCHANGED <<db, crashes>>

\* The row the loop writes for an item whose txHash is h.
BatchItemRow(snap, h) ==
    IF h # NULL THEN [snap EXCEPT !.status = "completed", !.transactionHash = h]
    ELSE [snap EXCEPT !.status = "failed"]

\* One iteration of the update loop: set the item's outcome on its loaded
\* copy and await save(submission); the last one ends the handler.
BatchSaveItem(j) ==
    LET n == jobs[j].i IN
    /\ jobs[j].pc = "save"
    /\ Save(jobs[j].ids[n], BatchItemRow(jobs[j].snaps[n], jobs[j].hashes[n]))
    /\ jobs' = [jobs EXCEPT ![j].i = n + 1,
                            ![j].pc = IF n = Len(jobs[j].ids) THEN "returned"
                                      ELSE "save"]
    /\ UNCHANGED <<ledger, crashes>>
=============================================================================

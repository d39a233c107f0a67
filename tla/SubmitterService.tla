--------------------------- MODULE SubmitterService ---------------------------
(***************************************************************************)
(* SubmitterService.createSubmission and createBatch                       *)
(* (submitter/submitter.service.ts), reached through SubmitterController.  *)
(* Each request is a call slot running one request to the end; every      *)
(* await of the service is a step of its own, so calls interleave with one *)
(* another and with the processor.                                         *)
(***************************************************************************)
EXTENDS SubmissionStore, SubmissionQueue

CONSTANTS
    Calls,          \* concurrent HTTP requests
    Requests,       \* bodies a request may carry: [op, keys]
    QueueMayFail    \* whether queue.add may reject (Redis unavailable)

VARIABLE calls      \* calls[c]: the state of request c

CallPc == {"idle", "find", "save", "enqueue", "enqueueBatch", "done"}

\* "conflict": ConflictException; "uniqueViolation": the INSERT's
\* QueryFailedError; "queueError": queue.add rejected.
CallResult == {"none", "ok", "conflict", "uniqueViolation", "queueError"}

IdleCall == [pc |-> "idle", op |-> "none", keys |-> <<>>, i |-> 1,
             created |-> <<>>, result |-> "none"]

\* The key of the dto the call is working on.
CurrentKey(c) == calls[c].keys[calls[c].i]

\* POST /submissions or POST /submissions/batch with a body from Requests.
ReceiveRequest(c) ==
    /\ calls[c].pc = "idle"
    /\ \E r \in Requests :
          calls' = [calls EXCEPT ![c] = [@ EXCEPT !.pc = "find", !.op = r.op,
                                                  !.keys = r.keys]]
    /\ UNCHANGED <<db, jobs, crashes>>

\* createSubmission: findOne by idempotency key; an existing row throws
\* ConflictException, which also ends createBatch.
CreateFind(c) ==
    /\ calls[c].pc = "find"
    /\ \/ /\ FindByKey(CurrentKey(c)) # {}
          /\ calls' = [calls EXCEPT ![c].pc = "done", ![c].result = "conflict"]
       \/ /\ FindByKey(CurrentKey(c)) = {}
          /\ calls' = [calls EXCEPT ![c].pc = "save"]
    /\ UNCHANGED <<db, jobs, crashes>>

\* createSubmission: create + save of the new row in status pending.  The
\* unique index rejects a key inserted since the findOne; the error is not
\* caught and ends the request (and a batch) with a 500.
CreateSave(c) ==
    /\ calls[c].pc = "save"
    /\ \/ /\ InsertViolatesUnique(CurrentKey(c))
          /\ calls' = [calls EXCEPT ![c].pc = "done",
                                    ![c].result = "uniqueViolation"]
          /\ UNCHANGED db
       \/ /\ ~InsertViolatesUnique(CurrentKey(c))
          /\ Insert(CurrentKey(c))
          /\ calls' = [calls EXCEPT ![c].pc = "enqueue",
                                    ![c].created = Append(@, NextId)]
    /\ UNCHANGED <<jobs, crashes>>

\* Where a call goes once createSubmission has returned: the next dto of a
\* batch, the batch job, or the response of a single request.
AfterCreate(cl) ==
    CASE cl.op = "batch" /\ cl.i < Len(cl.keys) ->
              [cl EXCEPT !.pc = "find", !.i = @ + 1]
      [] cl.op = "batch" -> [cl EXCEPT !.pc = "enqueueBatch"]
      [] OTHER -> [cl EXCEPT !.pc = "done", !.result = "ok"]

\* createSubmission: queue.add('submit-single', { submissionId }).  The row
\* is already committed; if add rejects, the row stays pending with no job.
CreateEnqueue(c) ==
    /\ calls[c].pc = "enqueue"
    /\ \/ /\ AddJob("single", <<calls[c].created[Len(calls[c].created)]>>)
          /\ calls' = [calls EXCEPT ![c] = AfterCreate(@)]
       \/ /\ QueueMayFail
          /\ calls' = [calls EXCEPT ![c].pc = "done", ![c].result = "queueError"]
          /\ UNCHANGED jobs
    /\ UNCHANGED <<db, crashes>>

\* createBatch: after every dto, queue.add('submit-batch', { submissionIds }).
CreateBatchEnqueue(c) ==
    /\ calls[c].pc = "enqueueBatch"
    /\ \/ /\ AddJob("batch", calls[c].created)
          /\ calls' = [calls EXCEPT ![c].pc = "done", ![c].result = "ok"]
       \/ /\ QueueMayFail
          /\ calls' = [calls EXCEPT ![c].pc = "done", ![c].result = "queueError"]
          /\ UNCHANGED jobs
    /\ UNCHANGED <<db, crashes>>
=============================================================================

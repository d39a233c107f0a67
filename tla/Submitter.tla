------------------------------ MODULE Submitter ------------------------------
(***************************************************************************)
(* The submission engine: concurrent requests to SubmitterService, the    *)
(* Bull queue `submissions`, the SubmissionProcessor handlers, the        *)
(* submissions table and the Stellar ledger, composed over their shared    *)
(* state.                                                                  *)
(***************************************************************************)
EXTENDS SubmitterService, SubmissionProcessor

vars == <<db, jobs, crashes, calls, ledger>>

Terminal == {"completed", "failed"}

TypeOK ==
    /\ db \in Seq(SubmissionRecord)
    /\ ledger \in Seq(DOMAIN db)
    /\ crashes \in 0..MaxCrashes
    /\ calls \in [Calls -> [pc: CallPc, op: {"none", "single", "batch"},
                            keys: Seq(Keys), i: Nat \ {0},
                            created: Seq(DOMAIN db), result: CallResult]]
    /\ \A j \in DOMAIN jobs :
          /\ jobs[j].kind \in {"single", "batch"}
          /\ jobs[j].ids \in Seq(DOMAIN db)
          /\ jobs[j].state \in JobState
          /\ jobs[j].stalls \in 0..MaxStalledCount + 1
          /\ jobs[j].pc \in HandlerPc
          /\ jobs[j].snaps \in Seq(SubmissionRecord)
          /\ jobs[j].hashes \in Seq(TxHash \cup {NULL})

Init ==
    /\ db = <<>>
    /\ jobs = <<>>
    /\ crashes = 0
    /\ ledger = <<>>
    /\ calls = [c \in Calls |-> IdleCall]

\* A step of request c.
CallStep(c) ==
    \/ CreateFind(c)
    \/ CreateSave(c)
    \/ CreateEnqueue(c)
    \/ CreateBatchEnqueue(c)

\* A step of the worker holding job j, or of Bull on job j.
JobStep(j) ==
    \/ SingleLoad(j)
    \/ SingleSaveProcessing(j)
    \/ SingleSubmit(j)
    \/ SingleSaveCompleted(j)
    \/ BatchLoad(j)
    \/ BatchSubmit(j)
    \/ BatchSaveItem(j)
    \/ JobSettle(j) /\ UNCHANGED <<db, ledger>>

\* The worker holding job j dies.
Crash(j) == WorkerCrash(j) /\ UNCHANGED <<db, ledger>>

\* The service never touches the ledger, nor a worker a request.
Next ==
    \/ \E c \in Calls : (ReceiveRequest(c) \/ CallStep(c)) /\ UNCHANGED ledger
    \/ \E j \in DOMAIN jobs : (JobStep(j) \/ Crash(j)) /\ UNCHANGED calls

(***************************************************************************)
(* Fairness.  Clients need not send requests and workers may crash, so    *)
(* ReceiveRequest and WorkerCrash are not fair.  A request that has begun *)
(* runs on (its awaits all settle), and Bull keeps handing waiting jobs to *)
(* a live worker and recording settled ones, so those steps are weakly     *)
(* fair.  A request adds at most one job per key and one batch job, so    *)
(* 1..MaxJobs covers every job and every row of a behaviour.               *)
(***************************************************************************)
MaxKeysPerRequest ==
    CHOOSE m \in {Len(r.keys) : r \in Requests} :
        \A r \in Requests : Len(r.keys) <= m

MaxJobs == Cardinality(Calls) * (MaxKeysPerRequest + 1)

Fairness ==
    /\ \A c \in Calls : WF_vars(CallStep(c) /\ UNCHANGED ledger)
    /\ \A j \in 1..MaxJobs : WF_vars(j \in DOMAIN jobs /\ JobStep(j) /\ UNCHANGED calls)

Spec == Init /\ [][Next]_vars

FairSpec == Spec /\ Fairness

(***************************************************************************)
(* Properties                                                              *)
(***************************************************************************)

\* A row marked completed names, in transactionHash, a transaction that the
\* ledger applied and that carries that row's own payload, whichever of the
\* single and batch handlers wrote it and whatever stale copies were saved
\* over it in between.
CompletedHoldsOwnTransaction ==
    \A id \in DOMAIN db :
        db[id].status = "completed" =>
            /\ db[id].transactionHash \in DOMAIN ledger
            /\ ledger[db[id].transactionHash] = id

\* Every job the service adds eventually leaves the queue, completed or
\* failed: no handler loops and Bull's single attempt and stalled limit
\* bound the redeliveries.
QueueDrains ==
    <>[](\A j \in DOMAIN jobs : jobs[j].state \in {"completed", "failed"})

(***************************************************************************)
(* Properties the spec states that the code does not keep.                *)
(***************************************************************************)

\* Exactly once (spec 1, 8): the ledger receives each submission's payload
\* at most once.
DeliveredAtMostOnce ==
    \A id \in DOMAIN db :
        Len(SelectSeq(ledger, LAMBDA t : t = id)) <= 1

\* Terminal immutability (spec 3, 8): once completed or failed, no step
\* changes a row's status, transactionHash or retryCount.
TerminalStable ==
    [][\A id \in DOMAIN db :
          db[id].status \in Terminal => db'[id] = db[id]]_vars

\* Retry ceiling (spec 4.2, 8): every stored submission eventually settles
\* as completed or failed.
EventuallySettled ==
    \A id \in 1..MaxJobs :
        (id \in DOMAIN db) ~> (id \in DOMAIN db /\ db[id].status \in Terminal)

\* Batch creation (spec 4.1): a batch request that ends without a storage
\* or queue error has enqueued one aggregate job whose ids are rows for its
\* keys, in order, a reused row standing for a duplicate key.
BatchCoversEveryItem ==
    \A c \in Calls :
        (/\ calls[c].op = "batch" /\ calls[c].pc = "done"
         /\ calls[c].result \in {"ok", "conflict"})
        => \E j \in DOMAIN jobs :
              /\ jobs[j].kind = "batch"
              /\ Len(jobs[j].ids) = Len(calls[c].keys)
              /\ \A n \in 1..Len(calls[c].keys) :
                    db[jobs[j].ids[n]].key = calls[c].keys[n]

\* Duplicate keys (spec 5): a request refused because its key is already
\* stored is answered with Conflict, also when the refusal comes from the
\* unique index rather than from the findOne pre-check.
DuplicateKeyAnsweredConflict ==
    \A c \in Calls :
        calls[c].pc = "done" /\ calls[c].result \notin {"ok", "queueError"}
            => calls[c].result = "conflict"
=============================================================================

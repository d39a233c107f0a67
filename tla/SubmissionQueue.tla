--------------------------- MODULE SubmissionQueue ---------------------------
(***************************************************************************)
(* The Bull queue `submissions` as the submitter uses it: jobs added with  *)
(* no options (so Bull's defaults, attempts = 1), taken by a worker, and   *)
(* finished when the handler's promise settles.  A worker that dies while  *)
(* a job is active loses its lock; Bull's stalled-job check moves the job  *)
(* back to waiting, up to maxStalledCount times, then fails it.           *)
(*                                                                         *)
(* The handler's own state (its pc and the rows it loaded) lives in the    *)
(* job record; SubmissionProcessor gives it meaning.                       *)
(***************************************************************************)
EXTENDS Naturals, Sequences

CONSTANTS
    MaxStalledCount,  \* Bull setting maxStalledCount (default 1)
    MaxCrashes        \* bound on worker crashes in one behaviour

VARIABLES
    jobs,     \* jobs[j]: the j-th job added to the queue
    crashes   \* worker crashes so far

JobState == {"waiting", "active", "completed", "failed"}

\* Handler program counters; "returned" and "threw" are a settled promise
\* that Bull has not yet recorded.
HandlerPc == {"idle", "saveProcessing", "submit", "saveCompleted", "save",
              "returned", "threw"}

\* queue.add(name, data) with no options.
AddJob(kind, ids) ==
    jobs' = Append(jobs, [kind |-> kind, ids |-> ids, state |-> "waiting",
                          stalls |-> 0, pc |-> "idle", snaps |-> <<>>,
                          hashes |-> <<>>, i |-> 1])

\* Bull records the settled handler: a resolved promise completes the job,
\* a rejected one fails it, since attemptsMade (1) has reached attempts (1).
\* Mutant: a rejected handler always re-queued, as with unbounded attempts.
JobSettleRetryForever(j) ==
    /\ jobs[j].state = "active"
    /\ jobs[j].pc \in {"returned", "threw"}
    /\ jobs' = [jobs EXCEPT ![j].state =
                    IF jobs[j].pc = "returned" THEN "completed" ELSE "waiting"]
    /\ UNCHANGED crashes

JobSettle(j) ==
    /\ jobs[j].state = "active"
    /\ jobs[j].pc \in {"returned", "threw"}
    /\ jobs' = [jobs EXCEPT ![j].state =
                    IF jobs[j].pc = "returned" THEN "completed" ELSE "failed"]
    /\ UNCHANGED crashes

\* The worker running job j dies; the job's lock expires and the stalled
\* check either puts it back in the wait list or, past maxStalledCount,
\* fails it.  The handler's in-memory state is lost either way.
WorkerCrash(j) ==
    /\ crashes < MaxCrashes
    /\ jobs[j].state = "active"
    /\ crashes' = crashes + 1
    /\ \/ /\ jobs[j].stalls < MaxStalledCount
          /\ jobs' = [jobs EXCEPT ![j].state = "waiting", ![j].pc = "idle",
                                  ![j].stalls = @ + 1]
       \/ /\ jobs[j].stalls >= MaxStalledCount
          /\ jobs' = [jobs EXCEPT ![j].state = "failed", ![j].pc = "idle",
                                  ![j].stalls = @ + 1]
=============================================================================

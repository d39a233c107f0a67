--------------------------- MODULE AIOrchestration ---------------------------
(***************************************************************************)
(* AIOrchestrationService.scoreUser and executeScoringAsync                *)
(* (compute-bridge/service/ai-orchestration.service.ts).  scoreUser saves  *)
(* a pending row, publishes an event and writes an audit entry, then       *)
(* starts executeScoringAsync without awaiting it and answers at once.    *)
(* The detached task loads the row, saves it retrying, calls the adapter,  *)
(* saves it success and publishes and audits; any rejection inside its     *)
(* try lands in the catch, which sets failed on the same in-memory copy    *)
(* and saves it.  A rejection of the catch itself is only logged.          *)
(*                                                                         *)
(* The event bus and the adapter factory are not in this repository: each *)
(* call is a step that succeeds or, where the cfg allows, rejects.         *)
(* AuditLogService.logEvent is: its save adds an entry to the audit_logs   *)
(* table, or rejects and adds none.  Scores and the HMAC signature are one *)
(* flag, scored;                                                           *)
(* completedAt is kept relative to the Date.now() the signature covers.    *)
(* A process restart drops every in-flight request and detached task.      *)
(***************************************************************************)
EXTENDS Naturals, TLC

CONSTANTS
    Slots,               \* concurrent POST scoring requests
    AdapterOutcomes,     \* subset of {"ok", "error"}: the adapter's answers
    DbMayFail,           \* whether a repository call may reject
    SideEffectsMayFail,  \* whether eventBus.publish / logEvent may reject
    MaxRestarts          \* bound on process restarts

VARIABLES
    rows,       \* ai_results rows: [slot -> [status, scored]]
    req,        \* req[s]: the scoreUser call of slot s
    task,       \* task[s]: the detached executeScoringAsync of slot s
    restarts,   \* process restarts so far
    auditLog    \* audit_logs rows: [slot, eventType]

aiVars == <<rows, req, task, restarts, auditLog>>

AIStatus == {"pending", "retrying", "success", "failed"}
\* signResult signs Date.now(); completedAt = new Date() is read a few
\* statements later, in the same millisecond or a later one.
SignatureStamps == {"sameMs", "laterMs"}

AIRow == [status : AIStatus, scored : BOOLEAN,
          completedAt : {"none"} \cup SignatureStamps]

AuditEventType == {"AI_SCORING_STARTED", "AI_SCORING_COMPLETED", "AI_SCORING_FAILED"}

ReqPc == {"idle", "save", "publish", "audit", "done"}
ReqResult == {"none", "ok", "error", "lost"}
TaskPc == {"none", "load", "saveRetrying", "score", "saveSuccess",
           "publishCompleted", "auditCompleted", "saveFailed",
           "publishFailed", "auditFailed", "done", "lost"}

NoCopy == [status |-> "pending", scored |-> FALSE, completedAt |-> "none"]

\* logEvent(wallet, eventType, ..., resultId): the audit row is saved.
LogEvent(s, ev) == auditLog' = auditLog \cup {[slot |-> s, eventType |-> ev]}

\* Shorthands for a step of the request or of the task.
ReqGoto(s, pc, res) == req' = [req EXCEPT ![s] = [pc |-> pc, result |-> res]]
TaskGoto(s, pc) == task' = [task EXCEPT ![s].pc = pc]

ReceiveScoring(s) ==
    /\ req[s].pc = "idle"
    /\ ReqGoto(s, "save", "none")
    /\ UNCHANGED <<rows, task, restarts, auditLog>>

\* create + save of the pending row (scoreUser); a rejection is a 500.
SaveInitial(s) ==
    /\ req[s].pc = "save"
    /\ \/ /\ rows' = rows @@ (s :> NoCopy)
          /\ ReqGoto(s, "publish", "none")
       \/ /\ DbMayFail
          /\ ReqGoto(s, "done", "error")
          /\ UNCHANGED rows
    /\ UNCHANGED <<task, restarts, auditLog>>

\* eventBus.publish(AIResultCreatedEvent).
PublishCreated(s) ==
    /\ req[s].pc = "publish"
    /\ \/ ReqGoto(s, "audit", "none")
       \/ SideEffectsMayFail /\ ReqGoto(s, "done", "error")
    /\ UNCHANGED <<rows, task, restarts, auditLog>>

\* auditLogService.logEvent(AI_SCORING_STARTED); on success the task is
\* started without await and the pending response returned.
AuditStarted(s) ==
    /\ req[s].pc = "audit"
    /\ \/ /\ ReqGoto(s, "done", "ok")
          /\ task' = [task EXCEPT ![s] = [pc |-> "load", copy |-> NoCopy]]
          /\ LogEvent(s, "AI_SCORING_STARTED")
       \/ /\ SideEffectsMayFail
          /\ ReqGoto(s, "done", "error")
          /\ UNCHANGED <<task, auditLog>>
    /\ UNCHANGED <<rows, restarts>>

\* findOne, outside the try: a rejection only reaches the logger.
TaskLoad(s) ==
    /\ task[s].pc = "load"
    /\ \/ task' = [task EXCEPT ![s] = [pc |-> "saveRetrying", copy |-> rows[s]]]
       \/ DbMayFail /\ TaskGoto(s, "done")
    /\ UNCHANGED <<rows, req, restarts, auditLog>>

\* Mutant: the first save writes PENDING instead of RETRYING.
TaskSaveRetryingAsPending(s) ==
    LET c == [task[s].copy EXCEPT !.status = "pending"] IN
    /\ task[s].pc = "saveRetrying"
    /\ \/ /\ rows' = [rows EXCEPT ![s] = c]
          /\ task' = [task EXCEPT ![s] = [pc |-> "score", copy |-> c]]
       \/ /\ DbMayFail
          /\ task' = [task EXCEPT ![s] = [pc |-> "saveFailed", copy |-> c]]
          /\ UNCHANGED rows
    /\ UNCHANGED <<req, restarts, auditLog>>

\* status = RETRYING and save.
TaskSaveRetrying(s) ==
    LET c == [task[s].copy EXCEPT !.status = "retrying"] IN
    /\ task[s].pc = "saveRetrying"
    /\ \/ /\ rows' = [rows EXCEPT ![s] = c]
          /\ task' = [task EXCEPT ![s] = [pc |-> "score", copy |-> c]]
       \/ /\ DbMayFail
          /\ task' = [task EXCEPT ![s] = [pc |-> "saveFailed", copy |-> c]]
          /\ UNCHANGED rows
    /\ UNCHANGED <<req, restarts, auditLog>>

\* Mutant: the success assignments leave the signature out of the copy.
TaskScoreUnsigned(s) ==
    /\ task[s].pc = "score"
    /\ \/ /\ "ok" \in AdapterOutcomes
          /\ task' = [task EXCEPT ![s] = [pc |-> "saveSuccess",
                                          copy |-> [status |-> "success"]]]
       \/ "error" \in AdapterOutcomes /\ TaskGoto(s, "saveFailed")
    /\ UNCHANGED <<rows, req, restarts, auditLog>>

\* Mutant: an adapter error is swallowed instead of reaching the catch.
TaskScoreSwallowError(s) ==
    /\ task[s].pc = "score"
    /\ \/ /\ "ok" \in AdapterOutcomes
          /\ \E st \in SignatureStamps :
                task' = [task EXCEPT ![s] = [pc |-> "saveSuccess",
                   copy |-> [status |-> "success", scored |-> TRUE,
                             completedAt |-> st]]]
       \/ "error" \in AdapterOutcomes /\ TaskGoto(s, "done")
    /\ UNCHANGED <<rows, req, restarts, auditLog>>

\* executeAIOperationWithFallback, then signResult and the assignments of
\* status SUCCESS, provider, scores, signature and completedAt to the copy;
\* a rejection of the adapter call goes to the catch.
TaskScore(s) ==
    /\ task[s].pc = "score"
    /\ \/ /\ "ok" \in AdapterOutcomes
          /\ \E st \in SignatureStamps :
                task' = [task EXCEPT ![s] = [pc |-> "saveSuccess",
                   copy |-> [status |-> "success", scored |-> TRUE,
                             completedAt |-> st]]]
       \/ "error" \in AdapterOutcomes /\ TaskGoto(s, "saveFailed")
    /\ UNCHANGED <<rows, req, restarts, auditLog>>

\* save of the success row.
TaskSaveSuccess(s) ==
    /\ task[s].pc = "saveSuccess"
    /\ \/ rows' = [rows EXCEPT ![s] = task[s].copy] /\ TaskGoto(s, "publishCompleted")
       \/ DbMayFail /\ TaskGoto(s, "saveFailed") /\ UNCHANGED rows
    /\ UNCHANGED <<req, restarts, auditLog>>

\* eventBus.publish(AIResultCompletedEvent), still inside the try.
TaskPublishCompleted(s) ==
    /\ task[s].pc = "publishCompleted"
    /\ \/ TaskGoto(s, "auditCompleted")
       \/ SideEffectsMayFail /\ TaskGoto(s, "saveFailed")
    /\ UNCHANGED <<rows, req, restarts, auditLog>>

\* Mutant: a rejection of the completed audit is swallowed, as if logEvent
\* were wrapped in a try of its own.
TaskAuditCompletedSwallowed(s) ==
    /\ task[s].pc = "auditCompleted"
    /\ \/ TaskGoto(s, "done") /\ LogEvent(s, "AI_SCORING_COMPLETED")
       \/ SideEffectsMayFail /\ TaskGoto(s, "done") /\ UNCHANGED auditLog
    /\ UNCHANGED <<rows, req, restarts>>

\* logEvent(AI_SCORING_COMPLETED), the last await of the try.
TaskAuditCompleted(s) ==
    /\ task[s].pc = "auditCompleted"
    /\ \/ TaskGoto(s, "done") /\ LogEvent(s, "AI_SCORING_COMPLETED")
       \/ SideEffectsMayFail /\ TaskGoto(s, "saveFailed") /\ UNCHANGED auditLog
    /\ UNCHANGED <<rows, req, restarts>>

\* catch: status = FAILED on the in-memory copy (whatever the try already
\* set on it) and save; a rejection escapes to .catch and is logged.
TaskSaveFailed(s) ==
    LET c == [task[s].copy EXCEPT !.status = "failed"] IN
    /\ task[s].pc = "saveFailed"
    /\ \/ /\ rows' = [rows EXCEPT ![s] = c]
          /\ task' = [task EXCEPT ![s] = [pc |-> "publishFailed", copy |-> c]]
       \/ /\ DbMayFail
          /\ TaskGoto(s, "done")
          /\ UNCHANGED rows
    /\ UNCHANGED <<req, restarts, auditLog>>

\* eventBus.publish(AIResultFailedEvent), then logEvent(AI_SCORING_FAILED),
\* in the catch: a rejection of either escapes to .catch and ends the task.
TaskNotifyFailed(s) ==
    /\ task[s].pc \in {"publishFailed", "auditFailed"}
    /\ \/ task[s].pc = "publishFailed" /\ TaskGoto(s, "auditFailed") /\ UNCHANGED auditLog
       \/ task[s].pc = "auditFailed" /\ TaskGoto(s, "done") /\ LogEvent(s, "AI_SCORING_FAILED")
       \/ SideEffectsMayFail /\ TaskGoto(s, "done") /\ UNCHANGED auditLog
    /\ UNCHANGED <<rows, req, restarts>>

\* The Node process restarts: requests in flight get no answer, detached
\* tasks are gone, the rows stay as they are.
Restart ==
    /\ restarts < MaxRestarts
    /\ \E s \in Slots : req[s].pc \notin {"idle", "done"}
                        \/ task[s].pc \notin {"none", "done", "lost"}
    /\ req' = [s \in Slots |-> IF req[s].pc \in {"idle", "done"} THEN req[s]
                               ELSE [pc |-> "done", result |-> "lost"]]
    /\ task' = [s \in Slots |-> IF task[s].pc \in {"none", "done", "lost"}
                                THEN task[s] ELSE [task[s] EXCEPT !.pc = "lost"]]
    /\ restarts' = restarts + 1
    /\ UNCHANGED <<rows, auditLog>>

\* verifySignature(result): the HMAC over the row's scores and
\* completedAt.getTime() equals the stored signature, which covered the
\* Date.now() of signResult.
VerifySignature(row) == row.scored /\ row.completedAt = "sameMs"

AIInit ==
    /\ rows = << >>
    /\ req = [s \in Slots |-> [pc |-> "idle", result |-> "none"]]
    /\ task = [s \in Slots |-> [pc |-> "none", copy |-> NoCopy]]
    /\ restarts = 0
    /\ auditLog = {}

RequestStep(s) ==
    \/ SaveInitial(s) \/ PublishCreated(s) \/ AuditStarted(s)

TaskStep(s) ==
    \/ TaskLoad(s) \/ TaskSaveRetrying(s) \/ TaskScore(s) \/ TaskSaveSuccess(s)
    \/ TaskPublishCompleted(s) \/ TaskAuditCompleted(s) \/ TaskSaveFailed(s)
    \/ TaskNotifyFailed(s)

AINext ==
    \/ Restart
    \/ \E s \in Slots : ReceiveScoring(s) \/ RequestStep(s) \/ TaskStep(s)

\* Awaited calls of a live process return; requests and restarts are not
\* forced.
AIFairness == \A s \in Slots : WF_aiVars(RequestStep(s)) /\ WF_aiVars(TaskStep(s))

AISpec == AIInit /\ [][AINext]_aiVars
AIFairSpec == AISpec /\ AIFairness

-----------------------------------------------------------------------------
(* Properties                                                              *)

AITypeOK ==
    /\ DOMAIN rows \subseteq Slots
    /\ \A s \in DOMAIN rows : rows[s] \in AIRow
    /\ \A s \in Slots : /\ req[s].pc \in ReqPc /\ req[s].result \in ReqResult
                        /\ task[s].pc \in TaskPc /\ task[s].copy \in AIRow
    /\ restarts \in 0..MaxRestarts
    /\ auditLog \subseteq [slot : Slots, eventType : AuditEventType]

\* The rows refine the abstract lifecycle: retrying is running, and a row
\* that reached success or failed never changes again.
LifecycleStatus ==
    [s \in Slots |-> IF s \notin DOMAIN rows THEN "none"
                     ELSE CASE rows[s].status = "retrying" -> "running"
                            [] OTHER -> rows[s].status]

Lifecycle == INSTANCE ScoringLifecycle WITH status <- LifecycleStatus

\* executeScoringAsync implements the scoring lifecycle: each save moves
\* the row forward and a decided result is final.
ImplementsLifecycle == Lifecycle!LifecycleSpec

\* A scored (signed) result stays a success: nothing after the success save
\* turns it into a failure.
SuccessIsFinal ==
    [][\A s \in DOMAIN rows :
          rows[s].status = "success" => rows'[s].status = "success"]_rows

\* A result the service saved as a success verifies: verifySignature on
\* the stored row accepts the signature executeScoringAsync computed.
SignatureVerifies ==
    \A s \in DOMAIN rows : rows[s].status = "success" => VerifySignature(rows[s])

\* Every result row the service creates ends success or failed.
EveryScoringSettles ==
    \A s \in Slots :
        s \in DOMAIN rows ~> (s \in DOMAIN rows /\
                              rows[s].status \in {"success", "failed"})

\* A request answered with the pending result is eventually decided:
\* the detached task ends the row success or failed, even when publish or
\* the audit log rejects after the success save.
AcceptedScoringSettles ==
    \A s \in Slots :
        req[s].result = "ok" ~> (s \in DOMAIN rows /\
                                 rows[s].status \in {"success", "failed"})

\* The audit trail tells how a scoring ended: an AI_SCORING_COMPLETED
\* entry exists for a result exactly when its task has finished and left
\* the row a success.  A completed audit that rejects must not leave a
\* success row with no entry, and no entry may stand for a row the catch
\* turned into a failure.
AuditTrailMatchesRow ==
    \A s \in Slots :
        [slot |-> s, eventType |-> "AI_SCORING_COMPLETED"] \in auditLog
            <=> /\ task[s].pc = "done"
                /\ s \in DOMAIN rows
                /\ rows[s].status = "success"
=============================================================================

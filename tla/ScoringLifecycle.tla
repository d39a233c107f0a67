--------------------------- MODULE ScoringLifecycle ---------------------------
(***************************************************************************)
(* What an AI scoring result promises its readers (getResult,             *)
(* getUserResults): a result is created pending, may start running, and   *)
(* ends once, either scored (success) or failed; an ended result never     *)
(* changes again.  A result may also stay unfinished: nothing here forces  *)
(* progress.                                                               *)
(***************************************************************************)
CONSTANT Slots          \* the scoring requests

VARIABLE status         \* status[s]: the lifecycle state of request s's result

LifecycleState == {"none", "pending", "running", "success", "failed"}

LifecycleInit == status = [s \in Slots |-> "none"]

Create(s)  == /\ status[s] = "none"
              /\ status' = [status EXCEPT ![s] = "pending"]

Start(s)   == /\ status[s] = "pending"
              /\ status' = [status EXCEPT ![s] = "running"]

Succeed(s) == /\ status[s] = "running"
              /\ status' = [status EXCEPT ![s] = "success"]

Fail(s)    == /\ status[s] \in {"pending", "running"}
              /\ status' = [status EXCEPT ![s] = "failed"]

LifecycleNext == \E s \in Slots : Create(s) \/ Start(s) \/ Succeed(s) \/ Fail(s)

LifecycleSpec == LifecycleInit /\ [][LifecycleNext]_status
=============================================================================

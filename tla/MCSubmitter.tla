----------------------------- MODULE MCSubmitter -----------------------------
(***************************************************************************)
(* Model-checking instance of Submitter: at most two concurrent requests  *)
(* over two idempotency keys, each a single submission or a two-item      *)
(* batch.  Each cfg picks the requests that make its question happen.     *)
(***************************************************************************)
EXTENDS Submitter, TLC

CONSTANTS k1, k2, c1, c2

MCKeys == {k1, k2}
MCCalls == {c1, c2}

SingleRequests == {[op |-> "single", keys |-> <<k>>] : k \in MCKeys}

\* A single submission with key k1.
K1Requests == {[op |-> "single", keys |-> <<k1>>]}

\* A batch of two distinct keys.
BatchRequests == {[op |-> "batch", keys |-> <<k1, k2>>]}

\* A batch that repeats a key, so its second item meets its first.
DuplicateBatchRequests == {[op |-> "batch", keys |-> <<k1, k1>>]}

AllRequests == SingleRequests \cup BatchRequests

\* Requests that meet each other on key k1: two singles racing on one key,
\* a single beside a batch, a batch repeating a key.
IdempotencyRequests ==
    K1Requests \cup BatchRequests \cup DuplicateBatchRequests

\* Singles on either key, two of which may race on one key, and a batch
\* that repeats a key.
QueueRequests == SingleRequests \cup DuplicateBatchRequests
=============================================================================

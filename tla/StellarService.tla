---------------------------- MODULE StellarService ----------------------------
(***************************************************************************)
(* StellarService (submitter/stellar.service.ts) and the ledger behind it. *)
(* The ledger is the sequence of transactions Horizon has applied; a      *)
(* transaction's hash is its position.  One call of submitTransaction ends *)
(* in one of three outcomes:                                               *)
(*   "ok"       the transaction is applied and its hash returned;          *)
(*   "rejected" the call throws and nothing is applied;                    *)
(*   "timeout"  the call throws although the transaction was applied       *)
(*              (Horizon answers 504 while the transaction still lands).   *)
(***************************************************************************)
EXTENDS SubmissionStore

CONSTANT LedgerOutcomes   \* the outcomes the environment may produce

VARIABLE ledger      \* ledger[h]: the submission whose payload tx h carries

Outcome == {"ok", "rejected", "timeout"}

Applied(o) == o \in {"ok", "timeout"}

\* submitTransaction(payload) for submission id with outcome o.
SubmitTransaction(id, o) ==
    ledger' = IF Applied(o) THEN Append(ledger, id) ELSE ledger

\* The ids of a batch whose transactions are applied, in submission order.
RECURSIVE AppliedIds(_, _)
AppliedIds(ids, outs) ==
    IF ids = <<>> THEN <<>>
    ELSE (IF Applied(Head(outs)) THEN <<Head(ids)>> ELSE <<>>)
            \o AppliedIds(Tail(ids), Tail(outs))

\* submitBatch(payloads): submitTransaction on each payload in order; a
\* throwing item is caught and yields null at its position.  The result is
\* the hashes array, relative to the ledger before the call.
\* Mutant: submitBatch without hashes.push(null) in its catch, so the array
\* holds only the hashes returned and shifts left past a failed item.
SubmitBatchHashesWithoutNulls(ids, outs) ==
    LET okAt == SelectSeq([n \in 1..Len(ids) |-> n], LAMBDA n : outs[n] = "ok")
        hash(n) == Len(ledger) + Len(AppliedIds(SubSeq(ids, 1, n), SubSeq(outs, 1, n)))
    IN [n \in 1..Len(ids) |-> IF n <= Len(okAt) THEN hash(okAt[n]) ELSE NULL]

SubmitBatchHashes(ids, outs) ==
    [n \in 1..Len(ids) |->
        IF outs[n] = "ok"
        THEN Len(ledger) + Len(AppliedIds(SubSeq(ids, 1, n), SubSeq(outs, 1, n)))
        ELSE NULL]

SubmitBatch(ids, outs) == ledger' = ledger \o AppliedIds(ids, outs)
=============================================================================

--------------------------- MODULE SubmissionStore ---------------------------
(***************************************************************************)
(* The `submissions` table (entities/submission.entity.ts) and the TypeORM *)
(* repository operations the submitter uses on it.                        *)
(*                                                                         *)
(* A row is identified by its position in `db` (the generated uuid is     *)
(* abstracted to a counter).  The payload is immutable and one per row, so *)
(* the row id stands for it; errorMessage, completedAt and the timestamps  *)
(* are diagnostic and left out.                                            *)
(***************************************************************************)
EXTENDS Naturals, Sequences, FiniteSets

CONSTANTS
    Keys,        \* idempotency keys clients may send
    MaxRetries,  \* default of the maxRetries column (never set by the code)
    NULL         \* the SQL NULL of a nullable column

VARIABLE db      \* db[id]: the persisted row with that id

Status == {"pending", "processing", "completed", "failed", "retrying"}

TxHash == Nat \ {0}

SubmissionRecord ==
    [key: Keys, status: Status, transactionHash: TxHash \cup {NULL},
     retryCount: Nat]

\* A freshly created entity: the column defaults of the entity.
NewSubmission(k) ==
    [key |-> k, status |-> "pending", transactionHash |-> NULL, retryCount |-> 0]

\* findOne({ where: { idempotencyKey } }): the rows holding key k.
FindByKey(k) == {id \in DOMAIN db : db[id].key = k}

\* save() of a new entity is an INSERT; the unique index on idempotencyKey
\* rejects it when a row with the key already exists.
InsertViolatesUnique(k) == FindByKey(k) # {}

Insert(k) == db' = Append(db, NewSubmission(k))

\* The id the next INSERT receives.
NextId == Len(db) + 1

\* save() of a loaded entity: TypeORM compares the in-memory entity with the
\* row as it is now and writes every column that differs, so the row ends
\* equal to the in-memory copy, including columns some other writer changed
\* since the copy was loaded.
Save(id, rec) == db' = [db EXCEPT ![id] = rec]
=============================================================================

----------------------------- MODULE AgentIndexer -----------------------------
(***************************************************************************)
(* The agent indexer's writes (IndexerService in agent/dto/                *)
(* search-agent.dto.ts, the version that queries the repository directly)  *)
(* over the agents table.                                                  *)
(*                                                                         *)
(* create inserts one row; the unique index on name rejects a second row   *)
(* of the same name.  updatePerformanceMetrics is two steps of one request *)
(* with an await between them: findOne loads the row, and save writes the  *)
(* performance_metrics the request merged into its copy.  Concurrent       *)
(* requests interleave at those awaits; each keeps its copy in its record. *)
(* A metrics patch is one metric key and its new value.                    *)
(***************************************************************************)
EXTENDS Naturals, Sequences, TLC

CONSTANTS
    Ids,            \* uuids the primary key generator may hand out
    Names,          \* agent names a create request may carry
    MetricKeys,     \* total_tasks, success_rate, ...
    MetricValues,   \* values a metric may be set to
    NULL,
    MaxCreates,     \* bound on create requests
    MaxUpdates      \* bound on updatePerformanceMetrics requests

VARIABLES
    agents,         \* the agents table: id -> row, or NULL where no row
    updates,        \* updatePerformanceMetrics requests, in arrival order
    creates         \* answers of the create requests, in arrival order

vars == <<agents, updates, creates>>

\* A row: its unique name and its performance_metrics jsonb, a partial
\* function from metric keys to values.
Metrics == UNION {[ks -> MetricValues] : ks \in SUBSET MetricKeys}
Row == [name : Names, performance_metrics : Metrics]

\* A pending update: the request's id and patch, where it is (load: before
\* findOne, save: before save, done / notfound: answered) and its copy.
UpdatePcs == {"load", "save", "done", "notfound"}

IndexerTypeOK ==
    /\ agents \in [Ids -> Row \cup {NULL}]
    /\ \A i \in DOMAIN updates :
          /\ updates[i].id \in Ids
          /\ updates[i].patch \in Metrics
          /\ updates[i].pc \in UpdatePcs
          /\ updates[i].copy \in Row \cup {NULL}
    /\ creates \in Seq({"created", "unique_violation"})

\* { ...agent.performance_metrics, ...metrics }: the patch's keys win.
MergeMetrics(old, patch) ==
    [k \in DOMAIN old \cup DOMAIN patch |-> IF k \in DOMAIN patch THEN patch[k] ELSE old[k]]

\* The unique index on name: a row of that name exists.
NameTaken(name) == \E id \in Ids : agents[id] # NULL /\ agents[id].name = name

\* create(dto): repository.create, then save, an INSERT with a fresh uuid
\* and the column default {} for performance_metrics.  The unique index on
\* name fails the INSERT when a row of that name exists.
Create(name) ==
    /\ Len(creates) < MaxCreates
    /\ \/ /\ NameTaken(name)
          /\ creates' = Append(creates, "unique_violation")
          /\ UNCHANGED agents
       \/ /\ ~NameTaken(name)
          /\ \E id \in Ids :
                /\ agents[id] = NULL
                /\ agents' = [agents EXCEPT ![id] =
                                [name |-> name, performance_metrics |-> << >>]]
          /\ creates' = Append(creates, "created")
    /\ UNCHANGED updates

\* updatePerformanceMetrics(id, metrics) is called.
RequestUpdate(id, k, v) ==
    /\ Len(updates) < MaxUpdates
    /\ updates' = Append(updates, [id |-> id, patch |-> (k :> v), pc |-> "load",
                                   copy |-> NULL])
    /\ UNCHANGED <<agents, creates>>

\* findOne(id): agentRepository.findOne; NotFoundException when no row.
FindOne(i) ==
    LET row == agents[updates[i].id] IN
    /\ updates[i].pc = "load"
    /\ updates' = [updates EXCEPT ![i].pc = IF row = NULL THEN "notfound" ELSE "save",
                                  ![i].copy = row]
    /\ UNCHANGED <<agents, creates>>

\* agent.performance_metrics = merge, then save(agent): TypeORM compares the
\* copy with the row and UPDATEs the column that differs, the whole jsonb.
Save(i) ==
    LET u == updates[i] IN
    /\ u.pc = "save"
    /\ agents' = [agents EXCEPT ![u.id].performance_metrics =
                     MergeMetrics(u.copy.performance_metrics, u.patch)]
    /\ updates' = [updates EXCEPT ![i].pc = "done"]
    /\ UNCHANGED creates

IndexerInit ==
    /\ agents = [id \in Ids |-> NULL]
    /\ updates = << >>
    /\ creates = << >>

IndexerNext ==
    \/ \E name \in Names : Create(name)
    \/ \E id \in Ids, k \in MetricKeys, v \in MetricValues : RequestUpdate(id, k, v)
    \/ \E i \in DOMAIN updates : FindOne(i) \/ Save(i)

IndexerSpec == IndexerInit /\ [][IndexerNext]_vars

-----------------------------------------------------------------------------
(* Properties                                                              *)

\* A metric an answered updatePerformanceMetrics set stays in the row,
\* unless another answered update of that agent set the same metric: two
\* concurrent updates of different metrics must not undo each other.
MetricsNotLost ==
    \A i \in DOMAIN updates :
        LET u == updates[i] IN
        u.pc = "done" =>
            \A k \in DOMAIN u.patch :
                \/ k \in DOMAIN agents[u.id].performance_metrics
                   /\ agents[u.id].performance_metrics[k] = u.patch[k]
                \/ \E j \in DOMAIN updates :
                      /\ j # i
                      /\ updates[j].pc = "done"
                      /\ updates[j].id = u.id
                      /\ k \in DOMAIN updates[j].patch

=============================================================================

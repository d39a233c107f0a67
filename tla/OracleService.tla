---------------------------- MODULE OracleService ----------------------------
(***************************************************************************)
(* OracleService.updateSnapshot (oracle/oracle.service.ts), reached by     *)
(* POST /oracle/update.  Each request slot verifies the signer and the     *)
(* timestamp, then runs one database transaction: save the snapshot, then  *)
(* upsert oracle_latest_prices once per feed in the order of dto.feeds.    *)
(* Postgres holds the row lock an upsert takes until the transaction ends, *)
(* keeps the writes invisible until commit, and aborts one transaction of  *)
(* a wait-for cycle (deadlock detection).                                  *)
(*                                                                         *)
(* Prices are abstracted away: a latest row records the timestamp and the  *)
(* snapshot (the request slot) that wrote it.                             *)
(***************************************************************************)
EXTENDS Naturals, Sequences, FiniteSets, Relation, TLC

CONSTANTS
    Pairs,            \* trading pairs, e.g. "XLM/USD"
    Updates,          \* concurrent POST /oracle/update requests
    Requests,         \* bodies: [ts: timestamp, feeds: Seq(Pairs), signer]
    OracleSigner,     \* the address in ORACLE_SIGNER_ADDRESS
    SignerConfigured, \* whether ORACLE_SIGNER_ADDRESS is set
    MaxClockSkew,     \* ORACLE_MAX_CLOCK_SKEW_MS, in clock units
    MaxTime,          \* bound on the server clock
    NULL

VARIABLES
    now,        \* Date.now() of the server
    snapshots,  \* committed oracle_snapshots rows: [slot -> request]
    latest,     \* committed oracle_latest_prices: [pair -> [ts, snap] or NULL]
    locks,      \* locks[p]: the transaction holding pair p's row, or NULL
    upd         \* upd[u]: the state of request u

oracleVars == <<now, snapshots, latest, locks, upd>>

UpdPc == {"idle", "snapshot", "upsert", "commit", "done"}
UpdResult == {"none", "ok", "unauthorized", "badRequest", "deadlock"}

IdleUpdate == [pc |-> "idle", req |-> NULL, i |-> 1, result |-> "none"]

LatestRow == [ts : Nat, snap : Updates]

\* The pair the upsert loop of u is at.
CurrentPair(u) == upd[u].req.feeds[upd[u].i]

\* The signer check: skipped altogether when no signer address is set.
SignerAccepted(r) == ~SignerConfigured \/ r.signer = OracleSigner

\* validateTimestamp: |now - t| > maxClockSkewMs throws.
WithinSkew(t) == (IF now >= t THEN now - t ELSE t - now) <= MaxClockSkew

\* u waits on v: u's next upsert is on a row v holds.
WaitsOn(u, v) ==
    /\ u # v
    /\ upd[u].pc = "upsert"
    /\ locks[CurrentPair(u)] = v

WaitFor == [e \in Updates \X Updates |-> WaitsOn(e[1], e[2])]

\* u is on a cycle of the wait-for graph.
Deadlocked(u) == TransitiveClosure(WaitFor, Updates)[u, u]

\* The HTTP request arrives; verifySignature and validateTimestamp run
\* before the transaction is opened.
ReceiveUpdate(u) ==
    /\ upd[u].pc = "idle"
    /\ \E r \in Requests :
          upd' = [upd EXCEPT ![u] =
                    CASE ~SignerAccepted(r) -> [@ EXCEPT !.req = r, !.pc = "done",
                                                   !.result = "unauthorized"]
                      [] ~WithinSkew(r.ts)  -> [@ EXCEPT !.req = r, !.pc = "done",
                                                   !.result = "badRequest"]
                      [] OTHER              -> [@ EXCEPT !.req = r,
                                                   !.pc = "snapshot"]]
    /\ UNCHANGED <<now, snapshots, latest, locks>>

\* Mutant: the snapshot saved through the repository, outside the
\* transaction, so it is committed at once.
SaveSnapshotAutocommit(u) ==
    /\ upd[u].pc = "snapshot"
    /\ snapshots' = snapshots @@ (u :> upd[u].req)
    /\ upd' = [upd EXCEPT ![u].pc = IF upd[u].req.feeds = <<>> THEN "commit"
                                                               ELSE "upsert"]
    /\ UNCHANGED <<now, latest, locks>>

\* manager.save(snapshot): inserted, visible only at commit.
SaveSnapshot(u) ==
    /\ upd[u].pc = "snapshot"
    /\ upd' = [upd EXCEPT ![u].pc = IF upd[u].req.feeds = <<>> THEN "commit"
                                                               ELSE "upsert"]
    /\ UNCHANGED <<now, snapshots, latest, locks>>

\* Mutant: the loop runs one feed past the end of dto.feeds.
UpsertLatestOffByOne(u) ==
    /\ upd[u].pc = "upsert"
    /\ locks[CurrentPair(u)] \in {NULL, u}
    /\ locks' = [locks EXCEPT ![CurrentPair(u)] = u]
    /\ upd' = [upd EXCEPT ![u].i = @ + 1,
                          ![u].pc = IF upd[u].i > Len(upd[u].req.feeds)
                                    THEN "commit" ELSE "upsert"]
    /\ UNCHANGED <<now, snapshots, latest>>

\* Mutant: each upsert autocommits instead of joining the transaction.
UpsertLatestAutocommit(u) ==
    /\ upd[u].pc = "upsert"
    /\ locks[CurrentPair(u)] \in {NULL, u}
    /\ latest' = [latest EXCEPT ![CurrentPair(u)] =
                     [ts |-> upd[u].req.ts, snap |-> u]]
    /\ upd' = [upd EXCEPT ![u].i = @ + 1,
                          ![u].pc = IF upd[u].i = Len(upd[u].req.feeds)
                                    THEN "commit" ELSE "upsert"]
    /\ UNCHANGED <<now, snapshots, locks>>

\* One INSERT ... ON CONFLICT (pair) DO UPDATE: it takes the pair's row
\* lock, waiting while another open transaction holds it.
UpsertLatest(u) ==
    /\ upd[u].pc = "upsert"
    /\ locks[CurrentPair(u)] \in {NULL, u}
    /\ locks' = [locks EXCEPT ![CurrentPair(u)] = u]
    /\ upd' = [upd EXCEPT ![u].i = @ + 1,
                          ![u].pc = IF upd[u].i = Len(upd[u].req.feeds)
                                    THEN "commit" ELSE "upsert"]
    /\ UNCHANGED <<now, snapshots, latest>>

\* Mutant: the commit does not release the row locks.
CommitUpdateKeepLocks(u) ==
    LET r == upd[u].req IN
    /\ upd[u].pc = "commit"
    /\ snapshots' = snapshots @@ (u :> r)
    /\ latest' = [p \in Pairs |->
                    IF \E n \in DOMAIN r.feeds : r.feeds[n] = p
                    THEN [ts |-> r.ts, snap |-> u] ELSE latest[p]]
    /\ upd' = [upd EXCEPT ![u].pc = "done", ![u].result = "ok"]
    /\ UNCHANGED <<now, locks>>

\* The transaction commits: the snapshot and every upserted row become
\* visible at once, each upsert overwriting the pair's row whatever its
\* timestamp, and the locks are released.
CommitUpdate(u) ==
    LET r == upd[u].req IN
    /\ upd[u].pc = "commit"
    /\ snapshots' = snapshots @@ (u :> r)
    /\ latest' = [p \in Pairs |->
                    IF \E n \in DOMAIN r.feeds : r.feeds[n] = p
                    THEN [ts |-> r.ts, snap |-> u] ELSE latest[p]]
    /\ locks' = [p \in Pairs |-> IF locks[p] = u THEN NULL ELSE locks[p]]
    /\ upd' = [upd EXCEPT ![u].pc = "done", ![u].result = "ok"]
    /\ UNCHANGED now

\* Postgres aborts a transaction on a wait-for cycle (error 40P01): its
\* writes are rolled back, its locks released, and updateSnapshot rejects.
AbortDeadlocked(u) ==
    /\ Deadlocked(u)
    /\ locks' = [p \in Pairs |-> IF locks[p] = u THEN NULL ELSE locks[p]]
    /\ upd' = [upd EXCEPT ![u].pc = "done", ![u].result = "deadlock"]
    /\ UNCHANGED <<now, snapshots, latest>>

\* The server clock advances.
Tick ==
    /\ now < MaxTime
    /\ now' = now + 1
    /\ UNCHANGED <<snapshots, latest, locks, upd>>

OracleInit ==
    /\ now = 0
    /\ snapshots = << >>
    /\ latest = [p \in Pairs |-> NULL]
    /\ locks = [p \in Pairs |-> NULL]
    /\ upd = [u \in Updates |-> IdleUpdate]

UpdateStep(u) ==
    \/ SaveSnapshot(u)
    \/ UpsertLatest(u)
    \/ CommitUpdate(u)
    \/ AbortDeadlocked(u)

OracleNext ==
    \/ Tick
    \/ \E u \in Updates : ReceiveUpdate(u) \/ UpdateStep(u)

\* A request in flight is served: the awaited database calls return, and
\* Postgres' deadlock detector runs.  Requests and the clock are not forced.
OracleFairness == \A u \in Updates : WF_oracleVars(UpdateStep(u))

OracleSpec == OracleInit /\ [][OracleNext]_oracleVars
OracleFairSpec == OracleSpec /\ OracleFairness

-----------------------------------------------------------------------------
(* Properties                                                              *)

OracleTypeOK ==
    /\ now \in 0..MaxTime
    /\ DOMAIN snapshots \subseteq Updates
    /\ latest \in [Pairs -> LatestRow \cup {NULL}]
    /\ locks \in [Pairs -> Updates \cup {NULL}]
    /\ \A u \in Updates : /\ upd[u].pc \in UpdPc
                          /\ upd[u].result \in UpdResult
                          /\ upd[u].req \in Requests \cup {NULL}
                          /\ upd[u].pc = "upsert" =>
                                upd[u].i \in DOMAIN upd[u].req.feeds

\* The transaction is all-or-nothing: every latest price names a committed
\* snapshot that carries that pair at that timestamp, so a rolled-back
\* update (a deadlock abort) never leaves a price behind.
LatestFromCommittedSnapshot ==
    \A p \in Pairs :
        latest[p] # NULL =>
            /\ latest[p].snap \in DOMAIN snapshots
            /\ snapshots[latest[p].snap].ts = latest[p].ts
            /\ \E n \in DOMAIN snapshots[latest[p].snap].feeds :
                  snapshots[latest[p].snap].feeds[n] = p

\* The answer tells the truth about the store: an update is in
\* oracle_snapshots exactly when its request was answered with success.  A
\* request aborted as a deadlock victim, or still waiting on a row lock,
\* has left no snapshot, and one answered ok left its snapshot; this needs
\* the snapshot save and the upserts to share the one transaction.
AnsweredAsStored ==
    \A u \in Updates :
        u \in DOMAIN snapshots <=> (upd[u].pc = "done" /\ upd[u].result = "ok")

\* Only the configured oracle signer's updates are stored.
StoredOnlyFromSigner ==
    \A u \in DOMAIN snapshots : snapshots[u].signer = OracleSigner

\* The latest price of a pair never moves to an older timestamp: a delayed
\* update must not overwrite a newer price (the upsert's overwrite list).
LatestNeverRegresses ==
    [][\A p \in Pairs :
          latest[p] # NULL => latest'[p].ts >= latest[p].ts]_latest

\* Every request is answered: no transaction waits forever on a row lock.
EveryUpdateAnswered ==
    \A u \in Updates : upd[u].pc # "idle" ~> upd[u].pc = "done"

\* A signed, fresh update is stored: it is not lost to a deadlock with a
\* concurrent update of the same pairs.
ValidUpdateStored ==
    \A u \in Updates :
        upd[u].pc = "snapshot" ~> u \in DOMAIN snapshots
=============================================================================

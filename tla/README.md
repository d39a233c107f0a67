# TLA+ models of luminarytrade

This directory holds TLA+ models of luminarytrade (`src/backend` and
`src/frontend`), checked with TLC. Each module models one part of the code.
Each definition names the code it translates in the `map` of `PROJECT.json`.
`spec.md` describes the core, the idempotent transaction submitter. The other
parts are modelled from their source.

To check one configuration, run it from this directory:

    tlc -workers 2 -config MCSubmitter_engine.cfg MCSubmitter

## The system and its parts

| Part | Source | Module | Status |
|---|---|---|---|
| Submission store | submission entity (`src/unnamed/part_003`) | `SubmissionStore` | modelled |
| Submission service and controller | `submitter/submitter.service.ts`, controller in `submission.processor.ts` | `SubmitterService` | modelled |
| Submission processor | `submitter/submission.processor.ts` | `SubmissionProcessor` | modelled |
| Stellar service and ledger | `submitter/stellar.service.ts` | `StellarService` | modelled |
| Bull queue `submissions` | `submitter/submitter.module.ts` | `SubmissionQueue` | modelled (environment) |
| Submitter composition | all of the above | `Submitter` | modelled |
| Oracle price feed | `oracle/oracle.service.ts`, entities | `OracleService` | modelled |
| AI scoring orchestration | `compute-bridge/service/ai-orchestration.service.ts` | `AIOrchestration`, refining `ScoringLifecycle` | modelled |
| Value objects | `common/value-objects/*.vo.ts` | `ValueObjects` | partly |
| Decorator composition | `decorator-composition/**` | `DecoratorComposition` | partly |
| Wallet sign-in | `auth/auth.service.ts` | `WalletAuth` | modelled |
| Wallet providers | `frontend/src/providers/*Provider.tsx` | `BaseWalletProvider`, `StellarWalletProvider`, `MetaMaskProvider` | modelled |
| Wallet factory | `frontend/src/providers/WalletFactory.ts` | `WalletProviders` | modelled |
| Query DSL | `common/query-dsl/aggregate-builder.ts`, query builder (`src/unnamed/part_010`) | `AggregateBuilder`, `QueryBuilder` | partly |
| Audit log writes | `AuditLogService.logEvent` (in `audit/audit-log.controller.ts`) | `AIOrchestration` | partly |
| Agent indexer | `agent/dto/search-agent.dto.ts` (`IndexerService`) | `AgentIndexer` | partly |
| Worker queues, audit log, simulator, dashboard, mappers, validation | various | none | not modelled (below) |

The parts interact in two places, and both are modelled as compositions:
- **The submitter.** The service inserts rows and adds Bull jobs. The queue
  hands the jobs to the processor, and the processor calls the ledger and
  saves the rows. `Submitter` composes the five modules over their shared
  state.
- **The frontend providers.** They all keep their connection state through
  `BaseWalletProvider`'s setters. The Stellar and MetaMask modules extend
  it. `WalletFactory` creates one instance of each, and `WalletProviders`
  runs the two side by side: each one is its module `INSTANCE`d with renamed
  variables, and a step of the page is a step of one provider that leaves
  the other unchanged.

The oracle, the AI orchestration, the value objects, the decorators and the
sign-in share no state with the submitter or with each other.

## Modules

Every module has a `VARIABLES` block for its state. It has one action per
operation: a handler, or the code between two `await`s. It defines `Init`,
`Next` and a specification. Each `MC*` module gives the constants
model values for TLC. Where every constant is a plain set of model values
(`AgentIndexer`, `AggregateBuilder`, `QueryBuilder`, `WalletAuth`), the
`.cfg` gives them directly and checks the module itself.

- **Submitter** (`SubmissionStore`, `SubmissionQueue`, `StellarService`,
  `SubmitterService`, `SubmissionProcessor`, `Submitter`). One module per
  component, composed in `Submitter`. A handler's
  loaded rows live in its job record. So a copy loaded before another
  handler's save is stale when written back. The ledger answers `ok`,
  `rejected`, or `timeout` (applied, but the call throws).
- **OracleService.** `updateSnapshot` verifies the signer and the clock
  skew. It then runs one transaction: save the snapshot, then upsert the
  latest price per feed in `dto.feeds` order. Row locks are held to commit.
  Two transactions that wait on each other are found with
  `Relation!TransitiveClosure`, and one of them is aborted, as Postgres
  does.
- **AIOrchestration.** `scoreUser` saves a pending row, publishes and
  audits, and answers. The detached `executeScoringAsync` loads the row,
  saves it retrying, scores, saves success, publishes and audits. A
  rejection sends it to the catch, which saves FAILED on the same copy. A
  restart drops in-flight work. `ScoringLifecycle` is the abstract promise:
  none, then pending, then running, then success or failed, and never back.
  `Lifecycle == INSTANCE ScoringLifecycle WITH status <- LifecycleStatus`
  maps each row to it (`retrying` is `running`). `signResult` signs
  `Date.now()`, but `completedAt` is read later with `new Date()`. The
  model keeps `completedAt` only relative to the signed time: the same
  millisecond or a later one. `VerifySignature` is `verifySignature`,
  which recomputes the signature from `completedAt.getTime()`.
  `AuditLogService.logEvent`, the service's only writer of audit rows, is
  composed in: `auditLog` holds the saved `[slot, eventType]` entries, and
  each of the three `logEvent` calls either adds its entry or rejects.
- **ValueObjects.** Percentage in tenths of a percent: `create`, `fromJSON`,
  `fromString`, `add`, `subtract`, and `toFraction` with the `RECURSIVE`
  Euclid loop. Timestamp: `create`, `now`, `fromUnix`, `add`, `subtract`,
  against a clock that advances. Hash and Signature: `create`, and the
  `fromBuffer(toBuffer())` round trip. A hex string is abstracted to its
  length, whether it is hexadecimal, and whether it has upper-case digits.
- **DecoratorComposition.** The decorators written above one method are
  applied bottom-up, as TypeScript does. Each one buffers its entry and
  appends it to the stack. Depending on the decorator, it also appends
  guards, overwrites `SetMetadata`, or wraps `descriptor.value`. Then one
  request runs through `CompositionGuard`, the guards in `GUARDS_METADATA`
  order, `CompositionInterceptor`, the wrappers from the outermost in, the
  handler, and the `map(mapper)`. The registry's merge and sort are
  operators (`MergeStack`, `ComposedStack`). The registry files entries
  under the method's property key, and the interceptor and
  `CompositionGuard` look them up by `handler.name`. `handlerName` is
  `"wrapper"` once `@Log` has replaced `descriptor.value` with its
  `const wrapper = async function`; `Registered` is then empty. The
  out-of-repository `@Cacheable` is taken to keep the name.
- **WalletAuth.** `validateWallet` followed by `login`, over requests taken
  from the wire. Signed requests can be sent again by anyone who saw them,
  and anyone can craft unsigned ones.
- **StellarWalletProvider.** `connect` awaits the key and the network, then
  starts a 2 s poller whose handle overwrites `_pollInterval`. Each poll
  awaits `isConnected` and then `getPublicKey`. `disconnect` clears the
  handle it holds. Freighter locks, unlocks and switches account at any time.
- **MetaMaskProvider.** `connect`, `disconnect`, and the
  `accountsChanged` and `disconnect` handlers. `regs` counts how many times
  the handlers are registered on `window.ethereum`.
- **WalletProviders.** The two providers `WalletFactory.getAllProviders`
  builds, composed. Only the Stellar part carries fairness.
- **AggregateBuilder.** `count`, `sum`, `avg`, `min`, `max`, `groupBy`,
  `having` and `toQuery` of the aggregation builder. A property selector
  `x => x.f` is the field it reads. `extractProperty` applies it to the
  empty object `{} as T`, modelled as `DummyEntity == << >>`, so it yields
  `undefined`. `built` keeps the last query together with the builder state
  it was built from.
- **QueryBuilder.** `paginate`, `skip` and `take` over one
  `PaginationSpec`, the `skip`/`take` that `toQuery` derives from it, and
  the meta of `getManyAndCount`. Beside the builder, `asked` keeps the
  offset and row count the caller's calls named. `NaN` and `Infinity` of
  `Math.ceil(total / 0)` are kept as such.
- **AgentIndexer.** The writes of `IndexerService` over the agents table.
  `create` is one INSERT, which the unique index on `name` may reject.
  `updatePerformanceMetrics` is split at its `await`: `FindOne` copies the
  row into the request's record, and `Save` writes the copy's merged
  `performance_metrics` back.

## Runs

These are the 12 runs listed in `PROJECT.json`:

| Run | Module / cfg | Checks | Expect |
|---|---|---|---|
| engine | MCSubmitter_engine | `TypeOK`, `CompletedHoldsOwnTransaction` | pass |
| queue | MCSubmitter_queue | `QueueDrains` | pass |
| batch_double | MCSubmitter_batch_double | `DeliveredAtMostOnce` | violation |
| retry | MCSubmitter_retry | `EventuallySettled` | violation |
| oracle | MCOracle_oracle | `OracleTypeOK`, `LatestFromCommittedSnapshot`, `AnsweredAsStored`, `EveryUpdateAnswered` | pass |
| oracle_regress | MCOracle_regress | `LatestNeverRegresses` | violation |
| ai_lifecycle | MCAIOrchestration_lifecycle | `AITypeOK`, `ImplementsLifecycle` (refinement) | pass |
| ai_settles | MCAIOrchestration_settles | `AuditTrailMatchesRow`, `AcceptedScoringSettles` | pass |
| ai_success_final | MCAIOrchestration_success_final | `SuccessIsFinal` | violation |
| wallet_providers | MCWalletProviders_both | `ConnectedOnSelectedAccount`, `ProviderTracksWallet` | pass |
| value_objects | MCValueObjects_vo | `FractionReduced` | pass |
| decorator_order | DecoratorComposition_order | `PhasesRunInPriorityOrder` | violation |

What the passing runs show:
- **engine.** A batch's single and batch jobs race over the same rows,
  with ledger rejections and timeouts, a failing `queue.add` and a worker
  crash. A completed row still names the ledger entry of its own payload.
- **queue.** Two requests race on one key, or a batch repeats a key. Under
  fair workers every job leaves the queue.
- **oracle.** Two concurrent updates run in either feed order, so they can
  deadlock. A latest price only ever comes from a committed snapshot. A
  snapshot is stored exactly when its request was answered with success:
  a deadlock victim, or a request still waiting on a row lock, has left
  nothing. Every request is answered, a deadlock abort included.
- **ai_lifecycle.** The database may fail and the process may restart.
  Every result row still follows the abstract lifecycle. This is the
  refinement check.
- **ai_settles.** A request answered with the pending result ends success
  or failed, even when the adapter, publish or the audit log fails. The
  audit log holds an `AI_SCORING_COMPLETED` entry for a result exactly when
  its task finished with the row a success. The completed audit that
  rejects sends the task to the catch, which marks the row failed, and no
  entry is left behind.
- **wallet_providers.** Both providers of the factory run together, with
  up to two connect clicks each. The Freighter provider follows the wallet:
  it ends disconnected while the wallet stays locked, and on the wallet's
  account while the wallet stays on one, across overlapping polls and
  reconnects. While connected, the MetaMask provider shows MetaMask's
  selected account.
- **value_objects.** Percentages are built by any sequence of create, parse,
  add and subtract at the range edges. `toFraction` of the held one is
  `round(value)/100` in lowest terms. `GreatestCommonDivisor` is checked
  against `GcdRef`, the largest common divisor by definition.

The five violations are the findings in `PROJECT.json`:
1. **batch_double.** Each batch item is submitted twice.
2. **retry.** A failed ledger call leaves the row `processing` forever.
3. **oracle_regress.** A late commit of an older update moves the latest
   price back in time.
4. **ai_success_final.** A publish or audit failure after the success save
   overwrites the scored row with FAILED.
5. **decorator_order.** `constants.ts` says a lower priority number runs
   first. The decorators run in the order they are stacked, so `@Log` above
   `@Cache`, `@Auth` above `@ComposedRateLimit`, or `@Compress` on a stack
   all run a phase out of priority order.

Each passing property has a mutant in `PROJECT.json`: a plausible bug in the
code it depends on, which TLC must catch.

### Further counterexamples

At most 12 runs are listed. The `.cfg` files below are kept next to them and
reproduce further disagreements, most of them behind a hazard in `PROJECT.json`. All
of them are violations except `WalletAuth_signer`, which passes.

| cfg | Property | What TLC shows |
|---|---|---|
| MCSubmitter_redelivery | `TerminalStable` | a job redelivered after a crash re-opens a completed row |
| MCSubmitter_batch_conflict | `BatchCoversEveryItem` | one conflicting item aborts the rest of the batch |
| MCSubmitter_insert_race | `DuplicateKeyAnsweredConflict` | the loser of the insert race gets the raw database error |
| MCOracle_deadlock | `ValidUpdateStored` | a valid update aborted by deadlock detection is lost |
| MCOracle_signer | `StoredOnlyFromSigner` | with no signer configured, any signer is stored |
| MCAIOrchestration_stuck | `EveryScoringSettles` | a failed first save leaves no row, or a row pending forever |
| MCAIOrchestration_restart | `EveryScoringSettles` | a restart strands a pending row |
| MCWalletProviders_leak | `NoLeakedPoller` | a second connect leaks an interval nobody can clear |
| MCWalletProviders_disconnect | `DisconnectHonoured` | a connect waiting on the prompt undoes a disconnect |
| MCWalletProviders_stale_handler | `AccountOnlyWhenConnected` | handlers registered twice set an account on a disconnected provider |
| MCAIOrchestration_signature | `SignatureVerifies` | `completedAt` falls in a later millisecond than the signed `Date.now()`, and the row's signature no longer verifies |
| AggregateBuilder_selected | `BuiltAsSelected` | every selector reads the empty dummy entity: `SUM(*)` instead of `SUM(amount)`, and `GROUP BY undefined` |
| AgentIndexer_lost_update | `MetricsNotLost` | two concurrent `updatePerformanceMetrics` of different metrics both load the old row; the later save erases the other's metric |
| QueryBuilder_skip_take | `SkipTakeHonoured` | `skip(5)` alone becomes offset 0 with an imposed `LIMIT 10`; `skip(20).take(5)` becomes offset 10 |
| QueryBuilder_total_pages | `TotalPagesCountable` | `getManyAndCount` with no pagination and no rows answers `totalPages: NaN` |
| AggregateBuilder_columns | `ColumnPerAggregate` | two aggregates under one alias (two `count()`s) give one column |
| MCValueObjects_timestamp | `TimestampReparses` | `Timestamp.add`, or time passing, gives a timestamp `fromJSON` rejects |
| MCValueObjects_buffer | `BufferRoundTrip` | an odd-length or upper-case hash changes through `toBuffer`/`fromBuffer` |
| DecoratorComposition_log_lookup | `ValidatedBeforeHandler` | `@Composable @Validate @Log`: the interceptor looks the registry up by `handler.name`, which is `wrapper` after `@Log`, finds no entries and skips validation |
| DecoratorComposition_innermost | `InnermostConfigWins` | a repeated `@Transform`/`@Validate`: the outermost one wins, not the innermost as `DEFAULT_MERGE_POLICY` says |
| WalletAuth_replay | `NoReplayAccepted` | a signed login replayed from the wire gets a fresh token |
| WalletAuth_signer | `TokenOnlyForSigner` | passes: a token is issued only for a message the wallet signed |

### Bounds

- **Keys, requests, slots.** Two of each is the smallest case in which two
  actors race on one row, one key or one pair. It is also the smallest case
  in which a batch repeats a key.
- **Crashes and restarts.** One crash gives a redelivery. Two crashes reach
  Bull's "stalled more than `maxStalledCount`" failure. One restart strands
  in-flight work.
- **Connect clicks.** Two connect clicks on each provider reach a second
  poller and a second handler registration.
- **Agent indexer.** Two uuids, two names, two metrics, two creates and two
  updates: the smallest case in which two updates of different metrics of
  one agent overlap.
- **Query builder.** Skip and take arguments 5, 10, 15 and 20 sit on and
  off the default page size of 10. The totals are 0 and 20, and three calls
  allow a skip, a take and a build.
- **Aggregation builder.** Two fields, one caller alias, one HAVING value
  and four builder calls: enough for two aggregates, a groupBy and a
  toQuery.
- **Value objects.** The inputs sit on each side of every bound:
  - percentages -0.1, 0, 12.5, 30, 87.5, 100, 100.1 and NaN;
  - hex lengths 0, 31, 32, 33, 64, 65, 128, 129, 256, 257;
  - a clock window of 2 and 2 ticks, with offsets one unit outside.
- **Decorators.** Up to three decorators drawn from all seven kinds, for
  both the order check and the repeated-decorator check. These stacks
  contain every pair the order finding names.
- **Deadlock checking.** Every cfg sets `CHECK_DEADLOCK FALSE`. The bounded
  requests end, and then the system really stops.
- **Symmetry.** None is used. The request sets name specific keys, pairs and
  accounts.

### Fairness

Fairness is weak throughout, and it is only put on the steps the code's
runtime guarantees:
- an awaited promise of a live Node process resolves;
- Bull workers keep polling;
- a `setInterval` timer keeps firing;
- an extension call returns.

User clicks, wallet changes, new requests, crashes, restarts and the clock
carry no fairness.

## Not modelled, and why

- **Worker queues** (`worker/*`). Nothing in the repository calls
  `WorkerService`. The processors only sleep and fail at random, so the
  behaviour is BullMQ's retry policy and not code of this repository.
- **Audit log reads, simulator, dashboard gateway.** The audit controller
  and `fetchAuditLogs`/`getLogsBy*` only query. The simulator is
  deterministic mock scoring and the gateway a socket broadcast. None has
  state whose interleavings matter.
- **The indexer's reads.** `search`, `getTopPerformers`, and `findOne`
  called on its own change no state. `search` builds one query with
  offset pagination.
- **QueryBuilder's conditions.** `where`, `orWhere`, `not`, `orderBy`,
  `join` and their SQL strings format conditions into text. They read
  their fields with the same empty-object selector that
  `AggregateBuilder_selected` shows.
- **WalletAddress, mappers, validation, `useWalletActions`.**
  `WalletAddress` is three anchored regular expressions. The frontend
  validators check one field each. `useWalletActions` forwards to the
  active provider. None keeps state.
- **Parameter decorators and class-level `@Composable`.** They record
  metadata that nothing in the repository reads.
- **Database errors inside the submission handlers.** An example is a save
  that fails in the middle of the batch loop. This is a known gap. Its
  hazard is listed in `PROJECT.json`.
- **Code the repository imports but does not contain.** The adapters and
  their circuit breaker, `@Cacheable`, `@RateLimit`, the event bus and the
  audit service. Each is a step with the outcomes its call site handles.

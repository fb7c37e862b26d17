# Verification of the Kafka order event platform

TLA+ models of the streaming platform under `src/streaming_platform`, of the data
platform tools under `src/data_platform`, and of the programs in `apps/`, `scripts/`
and the CI workflow that run them, model-checked with TLC on small instances and,
where it matters most, proved with TLAPS for every value of the constants. Paths
below are relative to the repository root.

## 1. The system

An **event generator** produces order events and application logs to two topics.
An **order consumer group** writes each valid order once to `valid_orders`; a
**log consumer group** aggregates access logs into `log_metrics_minute`. What
cannot be decoded goes to a **dead-letter topic**. Offsets are committed by hand,
after the work is done; an idempotency table `processed_events` makes
redelivery harmless. A **benchmark** starts the consumers, runs the generator, watches
the consumers' **lag** and reports what was consumed.

The `data_platform` package works on the dbt project over the resulting tables.
**Slim CI** builds a base and a current revision in isolated schemas and compares the
**contracts** of their marts; the **Phase 8A** gate checks the declarations, SQL and
cost of a planned warehouse; a workflow runs both for every push. A **metadata
index** is built from the artifacts of dbt; a server answers questions about it
over stdio (**MCP**), and the **incident agent** asks them and writes a diagnosis.

| component | state it keeps | operations | talks to | what is hard | what makes it correct |
|---|---|---|---|---|---|
| order consumer (`consumer/order.py`, `database/order_repository.py`, `apps/order_consumer`) | stop flag, the record in hand | `run`, `process`, `_persist_once`, `request_shutdown` | Kafka, PostgreSQL, dead-letter producer | no rebalance callback: a former owner finishes its record; ambiguous commits; crash between two commits | no committed offset passes undone work; one row per event; marker and row together |
| log consumer (`consumer/log.py`, `database/log_repository.py`, `apps/log_consumer`) | buffer, snapshot, offset tracker, flush timer, stop flag | `process`, `flush`, `commit_ready`, `on_revoke`, `on_lost`, `shutdown` | the same | callbacks run inside `poll` and `close`; a flush may fail half way; lost assignments are noticed late | nothing skipped, each event counted once, exact handover |
| offset tracker (`consumer/offsets.py`) | per partition: committed next, pending and completed offsets | `observe`, `complete`, `committable`, `acknowledge_commit`, `forget`, `has_pending` | log consumer | completion out of order | commits are contiguous; offsets known exactly while their record is in memory |
| aggregation buffer (`metrics/log_aggregation.py`) | events by id with all their coordinates | `add`, `take_snapshot`, `restore` | log consumer | merging copies, conflicting reuse of an id | a failed snapshot loses nothing |
| retry, error classes, dead-letter producer, Kafka wrapper (`consumer/retry.py`, `consumer/errors.py`, `kafka/dlq.py`, `kafka/consumer.py`) | an attempt counter | `run_with_retry`, `publish`, `poll`, `commit` | Kafka | a timeout with the record stored; a failed commit the broker recorded | bounded attempts, no silent loss |
| generator (`generator/runner.py`, `kafka/producer.py`, `generator/report.py`) | pending tokens, counters, delivered ranges, client queue | `send`, `on_delivery`, `flush`, `fail_pending`, report | Kafka client library | late, lost and reordered reports; a full queue; Ctrl+C | one outcome per record; exact ranges; it ends |
| event factory (`generator/factory.py`) | seeded random state, recent records | `next_record`, `create_*` | generator | duplicates must reuse an event | (not modelled yet) |
| lag inspector (`kafka/lag.py`) | none between calls | `inspect` | Kafka | a snapshot made of many reads | no lag is negative |
| benchmark (`benchmark/runner.py`) | stage, deadlines, ranges, dead-letter tails | `run`, the waits, the counts | all of the above | deciding on state that moves | consumed means durable; complete counts; it ends |
| process manager, demo (`benchmark/processes.py`, `demo.py`) | child processes | `start`, `stop`, `stop_all`; the scenarios | consumers, generator | SIGTERM, SIGKILL and failures while stopping | (not modelled yet) |
| topic bootstrap (`kafka/admin.py`), settings, logging | none | `ensure_topics` | Kafka | two bootstraps at once | (not modelled yet) |
| Slim CI (`slim_ci.py`, the CI workflow) | a state directory and schemas per run | `run_slim_ci`, `cleanup_ci_schemas` | git, dbt, PostgreSQL | runs side by side; exceptions past the cleanup; pushes and dispatches that cancel runs | no schema left without a trace; own schemas only; main's tip gets a verdict |
| contracts, conventions (`contracts.py`, `conventions.py`) | none | `compare_contracts`, `validate_manifest` | Slim CI | renames; what a chain of comparisons adds up to | nothing promised is taken back |
| warehouse policies (`bigquery_*.py`, `phase8a_*.py`) | none | `run_phase8a_validation` | the workflow, an operator | deadlines; policies missing in between | policies never weaken; waivers in force |
| metadata index (`metadata_index.py`) | three files | `build`, `write_build`, `validate_build` | artifacts, server | written file by file, killed in between | a finished build validates |
| metadata service, MCP (`metadata_service.py`, `mcp_server.py`, `mcp_client.py`) | the loaded index; a child process, two pipes, request ids | the tools; `serve`; `_request`, `__enter__`, `__exit__` | index, agent | late answers, a dead or stuck server, read-ahead | an answer answers its question; no server left |
| incident diagnosis (`incidents.py`, `apps/incident_agent`) | answers, errors, states | `diagnose` | MCP | any question may fail | degraded, not lost; complete impact |
| fixture loader, scaffolding, dbt review, evidence | files | see `PROJECT.json` | dbt, PostgreSQL | little: one process, bounded waits | (not modelled) |

`PROJECT.json` lists every component with its status, and each hazard of the code
at its line with the properties that cover it.

## 2. Modules

    TopicLog                 records, coordinates, what decoding and the columns decide
      DurableDelivery        abstract: what a consumer promises
      OrderConsumer          implements it; OrderConsumerProofs, MCOrderConsumer
      OffsetTracker          ContiguousOffsetTracker as operators
        LogConsumer          implements it; LogConsumerProofs, MCLogConsumer
    OffsetRanges             DeliveryTracker._insert_offset as operators; OffsetRangesProofs
      ProducerDelivery       generator, client library, broker; ProducerDeliveryProofs, MCProducerDelivery
    LagInspection            groups as promised above, and the reads of LagInspector
      BenchmarkRun           the runner; BenchmarkRunProofs, MCBenchmarkRun
    MetadataIndex            the index of a repository state, and the builder process
      MetadataService        what each tool answers
        McpTransport         client, server, pipes
          IncidentDiagnosis  the agent's session; LineageWalkProofs, IncidentDiagnosisProofs,
                             MCIncidentDiagnosis
    ContractComparison       the two checks of a dbt manifest
      WarehousePolicy        the Phase 8A gate
        SlimCi               runs of Slim CI and their schemas
          DataPlatformCi     the workflow, and the programs run by hand; DataPlatformCiProofs,
                             MCDataPlatformCi

**TopicLog.** A partition is an immutable sequence. A record is *valid*,
*malformed* (decoding raises `PermanentMessageError`) or *unstorable* (the pydantic
models accept it, a database column does not); `data` is its business content.

**DurableDelivery** is the abstract specification of both consumers: atomically
apply a set of new events, dead-letter a record, or move a partition's committed
offset (also backwards) to a place with nothing undone before it.

**OrderConsumer.** `stage[m]` is the program counter of process m in
`OrderConsumerRunner.run`; `current`, `attempt`, `stopping` are its local state;
`owner`, `position`, `committed` are the group; `processed`, `validOrders`, `dlq`
the durable effects. One action per step that another process or a failure can
come between: `Poll`, `DlqDelivered`/`DlqFails`, `InsertMarker` (which waits for
another transaction holding the key), `InsertRow`/`RowRefused`,
`CommitTransaction`/`TransactionFails` (a failed COMMIT may have committed),
`CommitOffset`/`CommitOffsetFails` (the same), `RequestShutdown`, `Stop`, `Crash`,
`Restart`. The group coordinator (`Assign`, `Rebalance`) is external: the order
consumer registers no callback, so a rebalance leaves the record in hand alone,
and the broker does not check who owns the partition of a commit.

**LogConsumer.** The same shape, with `buffer`, `snapshot`, `inserted` (the open
transaction's markers) and `tracker` per process, and a `mode` that says who called
`flush` and `commit_ready`: the loop, `shutdown`, `on_revoke` from `poll`,
`on_revoke` from `close`, or `on_lost`. `Poll` is one step from `poll` to the
buffer, since nothing in between leaves the process. `Evict` is the coordinator
dropping a member that does not know it yet; from then on its commits are
fenced. `GiveUp` follows an exception to the `finally` block, and through
`consumer.close()` into the callbacks again.

**OffsetRanges** has no folds, so that it can be reasoned about: `Bisect` counts the
ranges before the new one, `LastReached` says how far the `while` loop gets (it
joins the next range as long as that one starts within the largest end so far).

**ProducerDelivery.** The runner's thread (`stage`, `tries`), the tracker
(`pending`, `delivered`, `failed`, `ranges`), the client library (`queue`,
`reports`, the `batch` that one `poll` or `flush` serves, `acks` in flight) and
the broker's `log`. Delivery callbacks run only inside `poll` and `flush`, on the
generator's thread. `EndInterrupted` is Ctrl+C inside the `finally` clause.

**LagInspection, BenchmarkRun.** The consumers appear as what `DurableDelivery`
promises about them (`Handle` before `Commit`, `RejectAgain`, `StaleCommit`); an
inspection is the list of groups, one read of committed offsets per group, one
read of a watermark per partition. The runner is its stages; `expired` is the
clock reaching the stage's deadline, which the code looks at only at the head of
a loop.

**MetadataIndex.** A repository state is what each artifact and report holds:
content, nothing, or something the loader refuses. `BuildResult` computes the three
payloads from it. `files` says for each file on disk which state it describes, or
that it is `Torn`: `write_text` empties a file before it writes it (`OpenFile`,
`WriteFile`), and `BuilderKilled` may come at any time.

**MetadataService** has one operator per tool, from the request to a status and the
data the agent looks at. `Walk` is the bounded breadth-first search, one `Visit`
per node of the frontier. What it should find is stated without it: the assets
below an asset are the least set that is closed under `downstream` (`Downward`).

**McpTransport.** `toServer` and `pipe` are the two pipes; `buffer` is what `readline`
has read ahead: `select` looks at the pipe only, so an answer in `buffer` does not
wake the client (`Readable`), and `Line` may be an older answer. `SelectTimeout`
leaves the request unanswered, and its answer to a later reader. `ServerCrashes` is
what `serve` does not catch, `ServerStuck` a server that makes no progress.

**IncidentDiagnosis.** `pc` follows `main`, `__enter__`, `_collect`, `diagnose`,
`__exit__`; a `McpClientError` ends a question (`CallFails`), any other exception ends
the session (`Raise`). `Report` is computed at once from `responses` and `errors`.

**ContractComparison, WarehousePolicy** are operators over a revision: the models of
its manifest with their columns, tests, metadata and what a lexer finds in their SQL, and,
for the gate, its example queries, cost policy, fixture and task list. A
finding is the change it names; only whether it blocks matters here.

**SlimCi, DataPlatformCi.** A run is a record with its place, id, revisions, next phase
(`at`) and outcome. A phase stands for consecutive commands that share the effect of
failing; dbt may have created the schemas or not when one fails. Runs of the workflow have a
database of their own, which goes with them, so only schemas of runs by hand are
recorded, each with its creator. `Push` and `Dispatch` share the concurrency group of
main and cancel the run in progress; a push takes the revision before it as the base, a
dispatch (`workflow_dispatch`) has no base. `JobTimeout` and a gate of `Phase8A` that is
`timed_out` are jobs stopped by their `timeout-minutes`; they leave no verdict
(`HasVerdict`), unlike a job that failed. `StartLocal` compares HEAD with the working
tree, which may hold any revision. `LocalGate` is a whole run of the Phase 8A program by
hand, against the revision that passed last; one of the workflow gets no previous
manifest, as in the workflow file. `history` pairs each pushed revision with the run
of its push. `now` passes the deadlines of exemptions and waivers, also in the middle of
a gate, which reads the clock for the declarations and again for the waiver.

## 3. What the runs check

| run | size | shows |
|---|---|---|
| `OrderConsumerSafety` | 2 members, 2 partitions, 5 records, 1 retry, 3 faults | `NoSkip`, `OneRowPerEvent`, `MarkerMatchesRow`, the inductive invariant `IndInv`, and that the group implements `DurableDelivery` |
| `OrderConsumerLiveness` | 2 members, 1 partition, 3 records, 3 faults, fair | every record gets done; the committed offset reaches the end |
| `OrderConsumerPoison` | no fault | **violated**: a record the database refuses blocks its partition |
| `LogConsumerSafety` | 2 members, 2 partitions, 4 records, 1 retry, 2 faults | `NoSkip`, `MetricsExact`, `TrackerMatchesBatch`, `HandoverExact`, refinement |
| `LogConsumerLiveness` | 2 members, 1 partition, 3 records, 2 faults, fair | every record gets done; offsets reach the end and stay |
| `ProducerDelivery` | 4 records, 2 partitions, queue of 2, 1 backoff, 2 faults | one outcome per record, exact and canonical ranges, termination |
| `ProducerDeliveryInterrupt` | 1 fault | **violated**: Ctrl+C during the final flush leaves no report |
| `BenchmarkRun` | 2 groups, 3 partitions, up to 2 records each, 1 fault | no negative lag, consumed means durable, complete dead-letter count, committed backlog drained, termination |
| `BenchmarkRunBaseline` | no fault | **violated**: a partition without a committed offset keeps its backlog past the baseline |
| `IncidentDiagnosis` | 4 alerts, 2 repository states, 1 rebuild, 2 faults | evidence answers its question, a session ends and leaves no server, only a crash of the server loses a report, complete impact, a finished build validates, when a diagnosis is completed |
| `DataPlatformCi` | 5 revisions, 2 runs of Slim CI or 3 gates (7 units, see below), deadlines | schemas accounted for, green chains keep promises, policies never weaken, exemptions and waivers in force as they are looked at, a verdict on main's tip |
| `DataPlatformCiCleanup` | two runs by hand | **violated**: a run drops the schemas of another |

Bounds. `MaxFaults` counts failures, rebalances, evictions, signals and crashes
together: two or three are enough for one failure inside the handling of another (an
eviction during a flush that is being retried, a crash after an ambiguous commit), and
every pair of fault kinds occurs. `MaxRetries = 1` has a first, a retried and a last
attempt; the default of 3 only repeats the retried one. Two members are enough for a
current and a former owner; the logs hold the same event twice on one partition and on
another, a malformed record between two good ones, and an unstorable one. `QueueLimit
= 2` with three or more records fills the queue; three records on one partition make
ranges meet from both sides. `MaxEnd = 2` lets each partition of the benchmark hold a
record from before the run and one of the run. In `IncidentDiagnosis` the four alerts
reach every branch of the diagnosis (an ambiguous name, no asset, another pipeline, a
name the search refuses); two faults are a late answer and whatever befalls a session
that still holds it; `MaxLineageNodes = 2` and `LineageDepth = 1` cut walks of the
small graphs both ways; `MaxBuilds = 1` interrupts the replacement of a finished index
after each file. In `DataPlatformCi` each revision breaks or bends one rule of one
that passes; `MaxLoad = 7` admits two runs of Slim CI, of
pushes or by hand, one with two gates by hand around it, or three gates; three is
what a policy takes to vanish and come back, and two are enough for a cancelled push or
for two runs in one database; two run ids look alike to `LIKE` (in the
cleanup run, one is a prefix of the other). Members are interchangeable, and symmetry
is used in the safety runs only.

`CHECK_DEADLOCK FALSE` stands in the runs whose system may stop: the generator, the
benchmark and the incident agent exit, the workflow's runs end, and the consumers are
idle once the log is read and the fault budget is spent.

Fairness. A running consumer process takes its enabled steps, the operator restarts a
stopped one (docs/reliability.md:56-57 says it waits for repair and restart), and the
coordinator assigns a free partition; there are finitely many faults, which is what
"after the fault is repaired" means in a model. The generator's own thread is fair,
the broker and the client library are not. The benchmark's runner and the clock are
fair, the consumer groups are not. The incident agent is fair together with a server
that is not stuck (`select`, `wait` and the kill end every wait of the client), the
index's builder is not. The workflow's runners are fair, their job timeout included;
pushes, dispatches, hanging
commands and everything done by hand are not; that pushes come to an end (`MaxLoad`) is
what lets `LatestPushJudged` speak of a last one. No fairness is assumed
of a retry succeeding.

### Where documents and code differ

* `docs/reliability.md:46`, `SPEC.md:617`: a poison message must not block a partition.
  Only records that fail validation go to the dead-letter topic. A value that
  passes validation and that a column refuses is a non-retryable database
  error: the process stops without a commit and meets the record again. The log
  consumer does the same with a whole snapshot; the run shows the order consumer.
* `docs/reliability.md:18`: on Ctrl+C the generator completes flush and report. Not
  when the signal arrives while it is flushing or before the report is written.
* `docs/reliability.md:101`: a run fails if the pre-existing backlog is not drained.
  `_wait_for_baseline` ignores rows without a numeric lag.

* `slim_ci.py:215`, `docs/data-platform/phase-7.md:78`: the cleanup drops only the
  schemas of its own run. It goes by name: a second run under an id in use fails on
  the state directory and then drops the first run's schemas, and run `a` drops those
  of run `a_b`.

Observations without a run of their own, from modelling:

* An answer taken late can cost every later question (each reads its predecessor's
  line and fails on the id); `AnswersMatch` says none is mistaken, not that one is
  found again.
* `docs/data-platform/interview-guide.md:76-77` promises a degraded diagnosis on a
  tool failure; when the server itself dies, the next write raises `BrokenPipeError`,
  which `_collect` does not catch, and there is no report.
* `_correlate` rejects a Kafka backlog also when the lag tool failed or every lag is
  null, since both add up to zero; `.agents/skills/incident-diagnosis/SKILL.md:59`
  says missing values are never filled with zero.
* `docs/data-platform/quality.md:4`: missing artifacts degrade a diagnosis. The
  failures tool is never `ok` for the indexed pipeline, so its alerts are always
  degraded; for any other pipeline it answers `not_found`, which does not count
  (`CompletedOnlyOffIndex`). The index's own `missing` list is not looked at.
* `_affected_assets` does not pass on the `truncated` flag of the impact answer
  (`ImpactComplete` is about answers without it).
* `validate_build` accepts files of different builds that agree in counts and ids, although
  `docs/data-platform/phase-9.md:85` names conflicting files.
* The difference of cost policies compares only models listed in both: dropping a
  model's entry, or loosening the default, is not "threshold loosening" to it
  (`bigquery_policy_diff.py:258`).
* `psycopg.Error` in the cleanup of the normal path, `ContractInputError` and Ctrl+C
  leave `run_slim_ci` without a summary, and its schemas behind (`outcome = "escaped"`
  in `SchemasAccountedFor`).
* `_inventory` calls evidence stale when the answer is a day older than the alert
  (`incidents.py:312`), but an answer is stamped when it is given
  (`metadata_service.py:589`), after the alert: however old the index is, this never
  holds, and `Degraded` has only the tool's own warning.
* The contract comparison of a push covers only chains of green runs that found their
  base: a push whose run failed, hung or was cancelled becomes the base of the next
  (`GreenChainKeepsPromises`; `DATA_PLATFORM_SPEC.md:438` asks that CI detects a breaking
  change). A dispatch on main makes it easier: it cancels the run of a push and itself
  compares the revision with nothing. `LatestPushJudged` promises a verdict on the tip,
  not that the verdict rests on a comparison, and none of a run that hung itself.

What does *not* hold, and is not claimed: the committed offset of an order
partition does not stay at the end, because the late commit of a former owner can
move it back (`EventuallyCommitted` is the weaker statement that holds); the
count of dead-letter records may exceed the number of rejected records, because
a record may be dead-lettered twice (`DlqCountComplete` is a lower bound).

## 4. What is proved

Every invariant and every action property that a passing run checks is also a
theorem, and so are the two refinements. The theorems hold for any members,
partitions and records, any log, any index, any revisions and alerts, any retry,
queue and fault bound, under the assumptions named in the modules. Those type the
constants, keep the values that stand for "nothing" apart from the others, and say
where a system may start (an alert names an asset or a pipeline, a group has committed
nothing beyond the log): `TopicAssumption`, `OrderAssumption`, `LogAssumption`, `ProducerAssumption`,
`LagAssumption`, `IndexAssumption`, `TransportAssumption`, `AlertAssumption`,
`TreeAssumption`, `MartAssumption`, `WorkflowAssumption`. `ManifestAssumption` says
that one manifest has finitely many nodes, as it is one JSON document.

Each proof has the same frame: an inductive invariant, one lemma per action (or
per kind of step) that it survives, and a theorem per property that follows from it.
The order consumer's `IndInv` is a property of its run as well; the other invariants
stay in the proof modules (some quantify over sets TLC cannot enumerate).

* **OrderConsumerProofs** (`OrderInvariant`). `NoSkip` alone is not inductive: a commit
  needs that everything before the record in hand is done (`PrefixDone`), a poll
  needs that an owner has fetched past nothing but done records and the one in
  its hand (`PositionSafe`), a transaction needs that open transactions hold
  different events (`MarkersExclusive`), and `InHand` ties the stage to the
  record. From it `OrderNoSkip`, `OrderOneRowPerEvent`, `OrderMarkerMatchesRow`,
  `OrderTypeCorrect`, and the refinement `OrderImplementsDelivery`: each step is an
  `Apply`, a `Reject`, a `CommitTo` or a stutter of `DurableDelivery`.
* **LogConsumerProofs** (`LogInvariant`). Here offsets complete out of order, so the
  invariant is about what each member's tracker knows: between the next commit and
  the position every offset is pending or completed (`Tracked`), completed ones and
  all before the next commit are done (`TrackedDone`), pending ones are the records in
  memory (`Matches`), and the committed offset of a partition the member still owns
  lies between the two ends (`Owned`). `Transaction` and `MarkersExclusive` make the
  inserted markers of all open transactions new and different, which `MetricsExact`
  needs. A step of a member is split into what it does to its own process
  (`OwnStep`) and one argument about all others (`MemberStep`). Hence `LogNoSkip`,
  `LogMetricsExact`, `LogTrackerMatchesBatch`, `LogTypeCorrect`, the action property
  `LogHandoverExact` (an owner back at its loop has given a partition back committed up
  to the last record it polled), and the refinement `LogImplementsDelivery`.
* **OffsetRangesProofs, ProducerDeliveryProofs** (`ProducerInvariant`). About the
  algorithm: on a canonical list `_insert_offset` joins at most the range on either
  side; the list stays canonical (`InsertOffsetAscending`) and covers the new offset and
  what it covered before (`InsertOffsetCovers`); the sum of the lengths of a canonical
  list is the number of offsets it covers (`TotalLengthCounts`). About the producer:
  attempted = delivered + failed + pending (`AccountingInv`); whatever an acknowledgement,
  a report or a batch says of a token is what the log holds (`AnswerInv`), although the
  log grows meanwhile; the offsets covered are those of settled copies (`CopyInv`).
  Hence `ProducerAccounting`, `ProducerRangesExact`, `ProducerRangesCanonical`,
  `ProducerTypeCorrect`.
* **BenchmarkRunProofs.** `BenchmarkInv`: committed offsets are below what is durable,
  which is below the watermark; a row read earlier stays below both as they grow, also
  when `committed` itself moves back. Hence `BenchmarkLagNeverNegative`,
  `BenchmarkConsumedIsDurable` and `BenchmarkBacklogDrained`. `DlqInv`: a rejected record
  of the run reaches the dead-letter topic after the tail the run noted and before it is
  durable; so when the run is taken as consumed, choosing each record's place there is
  a map onto the rejected records, and the count is at least their number
  (`BenchmarkDlqCountComplete`).
* **LineageWalkProofs, IncidentDiagnosisProofs** (`IncidentInvariant`,
  `IncidentServedInvariant`). The builder is always at one of four places of writing its
  three files, and a whole set describes one state (`IncidentFinishedBuild`). Whatever is
  in the pipes answers the request it names, and the only one under way with the id
  waited for is the one waited for, so a line with that id answers what was asked
  (`IncidentAnswersMatch`). Which exceptions end a session, and after what, gives
  `IncidentOnlyACrash`; that the failures tool is never `ok` for an indexed pipeline gives
  `IncidentCompletedOnlyOffIndex`. The walk: until it is cut short, all that was visited
  lies below the start, each visited node either waits in the frontier or has all it
  feeds visited, and |visited| is the number of steps plus the length of the frontier
  (`Sound`). After as many steps as there are assets the frontier is therefore empty, and
  the visited nodes are closed (`WalkComplete`); with `ServedInv`, that every impact answer
  comes from the one index the server loaded, `IncidentImpactComplete`.
* **DataPlatformCiProofs** (`CiInvariant`). A step either advances one run that is
  running or appends one (`AdvanceKeeps`, `AppendGrows`). A run has come past its
  checks only with a verdict on its two revisions (`Judged`); the run of a push that
  still runs is that of the last push, and has the push before it as base (`HistoryInv`). A newly
  green push is thus the last, and extends every chain by one comparison
  (`CiGreenChain`). A gate that passes is compared with the latest one before it that
  did, which was compared with its own predecessor (`CiPolicyNeverWeakens`). A schema is
  dropped by the pattern of its run's id, which matches at least the run's own
  (`OwnFound`), hence `CiSchemasAccountedFor`. `CiPassedInForce` is an action property.

Induction over data is replaced where it is needed by the least element of a set of
numbers (`NatLessThanWellFounded`, `WFMin`): if a recursive function had a value
other than it should, it would have one at a least argument. So are proved the
values of the sum in `TotalLength` and of the walk's table, both recursive functions.

Only model-checked: all liveness (`EventuallyDone`, `EventuallyCommitted`, `CaughtUp`,
`EventuallyEnds`, `SessionEnds`, `LatestPushJudged`), which is out of the prover's
reach, as is ENABLED; and the four counterexamples of the violated runs.

## 5. What is left out

* Time: delays, intervals and deadlines are "may expire now"; the flush interval may
  elapse at any loop head.
* The content of records, messages and reports beyond what decides a branch.
* Locks of the tracker and the buffer: one thread uses them.
* A signal between two statements of `DeliveryTracker`: its methods are atomic here.
* The lag samples taken while the generator runs: they decide nothing.
* Offset gaps (compaction, transactions): the topics have none.
* Of the metadata service, the two tools the agent does not call, and the audit
  file but for the failure to write it. Of the diagnosis, scores and wording.
* Of the contract comparison, the downstream paths listed with a finding; of the
  policy difference, changes that are left to manual review; of both, warnings. The
  dry-run provider and the dbt review.
* The workflow's later jobs (phases 9 and 10), which run tests; its runs for pull
  requests, which have a concurrency group of their own; attempts run again.
* The components marked `not_modelled` in `PROJECT.json`, with the reason.

## 6. Plan

Done: the consumers and their abstract specification, the producer, the lag
inspector and the benchmark; the incident diagnosis from the index to the report;
Slim CI, the contracts and policies it judges by, and the workflow; the theorems
above. Next:

1. Proofs: what the contract comparison and the policy difference promise as
   lemmas of their own, for any pair of revisions (now part of the CI proofs); what the
   tracker's operators promise; that an inspection's lag is at most the true backlog.
2. `ProcessManager`: `start`, `stop`, `stop_all` and the runner's `finally` clause;
   property: no child outlives the run, whichever stop fails.
3. `FixtureLoad`: publishing pending records and waiting for them, over `DurableDelivery`.
4. `EventFactory`, `TopicBootstrap`, and the tracker statement by statement under signals.

-------------------------- MODULE WarehousePolicy --------------------------
(***************************************************************************)
(* The Phase 8A gate over one revision: bigquery_compatibility.py,         *)
(* bigquery_sql_policy.py, bigquery_cost_policy.py, bigquery_policy_diff.py *)
(* and phase8a_orchestration.py, in the order in which                     *)
(* phase8a_validation.py runs them.                                        *)
(*                                                                         *)
(* A revision adds to its manifest: queries (the SQL examples, as what the *)
(* lexer finds in them), cost (the limits of the cost policy, by model) and *)
(* cost_version (its schema_version), fixture (the simulated estimate) and *)
(* dag (the tasks of the orchestration contract).  Models are keyed by     *)
(* name here, as these checks key them.                                    *)
(***************************************************************************)
EXTENDS ContractComparison, Sequences

CONSTANTS RequiredModels,  \* the marts that must be published
          UnfilteredModel  \* fct_orders: its queries need no partition filter

Positive(n) == n \in Nat \ {0}

\* A deadline is valid until it has passed.
InForce(signed, now) == signed # Absent /\ signed.owner /\ signed.reason /\ signed.until > now

BigQuery(manifest, model) == Meta(manifest.models[model], "bigquery")
WithPolicy(manifest) == {m \in Published(manifest) : BigQuery(manifest, m) # Absent}

-----------------------------------------------------------------------------
(* Compatibility declarations. *)

WarehouseDeclared(node) ==
  LET warehouse == Meta(node, "warehouse_compatibility")
  IN warehouse # Absent /\ warehouse.postgres = "supported" /\ warehouse.bigquery = "planned"

\* With a partition the filter is required; without one an exemption is.
PartitionHolds(policy, columns, now) ==
  IF policy.partition = Absent
  THEN InForce(policy.exemption, now) /\ ~policy.filter
  ELSE /\ policy.partition.field \in columns \ policy.cluster
       /\ policy.partition.type \in {"date", "timestamp", "datetime"}
       /\ policy.partition.granularity \in {"hour", "day", "month", "year"}
       /\ policy.filter

IncrementalHolds(policy, columns) ==
  /\ policy.strategy \in {"merge", "insert_overwrite"}
  /\ policy.unique_key # {} /\ policy.unique_key \subseteq columns
  /\ policy.strategy = "merge" => policy.merge_key \in columns
  /\ policy.strategy = "insert_overwrite" => policy.merge_key = Absent
  /\ Positive(policy.late.days) /\ policy.late.outside = "manual_bounded_backfill"

\* Mutant of the next: a model without a policy is not checked.
LenientModelHolds(node, now) ==
  LET policy == Meta(node, "bigquery")
  IN policy # Absent => PartitionHolds(policy, DOMAIN node.columns, now)

ModelHolds(node, now) ==
  LET policy == Meta(node, "bigquery")
      columns == DOMAIN node.columns
  IN /\ ~IsDraft(node) /\ WarehouseDeclared(node)
     /\ policy # Absent
     /\ policy.evidence = "static_validation"
     /\ Cardinality(policy.cluster) <= 4 /\ policy.cluster \subseteq columns
     /\ PartitionHolds(policy, columns, now)
     /\ IncrementalHolds(policy, columns)
     /\ Positive(policy.window) /\ policy.cost_class # Absent

Compatible(manifest, now) ==
  /\ RequiredModels \subseteq {manifest.models[m].name : m \in Published(manifest)}
  /\ \A m \in Published(manifest) : ModelHolds(manifest.models[m], now)

-----------------------------------------------------------------------------
(* SQL: the examples against the policy of their model, and the models. *)

SqlErrors == {"sql-unknown", "todo", "select-star", "cross-join", "unsafe-division"}

\* analyze_sql, of a query with what the lexer found in it.
AnalysisHolds(found, filtered, monetary) ==
  /\ found \cap SqlErrors = {}
  /\ filtered => "bounded-predicate" \in found
  /\ monetary /\ "sum" \in found => "currency-grouping" \in found

QueryHolds(manifest, model) ==
  LET policy == BigQuery(manifest, model)
  IN /\ model \in WithPolicy(manifest)
     /\ AnalysisHolds(manifest.queries[model], policy.partition # Absent /\ policy.filter,
                      model = "mart_daily_sales")

SqlHolds(manifest) ==
  /\ \A m \in DOMAIN manifest.queries : QueryHolds(manifest, m)
  /\ \A m \in Published(manifest) : AnalysisHolds(manifest.models[m].sql, FALSE, FALSE)

-----------------------------------------------------------------------------
(* Cost: the policy of a fixture's model against its estimate. *)

CostPolicyValid(manifest) ==
  LET cost == manifest.cost
  IN /\ manifest.cost_version = 1 /\ "default" \in DOMAIN cost
     /\ \A m \in DOMAIN cost : /\ Positive(cost[m].warning)
                              /\ cost[m].blocking > cost[m].warning
                              /\ cost[m].cost_class # Absent

CostOf(cost, model) == IF model \in DOMAIN cost THEN cost[model] ELSE cost["default"]

\* Mutant of the next: the deadline of a waiver is not looked at.
WaiverSigned(waiver, now) == waiver # Absent /\ waiver.owner /\ Positive(waiver.approved)

WaiverValid(waiver, now) == InForce(waiver, now) /\ Positive(waiver.approved)

WaiverCovers(fixture, now) ==
  WaiverValid(fixture.waiver, now) /\ fixture.estimate <= fixture.waiver.approved

\* Within the approved threshold of a valid waiver no threshold is looked at.
CostErrors(limits, fixture, now) ==
  \/ fixture.model # UnfilteredModel /\ ~fixture.filter
  \/ ~Positive(fixture.requested) \/ ~Positive(fixture.maximum)
  \/ fixture.requested > fixture.maximum
  \/ fixture.waiver # Absent /\ ~WaiverValid(fixture.waiver, now)
  \/ ~WaiverCovers(fixture, now) /\ fixture.estimate >= limits.blocking
  \/ fixture.waiver # Absent /\ fixture.estimate > fixture.waiver.approved

CostDecision(cost, fixture, now) ==
  LET limits == CostOf(cost, fixture.model)
  IN IF ~fixture.valid \/ fixture.estimate = Absent THEN "invalid"
     ELSE IF CostErrors(limits, fixture, now) THEN "block"
     ELSE IF ~WaiverCovers(fixture, now) /\ fixture.estimate >= limits.warning THEN "warn"
     ELSE "pass"

-----------------------------------------------------------------------------
(* The difference to the previous revision, when there is one. *)

PartitionPart(policy, part) ==
  IF policy.partition = Absent THEN Absent ELSE policy.partition[part]

\* The changes that block; the others are left to manual review.
PolicyBroken(old, new) ==
  \/ \E part \in {"field", "type", "granularity"} :
       PartitionPart(old, part) # PartitionPart(new, part)
  \/ old.filter /\ ~new.filter
  \/ old.merge_key # new.merge_key
  \/ old.late # new.late /\ new.late.outside # "manual_bounded_backfill"
  \/ old.evidence # new.evidence /\ new.evidence \in {"sandbox_observed", "cloud_observed"}

\* Only the models with a policy in both manifests are compared, and only the
\* cost limits stated in both.
PolicyDiffBlocks(previous, current) ==
  /\ previous # Absent
  /\ \/ \E m \in WithPolicy(previous) \cap WithPolicy(current) :
          PolicyBroken(BigQuery(previous, m), BigQuery(current, m))
     \/ \E m \in (DOMAIN previous.cost \cap DOMAIN current.cost) \ {"default"} :
          current.cost[m].blocking > previous.cost[m].blocking

-----------------------------------------------------------------------------
(* Orchestration, and the gate over the five results. *)

TaskOrder == <<"validate_environment", "dbt_parse", "dbt_compile", "validate_conventions",
               "validate_bigquery_policy", "evaluate_fixture_cost", "quality_gate",
               "publish_local_reports">>

OrchestrationHolds(dag) ==
  /\ [i \in DOMAIN dag.tasks |-> dag.tasks[i].id] = TaskOrder
  /\ \A i \in DOMAIN dag.tasks : dag.tasks[i].retries \in 0..3 /\ dag.tasks[i].timeout \in 1..600
  /\ ~dag.credentials /\ dag.cloud = {}

\* Mutant of the next: the gate publishes the cost decision as it is.
CostGate(previous, current, now, later) == CostDecision(current.cost, current.fixture, later)

\* An input that cannot be read as a policy raises instead.  The clock is read
\* for the declarations and again for the waiver of the fixture.
Gate(previous, current, now, later) ==
  IF ~CostPolicyValid(current) THEN "invalid"
  ELSE IF /\ Compatible(current, now)
          /\ SqlHolds(current)
          /\ CostDecision(current.cost, current.fixture, later) \in {"pass", "warn"}
          /\ ~PolicyDiffBlocks(previous, current)
          /\ OrchestrationHolds(current.dag)
       THEN "passed" ELSE "blocked"

\* Its own parse of the project may fail, or leave no manifest.
Outcomes(previous, current, now, later) == {Gate(previous, current, now, later), "invalid"}
=============================================================================

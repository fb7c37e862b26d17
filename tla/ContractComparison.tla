------------------------- MODULE ContractComparison -------------------------
(***************************************************************************)
(* src/data_platform/contracts.py and conventions.py: the two checks of a  *)
(* dbt manifest that Slim CI runs, one against the manifest of the base    *)
(* revision and one on the manifest alone.                                 *)
(*                                                                         *)
(* A manifest is [models, tests].  A model is a record of what the checks  *)
(* read: its layer (from its path), name, grain (the first sentence of its *)
(* description), columns, contract, config, meta, the sources it reads,     *)
(* what its SQL shows and whether its description is unfinished.  A test   *)
(* is [name, models, column].                                              *)
(***************************************************************************)
EXTENDS Integers, FiniteSets

CONSTANTS Absent,         \* no value: None, or a key that is missing
          MetricColumns,  \* columns named *_count, *_amount, *_rate or *_ms
          StatedGrains    \* sentences that begin "Grain: one row per"

Published(manifest) ==
  {m \in DOMAIN manifest.models : manifest.models[m].layer = "marts"}

TestsForModel(manifest, model) ==
  {[name |-> t.name, column |-> t.column] : t \in {u \in manifest.tests : model \in u.models}}

BusinessKeys(manifest, model) ==
  {t \in TestsForModel(manifest, model) : t.name \in {"unique", "unique_combination"}}

Meta(node, key) == IF key \in DOMAIN node.meta THEN node.meta[key] ELSE Absent

-----------------------------------------------------------------------------
(* Contracts: a finding is [model, column, change]. *)

\* Mutant of the next: a rename is left to manual review.
BlockingButRenames ==
  {"published_model_removed", "published_column_removed", "incompatible_data_type_change",
   "nullable_to_required", "contract_removed", "grain_changed", "business_key_changed",
   "required_test_removed"}

Blocking == {"published_model_removed", "published_column_rename", "published_column_removed",
             "incompatible_data_type_change", "nullable_to_required", "contract_removed",
             "grain_changed", "business_key_changed", "required_test_removed"}

\* One column gone and one come with its type is a rename.
Renamed(old, new) ==
  LET removed == DOMAIN old \ DOMAIN new
      added == DOMAIN new \ DOMAIN old
  IN IF Cardinality(removed) = 1 /\ Cardinality(added) = 1
     THEN {c \in removed : old[c].type # Absent
                             /\ \A d \in added : new[d].type = old[c].type}
     ELSE {}

\* The columns each kind of change concerns.
ColumnChanges(old, new) ==
  LET both == DOMAIN old \cap DOMAIN new
      renamed == Renamed(old, new)
      added == IF renamed = {} THEN DOMAIN new \ DOMAIN old ELSE {}
  IN [published_column_rename |-> renamed,
      published_column_removed |-> DOMAIN old \ (DOMAIN new \cup renamed),
      required_column_added |-> {c \in added : new[c].required},
      nullable_column_added |-> {c \in added : ~new[c].required},
      incompatible_data_type_change |-> {c \in both : old[c].type # new[c].type},
      nullable_to_required |-> {c \in both : ~old[c].required /\ new[c].required},
      metric_description_changed |-> {c \in both \cap MetricColumns : old[c].text # new[c].text}]

CompareColumns(old, new) ==
  LET changes == ColumnChanges(old, new)
  IN UNION {{[column |-> c, change |-> k] : c \in changes[k]} : k \in DOMAIN changes}

\* What changed of the model as a whole.
ModelChanges(previous, current, model) ==
  LET old == previous.models[model]
      new == current.models[model]
      tests(m) == TestsForModel(m, model)
      change == [contract_removed |-> old.enforced /\ ~new.enforced,
                 grain_changed |-> old.grain # new.grain,
                 business_key_changed |->
                   BusinessKeys(previous, model) # BusinessKeys(current, model),
                 required_test_removed |-> ~(tests(previous) \subseteq tests(current)),
                 materialization_changed |-> old.materialized # new.materialized,
                 incremental_key_changed |-> old.unique_key # new.unique_key,
                 owner_changed |-> Meta(old, "owner") # Meta(new, "owner"),
                 slo_changed |-> Meta(old, "sla") # Meta(new, "sla")]
  IN {k \in DOMAIN change : change[k]}

\* The findings about a model published in both.
ModelFindings(previous, current, m) ==
  {[model |-> m, column |-> f.column, change |-> f.change] :
     f \in CompareColumns(previous.models[m].columns, current.models[m].columns)}
  \cup {[model |-> m, column |-> Absent, change |-> k] : k \in ModelChanges(previous, current, m)}

ContractFindings(previous, current) ==
  LET kept == Published(previous) \cap Published(current)
  IN {[model |-> m, column |-> Absent, change |-> "published_model_removed"] :
        m \in Published(previous) \ kept}
     \cup UNION {ModelFindings(previous, current, m) : m \in kept}

\* Without a previous manifest nothing is compared, and nothing is blocked.
ContractStatus(previous, current) ==
  IF previous = Absent THEN "previous_state_unavailable"
  ELSE IF \E f \in ContractFindings(previous, current) : f.change \in Blocking THEN "blocked"
  ELSE "passed"

-----------------------------------------------------------------------------
(* Conventions: what validate_manifest reports as an error. *)

LayerPrefixes == [staging |-> {"stg"}, intermediate |-> {"int"}, marts |-> {"fct", "dim", "mart"}]

IdentityHolds(node) ==
  /\ node.layer \in DOMAIN LayerPrefixes
  /\ node.prefix \in LayerPrefixes[node.layer]

DependenciesHold(node) ==
  IF node.layer = "staging" THEN Cardinality(node.sources) <= 1 ELSE node.sources = {}

\* A wildcard, as a regular expression finds it, is only a warning in an
\* intermediate model.
WildcardsHold(node) == "wildcard" \in node.sql => node.layer = "intermediate"

MartHolds(node) ==
  /\ node.grain \in StatedGrains
  /\ {"owner", "domain", "data_product", "contract_policy"} \subseteq DOMAIN node.meta
  /\ Meta(node, "maturity") \in {"experimental", "beta", "stable", "deprecated"}
  /\ Meta(node, "contains_pii") \in {"true", "false"}
  /\ Meta(node, "sla") \notin {Absent, "incomplete"}
  /\ node.enforced
  /\ DOMAIN node.columns # {}
  /\ \A c \in DOMAIN node.columns : node.columns[c].text # Absent

\* What the gate looks at as well; BLOCKING_TODO in a description is an error
\* here only.
IsDraft(node) == "todo" \in node.sql \/ Meta(node, "scaffold_status") = "draft"

ConventionsHold(manifest) ==
  \A m \in DOMAIN manifest.models :
    LET node == manifest.models[m]
    IN /\ IdentityHolds(node) /\ DependenciesHold(node) /\ WildcardsHold(node)
       /\ ~IsDraft(node) /\ ~node.unfinished
       /\ node.layer = "marts" => MartHolds(node)
       /\ \A n \in DOMAIN manifest.models \ {m} : manifest.models[n].name # node.name
=============================================================================

-------------------------- MODULE MCDataPlatformCi --------------------------
(* Two marts and a staging model for DataPlatformCi, and the revisions     *)
(* that break one rule each.                                               *)
EXTENDS DataPlatformCi, TLC

Column(type, required) == [type |-> type, required |-> required, text |-> "what it is"]

Signed(until) == [owner |-> TRUE, reason |-> TRUE, until |-> until]

Sales ==
  [evidence |-> "static_validation", exemption |-> Absent,
   partition |-> [field |-> "event_date", type |-> "date", granularity |-> "day"],
   cluster |-> {"currency"}, filter |-> TRUE,
   strategy |-> "insert_overwrite", unique_key |-> {"event_date"}, merge_key |-> Absent,
   late |-> [days |-> 7, outside |-> "manual_bounded_backfill"], window |-> 31,
   cost_class |-> "medium"]

Orders(until) ==
  [Sales EXCEPT !.partition = Absent, !.exemption = Signed(until), !.filter = FALSE,
                !.strategy = "merge", !.unique_key = {"order_id"}, !.merge_key = "order_id",
                !.cluster = {}]

MartMeta ==
  [owner |-> "data-platform", domain |-> "commerce", data_product |-> "sales",
   contract_policy |-> "blocked", maturity |-> "experimental", contains_pii |-> "false",
   sla |-> "60 minutes",
   warehouse_compatibility |-> [postgres |-> "supported", bigquery |-> "planned"]]

Mart(name, prefix, columns, policy) ==
  [name |-> name, layer |-> "marts", prefix |-> prefix, grain |-> "one row", columns |-> columns,
   enforced |-> TRUE, materialized |-> "table", unique_key |-> Absent, sources |-> {},
   sql |-> {}, unfinished |-> FALSE, meta |-> ("bigquery" :> policy) @@ MartMeta]

Staging ==
  [name |-> "stg_orders", layer |-> "staging", prefix |-> "stg", grain |-> Absent,
   columns |-> <<>>, enforced |-> FALSE, materialized |-> "view", unique_key |-> Absent,
   sources |-> {"orders"}, sql |-> {}, unfinished |-> FALSE, meta |-> <<>>]

SalesColumns == [event_date |-> Column("date", TRUE), currency |-> Column("text", FALSE)]

Base ==
  [models |-> [fct_orders |-> Mart("fct_orders", "fct", [order_id |-> Column("text", TRUE)],
                                   Orders(1)),
               mart_daily_sales |-> Mart("mart_daily_sales", "mart", SalesColumns, Sales),
               stg_orders |-> Staging],
   tests |-> {[name |-> "unique", models |-> {"fct_orders"}, column |-> "order_id"],
              [name |-> "relationships", models |-> {"mart_daily_sales", "stg_orders"},
               column |-> "event_date"]},
   queries |-> [mart_daily_sales |-> {"bounded-predicate", "sum", "currency-grouping"}],
   cost_version |-> 1,
   cost |-> [default |-> [warning |-> 2, blocking |-> 4, cost_class |-> "medium"],
             mart_daily_sales |-> [warning |-> 1, blocking |-> 2, cost_class |-> "medium"]],
   fixture |-> [model |-> "mart_daily_sales", valid |-> TRUE, estimate |-> 0, filter |-> TRUE,
                requested |-> 7, maximum |-> 31, waiver |-> Absent],
   dag |-> [tasks |-> [i \in DOMAIN TaskOrder |-> [id |-> TaskOrder[i], retries |-> 1,
                                                   timeout |-> 60]],
            credentials |-> FALSE, cloud |-> {}]]

WithColumns(columns) == [Base EXCEPT !.models.mart_daily_sales.columns = columns]
WithSales(policy) == [Base EXCEPT !.models.mart_daily_sales.meta.bigquery = policy]

\* A gate passes the waived revision as long as its waiver lasts; the draft
\* has a staging model left to write and neither policy nor query for one mart.
MCTree ==
  [base |-> Base,
   waived |-> [WithColumns([channel |-> Column("text", FALSE)] @@ SalesColumns) EXCEPT
                 !.models.fct_orders.meta.bigquery = Orders(2),
                 !.fixture.estimate = 2,
                 !.fixture.waiver = [approved |-> 3] @@ Signed(1)],
   renamed |-> WithColumns([event_date |-> Column("date", TRUE), money |-> Column("text", FALSE)]),
   draft |-> [WithSales(Absent) EXCEPT !.models.stg_orders.sql = {"todo", "wildcard"},
                                       !.queries = <<>>],
   repartitioned |-> WithSales([Sales EXCEPT !.partition.granularity = "month"])]

\* One id looks like the other to LIKE; one extends the other.
LookAlikeIds == {<<"a", "_", "b">>, <<"a", "c", "b">>}
PrefixIds == {<<"a">>, <<"a", "_", "b">>}
=============================================================================

------------------------ MODULE MCIncidentDiagnosis ------------------------
(* A small repository for IncidentDiagnosis: a source, two models above    *)
(* each other, a test, and two models more in the second state.            *)
EXTENDS IncidentDiagnosis, TLC

Column(type, notNull) == [type |-> type, notNull |-> notNull]
Node(kind, name, layer, depends) ==
  [kind |-> kind, name |-> name, layer |-> layer, depends |-> depends,
   owner |-> kind = "model", columns |-> "order_id" :> Column("string", kind = "model")]

\* The source and the staging model have one name: it is ambiguous.
Nodes1 == "source.orders" :> Node("source", "orders", "source", {})
       @@ "model.stg" :> Node("model", "orders", "staging", {"source.orders", "macro.x"})
       @@ "model.mart" :> Node("model", "mart", "marts", {"model.stg"})
       @@ "test.mart" :> Node("test", "t", "tests", {"model.mart"})
Children1 == "source.orders" :> {"model.stg"} @@ "model.stg" :> {"model.mart"}
          @@ "model.mart" :> {"test.mart"}
Nodes2 == "model.sum" :> Node("model", "sum", "marts", {"model.mart"})
       @@ "model.day" :> Node("model", "day", "marts", {"model.mart"}) @@ Nodes1
Children2 == "model.mart" :> {"test.mart", "model.sum", "model.day"} @@ Children1

Results1 == [status |-> "model.mart" :> "success" @@ "test.mart" :> "pass", age |-> "recent"]
Results2 == [status |-> "model.mart" :> "success" @@ "test.mart" :> "fail", age |-> "old"]

Report1(kind, state) == [kind |-> kind, state |-> state]

Complete ==
  [doc |-> [manifest |-> [nodes |-> Nodes1, children |-> Children1],
            catalog |-> "model.mart" :> ("order_id" :> "uuid"),
            run_results |-> Results1, freshness |-> "source.orders" :> "pass",
            quality |-> "summary", contract |-> "diff",
            consumer_lag |-> OrderGroup :> <<0, NoLag>>],
   reports |-> "run1" :> Report1("orchestration", "passed")
            @@ "cost1" :> Report1("cost", "mart")]

Failing ==
  [doc |-> [manifest |-> [nodes |-> Nodes2, children |-> Children2],
            catalog |-> Absent, run_results |-> Results2, freshness |-> Absent,
            quality |-> Invalid, contract |-> Absent,
            consumer_lag |-> OrderGroup :> <<2, 0>>],
   reports |-> "run1" :> Report1("orchestration", "passed")
            @@ "run2" :> Report1("orchestration", "failed")
            @@ "cost1" :> Report1("cost", Invalid)]

MCRepositories == <<Complete, Failing>>

Alert(type, asset, pipeline) == [type |-> type, asset |-> asset, pipeline |-> pipeline]

MCAlerts == {Alert("freshness", "model.stg", KnownPipeline), Alert("quality", "mart", "other"),
             Alert("consumer_lag", Absent, "long"), Alert("freshness", "orders", Absent)}
=============================================================================

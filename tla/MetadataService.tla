-------------------------- MODULE MetadataService --------------------------
(***************************************************************************)
(* MetadataService: the answer of each tool that the incident diagnosis    *)
(* calls, from the index loaded at start and, for failures, lag and cost,  *)
(* from the report files read at the call.  Wording, evidence lists and    *)
(* limits on the length of a list are left out.                            *)
(***************************************************************************)
EXTENDS MetadataIndex, FiniteSetsExt, SequencesExt

CONSTANTS LongNames,        \* names SearchInput refuses: more than 100 characters
          KnownPipeline,    \* "retail_data_platform_pipeline"
          OrderGroup,       \* "order-processing-group-v1"
          NoLag,            \* the lag of a partition without a committed offset
          MaxLineageNodes   \* MAX_LINEAGE_NODES

Response(status, data) == [status |-> status, data |-> data]
Error == Response("error", None)

Find(index, name) == {a \in DOMAIN index.assets : name \in {a, index.assets[a].name}}

\* Every handler for one model: not found, ambiguous, or its answer, given the
\* answer for each asset.
ForModel(index, name, answers) ==
  LET found == Find(index, name)
  IN CASE found = {} -> Response("not_found", None)
       [] Cardinality(found) > 1 -> Response("partial", [matching |-> found])
       [] Cardinality(found) = 1 -> answers[CHOOSE a \in found : TRUE]

Search(index, query) ==
  IF query \in LongNames THEN Response("invalid_request", None)
  ELSE Response("ok", [matches |-> Find(index, query)
                         \cup {a \in DOMAIN index.assets : query \in DOMAIN index.assets[a].columns}])

Owner(index, name) ==
  ForModel(index, name, [a \in DOMAIN index.assets |->
    LET owned == index.assets[a].owner
    IN Response(IF owned THEN "ok" ELSE "partial", [owned |-> owned])])

-----------------------------------------------------------------------------
(* _walk: breadth first, at most maxDepth edges away, at most              *)
(* MaxLineageNodes nodes.  The frontier is emptied in order; neighbours of *)
(* one node come in any order (the code sorts them by name).               *)

Neighbours(index, a, direction) ==
  IF direction = "upstream" THEN index.assets[a].upstream ELSE index.assets[a].downstream

\* Mutant of the next: the depth cuts the walk and says nothing.
SilentVisit(index, direction, maxDepth, walk) ==
  LET here == Head(walk.frontier)
      new == Neighbours(index, here.node, direction) \ walk.visited
  IN IF here.depth >= maxDepth THEN [walk EXCEPT !.frontier = Tail(@)]
     ELSE [walk EXCEPT !.visited = @ \cup new,
             !.frontier = Tail(@) \o SetToSeq({[node |-> n, depth |-> here.depth + 1] : n \in new})]

Visit(index, direction, maxDepth, walk) ==
  LET here == Head(walk.frontier)
      new == Neighbours(index, here.node, direction) \ walk.visited
      room == MaxLineageNodes - Cardinality(walk.visited)
      taken == IF Cardinality(new) <= room THEN new ELSE CHOOSE s \in kSubset(room, new) : TRUE
  IN IF here.depth >= maxDepth
     THEN [visited |-> walk.visited, frontier |-> Tail(walk.frontier),
           truncated |-> walk.truncated \/ Neighbours(index, here.node, direction) # {}]
     ELSE [visited |-> walk.visited \cup taken,
           frontier |-> Tail(walk.frontier)
                          \o SetToSeq({[node |-> n, depth |-> here.depth + 1] : n \in taken}),
           truncated |-> walk.truncated \/ taken # new]

Walk(index, start, direction, maxDepth) ==
  LET walk[n \in 0 .. Cardinality(DOMAIN index.assets)] ==
        IF n = 0 THEN [visited |-> {start}, truncated |-> FALSE,
                       frontier |-> <<[node |-> start, depth |-> 0]>>]
        ELSE IF walk[n - 1].frontier = <<>> THEN walk[n - 1]
        ELSE Visit(index, direction, maxDepth, walk[n - 1])
      end == walk[Cardinality(DOMAIN index.assets)]
  IN [nodes |-> end.visited \ {start}, truncated |-> end.truncated]

\* _lineage walks both ways, and drops one: its truncated flag is of both.
UpstreamLineage(index, name, depth) ==
  ForModel(index, name, [a \in DOMAIN index.assets |->
    LET up == Walk(index, a, "upstream", depth)
        down == Walk(index, a, "downstream", depth)
    IN Response("ok", [model |-> a, nodes |-> up.nodes,
                       truncated |-> up.truncated \/ down.truncated])])

Impact(index, name, depth) ==
  ForModel(index, name, [a \in DOMAIN index.assets |->
    LET walk == Walk(index, a, "downstream", depth)
    IN Response("ok", [model |-> a, nodes |-> walk.nodes, truncated |-> walk.truncated,
                       marts |-> {n \in walk.nodes : index.assets[n].layer = "marts"}])])

-----------------------------------------------------------------------------
(* The other tools.  The index's missing artifacts are not looked at.      *)

Quality(index, name) ==
  ForModel(index, name, [a \in DOMAIN index.assets |->
    LET asset == index.assets[a]
    IN Response(IF index.warnings # {} THEN "partial" ELSE "ok",
                [overall |-> asset.quality, freshness |-> asset.freshness,
                 failing |-> IF asset.quality = "fail" THEN asset.tests ELSE {},
                 stale |-> asset.lastRun = "old"])])

\* _reports: one unreadable report fails the whole call.
Reports(r, kind) == {p \in DOMAIN r.reports : r.reports[p].kind = kind}
Unreadable(r, kind) == \E p \in Reports(r, kind) : r.reports[p].state = Invalid

\* Mutant of the next: no failure found is an answer like any other.
ContentFailures(r, pipeline) ==
  LET failed == {p \in Reports(r, "orchestration") : r.reports[p].state = "failed"}
  IN IF Unreadable(r, "orchestration") THEN Error
     ELSE IF pipeline # KnownPipeline THEN Response("not_found", None)
     ELSE Response(IF failed # {} THEN "partial" ELSE "ok", [failures |-> failed])

Failures(r, pipeline) ==
  LET failed == {p \in Reports(r, "orchestration") : r.reports[p].state = "failed"}
  IN IF Unreadable(r, "orchestration") THEN Error
     ELSE IF pipeline # KnownPipeline THEN Response("not_found", None)
     ELSE Response(IF failed # {} THEN "partial" ELSE "not_available", [failures |-> failed])

Lag(r, group) ==
  CASE r.doc["consumer_lag"] = Absent -> Response("not_available", None)
    [] r.doc["consumer_lag"] = Invalid -> Error
    [] OTHER -> IF group \notin DOMAIN r.doc["consumer_lag"] THEN Response("not_found", None)
                ELSE Response("ok", [lags |-> r.doc["consumer_lag"][group]])

\* With the "best_available" evidence level, the only one asked for.
Cost(r, name) ==
  IF Unreadable(r, "cost") THEN Error
  ELSE IF \E p \in Reports(r, "cost") : r.reports[p].state = name
  THEN Response("ok", [model |-> name])
  ELSE Response("not_available", None)

\* _dispatch.
Answer(index, r, request) ==
  CASE request.tool = "search_data_assets" -> Search(index, request.subject)
    [] request.tool = "get_model_owner" -> Owner(index, request.subject)
    [] request.tool = "get_quality_status" -> Quality(index, request.subject)
    [] request.tool = "get_upstream_lineage" ->
         UpstreamLineage(index, request.subject, request.depth)
    [] request.tool = "get_downstream_impact" -> Impact(index, request.subject, request.depth)
    [] request.tool = "get_recent_pipeline_failures" -> Failures(r, request.subject)
    [] request.tool = "get_consumer_lag" -> Lag(r, request.subject)
    [] request.tool = "get_cost_estimate" -> Cost(r, request.subject)
=============================================================================

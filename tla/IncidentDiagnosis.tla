------------------------- MODULE IncidentDiagnosis -------------------------
(***************************************************************************)
(* One run of apps/incident_agent: the MCP client starts the metadata      *)
(* server, the diagnoser asks its questions one by one, and the report is  *)
(* computed from the answers and the errors.  The index may be rebuilt,    *)
(* and the repository change, meanwhile.                                   *)
(***************************************************************************)
EXTENDS McpTransport

CONSTANTS Alerts,       \* records [type, asset, pipeline]; asset or pipeline may be Absent
          LineageDepth  \* the max_depth asked for: 5

ASSUME AlertAssumption ==
  \A a \in Alerts : /\ a.type \in {"freshness", "quality", "consumer_lag", "pipeline"}
                    /\ a.asset # Absent \/ a.pipeline # Absent

VARIABLES alert,
          pc,         \* what the agent does next
          calls,      \* questions left
          responses,  \* tool -> the answer accepted, with the request it is to
          errors,     \* tools whose call raised
          history,    \* IncidentState values, in order
          raised,     \* an exception leaves the agent
          report      \* the IncidentReport, or Absent

session == <<alert, pc, calls, responses, errors, history, raised, report>>
vars == <<indexVars, transport, session>>

-----------------------------------------------------------------------------
(* The questions, and what is concluded from the answers. *)

Question(tool, subject, depth) == [tool |-> tool, subject |-> subject, depth |-> depth, id |-> 0]

\* An alert without an asset has no question about a model.
Questions(a) ==
  LET search == Question("search_data_assets", IF a.asset # Absent THEN a.asset ELSE a.pipeline, 0)
      failures == Question("get_recent_pipeline_failures",
                           IF a.pipeline # Absent THEN a.pipeline ELSE KnownPipeline, 0)
      lag == Question("get_consumer_lag", OrderGroup, 0)
  IN IF a.asset = Absent THEN <<search, failures, lag>>
     ELSE <<search,
            Question("get_model_owner", a.asset, 0),
            Question("get_quality_status", a.asset, 0),
            Question("get_upstream_lineage", a.asset, LineageDepth),
            Question("get_downstream_impact", a.asset, LineageDepth),
            failures, lag,
            Question("get_cost_estimate", a.asset, 0)>>

StateOf(tool) ==
  CASE tool \in {"search_data_assets", "get_model_owner"} -> "ASSET_RESOLVED"
    [] tool = "get_quality_status" -> "QUALITY_CHECKED"
    [] tool \in {"get_upstream_lineage", "get_downstream_impact"} -> "LINEAGE_TRACED"
    [] tool \in {"get_recent_pipeline_failures", "get_cost_estimate"} -> "PIPELINE_CHECKED"
    [] tool = "get_consumer_lag" -> "KAFKA_CHECKED"

StatusOf(tool) == IF tool \in errors THEN "error" ELSE responses[tool].answer.status
Asked == errors \cup DOMAIN responses
Incomplete(tool) == StatusOf(tool) \in {"partial", "not_available", "error"}

\* The data of a tool's answer, or default when it is not of that form.
DataOf(tool, field, default) ==
  IF tool \in DOMAIN responses /\ field \in DOMAIN responses[tool].answer.data
  THEN responses[tool].answer.data[field] ELSE default

\* An answer is stamped when it is given, so none is older than the alert by a
\* day: of what makes evidence stale only the tool's own warning is left.
Degraded ==
  \/ errors # {}
  \/ \E t \in Asked \ {"get_cost_estimate"} : Incomplete(t)
  \/ DataOf("get_quality_status", "stale", FALSE)

\* A partition whose lag is null counts as none.
TotalLag == FoldSeq(LAMBDA lag, sum : IF lag = NoLag THEN sum ELSE sum + lag, 0,
                    DataOf("get_consumer_lag", "lags", <<>>))
FailuresFound == DataOf("get_recent_pipeline_failures", "failures", {}) # {}
QualityStatus == DataOf("get_quality_status", "overall", "unknown")

Facts ==
  {"alert"} \cup (IF QualityStatus \in {"fail", "warn", "pass"} THEN {"quality"} ELSE {})
            \cup (IF FailuresFound THEN {"failures"} ELSE {})
            \cup (IF DataOf("get_consumer_lag", "lags", Absent) # Absent THEN {"lag"} ELSE {})

Cause ==
  IF FailuresFound /\ alert.type = "freshness" THEN "pipeline failure"
  ELSE IF TotalLag > 0 /\ alert.type \in {"freshness", "consumer_lag"} THEN "kafka backlog"
  ELSE IF QualityStatus = "fail" /\ alert.type = "quality" THEN "quality gate"
  ELSE "undetermined"

Rejected == IF TotalLag = 0 /\ "get_consumer_lag" \in Asked THEN {"kafka backlog"} ELSE {}

AffectedAssets ==
  DataOf("get_downstream_impact", "nodes", {})
    \cup (IF alert.asset # Absent THEN {alert.asset} ELSE {})

Recommendations ==
  {"inspect the artifacts"}
    \cup (IF Cause = "pipeline failure" THEN {"review the failed task"} ELSE {})
    \cup (IF Cause = "kafka backlog" \/ alert.type = "consumer_lag"
          THEN {"inspect consumer health"} ELSE {})
    \cup (IF Cause = "quality gate" \/ alert.type = "quality"
          THEN {"identify invalid records"} ELSE {})

Report ==
  [status |-> IF Degraded THEN "degraded" ELSE "completed",
   states |-> history \o <<"EVIDENCE_CORRELATED">>
                \o (IF Degraded THEN <<"DEGRADED_DIAGNOSIS">> ELSE <<>>)
                \o <<"DIAGNOSIS_PRODUCED", "HUMAN_REVIEW_REQUIRED">>,
   facts |-> Facts, cause |-> Cause, rejected |-> Rejected, affected |-> AffectedAssets,
   unknowns |-> {t \in Asked : Incomplete(t)}
                  \cup (IF Cause = "undetermined" THEN {"cause"} ELSE {}),
   actions |-> Recommendations]

-----------------------------------------------------------------------------
(* The agent. *)

Init ==
  /\ IndexInit /\ TransportInit
  /\ alert \in Alerts
  /\ pc = "spawn" /\ calls = Questions(alert)
  /\ responses = None /\ errors = {}
  /\ history = <<"RECEIVED", "VALIDATED">>
  /\ raised = FALSE /\ report = Absent

Start ==
  /\ pc = "spawn" /\ Spawn
  /\ pc' = "initialize"
  /\ UNCHANGED <<indexVars, alert, calls, responses, errors, history, raised, report>>

\* An exception other than the ones a block catches: __exit__, then out.
Raise == pc' = "exit" /\ raised' = TRUE

\* __enter__ sends initialize, then tools/list.
Handshaking == pc \in {"initialize", "tools/list"}

Handshake ==
  /\ Handshaking /\ waiting = Absent
  /\ SendRequest(Question(pc, "", 0))
  /\ UNCHANGED <<indexVars, session>>

HandshakeEnds ==
  /\ Handshaking
  /\ \/ ReadLine /\ IF Matches THEN /\ pc' = IF pc = "initialize" THEN "tools/list" ELSE "collect"
                                    /\ UNCHANGED raised
                               ELSE Raise
     \/ (SelectTimeout /\ Raise)
  /\ UNCHANGED <<indexVars, alert, calls, responses, errors, history, report>>

\* A write to a dead server raises BrokenPipeError, which _collect lets out.
WriteFails ==
  /\ pc \in {"initialize", "tools/list", "collect"} /\ waiting = Absent
  /\ pc = "collect" => calls # <<>>
  /\ StdinBroken /\ Raise
  /\ UNCHANGED <<indexVars, transport, alert, calls, responses, errors, history, report>>

Ask ==
  /\ pc = "collect" /\ calls # <<>> /\ waiting = Absent
  /\ SendRequest(Head(calls))
  /\ UNCHANGED <<indexVars, session>>

\* _collect goes on after an answer and after McpClientError.
Collected(tool) ==
  /\ calls' = Tail(calls)
  /\ history' = IF \E i \in DOMAIN history : history[i] = StateOf(tool) THEN history
                ELSE Append(history, StateOf(tool))
  /\ UNCHANGED <<indexVars, alert, pc, raised, report>>

\* Mutant of the next: an answer that says error is a failed call as well.
AcceptTwice ==
  /\ pc = "collect" /\ ReadLine /\ Matches
  /\ responses' = [t \in DOMAIN responses \cup {waiting.tool} |->
                     IF t = waiting.tool THEN [to |-> Line.to, answer |-> Line.answer]
                     ELSE responses[t]]
  /\ errors' = IF Line.answer.status = "error" THEN errors \cup {waiting.tool} ELSE errors
  /\ Collected(waiting.tool)

Accept ==
  /\ pc = "collect" /\ ReadLine /\ Matches
  /\ responses' = [t \in DOMAIN responses \cup {waiting.tool} |->
                     IF t = waiting.tool THEN [to |-> Line.to, answer |-> Line.answer]
                     ELSE responses[t]]
  /\ UNCHANGED errors
  /\ Collected(waiting.tool)

\* Mutant of the next: McpClientError is not among the errors caught.
EscapingError ==
  /\ pc = "collect"
  /\ (ReadLine /\ ~Matches) \/ SelectTimeout
  /\ Raise
  /\ UNCHANGED <<indexVars, alert, calls, responses, errors, history, report>>

CallFails ==
  /\ pc = "collect"
  /\ (ReadLine /\ ~Matches) \/ SelectTimeout
  /\ errors' = errors \cup {waiting.tool}
  /\ UNCHANGED responses
  /\ Collected(waiting.tool)

\* diagnose returns, and the with statement is left.
Diagnose ==
  /\ pc = "collect" /\ calls = <<>>
  /\ report' = Report
  /\ pc' = "exit"
  /\ UNCHANGED <<indexVars, transport, alert, calls, responses, errors, history, raised>>

\* Mutant of the next: a server that does not end is waited for.
PatientEnd ==
  /\ pc = "exit" /\ ServerEnds
  /\ UNCHANGED <<indexVars, session>>

\* __exit__ closes stdin: the server ends by itself, or is signalled when the
\* wait for it times out.
EndServer ==
  /\ pc = "exit"
  /\ ServerEnds \/ (server = "stuck" /\ Signal)
  /\ UNCHANGED <<indexVars, session>>

\* The report is written after the server is gone, and not after an exception.
Finish ==
  /\ pc = "exit" /\ server = "dead"
  /\ pc' = IF raised THEN "failed" ELSE "written"
  /\ UNCHANGED <<indexVars, transport, alert, calls, responses, errors, history, raised, report>>

Agent == \/ Start \/ Handshake \/ HandshakeEnds \/ WriteFails \/ Ask \/ Accept
         \/ CallFails \/ Diagnose \/ EndServer \/ Finish

Server == (Load \/ Serve \/ ServeError \/ ServerCrashes \/ ServerStuck)
            /\ UNCHANGED <<indexVars, session>>

Rebuild == IndexNext /\ UNCHANGED <<transport, session>>

Next == Agent \/ Server \/ Rebuild

\* The agent's waits end by themselves, and a server that is not stuck
\* handles what it is sent; nothing is assumed of the builder.
Progress == Agent \/ ((Load \/ Serve) /\ UNCHANGED <<indexVars, session>>)
Spec == Init /\ [][Next]_vars /\ WF_vars(Progress)

-----------------------------------------------------------------------------
(* Properties. *)

\* Types, of the index's files, the pipes and the session.
TypeOK ==
  /\ IndexTypeOK /\ TransportTypeOK
  /\ alert \in Alerts
  /\ pc \in {"spawn", "initialize", "tools/list", "collect", "exit", "failed", "written"}
  /\ DOMAIN responses \cap errors = {} /\ raised \in BOOLEAN

\* mcp_client.py:147.  However late answers come, an answer that is taken as
\* evidence was computed for that very question, the subject included.
AnswersMatch ==
  \A t \in DOMAIN responses : \E i \in DOMAIN Questions(alert) :
    LET q == Questions(alert)[i]
    IN q.tool = t /\ [responses[t].to EXCEPT !.id = 0] = q

\* metadata_service.py:402, incidents.py:168.  No answer about the indexed
\* pipeline is ever "ok", so a diagnosis is completed only when the pipeline
\* it asked about is not indexed at all.
CompletedOnlyOffIndex ==
  report # Absent /\ report.status = "completed" =>
    responses["get_recent_pipeline_failures"].answer.status = "not_found"

\* incidents.py:262.  Once the handshake is over, slow, failing and missing
\* answers never cost the report: only a server that died by itself does.
OnlyACrashLosesTheReport ==
  pc = "failed" /\ history # <<"RECEIVED", "VALIDATED">> => crashed

\* All that is downstream of an asset, directly or not: what every set has
\* that has the asset and, with an asset, those it feeds.
Downward(assets, a) ==
  {s \in SUBSET DOMAIN assets : a \in s /\ \A b \in s : assets[b].downstream \subseteq s}
Below(assets, a) == {b \in DOMAIN assets \ {a} : \A s \in Downward(assets, a) : b \in s}

\* metadata_service.py:529.  The affected assets of a report whose impact
\* answer is not marked truncated are all those downstream in the served index.
ImpactComplete ==
  report # Absent => \A t \in DOMAIN responses \cap {"get_downstream_impact"} :
    LET impact == responses[t].answer
        assets == Content("metadata-index", served).assets
    IN impact.status = "ok" /\ ~impact.data.truncated =>
         report.affected \ {alert.asset} = Below(assets, impact.data.model)

\* metadata_index.py:385.  A build that ran to its end validates, whatever
\* the artifacts were and whatever builds died before it.
FinishedBuildValidates == whole => ValidBuild(files)

\* mcp_client.py:92, 134.  A session ends, with a report or an exception,
\* and leaves no server behind, even when the server is stuck.
SessionEnds == <>(pc \in {"failed", "written"} /\ server = "dead")

=============================================================================

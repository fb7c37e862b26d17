--------------------------- MODULE MCBenchmarkRun ---------------------------
(* Small instances of BenchmarkRun for TLC. *)
EXTENDS BenchmarkRun, TLC

CONSTANT none

\* One partition of orders with a backlog behind a committed offset, two of
\* logs, one of them with a backlog and no committed offset.
GroupOfPartition == "o0" :> "order" @@ "l0" :> "log" @@ "l1" :> "log"
EndBefore == "o0" :> 1 @@ "l0" :> 1 @@ "l1" :> 0
CommittedBefore == "o0" :> 0 @@ "l0" :> none @@ "l1" :> none
RejectedRecords == {<<"o0", 1>>, <<"l0", 0>>}

\* docs/reliability.md:101 "if the pre-existing backlog is not down to zero by
\* the timeout, the run fails, and does not mix historical messages into the
\* result": past the baseline the whole backlog is durable.
BacklogDrained ==
  stage \notin {"baseline", "failed"} =>
    \A p \in Partitions : InitialEnd[p] <= handled[p]
=============================================================================

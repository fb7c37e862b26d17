------------------------- MODULE MCProducerDelivery -------------------------
(* Small instances of ProducerDelivery for TLC. *)
EXTENDS ProducerDelivery, TLC

\* Three records on one partition, so that its ranges meet, and one elsewhere.
TwoPartitions == 0 :> "p0" @@ 1 :> "p0" @@ 2 :> "p1" @@ 3 :> "p0"
OnePartition == [t \in 0 .. 3 |-> "p0"]

\* docs/reliability.md:18 "on Ctrl+C the generator first completes the flush
\* and the JSON report, then exits with 130".
InterruptStillReports == stage = "exited" => written
=============================================================================

---------------------------- MODULE BenchmarkRun ----------------------------
(***************************************************************************)
(* BenchmarkRunner.run: wait for the groups to drain what the topics held  *)
(* before (the baseline), note the end of the dead-letter topic, run the   *)
(* generator, wait until the committed offsets cover every record it       *)
(* delivered, count the run's dead-letter records.                         *)
(*                                                                         *)
(* Stages: baseline, dlqstart, producer, durable (waiting for consumption),*)
(* dlqend, completed and failed; `Looping' are the two that poll the lag   *)
(* under a deadline.  The samples taken while the generator runs decide    *)
(* nothing and are left out.                                               *)
(***************************************************************************)
EXTENDS LagInspection

VARIABLES stage,
          expired,      \* monotonic() has reached the stage's deadline
          inspected,    \* an inspection of this stage is under way or done
          ranges,       \* coordinates the generator reports as delivered
          dlqStart,     \* high watermark of the dead-letter topic at dlqstart
          dlqCount      \* what _count_run_dlq matched

run == <<stage, expired, inspected, ranges, dlqStart, dlqCount>>
vars == <<broker, inspection, run>>

Stages == {"baseline", "dlqstart", "producer", "durable", "dlqend", "completed", "failed"}
Looping == {"baseline", "durable"}

Init ==
  /\ LagInit
  /\ stage = "baseline" /\ expired = FALSE /\ inspected = FALSE
  /\ ranges = {} /\ dlqStart = 0 /\ dlqCount = 0

Enter(s) == stage' = s /\ expired' = FALSE /\ inspected' = FALSE

-----------------------------------------------------------------------------
(* The two polling loops. *)

\* Mutant: the deadline is not checked.
NewRoundForever ==
  /\ stage \in Looping /\ ~Inspecting /\ ~inspected
  /\ ListGroups
  /\ inspected' = TRUE
  /\ UNCHANGED <<stage, expired, ranges, dlqStart, dlqCount>>

\* The loop's head: the deadline is checked only here.
NewRound ==
  /\ stage \in Looping /\ ~Inspecting /\ ~expired /\ ~inspected
  /\ ListGroups
  /\ inspected' = TRUE
  /\ UNCHANGED <<stage, expired, ranges, dlqStart, dlqCount>>

InspectStep == Inspect /\ UNCHANGED run

Snapshot == stage \in Looping /\ ~Inspecting /\ inspected

\* Mutant: some numeric lag is zero.
DrainedSomewhere ==
  /\ \E p \in Partitions : Measured(p) => Lag(p) = 0
  /\ existing = Groups

\* Every numeric lag is zero and every group is listed.
Drained ==
  /\ \A p \in Partitions : Measured(p) => Lag(p) = 0
  /\ existing = Groups

\* Mutant of the next: a committed offset counts its own record as consumed.
ConsumedInclusive == {c \in ranges : current[c[1]] # NoOffsetYet /\ c[2] <= current[c[1]]}

\* consumed_from_ranges, as the records it counts.
Consumed == {c \in ranges : current[c[1]] # NoOffsetYet /\ c[2] < current[c[1]]}

BaselineDone ==
  /\ stage = "baseline" /\ Snapshot /\ Drained
  /\ Enter("dlqstart")
  /\ UNCHANGED <<broker, inspection, ranges, dlqStart, dlqCount>>

ConsumptionDone ==
  /\ stage = "durable" /\ Snapshot /\ Cardinality(Consumed) = Cardinality(ranges)
  /\ Enter("dlqend")
  /\ UNCHANGED <<broker, inspection, ranges, dlqStart, dlqCount>>

\* sleep(poll_interval_seconds) and back to the loop's head.
NotYet ==
  /\ Snapshot
  /\ stage = "baseline" => ~Drained
  /\ stage = "durable" => Cardinality(Consumed) # Cardinality(ranges)
  /\ inspected' = FALSE
  /\ UNCHANGED <<broker, inspection, stage, expired, ranges, dlqStart, dlqCount>>

TimedOut ==
  /\ stage \in Looping /\ ~Inspecting /\ ~inspected /\ expired
  /\ Enter("failed")
  /\ UNCHANGED <<broker, inspection, ranges, dlqStart, dlqCount>>

Expire ==
  /\ stage \in Looping \cup {"producer"} /\ ~expired
  /\ expired' = TRUE
  /\ UNCHANGED <<broker, inspection, stage, inspected, ranges, dlqStart, dlqCount>>

-----------------------------------------------------------------------------
(* The other stages. *)

\* Mutant: one past the tail.
NoteDlqTailPastEnd ==
  /\ stage = "dlqstart" /\ dlqStart' = Len(dlq) + 1
  /\ Enter("producer")
  /\ UNCHANGED <<broker, inspection, ranges, dlqCount>>

NoteDlqTail ==
  /\ stage = "dlqstart" /\ dlqStart' = Len(dlq)
  /\ Enter("producer")
  /\ UNCHANGED <<broker, inspection, ranges, dlqCount>>

\* The generator appends a record and counts its delivery.
GeneratorDelivers(p) ==
  /\ stage = "producer" /\ Append1(p)
  /\ ranges' = ranges \cup {<<p, end[p]>>}
  /\ UNCHANGED <<inspection, stage, expired, inspected, dlqStart, dlqCount>>

\* It exits with code 0; _wait_for_process found it gone.
GeneratorExits ==
  /\ stage = "producer"
  /\ Enter("durable")
  /\ UNCHANGED <<broker, inspection, ranges, dlqStart, dlqCount>>

\* A record that is not the run's: another producer's, or a second copy that
\* the generator's library sent when an answer was lost.
ForeignAppend(p) ==
  /\ end[p] < MaxEnd /\ Fault
  /\ end' = [end EXCEPT ![p] = @ + 1]
  /\ UNCHANGED <<established, handled, committed, dlq, inspection, run>>

\* _count_run_dlq: the dead-letter records between the two tails whose
\* original coordinates lie in the run's ranges.
CountDlq ==
  /\ stage = "dlqend"
  /\ dlqCount' = Cardinality({i \in (dlqStart + 1) .. Len(dlq) : dlq[i] \in ranges})
  /\ Enter("completed")
  /\ UNCHANGED <<broker, inspection, ranges, dlqStart>>

\* A consumer or the generator exits unexpectedly, the generator overruns its
\* deadline, Kafka does not answer a request: BenchmarkStageError and the like.
StageFails ==
  /\ stage \notin {"completed", "failed"} /\ (Fault \/ (stage = "producer" /\ expired /\ UNCHANGED faults))
  /\ Enter("failed")
  /\ UNCHANGED <<established, end, handled, committed, dlq, inspection, ranges, dlqStart, dlqCount>>

-----------------------------------------------------------------------------
Runner ==
  \/ NewRound \/ InspectStep \/ BaselineDone \/ ConsumptionDone \/ NotYet
  \/ TimedOut \/ NoteDlqTail \/ GeneratorExits \/ CountDlq

Next ==
  \/ Runner \/ Expire \/ StageFails
  \/ Broker /\ UNCHANGED <<inspection, run>>
  \/ \E p \in Partitions : GeneratorDelivers(p) \/ ForeignAppend(p)

Spec == Init /\ [][Next]_vars

\* The runner goes on and clocks advance; nothing is assumed of the groups.
FairSpec == Spec /\ WF_vars(Runner) /\ WF_vars(Expire)

-----------------------------------------------------------------------------
(* Properties. *)

TypeOK ==
  /\ LagTypeOK
  /\ stage \in Stages /\ expired \in BOOLEAN /\ inspected \in BOOLEAN
  /\ ranges \subseteq Partitions \X Nat
  /\ dlqStart \in 0 .. Len(dlq) /\ dlqCount \in 0 .. Len(dlq)

\* A snapshot never shows a group ahead of its partition: the committed offset
\* is read before the watermark, so "invalid_negative_lag" is never a race.
LagNeverNegative ==
  \A p \in Partitions :
    current[p] # NoOffsetYet /\ high[p] # NoOffsetYet => current[p] <= high[p]

\* When the runner takes the run for consumed, each of the run's records is
\* durable, though it looked at offsets that may meanwhile have moved back.
ConsumedIsDurable ==
  stage \in {"dlqend", "completed"} => \A c \in ranges : c[2] < handled[c[1]]

\* Every record of the run that was rejected is in the count.
DlqCountComplete ==
  stage = "completed" => dlqCount >= Cardinality(ranges \cap Rejected)

\* Past the baseline, the backlog of every partition whose group had committed
\* an offset before the run is durable.
CommittedBacklogDrained ==
  stage \notin {"baseline", "failed"} =>
    \A p \in Partitions :
      InitialCommitted[p] # NoOffsetYet => InitialEnd[p] <= handled[p]

\* Each wait has a deadline: the run ends even if the groups never move.
EventuallyEnds == <>(stage \in {"completed", "failed"})
=============================================================================

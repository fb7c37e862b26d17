--------------------------- MODULE OrderConsumer ---------------------------
(***************************************************************************)
(* The order consumer group: OrderConsumerRunner.run polling one record at *)
(* a time, OrderProcessor.process sending it to the dead-letter topic or   *)
(* through one PostgreSQL transaction, and the synchronous offset commit.  *)
(*                                                                         *)
(* Several processes run the same code.  librdkafka moves partitions       *)
(* between them in the background (the order consumer registers no         *)
(* rebalance callback), also while a record is in hand.  A process keeps   *)
(* the record it has in hand, and the broker checks the group generation   *)
(* of an offset commit, not the ownership of the partition: a commit by    *)
(* the previous owner may be accepted, and may move the offset backwards.  *)
(*                                                                         *)
(* A member's stage is where it stands in the loop:                        *)
(*   loop        at the loop head, nothing in hand                         *)
(*   dlq         publishing the record to the dead-letter topic            *)
(*   marker      about to insert the processed_events row                  *)
(*   row         marker inserted, valid_orders row to insert               *)
(*   tx          both inserted, transaction to commit                      *)
(*   duplicate   marker found, empty transaction to commit                 *)
(*   offset      downstream work done, offset to commit                    *)
(*   down        process gone                                              *)
(***************************************************************************)
EXTENDS TopicLog

CONSTANTS Members,      \* consumer processes
          NoMember,     \* owner of an unassigned partition
          NoRecord,     \* what a member with nothing in hand holds
          MaxRetries,   \* RetryPolicy.max_retries
          MaxFaults     \* bound: failures, rebalances, signals and crashes

ASSUME OrderAssumption ==
  /\ NoMember \notin Members
  /\ NoRecord \notin Coordinates
  /\ MaxRetries \in Nat
  /\ MaxFaults \in Nat

VARIABLES owner,        \* the group's assignment
          position,     \* next offset the owner of a partition fetches
          committed,    \* committed next offset of the group
          processed,    \* processed_events: <<event id, coordinate>>
          validOrders,  \* valid_orders: <<event id, coordinate>>
          dlq,          \* coordinates with a record in the dead-letter topic
          stage, current, attempt, stopping,   \* per process
          faults        \* faults so far

group == <<owner, position, committed>>
tables == <<processed, validOrders>>
process == <<stage, current, attempt, stopping>>
vars == <<group, tables, dlq, process, faults>>

Stages == {"loop", "dlq", "marker", "row", "tx", "duplicate", "offset", "down"}
Transaction == {"marker", "row", "tx", "duplicate"}

ProcessedIds == {r[1] : r \in processed}

Init ==
  /\ owner = [p \in Partitions |-> NoMember]
  /\ position = [p \in Partitions |-> 0]
  /\ committed = [p \in Partitions |-> 0]
  /\ processed = {}
  /\ validOrders = {}
  /\ dlq = {}
  /\ stage = [m \in Members |-> "loop"]
  /\ current = [m \in Members |-> NoRecord]
  /\ attempt = [m \in Members |-> 0]
  /\ stopping = [m \in Members |-> FALSE]
  /\ faults = 0

Fault == faults < MaxFaults /\ faults' = faults + 1

GoTo(m, s) ==
  /\ stage' = [stage EXCEPT ![m] = s]
  /\ attempt' = [attempt EXCEPT ![m] = 0]
  /\ UNCHANGED stopping

-----------------------------------------------------------------------------
(* The consumer group (external: librdkafka and the group coordinator).    *)

\* A partition nobody owns is given to a live member, which fetches from the
\* committed offset, from the earliest when there is none (it is then 0).
Assign(p, m) ==
  /\ owner[p] = NoMember
  /\ stage[m] # "down"
  /\ owner' = [owner EXCEPT ![p] = m]
  /\ position' = [position EXCEPT ![p] = committed[p]]
  /\ UNCHANGED <<committed, tables, dlq, process, faults>>

\* A rebalance moves an owned partition, possibly back to the same member;
\* what a member has in hand stays there.
Rebalance(p, m) ==
  /\ owner[p] \in Members
  /\ stage[m] # "down"
  /\ Fault
  /\ owner' = [owner EXCEPT ![p] = m]
  /\ position' = [position EXCEPT ![p] = committed[p]]
  /\ UNCHANGED <<committed, tables, dlq, process>>

-----------------------------------------------------------------------------
(* Leaving and retrying.                                                   *)

\* Bug: the last failed attempt is swallowed and the loop goes on.
LeaveSwallowed(m) ==
  /\ stage' = [stage EXCEPT ![m] = "loop"]
  /\ current' = [current EXCEPT ![m] = NoRecord]
  /\ attempt' = [attempt EXCEPT ![m] = 0]
  /\ UNCHANGED <<owner, position, stopping>>

\* The process ends: an exception left run() and the finally block closed the
\* consumer without a commit, or the loop saw the stop flag, or it crashed.
\* Its partitions go back to the group, at once or when the session times
\* out (which only delays the next Assign); PostgreSQL rolls back an open
\* transaction.
Leave(m) ==
  /\ owner' = [p \in Partitions |-> IF owner[p] = m THEN NoMember ELSE owner[p]]
  /\ stage' = [stage EXCEPT ![m] = "down"]
  /\ current' = [current EXCEPT ![m] = NoRecord]
  /\ attempt' = [attempt EXCEPT ![m] = 0]
  /\ stopping' = [stopping EXCEPT ![m] = FALSE]
  /\ UNCHANGED <<position>>

\* Bug: the retry limit is not looked at.
TryAgainForever(m, first) ==
  /\ attempt' = [attempt EXCEPT ![m] = @ + 1]
  /\ stage' = [stage EXCEPT ![m] = first]
  /\ UNCHANGED <<current, stopping, owner, position>>

\* run_with_retry after a failed attempt: a retryable error with retries left
\* starts the operation again at its first stage.
TryAgain(m, first) ==
  /\ attempt[m] < MaxRetries
  /\ attempt' = [attempt EXCEPT ![m] = @ + 1]
  /\ stage' = [stage EXCEPT ![m] = first]
  /\ UNCHANGED <<current, stopping, owner, position>>

\* A non-retryable error, or the last retryable one, leaves run().
GiveUp(m) == Leave(m)

-----------------------------------------------------------------------------
(* The polling loop.                                                       *)

\* poll returns the next record of an owned partition; decoding decides
\* whether it goes to the dead-letter topic or into a transaction.
Poll(m, p) ==
  /\ stage[m] = "loop"
  /\ ~stopping[m]
  /\ owner[p] = m
  /\ position[p] < LogEnd[p]
  /\ current' = [current EXCEPT ![m] = <<p, position[p]>>]
  /\ position' = [position EXCEPT ![p] = @ + 1]
  /\ GoTo(m, IF <<p, position[p]>> \in Malformed THEN "dlq" ELSE "marker")
  /\ UNCHANGED <<owner, committed, tables, dlq, faults>>

\* poll raises: not retryable, or its retries are used up.
PollFails(m) ==
  /\ stage[m] = "loop"
  /\ Fault
  /\ GiveUp(m)
  /\ UNCHANGED <<committed, tables, dlq>>

-----------------------------------------------------------------------------
(* The dead-letter topic (DlqProducer.publish under run_with_retry).       *)

\* The broker acknowledged the record.
DlqDelivered(m) ==
  /\ stage[m] = "dlq"
  /\ dlq' = dlq \cup {current[m]}
  /\ GoTo(m, "offset")
  /\ UNCHANGED <<group, tables, current, faults>>

\* A delivery error, or no acknowledgement in time: the record may be in the
\* topic all the same, now or later.
DlqFails(m) ==
  /\ stage[m] = "dlq"
  /\ Fault
  /\ dlq' = dlq \/ dlq' = dlq \cup {current[m]}
  /\ TryAgain(m, "dlq") \/ GiveUp(m)
  /\ UNCHANGED <<committed, tables>>

-----------------------------------------------------------------------------
(* The database transaction (OrderRepository.persist in _persist_once).    *)

\* Some open transaction has inserted the marker of this event.
MarkerLocked(m) ==
  \E n \in Members \ {m} :
    /\ stage[n] \in {"row", "tx"}
    /\ EventAt(current[n]) = EventAt(current[m])

\* Bug: the marker is looked up, not claimed through the unique index.
InsertMarkerUnlocked(m) ==
  /\ stage[m] = "marker"
  /\ stage' = [stage EXCEPT ![m] =
                 IF EventAt(current[m]) \in ProcessedIds THEN "duplicate" ELSE "row"]
  /\ UNCHANGED <<group, tables, dlq, current, attempt, stopping, faults>>

\* Bug: the marker is committed on its own, before the business row.
InsertMarkerAutocommit(m) ==
  /\ stage[m] = "marker"
  /\ ~MarkerLocked(m)
  /\ stage' = [stage EXCEPT ![m] =
                 IF EventAt(current[m]) \in ProcessedIds THEN "duplicate" ELSE "row"]
  /\ processed' = IF EventAt(current[m]) \in ProcessedIds THEN processed
                  ELSE processed \cup {<<EventAt(current[m]), current[m]>>}
  /\ UNCHANGED <<group, validOrders, dlq, current, attempt, stopping, faults>>

\* INSERT .. ON CONFLICT DO NOTHING RETURNING waits for an open transaction
\* that inserted the same key, then inserts or finds the committed row.
InsertMarker(m) ==
  /\ stage[m] = "marker"
  /\ ~MarkerLocked(m)
  /\ stage' = [stage EXCEPT ![m] =
                 IF EventAt(current[m]) \in ProcessedIds THEN "duplicate" ELSE "row"]
  /\ UNCHANGED <<group, tables, dlq, current, attempt, stopping, faults>>

InsertRow(m) ==
  /\ stage[m] = "row"
  /\ current[m] \notin Unstorable
  /\ stage' = [stage EXCEPT ![m] = "tx"]
  /\ UNCHANGED <<group, tables, dlq, current, attempt, stopping, faults>>

\* Bug: the refused row is logged and its offset committed.
RowRefusedSkipped(m) ==
  /\ stage[m] = "row"
  /\ current[m] \in Unstorable
  /\ GoTo(m, "offset")
  /\ UNCHANGED <<group, tables, dlq, current, faults>>

\* PostgreSQL refuses the row with a DataError, which is not retryable.
RowRefused(m) ==
  /\ stage[m] = "row"
  /\ current[m] \in Unstorable
  /\ GiveUp(m)
  /\ UNCHANGED <<committed, tables, dlq, faults>>

\* What the open transaction has inserted in each of the two tables.
Inserted(m) == IF stage[m] = "tx" THEN {<<EventAt(current[m]), current[m]>>} ELSE {}

\* The commit makes both inserts visible at once.
Apply(m) ==
  /\ processed' = processed \cup Inserted(m)
  /\ validOrders' = validOrders \cup Inserted(m)

CommitTransaction(m) ==
  /\ stage[m] \in {"tx", "duplicate"}
  /\ Apply(m)
  /\ GoTo(m, "offset")
  /\ UNCHANGED <<group, dlq, current, faults>>

\* A statement or the commit fails: the transaction is rolled back and
\* started over, or the process ends.  When it is the commit, the error may
\* hide that PostgreSQL committed.
TransactionFails(m) ==
  /\ stage[m] \in Transaction
  /\ Fault
  /\ UNCHANGED tables \/ Apply(m)
  /\ TryAgain(m, "marker") \/ GiveUp(m)
  /\ UNCHANGED <<committed, dlq>>

-----------------------------------------------------------------------------
(* The offset commit.                                                      *)

Partition(c) == c[1]
NextOffset(c) == c[2] + 1

Accept(m) ==
  committed' = [committed EXCEPT ![Partition(current[m])] = NextOffset(current[m])]

\* Bug: commit() without the message commits the fetch position.
CommitOffsetPosition(m) ==
  /\ stage[m] = "offset"
  /\ committed' = [committed EXCEPT ![Partition(current[m])] = position[Partition(current[m])]]
  /\ GoTo(m, "loop")
  /\ current' = [current EXCEPT ![m] = NoRecord]
  /\ UNCHANGED <<owner, position, tables, dlq, faults>>

\* Bug: the offset of the record itself, not the next one, is committed.
CommitOffsetOfRecord(m) ==
  /\ stage[m] = "offset"
  /\ committed' = [committed EXCEPT ![Partition(current[m])] = current[m][2]]
  /\ GoTo(m, "loop")
  /\ current' = [current EXCEPT ![m] = NoRecord]
  /\ UNCHANGED <<owner, position, tables, dlq, faults>>

CommitOffset(m) ==
  /\ stage[m] = "offset"
  /\ Accept(m)
  /\ GoTo(m, "loop")
  /\ current' = [current EXCEPT ![m] = NoRecord]
  /\ UNCHANGED <<owner, position, tables, dlq, faults>>

\* The commit fails (fenced, or a transport error); the broker may have
\* recorded it.
CommitOffsetFails(m) ==
  /\ stage[m] = "offset"
  /\ Fault
  /\ UNCHANGED committed \/ Accept(m)
  /\ TryAgain(m, "offset") \/ GiveUp(m)
  /\ UNCHANGED <<tables, dlq>>

-----------------------------------------------------------------------------
(* Signals, crashes and restarts.                                          *)

\* SIGTERM or SIGINT sets a flag the loop head reads.
RequestShutdown(m) ==
  /\ stage[m] # "down"
  /\ ~stopping[m]
  /\ Fault
  /\ stopping' = [stopping EXCEPT ![m] = TRUE]
  /\ UNCHANGED <<group, tables, dlq, stage, current, attempt>>

Stop(m) ==
  /\ stage[m] = "loop"
  /\ stopping[m]
  /\ Leave(m)
  /\ UNCHANGED <<committed, tables, dlq, faults>>

Crash(m) ==
  /\ stage[m] # "down"
  /\ Fault
  /\ Leave(m)
  /\ UNCHANGED <<committed, tables, dlq>>

Restart(m) ==
  /\ stage[m] = "down"
  /\ GoTo(m, "loop")
  /\ UNCHANGED <<group, tables, dlq, current, faults>>

-----------------------------------------------------------------------------

\* What a healthy process does with healthy services.
Progress(m) ==
  \/ \E p \in Partitions : Poll(m, p)
  \/ DlqDelivered(m)
  \/ InsertMarker(m) \/ InsertRow(m) \/ RowRefused(m) \/ CommitTransaction(m)
  \/ CommitOffset(m)
  \/ Stop(m)

Failure(m) ==
  \/ PollFails(m) \/ DlqFails(m) \/ TransactionFails(m) \/ CommitOffsetFails(m)
  \/ RequestShutdown(m) \/ Crash(m)

Next ==
  \/ \E m \in Members : Progress(m) \/ Failure(m) \/ Restart(m)
  \/ \E p \in Partitions, m \in Members : Assign(p, m) \/ Rebalance(p, m)

Spec == Init /\ [][Next]_vars

\* Processes run, operators restart them, the group assigns what nobody
\* owns.  Faults are finitely many, so services are healthy in the end.
Fairness ==
  /\ \A m \in Members : WF_vars(Progress(m)) /\ WF_vars(Restart(m))
  /\ \A p \in Partitions : WF_vars(\E m \in Members : Assign(p, m))

FairSpec == Spec /\ Fairness

-----------------------------------------------------------------------------
(* Properties.                                                             *)

\* The shape of the state; retries are bounded by the policy.
TypeOK ==
  /\ owner \in [Partitions -> Members \cup {NoMember}]
  /\ position \in [Partitions -> Nat]
  /\ committed \in [Partitions -> Nat]
  /\ processed \subseteq Events \X Decodable
  /\ validOrders \subseteq Events \X Decodable
  /\ dlq \subseteq Malformed
  /\ stage \in [Members -> Stages]
  /\ current \in [Members -> Coordinates \cup {NoRecord}]
  /\ attempt \in [Members -> 0 .. MaxRetries]
  /\ stopping \in [Members -> BOOLEAN]
  /\ faults \in 0 .. MaxFaults

\* The offset of a record may be passed once nothing is left to do for it.
Done(c) ==
  \/ c \in dlq
  \/ EventAt(c) \in {r[1] : r \in validOrders}

\* No committed offset passes a record that is neither in valid_orders nor in
\* the dead-letter topic, whatever crashed, was retried or was rebalanced:
\* a restart from the committed offset loses nothing.
NoSkip ==
  \A p \in Partitions : \A c \in Before(p, committed[p]) : Done(c)

\* A redelivered event, an event id reused by another record, two members
\* holding the same event at once: valid_orders gets one row for it.
OneRowPerEvent ==
  \A r, s \in validOrders : r[1] = s[1] => r = s

\* The idempotency marker and the business row come together, from the same
\* record: no crash leaves one without the other.
MarkerMatchesRow == processed = validOrders

\* The consumer group implements the abstract delivery specification.
Delivery == INSTANCE DurableDelivery WITH
              Rejectable <- Malformed, applied <- validOrders, rejected <- dlq
DeliverySpec == Delivery!Spec

\* The inductive strengthening of the invariants above (proved in
\* OrderConsumerProofs): what a member's stage says about the record in hand,
InHand(m) ==
  /\ (current[m] = NoRecord) <=> (stage[m] \in {"loop", "down"})
  /\ stage[m] = "dlq" => current[m] \in Malformed
  /\ stage[m] \in Transaction => current[m] \in Decodable
  /\ stage[m] \in {"row", "tx"} => EventAt(current[m]) \notin ProcessedIds
  /\ stage[m] = "duplicate" => EventAt(current[m]) \in ProcessedIds
  /\ stage[m] = "offset" => Done(current[m])
InHandSafe == \A m \in Members : InHand(m)

\* that everything before a record in hand is done,
PrefixDone ==
  \A m \in Members : current[m] # NoRecord =>
    \A c \in Before(Partition(current[m]), current[m][2]) : Done(c)

\* that an owner has fetched past nothing but done records and the one it has
\* in hand,
PositionSafe ==
  \A p \in Partitions : owner[p] # NoMember =>
    \A c \in Before(p, position[p]) : Done(c) \/ current[owner[p]] = c

\* and that open transactions hold the markers of different events.
MarkersExclusive ==
  \A m, n \in Members :
    /\ stage[m] \in {"row", "tx"} /\ stage[n] \in {"row", "tx"}
    /\ EventAt(current[m]) = EventAt(current[n])
    => m = n

IndInv ==
  /\ TypeOK
  /\ InHandSafe
  /\ PrefixDone
  /\ PositionSafe
  /\ MarkersExclusive
  /\ NoSkip
  /\ OneRowPerEvent
  /\ MarkerMatchesRow

\* Every record is in the end in valid_orders or in the dead-letter topic.
EventuallyDone == \A c \in Coordinates : <>Done(c)

\* The committed offset of every partition reaches the end of the log.  It
\* need not stay there: the late commit of a previous owner can still move it
\* back, and then it stays behind until the partition is read again.
EventuallyCommitted == \A p \in Partitions : <>(committed[p] = LogEnd[p])
=============================================================================

---------------------------- MODULE LogConsumer ----------------------------
(***************************************************************************)
(* The log consumer group: LogConsumerRunner.run polling access logs into  *)
(* a deduplicating buffer, LogFlushService.flush writing a snapshot of the *)
(* whole buffer in one PostgreSQL transaction, and commits of the offsets  *)
(* that are contiguously durable.                                          *)
(*                                                                         *)
(* Unlike the order consumer it has rebalance callbacks, which librdkafka  *)
(* runs inside poll and close: on_revoke flushes and commits before the    *)
(* partitions go back to the group, on_lost flushes without committing and *)
(* stops.  A member evicted by the coordinator does not know it until its  *)
(* next poll, and the broker refuses its commits.                          *)
(*                                                                         *)
(* A member's stage:                                                       *)
(*   loop      at the loop head                                            *)
(*   dlq       publishing the record in hand to the dead-letter topic      *)
(*   markers   snapshot taken, processed_events rows to insert             *)
(*   metrics   new markers inserted, minute rows to upsert and commit      *)
(*   commit    in commit_ready                                             *)
(*   down      process gone                                                *)
(* and the mode says who called flush and commit_ready: the loop ("run"),  *)
(* shutdown, on_revoke in a poll ("revoke") or in close ("close"), on_lost.*)
(***************************************************************************)
EXTENDS OffsetTracker, FiniteSets

CONSTANTS Members, NoMember, NoRecord, MaxRetries, MaxFaults

ASSUME LogAssumption ==
  /\ NoMember \notin Members
  /\ NoRecord \notin Coordinates
  /\ MaxRetries \in Nat
  /\ MaxFaults \in Nat

VARIABLES owner,        \* the coordinator's assignment
          committed,    \* committed next offset of the group
          processed,    \* processed_events: <<event id, coordinate>>
          metrics,      \* log_metrics_minute: contributions counted, by content
          dlq,          \* coordinates with a record in the dead-letter topic
          assigned,     \* per process: partitions it believes it has
          position,     \* per process: next offset it fetches
          buffer,       \* per process: coordinates of the active buffer
          snapshot,     \* per process: coordinates of the snapshot in flush
          inserted,     \* per process: markers its open transaction inserted
          tracker,      \* per process: ContiguousOffsetTracker
          stage, mode, current, attempt, stopping,   \* per process
          faults        \* faults so far

group == <<owner, committed>>
tables == <<processed, metrics>>
fetch == <<assigned, position>>
batch == <<buffer, snapshot, inserted>>
process == <<stage, mode, current, attempt, stopping>>
vars == <<group, tables, dlq, fetch, batch, tracker, process, faults>>

Stages == {"loop", "dlq", "markers", "metrics", "commit", "down"}
Modes == {"run", "shutdown", "revoke", "close", "lost"}

EventsOf(C) == {EventAt(c) : c \in C}
ProcessedIds == {r[1] : r \in processed}

Init ==
  /\ owner = [p \in Partitions |-> NoMember]
  /\ committed = [p \in Partitions |-> 0]
  /\ processed = {}
  /\ metrics = [d \in Data |-> 0]
  /\ dlq = {}
  /\ assigned = [m \in Members |-> {}]
  /\ position = [m \in Members |-> [p \in Partitions |-> 0]]
  /\ buffer = [m \in Members |-> {}]
  /\ snapshot = [m \in Members |-> {}]
  /\ inserted = [m \in Members |-> {}]
  /\ tracker = [m \in Members |-> EmptyTracker]
  /\ stage = [m \in Members |-> "loop"]
  /\ mode = [m \in Members |-> "run"]
  /\ current = [m \in Members |-> NoRecord]
  /\ attempt = [m \in Members |-> 0]
  /\ stopping = [m \in Members |-> FALSE]
  /\ faults = 0

Fault == faults < MaxFaults /\ faults' = faults + 1

\* The coordinator has taken partitions away that the member believes it has.
Evicted(m) == \E p \in assigned[m] : owner[p] # m

-----------------------------------------------------------------------------
(* The consumer group (external: librdkafka and the group coordinator).    *)

\* A member in poll is given a free partition; it fetches from the committed
\* offset, from the earliest when there is none.
Assign(p, m) ==
  /\ owner[p] = NoMember
  /\ stage[m] = "loop"
  /\ ~Evicted(m)
  /\ p \notin assigned[m]
  /\ owner' = [owner EXCEPT ![p] = m]
  /\ assigned' = [assigned EXCEPT ![m] = @ \cup {p}]
  /\ position' = [position EXCEPT ![m][p] = committed[p]]
  /\ UNCHANGED <<committed, tables, dlq, batch, tracker, process, faults>>

\* The coordinator drops a member that missed its session or poll deadline.
Evict(m) ==
  /\ \E p \in Partitions : owner[p] = m
  /\ Fault
  /\ owner' = [p \in Partitions |-> IF owner[p] = m THEN NoMember ELSE owner[p]]
  /\ UNCHANGED <<committed, tables, dlq, fetch, batch, tracker, process>>

-----------------------------------------------------------------------------
(* Leaving, flushing and retrying.                                         *)

Unassign(m) ==
  /\ assigned' = [assigned EXCEPT ![m] = {}]
  /\ position' = [position EXCEPT ![m] = [p \in Partitions |-> 0]]

\* The process is gone, and its memory with it.
Leave(m) ==
  /\ owner' = [p \in Partitions |-> IF owner[p] = m THEN NoMember ELSE owner[p]]
  /\ Unassign(m)
  /\ buffer' = [buffer EXCEPT ![m] = {}]
  /\ snapshot' = [snapshot EXCEPT ![m] = {}]
  /\ inserted' = [inserted EXCEPT ![m] = {}]
  /\ tracker' = [tracker EXCEPT ![m] = EmptyTracker]
  /\ stage' = [stage EXCEPT ![m] = "down"]
  /\ mode' = [mode EXCEPT ![m] = "run"]
  /\ current' = [current EXCEPT ![m] = NoRecord]
  /\ attempt' = [attempt EXCEPT ![m] = 0]
  /\ stopping' = [stopping EXCEPT ![m] = FALSE]

\* flush swaps the buffer for a snapshot; a snapshot whose transaction failed
\* has been merged back (restore) before a second flush takes it.  An empty
\* snapshot goes straight to commit_ready.
BeginFlush(m, how) ==
  LET taken == buffer[m] \cup snapshot[m] IN
  /\ snapshot' = [snapshot EXCEPT ![m] = taken]
  /\ buffer' = [buffer EXCEPT ![m] = {}]
  /\ inserted' = [inserted EXCEPT ![m] = {}]
  /\ stage' = [stage EXCEPT ![m] = IF taken = {} THEN "commit" ELSE "markers"]
  /\ mode' = [mode EXCEPT ![m] = how]
  /\ current' = [current EXCEPT ![m] = NoRecord]
  /\ attempt' = [attempt EXCEPT ![m] = 0]
  /\ UNCHANGED <<owner, fetch, tracker, stopping>>

\* on_lost flushes what there is, and raises PartitionLostError in any case.
OnLost(m) ==
  IF buffer[m] \cup snapshot[m] = {} THEN Leave(m) ELSE BeginFlush(m, "lost")

\* consumer.close() runs the callback of what is still assigned; a member
\* evicted may or may not have heard of it.
Close(m) ==
  \/ assigned[m] = {} /\ Leave(m)
  \/ assigned[m] # {} /\ BeginFlush(m, "close")
  \/ Evicted(m) /\ OnLost(m)

\* Bug: the failure is logged and the loop goes on.
GiveUpSwallowed(m) ==
  /\ stage' = [stage EXCEPT ![m] = "loop"]
  /\ mode' = [mode EXCEPT ![m] = "run"]
  /\ current' = [current EXCEPT ![m] = NoRecord]
  /\ buffer' = [buffer EXCEPT ![m] = @ \cup snapshot[m]]
  /\ snapshot' = [snapshot EXCEPT ![m] = {}]
  /\ inserted' = [inserted EXCEPT ![m] = {}]
  /\ attempt' = [attempt EXCEPT ![m] = 0]
  /\ UNCHANGED <<owner, fetch, tracker, stopping>>

\* An exception leaves run() or shutdown() for the finally block, which closes
\* the consumer.  One raised in a callback leaves through poll or close (the
\* RetriesExhaustedError of a nested retry is not retryable for poll), when the
\* library has dropped the assignment: close has nothing to call back.
GiveUp(m) ==
  \/ mode[m] \in {"run", "shutdown"} /\ Close(m)
  \/ mode[m] \in {"revoke", "close", "lost"} /\ Leave(m)

\* Bug: the retry limit is not looked at.
TryAgainForever(m, first) ==
  /\ attempt' = [attempt EXCEPT ![m] = @ + 1]
  /\ stage' = [stage EXCEPT ![m] = first]
  /\ inserted' = [inserted EXCEPT ![m] = {}]
  /\ UNCHANGED <<owner, fetch, buffer, snapshot, tracker, mode, current, stopping>>

\* run_with_retry after a retryable error.
TryAgain(m, first) ==
  /\ attempt[m] < MaxRetries
  /\ attempt' = [attempt EXCEPT ![m] = @ + 1]
  /\ stage' = [stage EXCEPT ![m] = first]
  /\ inserted' = [inserted EXCEPT ![m] = {}]
  /\ UNCHANGED <<owner, fetch, buffer, snapshot, tracker, mode, current, stopping>>

-----------------------------------------------------------------------------
(* The polling loop.                                                       *)

\* The buffer holds the record's event id with different metric data.
Conflicting(m, c) == \E b \in buffer[m] : EventAt(b) = EventAt(c) /\ DataAt(b) # DataAt(c)

\* poll returns a record: it is observed, then buffered, or rejected when it
\* does not decode or conflicts with the buffer.
Poll(m, p) ==
  LET c == <<p, position[m][p]>>
      rejected == c \in Malformed \/ Conflicting(m, c)
  IN
  /\ stage[m] = "loop"
  /\ ~stopping[m]
  /\ p \in assigned[m]
  /\ position[m][p] < LogEnd[p]
  /\ position' = [position EXCEPT ![m][p] = @ + 1]
  /\ tracker' = [tracker EXCEPT ![m] = Observe(@, c)]
  /\ buffer' = [buffer EXCEPT ![m] = IF rejected THEN @ ELSE @ \cup {c}]
  /\ current' = [current EXCEPT ![m] = IF rejected THEN c ELSE NoRecord]
  /\ stage' = [stage EXCEPT ![m] = IF rejected THEN "dlq" ELSE "commit"]
  /\ UNCHANGED <<group, tables, dlq, assigned, snapshot, inserted, mode, attempt, stopping,
                 faults>>

\* The flush interval has elapsed.  (The flush of an empty buffer right after
\* commit_ready does nothing.)
FlushInterval(m) ==
  /\ stage[m] = "loop"
  /\ ~stopping[m]
  /\ buffer[m] # {}
  /\ BeginFlush(m, "run")
  /\ UNCHANGED <<committed, tables, dlq, faults>>

PollFails(m) ==
  /\ stage[m] = "loop"
  /\ Fault
  /\ Close(m)
  /\ UNCHANGED <<committed, tables, dlq>>

\* Bug: on_revoke forgets the partitions without flushing.
RevokeUnflushed(m) ==
  /\ stage[m] = "loop"
  /\ assigned[m] # {}
  /\ ~Evicted(m)
  /\ Fault
  /\ owner' = [p \in Partitions |-> IF owner[p] = m THEN NoMember ELSE owner[p]]
  /\ Unassign(m)
  /\ tracker' = [tracker EXCEPT ![m] = Forget(@, assigned[m])]
  /\ buffer' = [buffer EXCEPT ![m] = {}]
  /\ UNCHANGED <<committed, tables, dlq, snapshot, inserted, process>>

\* A rebalance: poll runs on_revoke for everything the member has (the
\* assignors librdkafka defaults to are eager).
Revoke(m) ==
  /\ stage[m] = "loop"
  /\ assigned[m] # {}
  /\ ~Evicted(m)
  /\ Fault
  /\ BeginFlush(m, "revoke")
  /\ UNCHANGED <<committed, tables, dlq>>

\* An evicted member hears of it: poll runs on_lost.
Lost(m) ==
  /\ stage[m] = "loop"
  /\ Evicted(m)
  /\ OnLost(m)
  /\ UNCHANGED <<committed, tables, dlq, faults>>

-----------------------------------------------------------------------------
(* The dead-letter topic.                                                  *)

\* Bug: the rejected record's offset is never completed.
DlqDeliveredUncompleted(m) ==
  /\ stage[m] = "dlq"
  /\ dlq' = dlq \cup {current[m]}
  /\ stage' = [stage EXCEPT ![m] = "commit"]
  /\ current' = [current EXCEPT ![m] = NoRecord]
  /\ attempt' = [attempt EXCEPT ![m] = 0]
  /\ UNCHANGED <<group, tables, fetch, batch, tracker, mode, stopping, faults>>

DlqDelivered(m) ==
  /\ stage[m] = "dlq"
  /\ dlq' = dlq \cup {current[m]}
  /\ tracker' = [tracker EXCEPT ![m] = Complete(@, {current[m]})]
  /\ stage' = [stage EXCEPT ![m] = "commit"]
  /\ current' = [current EXCEPT ![m] = NoRecord]
  /\ attempt' = [attempt EXCEPT ![m] = 0]
  /\ UNCHANGED <<group, tables, fetch, batch, mode, stopping, faults>>

\* A delivery error or no acknowledgement in time; the record may be there.
DlqFails(m) ==
  /\ stage[m] = "dlq"
  /\ Fault
  /\ dlq' = dlq \/ dlq' = dlq \cup {current[m]}
  /\ TryAgain(m, "dlq") \/ GiveUp(m)
  /\ UNCHANGED <<committed, tables>>

-----------------------------------------------------------------------------
(* The snapshot transaction (LogMetricRepository.persist_snapshot).        *)

\* Another open transaction has inserted the marker of one of these events.
MarkersLocked(m) ==
  \E n \in Members \ {m} : EventsOf(inserted[n]) \cap EventsOf(snapshot[m]) # {}

\* One copy of each event: the marker carries coordinates[0].
OneOfEach(C) == \A c, d \in C : EventAt(c) = EventAt(d) => c = d

\* Bug: the markers are looked up, not claimed through the unique index.
InsertMarkersUnlocked(m) ==
  /\ stage[m] = "markers"
  /\ \E C \in SUBSET snapshot[m] :
       /\ OneOfEach(C)
       /\ EventsOf(C) = EventsOf(snapshot[m]) \ ProcessedIds
       /\ inserted' = [inserted EXCEPT ![m] = C]
  /\ stage' = [stage EXCEPT ![m] = "metrics"]
  /\ UNCHANGED <<group, tables, dlq, fetch, buffer, snapshot, tracker, mode, current, attempt,
                 stopping, faults>>

\* INSERT .. ON CONFLICT DO NOTHING RETURNING, for the whole snapshot; it
\* waits for the transactions that hold one of its keys.
InsertMarkers(m) ==
  /\ stage[m] = "markers"
  /\ ~MarkersLocked(m)
  /\ \E C \in SUBSET snapshot[m] :
       /\ OneOfEach(C)
       /\ EventsOf(C) = EventsOf(snapshot[m]) \ ProcessedIds
       /\ inserted' = [inserted EXCEPT ![m] = C]
  /\ stage' = [stage EXCEPT ![m] = "metrics"]
  /\ UNCHANGED <<group, tables, dlq, fetch, buffer, snapshot, tracker, mode, current, attempt,
                 stopping, faults>>

\* Bug: the deltas of the whole snapshot are added, not those of the new ids.
WriteAll(m) ==
  /\ processed' = processed \cup {<<EventAt(c), c>> : c \in inserted[m]}
  /\ metrics' = [d \in Data |->
                   metrics[d] + Cardinality({c \in snapshot[m] : DataAt(c) = d})]

\* The commit makes the new markers and the upserted deltas of exactly these
\* events visible; the upsert adds under the lock of each metric row.
Write(m) ==
  /\ processed' = processed \cup {<<EventAt(c), c>> : c \in inserted[m]}
  /\ metrics' = [d \in Data |->
                   metrics[d] + Cardinality({c \in inserted[m] : DataAt(c) = d})]

\* The snapshot is durable: its offsets are complete.  A flush for on_lost
\* commits nothing, and raises.
CommitSnapshot(m) ==
  /\ stage[m] = "metrics"
  /\ inserted[m] \cap Unstorable = {}
  /\ Write(m)
  /\ IF mode[m] = "lost" THEN Leave(m)
     ELSE /\ tracker' = [tracker EXCEPT ![m] = Complete(@, snapshot[m])]
          /\ snapshot' = [snapshot EXCEPT ![m] = {}]
          /\ inserted' = [inserted EXCEPT ![m] = {}]
          /\ stage' = [stage EXCEPT ![m] = "commit"]
          /\ attempt' = [attempt EXCEPT ![m] = 0]
          /\ UNCHANGED <<owner, fetch, buffer, mode, current, stopping>>
  /\ UNCHANGED <<committed, dlq, faults>>

\* PostgreSQL refuses a value with a DataError: the whole snapshot goes back.
SnapshotRefused(m) ==
  /\ stage[m] = "metrics"
  /\ inserted[m] \cap Unstorable # {}
  /\ GiveUp(m)
  /\ UNCHANGED <<committed, tables, dlq, faults>>

\* A statement (a deadlock with the other member's multi-row insert is one)
\* or the commit fails; a failed commit may hide that PostgreSQL committed.
TransactionFails(m) ==
  /\ stage[m] \in {"markers", "metrics"}
  /\ Fault
  /\ \/ UNCHANGED tables
     \/ stage[m] = "metrics" /\ inserted[m] \cap Unstorable = {} /\ Write(m)
  /\ TryAgain(m, "markers") \/ GiveUp(m)
  /\ UNCHANGED <<committed, dlq>>

-----------------------------------------------------------------------------
(* Offset commits (LogFlushService.commit_ready).                          *)

Accept(p, n) == committed' = [committed EXCEPT ![p] = n]

\* The broker accepts a commit of the current generation only.
CommitOffset(m, p, n) ==
  /\ stage[m] = "commit"
  /\ <<p, n>> \in Committable(tracker[m])
  /\ owner[p] = m
  /\ Accept(p, n)
  /\ tracker' = [tracker EXCEPT ![m] = Acknowledge(@, p, n)]
  /\ attempt' = [attempt EXCEPT ![m] = 0]
  /\ UNCHANGED <<owner, tables, dlq, fetch, batch, stage, mode, current, stopping, faults>>

CommitOffsetFails(m, p, n) ==
  /\ stage[m] = "commit"
  /\ <<p, n>> \in Committable(tracker[m])
  /\ Fault
  /\ UNCHANGED committed \/ (owner[p] = m /\ Accept(p, n))
  /\ TryAgain(m, "commit") \/ GiveUp(m)
  /\ UNCHANGED <<tables, dlq>>

\* A fenced commit is not retryable.
CommitOffsetFenced(m, p, n) ==
  /\ stage[m] = "commit"
  /\ <<p, n>> \in Committable(tracker[m])
  /\ owner[p] # m
  /\ GiveUp(m)
  /\ UNCHANGED <<committed, tables, dlq, faults>>

\* on_revoke has committed all it could: the partitions go back, unless
\* something polled is not durable.
HandBack(m) ==
  IF HasPending(tracker[m], assigned[m]) THEN Leave(m)
  ELSE /\ owner' = [p \in Partitions |-> IF owner[p] = m THEN NoMember ELSE owner[p]]
       /\ Unassign(m)
       /\ tracker' = [tracker EXCEPT ![m] = Forget(@, assigned[m])]
       /\ stage' = [stage EXCEPT ![m] = "loop"]
       /\ mode' = [mode EXCEPT ![m] = "run"]
       /\ UNCHANGED <<batch, current, attempt, stopping>>

CommitsDone(m) ==
  /\ stage[m] = "commit"
  /\ Committable(tracker[m]) = {}
  /\ \/ /\ mode[m] = "run"
        /\ stage' = [stage EXCEPT ![m] = "loop"]
        /\ UNCHANGED <<owner, fetch, batch, tracker, mode, current, attempt, stopping>>
     \/ mode[m] = "shutdown" /\ Close(m)
     \/ mode[m] = "revoke" /\ HandBack(m)
     \/ mode[m] = "close" /\ Leave(m)
  /\ UNCHANGED <<committed, tables, dlq, faults>>

-----------------------------------------------------------------------------
(* Signals, crashes and restarts.                                          *)

RequestShutdown(m) ==
  /\ stage[m] # "down"
  /\ ~stopping[m]
  /\ Fault
  /\ stopping' = [stopping EXCEPT ![m] = TRUE]
  /\ UNCHANGED <<group, tables, dlq, fetch, batch, tracker, stage, mode, current, attempt>>

\* The loop sees the flag; shutdown() flushes.
Stop(m) ==
  /\ stage[m] = "loop"
  /\ stopping[m]
  /\ BeginFlush(m, "shutdown")
  /\ UNCHANGED <<committed, tables, dlq, faults>>

Crash(m) ==
  /\ stage[m] # "down"
  /\ Fault
  /\ Leave(m)
  /\ UNCHANGED <<committed, tables, dlq>>

Restart(m) ==
  /\ stage[m] = "down"
  /\ stage' = [stage EXCEPT ![m] = "loop"]
  /\ UNCHANGED <<group, tables, dlq, fetch, batch, tracker, mode, current, attempt, stopping,
                 faults>>

-----------------------------------------------------------------------------

Offsets == UNION {{p} \X (1 .. LogEnd[p]) : p \in Partitions}

\* What a healthy process does with healthy services.
Progress(m) ==
  \/ \E p \in Partitions : Poll(m, p)
  \/ FlushInterval(m) \/ Lost(m) \/ DlqDelivered(m)
  \/ InsertMarkers(m) \/ CommitSnapshot(m) \/ SnapshotRefused(m)
  \/ \E c \in Offsets : CommitOffset(m, c[1], c[2]) \/ CommitOffsetFenced(m, c[1], c[2])
  \/ CommitsDone(m) \/ Stop(m)

Failure(m) ==
  \/ PollFails(m) \/ Revoke(m) \/ DlqFails(m) \/ TransactionFails(m)
  \/ \E c \in Offsets : CommitOffsetFails(m, c[1], c[2])
  \/ RequestShutdown(m) \/ Crash(m)

Next ==
  \/ \E m \in Members : Progress(m) \/ Failure(m) \/ Evict(m) \/ Restart(m)
  \/ \E p \in Partitions, m \in Members : Assign(p, m)

Spec == Init /\ [][Next]_vars

\* As for the order consumer: processes run, operators restart them, the
\* coordinator assigns free partitions, and faults are finitely many.
Fairness ==
  /\ \A m \in Members : WF_vars(Progress(m)) /\ WF_vars(Restart(m))
  /\ \A p \in Partitions : WF_vars(\E m \in Members : Assign(p, m))

FairSpec == Spec /\ Fairness

-----------------------------------------------------------------------------
(* Properties.                                                             *)

\* The shape of the state; retries are bounded by the policy.
TypeOK ==
  /\ owner \in [Partitions -> Members \cup {NoMember}]
  /\ committed \in [Partitions -> Nat]
  /\ processed \subseteq Events \X Decodable
  /\ metrics \in [Data -> Nat]
  /\ dlq \subseteq Coordinates
  /\ assigned \in [Members -> SUBSET Partitions]
  /\ position \in [Members -> [Partitions -> Nat]]
  /\ buffer \in [Members -> SUBSET Decodable]
  /\ snapshot \in [Members -> SUBSET Decodable]
  /\ inserted \in [Members -> SUBSET Decodable]
  /\ tracker \in [Members -> Trackers]
  /\ stage \in [Members -> Stages]
  /\ mode \in [Members -> Modes]
  /\ current \in [Members -> Coordinates \cup {NoRecord}]
  /\ attempt \in [Members -> 0 .. MaxRetries]
  /\ stopping \in [Members -> BOOLEAN]
  /\ faults \in 0 .. MaxFaults

\* The offset of a record may be passed once nothing is left to do for it.
Done(c) == c \in dlq \/ EventAt(c) \in ProcessedIds

\* No committed offset passes a record whose event is neither counted nor in
\* the dead-letter topic, whatever part of a flush failed, was retried, was
\* cut off by a crash or ran in a rebalance callback.
NoSkip ==
  \A p \in Partitions : \A c \in Before(p, committed[p]) : Done(c)

\* Each event id is counted once: the minute totals are those of the markers,
\* after any redelivery, ambiguous commit, or two members flushing the same
\* event.
MetricsExact ==
  \A d \in Data :
    metrics[d] = Cardinality({r \in processed : DataAt(r[2]) = d})

\* The tracker's pending offsets are the records in the buffer, in the
\* snapshot or in hand: complete never meets an unknown offset, no record is
\* buffered that no commit waits for, and no offset waits for a record that
\* is no longer anywhere.  (A process on its way out keeps the offset of a
\* record it could not dead-letter.)
InMemory(m) == buffer[m] \cup snapshot[m] \cup ({current[m]} \ {NoRecord})
PendingAt(m) == UNION {{p} \X tracker[m][p].pending : p \in Partitions}
TrackerMatchesBatch ==
  \A m \in Members :
    /\ InMemory(m) \subseteq PendingAt(m)
    /\ mode[m] \in {"run", "shutdown", "revoke"} => PendingAt(m) \subseteq InMemory(m)

\* A partition handed back in a rebalance is committed up to the last record
\* polled from it: the next owner is given nothing twice.
HandoverExact ==
  [][\A m \in Members : \A p \in assigned[m] \ assigned'[m] :
       stage'[m] = "loop" /\ owner[p] = m => committed[p] = position[m][p]]_vars

\* The log consumer group implements the abstract delivery specification; it
\* may also reject a record that reuses an event id with other data.
Reusing == {c \in Coordinates : \E d \in Coordinates :
              EventAt(d) = EventAt(c) /\ DataAt(d) # DataAt(c)}
Delivery == INSTANCE DurableDelivery WITH
              Rejectable <- Malformed \cup Reusing, applied <- processed, rejected <- dlq
DeliverySpec == Delivery!Spec

\* Every record is in the end counted or in the dead-letter topic.
EventuallyDone == \A c \in Coordinates : <>Done(c)

\* Committed offsets reach the end of the log and stay there.
CaughtUp == \A p \in Partitions : <>[](committed[p] = LogEnd[p])
=============================================================================

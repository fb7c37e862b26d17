------------------------------ MODULE TopicLog ------------------------------
(***************************************************************************)
(* A Kafka topic as the consumers see it: a fixed set of partitions, each  *)
(* an immutable sequence of records addressed by offset.  Only what the    *)
(* consumers tell apart is kept of a record:                               *)
(*                                                                         *)
(*   - "valid":      decodes, validates and fits the database columns;     *)
(*   - "malformed":  decode_order_event / decode_access_log_event raise    *)
(*                   PermanentMessageError, so there is no event id;       *)
(*   - "unstorable": validates (the models put no upper bound on it) but   *)
(*                   PostgreSQL refuses the row: an order_id longer than   *)
(*                   String(64), a latency beyond Integer, ...             *)
(*                                                                         *)
(* `data' stands for the business content of a valid record; two records   *)
(* with one event id and different data are the conflicting reuse that     *)
(* LogAggregationBuffer._merge_event rejects.                              *)
(***************************************************************************)
EXTENDS Integers

CONSTANTS Partitions,   \* the partitions of the topic
          Events,       \* event ids
          NoEvent,      \* the event id of a record that does not decode
          Data,         \* business contents
          LogEnd,       \* the number of records of each partition
          Log           \* Log[p][o], the record at offset o of partition p

Records == [kind : {"valid", "unstorable"}, event : Events, data : Data]
             \cup [kind : {"malformed"}, event : {NoEvent}, data : Data]

ASSUME TopicAssumption ==
  /\ NoEvent \notin Events
  /\ LogEnd \in [Partitions -> Nat]
  /\ DOMAIN Log = Partitions
  /\ \A p \in Partitions : Log[p] \in [0 .. (LogEnd[p] - 1) -> Records]

\* A record's address; KafkaCoordinate and KafkaRecordMetadata in the code.
Coordinates == UNION {{p} \X (0 .. (LogEnd[p] - 1)) : p \in Partitions}

RecordAt(c) == Log[c[1]][c[2]]
EventAt(c) == RecordAt(c).event
DataAt(c) == RecordAt(c).data

Malformed == {c \in Coordinates : RecordAt(c).kind = "malformed"}
Unstorable == {c \in Coordinates : RecordAt(c).kind = "unstorable"}
Decodable == Coordinates \ Malformed

\* The records of partition p below offset o.
Before(p, o) == {c \in Coordinates : c[1] = p /\ c[2] < o}
=============================================================================

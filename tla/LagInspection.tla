--------------------------- MODULE LagInspection ---------------------------
(***************************************************************************)
(* LagInspector.inspect reading a snapshot of the consumer groups while    *)
(* the groups and the producers go on: the list of groups once, then per   *)
(* group the committed offsets in one request and the high watermark of    *)
(* each partition in a request of its own.                                 *)
(*                                                                         *)
(* The groups are what OrderConsumer and LogConsumer promise: a record is  *)
(* made durable (its row, or its dead-letter record) before an offset      *)
(* beyond it is committed, a dead-letter record may come twice, and a late *)
(* commit of a former owner may move the group's offset back.              *)
(***************************************************************************)
EXTENDS Integers, FiniteSets, Sequences

CONSTANTS Groups, Partitions,
          GroupOf,           \* the group that reads each partition
          NoOffsetYet,       \* the group has committed no offset there
          InitialEnd,        \* per partition: records before the run
          InitialCommitted,  \* per partition: committed offset before the run
          InitialGroups,     \* groups that exist before the run
          Rejected,          \* coordinates of records the groups reject
          MaxEnd, MaxFaults  \* bounds: records of a partition; faults

ASSUME LagAssumption ==
  /\ GroupOf \in [Partitions -> Groups]
  /\ NoOffsetYet \notin Nat
  /\ InitialEnd \in [Partitions -> 0 .. MaxEnd]
  /\ InitialCommitted \in [Partitions -> Nat \cup {NoOffsetYet}]
  /\ \A p \in Partitions :
       \/ InitialCommitted[p] = NoOffsetYet
       \/ InitialCommitted[p] \in 0 .. InitialEnd[p] /\ GroupOf[p] \in InitialGroups
  /\ InitialGroups \subseteq Groups
  /\ Rejected \subseteq Partitions \X Nat
  /\ MaxEnd \in Nat /\ MaxFaults \in Nat

VARIABLES established,  \* groups the coordinator knows
          end,          \* per partition: high watermark
          handled,      \* per partition: records below it are durable
          committed,    \* per partition: the group's offset
          dlq,          \* coordinates in the dead-letter topic, in order
          faults,
          existing,     \* inspection: groups listed
          groupsLeft,   \* inspection: groups to inspect
          rowsLeft,     \* inspection: watermarks left of the group in hand
          current,      \* inspection: current_offset per partition
          high          \* inspection: log_end_offset per partition

broker == <<established, end, handled, committed, dlq, faults>>
inspection == <<existing, groupsLeft, rowsLeft, current, high>>

NoRows == [p \in Partitions |-> NoOffsetYet]
Offsets == Nat \cup {NoOffsetYet}

LagInit ==
  /\ established = InitialGroups
  /\ end = InitialEnd
  /\ committed = InitialCommitted
  /\ handled = [p \in Partitions |-> IF InitialCommitted[p] = NoOffsetYet
                                     THEN 0 ELSE InitialCommitted[p]]
  /\ dlq = <<>>
  /\ faults = 0
  /\ existing = {} /\ groupsLeft = {} /\ rowsLeft = {}
  /\ current = NoRows /\ high = NoRows

-----------------------------------------------------------------------------
(* The topics and the groups. *)

Fault == faults < MaxFaults /\ faults' = faults + 1

Append1(p) ==
  /\ end[p] < MaxEnd
  /\ end' = [end EXCEPT ![p] = @ + 1]
  /\ UNCHANGED <<established, handled, committed, dlq, faults>>

Join(g) ==
  /\ g \notin established
  /\ established' = established \cup {g}
  /\ UNCHANGED <<end, handled, committed, dlq, faults>>

\* The next record is persisted, or acknowledged by the dead-letter topic.
Handle(p) ==
  /\ GroupOf[p] \in established /\ handled[p] < end[p]
  /\ dlq' = IF <<p, handled[p]>> \in Rejected THEN Append(dlq, <<p, handled[p]>>) ELSE dlq
  /\ handled' = [handled EXCEPT ![p] = @ + 1]
  /\ UNCHANGED <<established, end, committed, faults>>

\* A rejected record, read again before its offset was committed.
RejectAgain(c) ==
  /\ c[2] < handled[c[1]]
  /\ ~(committed[c[1]] # NoOffsetYet /\ c[2] < committed[c[1]])
  /\ Fault
  /\ dlq' = Append(dlq, c)
  /\ UNCHANGED <<established, end, handled, committed>>

Commit(p) ==
  /\ GroupOf[p] \in established /\ handled[p] > 0 /\ committed[p] # handled[p]
  /\ committed' = [committed EXCEPT ![p] = handled[p]]
  /\ UNCHANGED <<established, end, handled, dlq, faults>>

StaleCommit(p, o) ==
  /\ committed[p] # NoOffsetYet /\ o < committed[p] /\ Fault
  /\ committed' = [committed EXCEPT ![p] = o]
  /\ UNCHANGED <<established, end, handled, dlq>>

Broker ==
  \/ \E g \in Groups : Join(g)
  \/ \E p \in Partitions : Handle(p) \/ Commit(p)
  \/ \E p \in Partitions : \E o \in 0 .. MaxEnd : StaleCommit(p, o)
  \/ \E c \in Rejected : RejectAgain(c)

-----------------------------------------------------------------------------
(* LagInspector. *)

PartitionsOf(g) == {p \in Partitions : GroupOf[p] = g}

\* inspect: nothing of an earlier snapshot is kept.
ListGroups ==
  /\ existing' = established
  /\ groupsLeft' = Groups /\ rowsLeft' = {}
  /\ current' = NoRows /\ high' = NoRows
  /\ UNCHANGED broker

\* _inspect_group: a group not listed has rows without any offset; the others
\* have all their committed offsets read at once.
SkipGroup(g) ==
  /\ g \in groupsLeft \ existing /\ rowsLeft = {}
  /\ groupsLeft' = groupsLeft \ {g}
  /\ UNCHANGED <<broker, existing, rowsLeft, current, high>>

ReadCommitted(g) ==
  /\ g \in groupsLeft \cap existing /\ rowsLeft = {}
  /\ groupsLeft' = groupsLeft \ {g} /\ rowsLeft' = PartitionsOf(g)
  /\ current' = [p \in Partitions |-> IF p \in PartitionsOf(g) THEN committed[p] ELSE current[p]]
  /\ UNCHANGED <<broker, existing, high>>

\* Mutant of the next: the committed offset is read after the watermark.
ReadWatermarkFirst(p) ==
  /\ p \in rowsLeft
  /\ high' = [high EXCEPT ![p] = IF @ = NoOffsetYet THEN end[p] ELSE @]
  /\ rowsLeft' = IF high[p] = NoOffsetYet THEN rowsLeft ELSE rowsLeft \ {p}
  /\ current' = IF high[p] = NoOffsetYet THEN current
                ELSE [current EXCEPT ![p] = committed[p]]
  /\ UNCHANGED <<broker, existing, groupsLeft>>

\* _row.
ReadWatermark(p) ==
  /\ p \in rowsLeft
  /\ rowsLeft' = rowsLeft \ {p}
  /\ high' = [high EXCEPT ![p] = end[p]]
  /\ UNCHANGED <<broker, existing, groupsLeft, current>>

Inspecting == groupsLeft # {} \/ rowsLeft # {}

Inspect ==
  \/ \E g \in Groups : SkipGroup(g) \/ ReadCommitted(g)
  \/ \E p \in Partitions : ReadWatermark(p)

\* The lag of a row, and whether it is None.
Measured(p) == current[p] # NoOffsetYet /\ high[p] # NoOffsetYet /\ high[p] >= current[p]
Lag(p) == high[p] - current[p]

LagTypeOK ==
  /\ established \subseteq Groups /\ existing \subseteq Groups
  /\ groupsLeft \subseteq Groups /\ rowsLeft \subseteq Partitions
  /\ end \in [Partitions -> 0 .. MaxEnd] /\ handled \in [Partitions -> 0 .. MaxEnd]
  /\ committed \in [Partitions -> Offsets]
  /\ current \in [Partitions -> Offsets] /\ high \in [Partitions -> Offsets]
  /\ dlq \in Seq(Partitions \X Nat) /\ faults \in 0 .. MaxFaults
=============================================================================

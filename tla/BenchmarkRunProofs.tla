------------------------- MODULE BenchmarkRunProofs -------------------------
(***************************************************************************)
(* The benchmark's judgements, for any groups, partitions, backlogs and    *)
(* bounds: what it takes for consumed is durable, its lag is never         *)
(* negative, and a committed backlog is drained before the generator runs. *)
(***************************************************************************)
EXTENDS BenchmarkRun, FiniteSetTheorems, SequenceTheorems, TLAPS

\* The groups commit only what is durable, and durable records exist.
BrokerInv ==
  /\ \A p \in Partitions :
       /\ end[p] \in Nat /\ handled[p] \in Nat /\ committed[p] \in Offsets
       /\ InitialEnd[p] <= end[p] /\ handled[p] <= end[p]
       /\ committed[p] # NoOffsetYet => committed[p] <= handled[p]
       /\ InitialCommitted[p] # NoOffsetYet => committed[p] # NoOffsetYet
  /\ DOMAIN end = Partitions /\ DOMAIN handled = Partitions
  /\ DOMAIN committed = Partitions

\* What one row of a snapshot says of the groups now.
RowInv(p) ==
  /\ current[p] \in Offsets /\ high[p] \in Offsets
  /\ current[p] # NoOffsetYet => current[p] <= handled[p]
  /\ high[p] # NoOffsetYet => InitialEnd[p] <= high[p]
  /\ current[p] # NoOffsetYet /\ high[p] # NoOffsetYet => current[p] <= high[p]

\* How far the inspection is: a group still to be read has no watermarks yet,
\* one that was read has all but those of rowsLeft.
ProgressInv(p) ==
  /\ GroupOf[p] \in groupsLeft => p \notin rowsLeft /\ high[p] = NoOffsetYet
  /\ GroupOf[p] \in existing \ groupsLeft =>
       /\ p \in rowsLeft \/ high[p] # NoOffsetYet
       /\ InitialCommitted[p] # NoOffsetYet => current[p] # NoOffsetYet

InspectionInv ==
  /\ \A p \in Partitions : RowInv(p) /\ ProgressInv(p)
  /\ DOMAIN high = Partitions

RunInv ==
  /\ stage \in Stages
  /\ ranges \subseteq Partitions \X Nat /\ IsFiniteSet(ranges)
  /\ ConsumedIsDurable
  /\ CommittedBacklogDrained

BenchmarkInv == BrokerInv /\ InspectionInv /\ RunInv

-----------------------------------------------------------------------------
\* Whatever the groups and producers do, durable records stay durable.
HandledGrows ==
  /\ \A p \in Partitions : handled'[p] \in Nat /\ handled[p] <= handled'[p]

\* A step of the groups or of a producer keeps the broker's facts.
LEMMA BrokerStep ==
  ASSUME BrokerInv, Broker \/ (\E p \in Partitions : Append1(p) \/ ForeignAppend(p))
                    \/ UNCHANGED <<established, end, handled, committed>>
  PROVE  BrokerInv' /\ HandledGrows
<1> USE LagAssumption DEF Offsets
<1>1. CASE UNCHANGED <<established, end, handled, committed>>
  BY <1>1 DEF BrokerInv, HandledGrows
<1>2. CASE \E p \in Partitions : Append1(p) \/ ForeignAppend(p)
  <2>1. PICK p \in Partitions : Append1(p) \/ ForeignAppend(p)
    BY <1>2
  <2>2. /\ end' = [end EXCEPT ![p] = @ + 1]
        /\ handled' = handled /\ committed' = committed
    BY <2>1 DEF Append1, ForeignAppend
  <2> QED
    BY <2>2 DEF BrokerInv, HandledGrows
<1>3. CASE \E g \in Groups : Join(g)
  BY <1>3 DEF Join, BrokerInv, HandledGrows
<1>4. ASSUME NEW p \in Partitions, Handle(p)
      PROVE  BrokerInv' /\ HandledGrows
  <2>1. /\ handled' = [handled EXCEPT ![p] = @ + 1] /\ handled[p] < end[p]
        /\ end' = end /\ committed' = committed
    BY <1>4 DEF Handle
  <2> QED
    BY <2>1 DEF BrokerInv, HandledGrows
<1>5. ASSUME NEW p \in Partitions, Commit(p)
      PROVE  BrokerInv' /\ HandledGrows
  BY <1>5 DEF Commit, BrokerInv, HandledGrows
<1>6. ASSUME NEW p \in Partitions, NEW o \in 0 .. MaxEnd, StaleCommit(p, o)
      PROVE  BrokerInv' /\ HandledGrows
  <2>1. /\ committed' = [committed EXCEPT ![p] = o] /\ o < committed[p] /\ o \in Nat
        /\ committed[p] # NoOffsetYet
        /\ end' = end /\ handled' = handled
    BY <1>6 DEF StaleCommit
  <2> QED
    BY <2>1 DEF BrokerInv, HandledGrows
<1>7. CASE \E c \in Rejected : RejectAgain(c)
  BY <1>7 DEF RejectAgain, BrokerInv, HandledGrows
<1> QED
  BY <1>1, <1>2, <1>3, <1>4, <1>5, <1>6, <1>7 DEF Broker

\* A step outside the inspector keeps the snapshot's facts, since durable
\* records stay durable.
LEMMA SnapshotKept ==
  ASSUME InspectionInv, BrokerInv, HandledGrows, UNCHANGED inspection
  PROVE  InspectionInv'
<1>1. ASSUME NEW p \in Partitions
      PROVE  RowInv(p)' /\ ProgressInv(p)'
  BY <1>1 DEF InspectionInv, BrokerInv, HandledGrows, inspection, RowInv, ProgressInv, Offsets
<1> QED
  BY <1>1 DEF InspectionInv, inspection

\* The inspector's requests: the committed offset first, then the watermark.
LEMMA InspectorStep ==
  ASSUME InspectionInv, BrokerInv, ListGroups \/ Inspect
  PROVE  InspectionInv'
<1> USE LagAssumption DEF Offsets
<1>1. CASE ListGroups
  <2>1. ASSUME NEW p \in Partitions
        PROVE  RowInv(p)' /\ ProgressInv(p)'
    BY <1>1 DEF ListGroups, RowInv, ProgressInv, NoRows
  <2> QED
    BY <1>1, <2>1 DEF ListGroups, InspectionInv, NoRows
<1>2. ASSUME NEW g \in Groups, SkipGroup(g)
      PROVE  InspectionInv'
  <2>1. ASSUME NEW p \in Partitions
        PROVE  RowInv(p)' /\ ProgressInv(p)'
    BY <1>2 DEF SkipGroup, InspectionInv, RowInv, ProgressInv, broker
  <2> QED
    BY <1>2, <2>1 DEF SkipGroup, InspectionInv
<1>3. ASSUME NEW g \in Groups, ReadCommitted(g)
      PROVE  InspectionInv'
  <2>0. /\ g \in groupsLeft /\ rowsLeft = {}
        /\ groupsLeft' = groupsLeft \ {g} /\ rowsLeft' = PartitionsOf(g)
        /\ existing' = existing /\ high' = high /\ handled' = handled
    BY <1>3 DEF ReadCommitted, broker
  <2>1. ASSUME NEW p \in Partitions, GroupOf[p] = g
        PROVE  RowInv(p)' /\ ProgressInv(p)'
    <3>1. p \in PartitionsOf(g) /\ current'[p] = committed[p] /\ high[p] = NoOffsetYet
      BY <1>3, <2>0, <2>1 DEF ReadCommitted, PartitionsOf, InspectionInv, ProgressInv
    <3>2. RowInv(p)'
      BY <2>0, <3>1 DEF RowInv, BrokerInv
    <3>3. ProgressInv(p)'
      BY <2>0, <2>1, <3>1 DEF ProgressInv, BrokerInv
    <3> QED
      BY <3>2, <3>3
  <2>2. ASSUME NEW p \in Partitions, GroupOf[p] # g
        PROVE  RowInv(p)' /\ ProgressInv(p)'
    <3>1. p \notin PartitionsOf(g) /\ current'[p] = current[p]
      BY <1>3, <2>2 DEF ReadCommitted, PartitionsOf
    <3>2. RowInv(p) /\ ProgressInv(p)
      BY DEF InspectionInv
    <3>3. RowInv(p)'
      BY <2>0, <3>1, <3>2 DEF RowInv
    <3>4. ProgressInv(p)'
      BY <2>0, <2>2, <3>1, <3>2 DEF ProgressInv
    <3> QED
      BY <3>3, <3>4
  <2> QED
    BY <2>0, <2>1, <2>2 DEF InspectionInv
<1>4. ASSUME NEW q \in Partitions, ReadWatermark(q)
      PROVE  InspectionInv'
  <2>0. /\ q \in rowsLeft /\ rowsLeft' = rowsLeft \ {q}
        /\ high' = [high EXCEPT ![q] = end[q]]
        /\ groupsLeft' = groupsLeft /\ existing' = existing
        /\ current' = current /\ handled' = handled
    BY <1>4 DEF ReadWatermark, broker
  <2>1. ASSUME NEW p \in Partitions
        PROVE  RowInv(p)' /\ ProgressInv(p)'
    <3>1. RowInv(p) /\ ProgressInv(p)
      BY DEF InspectionInv
    <3>2. CASE p = q
      <4>1. high'[p] = end[p] /\ GroupOf[p] \notin groupsLeft /\ end[p] # NoOffsetYet
        BY <2>0, <3>1, <3>2 DEF InspectionInv, ProgressInv, BrokerInv
      <4>2. RowInv(p)'
        BY <2>0, <3>1, <4>1 DEF RowInv, BrokerInv
      <4>3. ProgressInv(p)'
        BY <2>0, <3>1, <4>1 DEF ProgressInv
      <4> QED
        BY <4>2, <4>3
    <3>3. CASE p # q
      <4>1. high'[p] = high[p]
        BY <2>0, <3>3 DEF InspectionInv
      <4>2. RowInv(p)'
        BY <2>0, <3>1, <4>1 DEF RowInv
      <4>3. ProgressInv(p)'
        BY <2>0, <3>1, <3>3, <4>1 DEF ProgressInv
      <4> QED
        BY <4>2, <4>3
    <3> QED
      BY <3>2, <3>3
  <2> QED
    BY <2>0, <2>1 DEF InspectionInv
<1> QED
  BY <1>1, <1>2, <1>3, <1>4 DEF Inspect

-----------------------------------------------------------------------------
\* What the runner concluded stays true while durable records stay durable and
\* the ranges are not extended.
LEMMA RunKept ==
  ASSUME BrokerInv, RunInv, HandledGrows, UNCHANGED <<stage, ranges>>
  PROVE  RunInv'
<1>1. ConsumedIsDurable'
  BY DEF RunInv, ConsumedIsDurable, HandledGrows, BrokerInv
<1>2. CommittedBacklogDrained'
  BY LagAssumption DEF RunInv, CommittedBacklogDrained, HandledGrows, BrokerInv
<1> QED
  BY <1>1, <1>2 DEF RunInv

\* _wait_for_baseline returns: every row with a committed offset is measured,
\* so its lag is zero, so the group is at a watermark read during the run.
LEMMA BaselineDrains ==
  ASSUME BenchmarkInv, BaselineDone
  PROVE  \A p \in Partitions :
           InitialCommitted[p] # NoOffsetYet => InitialEnd[p] <= handled[p]
<1>1. SUFFICES ASSUME NEW p \in Partitions, InitialCommitted[p] # NoOffsetYet
               PROVE  InitialEnd[p] <= handled[p]
  OBVIOUS
<1>2. existing = Groups /\ groupsLeft = {} /\ rowsLeft = {}
  BY DEF BaselineDone, Snapshot, Inspecting, Drained
<1>3. GroupOf[p] \in existing \ groupsLeft
  BY <1>2, LagAssumption
<1>4. current[p] # NoOffsetYet /\ high[p] # NoOffsetYet
  BY <1>1, <1>2, <1>3 DEF BenchmarkInv, InspectionInv, ProgressInv
<1>5. RowInv(p)
  BY DEF BenchmarkInv, InspectionInv
<1>6. /\ current[p] \in Nat /\ high[p] \in Nat /\ current[p] <= high[p]
      /\ InitialEnd[p] <= high[p] /\ current[p] <= handled[p]
  BY <1>4, <1>5 DEF RowInv, Offsets
<1>7. high[p] - current[p] = 0
  BY <1>4, <1>6 DEF BaselineDone, Drained, Measured, Lag
<1>8. handled[p] \in Nat /\ InitialEnd[p] \in Nat
  BY LagAssumption DEF BenchmarkInv, BrokerInv
<1> QED
  BY <1>6, <1>7, <1>8

\* _wait_for_consumption returns: as many consumed as delivered means all.
LEMMA ConsumptionCovers ==
  ASSUME BenchmarkInv, ConsumptionDone
  PROVE  \A c \in ranges : c[2] < handled[c[1]]
<1>1. Consumed \subseteq ranges /\ IsFiniteSet(ranges)
  BY DEF Consumed, BenchmarkInv, RunInv
<1>2. Cardinality(Consumed) = Cardinality(ranges)
  BY DEF ConsumptionDone
<1>3. Consumed = ranges
  BY <1>1, <1>2, FS_Subset
<1>4. SUFFICES ASSUME NEW c \in ranges
               PROVE  c[2] < handled[c[1]]
  OBVIOUS
<1>5. c[1] \in Partitions /\ c[2] \in Nat
  BY DEF BenchmarkInv, RunInv
<1>6. current[c[1]] # NoOffsetYet /\ c[2] < current[c[1]]
  BY <1>3 DEF Consumed
<1>7. RowInv(c[1]) /\ handled[c[1]] \in Nat
  BY <1>5 DEF BenchmarkInv, InspectionInv, BrokerInv
<1> QED
  BY <1>5, <1>6, <1>7 DEF RowInv, Offsets

-----------------------------------------------------------------------------
\* Every step of the runner, the groups, the generator and other producers.
LEMMA BenchmarkStep ==
  ASSUME BenchmarkInv, Next \/ UNCHANGED vars
  PROVE  BenchmarkInv'
<1> USE DEF BenchmarkInv
<1>1. CASE Broker /\ UNCHANGED <<inspection, run>>
  <2>1. BrokerInv' /\ HandledGrows
    BY <1>1, BrokerStep
  <2>2. InspectionInv'
    BY <1>1, <2>1, SnapshotKept
  <2>3. RunInv'
    BY <1>1, <2>1, RunKept DEF run
  <2> QED
    BY <2>1, <2>2, <2>3
<1>2. ASSUME NEW p \in Partitions, ForeignAppend(p)
      PROVE  BenchmarkInv'
  <2>1. UNCHANGED <<inspection, run>>
    BY <1>2 DEF ForeignAppend, inspection, run
  <2>2. BrokerInv' /\ HandledGrows
    BY <1>2, BrokerStep
  <2>3. InspectionInv'
    BY <2>1, <2>2, SnapshotKept
  <2>4. RunInv'
    BY <2>1, <2>2, RunKept DEF run
  <2> QED
    BY <2>2, <2>3, <2>4
<1>3. ASSUME NEW p \in Partitions, GeneratorDelivers(p)
      PROVE  BenchmarkInv'
  <2>1. /\ Append1(p) /\ UNCHANGED <<inspection, stage>> /\ stage = "producer"
        /\ ranges' = ranges \cup {<<p, end[p]>>}
    BY <1>3 DEF GeneratorDelivers
  <2>2. BrokerInv' /\ HandledGrows
    BY <2>1, BrokerStep
  <2>3. InspectionInv'
    BY <2>1, <2>2, SnapshotKept
  <2>4. ranges' \subseteq Partitions \X Nat /\ IsFiniteSet(ranges')
    <3>1. <<p, end[p]>> \in Partitions \X Nat
      BY DEF BrokerInv
    <3>2. IsFiniteSet(ranges \cup {<<p, end[p]>>})
      BY FS_AddElement DEF RunInv
    <3> QED
      BY <2>1, <3>1, <3>2 DEF RunInv
  <2>5. ConsumedIsDurable'
    BY <2>1 DEF ConsumedIsDurable
  <2>6. CommittedBacklogDrained'
    BY <2>1, <2>2, LagAssumption
       DEF RunInv, CommittedBacklogDrained, HandledGrows, BrokerInv
  <2> QED
    BY <2>1, <2>2, <2>3, <2>4, <2>5, <2>6 DEF RunInv
<1>4. CASE NewRound \/ InspectStep
  <2>1. /\ ListGroups \/ Inspect
        /\ UNCHANGED <<stage, ranges, broker>>
    BY <1>4 DEF NewRound, InspectStep, ListGroups, Inspect, SkipGroup, ReadCommitted,
                ReadWatermark, run
  <2>2. BrokerInv' /\ HandledGrows
    BY <2>1, BrokerStep DEF broker
  <2>3. InspectionInv'
    BY <2>1, InspectorStep
  <2>4. RunInv'
    BY <2>1, <2>2, RunKept
  <2> QED
    BY <2>2, <2>3, <2>4
<1>5. CASE \/ BaselineDone \/ ConsumptionDone \/ NotYet \/ TimedOut \/ Expire
           \/ NoteDlqTail \/ GeneratorExits \/ CountDlq \/ StageFails \/ UNCHANGED vars
  <2>1. UNCHANGED <<established, end, handled, committed, inspection, ranges>>
    BY <1>5 DEF BaselineDone, ConsumptionDone, NotYet, TimedOut, Expire, NoteDlqTail,
                GeneratorExits, CountDlq, StageFails, vars, broker, run
  <2>2. BrokerInv' /\ HandledGrows
    BY <2>1, BrokerStep
  <2>3. InspectionInv'
    BY <2>1, <2>2, SnapshotKept
  <2>4. ASSUME BaselineDone
        PROVE  RunInv'
    <3>1. stage' = "dlqstart"
      BY <2>4 DEF BaselineDone, Enter
    <3>2. CommittedBacklogDrained'
      BY <2>1, <2>4, BaselineDrains DEF CommittedBacklogDrained
    <3> QED
      BY <2>1, <3>1, <3>2 DEF RunInv, ConsumedIsDurable, Stages
  <2>5. ASSUME ConsumptionDone
        PROVE  RunInv'
    <3>1. stage = "durable" /\ stage' = "dlqend"
      BY <2>5 DEF ConsumptionDone, Enter
    <3>2. ConsumedIsDurable'
      BY <2>1, <2>5, ConsumptionCovers DEF ConsumedIsDurable
    <3> QED
      BY <2>1, <3>1, <3>2 DEF RunInv, CommittedBacklogDrained, Stages
  <2>6. ASSUME NotYet \/ Expire \/ UNCHANGED vars
        PROVE  RunInv'
    BY <2>1, <2>2, <2>6, RunKept DEF NotYet, Expire, vars, run
  <2>7. ASSUME TimedOut \/ StageFails
        PROVE  RunInv'
    <3>1. stage' = "failed"
      BY <2>7 DEF TimedOut, StageFails, Enter
    <3> QED
      BY <2>1, <3>1 DEF RunInv, ConsumedIsDurable, CommittedBacklogDrained, Stages
  <2>8. ASSUME NoteDlqTail
        PROVE  RunInv'
    <3>1. stage = "dlqstart" /\ stage' = "producer"
      BY <2>8 DEF NoteDlqTail, Enter
    <3> QED
      BY <2>1, <3>1 DEF RunInv, ConsumedIsDurable, CommittedBacklogDrained, Stages
  <2>9. ASSUME GeneratorExits
        PROVE  RunInv'
    <3>1. stage = "producer" /\ stage' = "durable"
      BY <2>9 DEF GeneratorExits, Enter
    <3> QED
      BY <2>1, <3>1 DEF RunInv, ConsumedIsDurable, CommittedBacklogDrained, Stages
  <2>10. ASSUME CountDlq
         PROVE  RunInv'
    <3>1. stage = "dlqend" /\ stage' = "completed"
      BY <2>10 DEF CountDlq, Enter
    <3> QED
      BY <2>1, <3>1 DEF RunInv, ConsumedIsDurable, CommittedBacklogDrained, Stages
  <2>11. RunInv'
    BY <1>5, <2>4, <2>5, <2>6, <2>7, <2>8, <2>9, <2>10
  <2> QED
    BY <2>2, <2>3, <2>11
<1> QED
  BY <1>1, <1>2, <1>3, <1>4, <1>5 DEF Next, Runner

LEMMA BenchmarkStart ==
  ASSUME Init
  PROVE  BenchmarkInv
<1> USE LagAssumption DEF Init, LagInit
<1>1. BrokerInv
  <2>1. ASSUME NEW p \in Partitions
        PROVE  /\ end[p] \in Nat /\ end[p] = InitialEnd[p]
               /\ handled[p] \in Nat /\ committed[p] = InitialCommitted[p]
    OBVIOUS
  <2>2. ASSUME NEW p \in Partitions
        PROVE  /\ committed[p] \in Offsets /\ handled[p] <= end[p]
               /\ committed[p] # NoOffsetYet => committed[p] <= handled[p]
    BY <2>1 DEF Offsets
  <2> QED
    BY <2>1, <2>2 DEF BrokerInv
<1>2. ASSUME NEW p \in Partitions
      PROVE  RowInv(p) /\ ProgressInv(p)
  BY DEF RowInv, ProgressInv, NoRows, Offsets
<1>3. InspectionInv
  BY <1>2 DEF InspectionInv, NoRows
<1>4. RunInv
  BY FS_EmptySet DEF RunInv, Stages, ConsumedIsDurable, CommittedBacklogDrained
<1> QED
  BY <1>1, <1>3, <1>4 DEF BenchmarkInv

THEOREM BenchmarkInvariant == Spec => []BenchmarkInv
<1>1. Init => BenchmarkInv
  BY BenchmarkStart
<1>2. BenchmarkInv /\ [Next]_vars => BenchmarkInv'
  BY BenchmarkStep
<1> QED
  BY <1>1, <1>2, PTL DEF Spec

\* No race between the groups and the inspector shows a negative lag.
THEOREM BenchmarkLagNeverNegative == Spec => []LagNeverNegative
<1>1. BenchmarkInv => LagNeverNegative
  BY DEF BenchmarkInv, InspectionInv, RowInv, LagNeverNegative
<1> QED
  BY <1>1, BenchmarkInvariant, PTL

\* When the runner takes its run for consumed, every record of it is durable,
\* whatever commits came late and whatever else was appended.
THEOREM BenchmarkConsumedIsDurable == Spec => []ConsumedIsDurable
<1>1. BenchmarkInv => ConsumedIsDurable
  BY DEF BenchmarkInv, RunInv
<1> QED
  BY <1>1, BenchmarkInvariant, PTL

\* The part of the baseline's promise that the code keeps: where a group had
\* committed an offset, its backlog is durable before the generator starts.
THEOREM BenchmarkBacklogDrained == Spec => []CommittedBacklogDrained
<1>1. BenchmarkInv => CommittedBacklogDrained
  BY DEF BenchmarkInv, RunInv
<1> QED
  BY <1>1, BenchmarkInvariant, PTL

-----------------------------------------------------------------------------
(* The dead-letter topic and the run's count of it. *)

Coordinates == Partitions \X Nat

\* Records below the noted tail may be of an earlier run; the run's own come
\* after it: the group dead-letters a record before it is durable.
DlqInv ==
  /\ dlq \in Seq(Coordinates) /\ dlqStart \in 0 .. Len(dlq) /\ dlqCount \in 0 .. Len(dlq)
  /\ stage \in {"baseline", "dlqstart"} => ranges = {}
  /\ \A c \in ranges \cap Rejected :
       c[2] < handled[c[1]] => \E i \in (dlqStart + 1) .. Len(dlq) : dlq[i] = c
  /\ DlqCountComplete

\* The topic is only appended to.
DlqGrows ==
  /\ dlq' \in Seq(Coordinates) /\ Len(dlq) \in Nat /\ Len(dlq') \in Nat /\ Len(dlq) <= Len(dlq')
  /\ \A i \in 1 .. Len(dlq) : dlq'[i] = dlq[i]

LEMMA DlqAppended ==
  ASSUME dlq \in Seq(Coordinates), NEW c \in Coordinates, dlq' = Append(dlq, c)
  PROVE  /\ DlqGrows /\ Len(dlq') = Len(dlq) + 1
         /\ dlq'[Len(dlq')] = c
<1> HIDE DEF Coordinates
<1>1. /\ dlq' \in Seq(Coordinates) /\ Len(dlq') = Len(dlq) + 1 /\ Len(dlq) \in Nat
      /\ \A i \in 1 .. Len(dlq) : dlq'[i] = dlq[i]
      /\ dlq'[Len(dlq) + 1] = c
  BY AppendProperties, LenProperties
<1> QED
  BY <1>1 DEF DlqGrows

\* What the groups and the producers do to the topic and to durable records.
LEMMA BrokerAppends ==
  ASSUME BrokerInv, dlq \in Seq(Coordinates), Broker
  PROVE  /\ DlqGrows
         /\ \A c \in Rejected \cap Coordinates :
              c[2] < handled'[c[1]] /\ ~(c[2] < handled[c[1]]) =>
                \E i \in (Len(dlq) + 1) .. Len(dlq') : dlq'[i] = c
<1>1. Len(dlq) \in Nat
  BY LenProperties
<1>2. CASE UNCHANGED <<handled, dlq>>
  BY <1>1, <1>2 DEF DlqGrows
<1>3. ASSUME NEW p \in Partitions, Handle(p)
      PROVE  /\ DlqGrows
             /\ \A c \in Rejected \cap Coordinates :
                  c[2] < handled'[c[1]] /\ ~(c[2] < handled[c[1]]) =>
                    \E i \in (Len(dlq) + 1) .. Len(dlq') : dlq'[i] = c
  <2>1. /\ handled[p] \in Nat /\ <<p, handled[p]>> \in Coordinates
        /\ handled' = [handled EXCEPT ![p] = handled[p] + 1] /\ DOMAIN handled = Partitions
        /\ dlq' = IF <<p, handled[p]>> \in Rejected THEN Append(dlq, <<p, handled[p]>>) ELSE dlq
    BY <1>3 DEF Handle, BrokerInv, Coordinates
  <2>2. ASSUME NEW c \in Coordinates, c[2] < handled'[c[1]], ~(c[2] < handled[c[1]])
        PROVE  c = <<p, handled[p]>>
    <3>1. PICK q \in Partitions, o \in Nat : c = <<q, o>>
      BY DEF Coordinates
    <3>2. o < handled'[q] /\ ~(o < handled[q]) /\ handled[q] \in Nat
      BY <2>2, <3>1 DEF BrokerInv
    <3>3. q = p
      BY <2>1, <3>2
    <3>4. o = handled[p]
      BY <2>1, <3>2, <3>3
    <3> QED
      BY <3>1, <3>3, <3>4
  <2>3. CASE <<p, handled[p]>> \in Rejected
    <3>1. DlqGrows /\ Len(dlq') = Len(dlq) + 1 /\ dlq'[Len(dlq')] = <<p, handled[p]>>
      BY <2>1, <2>3, DlqAppended
    <3> QED
      BY <1>1, <2>2, <3>1
  <2>4. CASE <<p, handled[p]>> \notin Rejected
    BY <1>1, <2>1, <2>2, <2>4 DEF DlqGrows
  <2> QED
    BY <2>3, <2>4
<1>4. ASSUME NEW c \in Rejected, RejectAgain(c)
      PROVE  DlqGrows /\ handled' = handled
  BY <1>4, DlqAppended, LagAssumption DEF RejectAgain, Coordinates
<1>5. CASE \/ \E g \in Groups : Join(g)
           \/ \E p \in Partitions : Commit(p)
           \/ \E p \in Partitions : \E o \in 0 .. MaxEnd : StaleCommit(p, o)
  BY <1>2, <1>5 DEF Join, Commit, StaleCommit
<1> QED
  BY <1>3, <1>4, <1>5 DEF Broker

\* Each rejected record of the run that is durable is counted at least once.
LEMMA CountCovers ==
  ASSUME DlqInv, RunInv, stage = "dlqend"
  PROVE  LET matched == {i \in (dlqStart + 1) .. Len(dlq) : dlq[i] \in ranges}
         IN /\ Cardinality(matched) \in 0 .. Len(dlq)
            /\ Cardinality(matched) >= Cardinality(ranges \cap Rejected)
<1> DEFINE matched == {i \in (dlqStart + 1) .. Len(dlq) : dlq[i] \in ranges}
           own == {i \in matched : dlq[i] \in Rejected}
           f == [i \in own |-> dlq[i]]
<1>1. Len(dlq) \in Nat /\ dlqStart \in Nat
  BY LenProperties DEF DlqInv
<1>2. IsFiniteSet(1 .. Len(dlq)) /\ Cardinality(1 .. Len(dlq)) = Len(dlq)
  BY <1>1, FS_Interval, SMTT(30)
<1>3. matched \subseteq 1 .. Len(dlq) /\ own \subseteq matched
  BY <1>1
<1>4. /\ IsFiniteSet(matched) /\ Cardinality(matched) \in Nat /\ Cardinality(matched) <= Len(dlq)
  BY <1>2, <1>3, FS_Subset, FS_CardinalityType
<1>5. /\ IsFiniteSet(own) /\ Cardinality(own) \in Nat /\ Cardinality(own) <= Cardinality(matched)
  BY <1>3, <1>4, FS_Subset, FS_CardinalityType
<1>6. \A c \in ranges \cap Rejected : \E i \in own : f[i] = c
  <2> SUFFICES ASSUME NEW c \in ranges \cap Rejected PROVE \E i \in own : f[i] = c
    OBVIOUS
  <2>1. c[2] < handled[c[1]]
    BY DEF RunInv, ConsumedIsDurable
  <2>2. PICK i \in (dlqStart + 1) .. Len(dlq) : dlq[i] = c
    BY <2>1 DEF DlqInv
  <2> QED
    BY <2>2
<1>7. \A i \in own : f[i] \in ranges \cap Rejected
  OBVIOUS
<1>8. f \in Surjection(own, ranges \cap Rejected)
  BY <1>6, <1>7 DEF Surjection
<1> HIDE DEF f, own, matched
<1>9. /\ Cardinality(ranges \cap Rejected) <= Cardinality(own)
      /\ IsFiniteSet(ranges \cap Rejected)
  BY <1>5, <1>8, FS_Surjection
<1>10. Cardinality(ranges \cap Rejected) \in Nat
  BY <1>9, FS_CardinalityType
<1>11. Cardinality(matched) \in 0 .. Len(dlq) /\ Cardinality(matched) >= Cardinality(ranges \cap Rejected)
  BY <1>1, <1>4, <1>5, <1>9, <1>10
<1> QED
  BY <1>11 DEF matched

\* Any step that only appends to the topic, with what became durable.
LEMMA DlqKept ==
  ASSUME DlqInv, RunInv, DlqGrows, UNCHANGED <<stage, ranges, dlqStart, dlqCount>>,
         \A c \in Rejected \cap Coordinates :
           c[2] < handled'[c[1]] /\ ~(c[2] < handled[c[1]]) =>
             \E i \in (Len(dlq) + 1) .. Len(dlq') : dlq'[i] = c
  PROVE  DlqInv'
<1>1. /\ Len(dlq) \in Nat /\ Len(dlq') \in Nat /\ Len(dlq) <= Len(dlq')
      /\ dlqStart \in 0 .. Len(dlq) /\ dlqCount \in 0 .. Len(dlq)
      /\ dlqStart' = dlqStart /\ dlqCount' = dlqCount
  BY DEF DlqGrows, DlqInv
<1>2. dlqStart' \in 0 .. Len(dlq') /\ dlqCount' \in 0 .. Len(dlq')
  BY <1>1
<1>3. ASSUME NEW c \in ranges \cap Rejected, c[2] < handled'[c[1]]
      PROVE  \E i \in (dlqStart + 1) .. Len(dlq') : dlq'[i] = c
  <2>1. CASE c[2] < handled[c[1]]
    <3>1. PICK i \in (dlqStart + 1) .. Len(dlq) : dlq[i] = c
      BY <1>3, <2>1 DEF DlqInv
    <3>2. i \in 1 .. Len(dlq) /\ i \in (dlqStart + 1) .. Len(dlq')
      BY <1>1
    <3> QED
      BY <3>1, <3>2 DEF DlqGrows
  <2>2. CASE ~(c[2] < handled[c[1]])
    <3>1. c \in Rejected \cap Coordinates
      BY DEF RunInv, Coordinates
    <3>2. PICK i \in (Len(dlq) + 1) .. Len(dlq') : dlq'[i] = c
      BY <1>3, <2>2, <3>1
    <3>3. i \in (dlqStart + 1) .. Len(dlq')
      BY <1>1
    <3> QED
      BY <3>2, <3>3
  <2> QED
    BY <2>1, <2>2
<1>4. dlq' \in Seq(Coordinates)
  BY DEF DlqGrows
<1> QED
  BY <1>2, <1>3, <1>4 DEF DlqInv, DlqCountComplete

LEMMA DlqStep ==
  ASSUME BenchmarkInv, DlqInv, [Next]_vars
  PROVE  DlqInv'
<1> USE DEF BenchmarkInv
<1>1. /\ dlq \in Seq(Coordinates) /\ Len(dlq) \in Nat
      /\ dlqStart \in 0 .. Len(dlq) /\ dlqCount \in 0 .. Len(dlq)
  BY LenProperties DEF DlqInv
<1>2. UNCHANGED dlq => DlqGrows
  BY <1>1 DEF DlqGrows
<1>3. CASE Broker /\ UNCHANGED <<inspection, run>>
  <2>1. /\ DlqGrows
        /\ \A c \in Rejected \cap Coordinates :
             c[2] < handled'[c[1]] /\ ~(c[2] < handled[c[1]]) =>
               \E i \in (Len(dlq) + 1) .. Len(dlq') : dlq'[i] = c
    BY <1>1, <1>3, BrokerAppends
  <2> QED
    BY <1>3, <2>1, DlqKept DEF run
<1>4. ASSUME NEW p \in Partitions, GeneratorDelivers(p)
      PROVE  DlqInv'
  <2>1. /\ UNCHANGED <<stage, dlq, handled, dlqStart, dlqCount>> /\ stage = "producer"
        /\ ranges' = ranges \cup {<<p, end[p]>>}
    BY <1>4 DEF GeneratorDelivers, Append1
  <2>2. ~(end[p] < handled[p])
    BY DEF BrokerInv
  <2>3. \A c \in ranges' \cap Rejected : c[2] < handled[c[1]] => c \in ranges
    BY <2>1, <2>2
  <2> QED
    BY <2>1, <2>3 DEF DlqInv, DlqCountComplete
<1>5. CASE NoteDlqTail
  <2>1. /\ stage = "dlqstart" /\ stage' = "producer" /\ dlqStart' = Len(dlq)
        /\ UNCHANGED <<dlq, handled, ranges, dlqCount>> /\ ranges = {}
    BY <1>5 DEF NoteDlqTail, Enter, broker, DlqInv
  <2> QED
    BY <1>1, <2>1 DEF DlqInv, DlqCountComplete
<1>6. CASE CountDlq
  <2>1. /\ stage = "dlqend" /\ stage' = "completed"
        /\ dlqCount' = Cardinality({i \in (dlqStart + 1) .. Len(dlq) : dlq[i] \in ranges})
        /\ UNCHANGED <<dlq, handled, ranges, dlqStart>>
    BY <1>6 DEF CountDlq, Enter, broker
  <2>2. dlqCount' \in 0 .. Len(dlq) /\ dlqCount' >= Cardinality(ranges \cap Rejected)
    BY <2>1, CountCovers
  <2> QED
    BY <2>1, <2>2 DEF DlqInv, DlqCountComplete
<1>7. CASE \/ NewRound \/ InspectStep \/ NotYet \/ Expire \/ UNCHANGED vars
           \/ \E p \in Partitions : ForeignAppend(p)
  <2>1. UNCHANGED <<stage, dlq, handled, ranges, dlqStart, dlqCount>>
    BY <1>7 DEF NewRound, ListGroups, InspectStep, Inspect, SkipGroup, ReadCommitted, ReadWatermark,
                NotYet, Expire, ForeignAppend, vars, run, broker
  <2> QED
    BY <1>2, <2>1, DlqKept
<1>8. CASE BaselineDone \/ ConsumptionDone \/ TimedOut \/ GeneratorExits \/ StageFails
  <2>1. /\ UNCHANGED <<dlq, handled, ranges, dlqStart, dlqCount>>
        /\ stage' # "completed" /\ (stage' = "dlqstart" => stage = "baseline") /\ stage' # "baseline"
    BY <1>8 DEF BaselineDone, ConsumptionDone, TimedOut, GeneratorExits, StageFails, Enter, broker
  <2> QED
    BY <2>1 DEF DlqInv, DlqCountComplete
<1> QED
  BY <1>3, <1>4, <1>5, <1>6, <1>7, <1>8 DEF Next, Runner

THEOREM BenchmarkDlqInvariant == Spec => []DlqInv
<1>1. Init => DlqInv
  <2> SUFFICES ASSUME Init PROVE DlqInv
    OBVIOUS
  <2>1. /\ dlq = <<>> /\ ranges = {} /\ dlqStart = 0 /\ dlqCount = 0 /\ stage = "baseline"
    BY DEF Init, LagInit
  <2>2. dlq \in Seq(Coordinates) /\ Len(dlq) = 0
    BY <2>1
  <2> QED
    BY <2>1, <2>2 DEF DlqInv, DlqCountComplete
<1>2. BenchmarkInv /\ DlqInv /\ [Next]_vars => DlqInv'
  BY DlqStep
<1> QED
  BY <1>1, <1>2, BenchmarkInvariant, PTL DEF Spec

\* The count of a completed run has every rejected record of the run, though
\* records may be dead-lettered twice and other runs' records lie around them.
THEOREM BenchmarkDlqCountComplete == Spec => []DlqCountComplete
<1>1. DlqInv => DlqCountComplete
  BY DEF DlqInv
<1> QED
  BY <1>1, BenchmarkDlqInvariant, PTL

-----------------------------------------------------------------------------
(* Types, of what the invariants above do not cover. *)

TypeInv ==
  /\ established \subseteq Groups /\ existing \subseteq Groups
  /\ groupsLeft \subseteq Groups /\ rowsLeft \subseteq Partitions
  /\ end \in [Partitions -> 0 .. MaxEnd] /\ handled \in [Partitions -> 0 .. MaxEnd]
  /\ committed \in [Partitions -> Offsets]
  /\ current \in [Partitions -> Offsets] /\ high \in [Partitions -> Offsets]
  /\ faults \in 0 .. MaxFaults
  /\ expired \in BOOLEAN /\ inspected \in BOOLEAN

LEMMA FaultStays ==
  ASSUME faults \in 0 .. MaxFaults, Fault \/ UNCHANGED faults
  PROVE  faults' \in 0 .. MaxFaults
BY LagAssumption DEF Fault

LEMMA TypeStep ==
  ASSUME TypeInv, BrokerInv, [Next]_vars
  PROVE  TypeInv'
<1> USE LagAssumption
<1>1. CASE Broker /\ UNCHANGED <<inspection, run>>
  <2>1. ASSUME NEW g \in Groups, Join(g) PROVE TypeInv'
    BY <1>1, <2>1 DEF Join, TypeInv, inspection, run
  <2>2. ASSUME NEW p \in Partitions, Handle(p) PROVE TypeInv'
    <3>1. /\ handled' = [handled EXCEPT ![p] = handled[p] + 1] /\ handled[p] < end[p]
          /\ UNCHANGED <<established, end, committed, faults>>
      BY <2>2 DEF Handle
    <3>2. handled' \in [Partitions -> 0 .. MaxEnd]
      BY <3>1 DEF TypeInv
    <3> QED
      BY <1>1, <3>1, <3>2 DEF TypeInv, inspection, run
  <2>3. ASSUME NEW p \in Partitions, Commit(p) PROVE TypeInv'
    BY <1>1, <2>3 DEF Commit, TypeInv, Offsets, inspection, run
  <2>4. ASSUME NEW p \in Partitions, NEW o \in 0 .. MaxEnd, StaleCommit(p, o) PROVE TypeInv'
    BY <1>1, <2>4, FaultStays DEF StaleCommit, TypeInv, Offsets, inspection, run
  <2>5. ASSUME NEW c \in Rejected, RejectAgain(c) PROVE TypeInv'
    BY <1>1, <2>5, FaultStays DEF RejectAgain, TypeInv, inspection, run
  <2> QED
    BY <1>1, <2>1, <2>2, <2>3, <2>4, <2>5 DEF Broker
<1>2. ASSUME NEW p \in Partitions, GeneratorDelivers(p) \/ ForeignAppend(p)
      PROVE  TypeInv'
  <2>1. /\ end' = [end EXCEPT ![p] = end[p] + 1] /\ end[p] < MaxEnd
        /\ UNCHANGED <<established, handled, committed, inspection, expired, inspected>>
        /\ Fault \/ UNCHANGED faults
    BY <1>2 DEF GeneratorDelivers, ForeignAppend, Append1, run
  <2>2. end' \in [Partitions -> 0 .. MaxEnd]
    BY <2>1 DEF TypeInv
  <2> QED
    BY <2>1, <2>2, FaultStays DEF TypeInv, inspection
<1>3. CASE NewRound
  BY <1>3 DEF NewRound, ListGroups, TypeInv, Offsets, NoRows, broker
<1>4. CASE InspectStep
  <2>1. ASSUME NEW g \in Groups, SkipGroup(g) \/ ReadCommitted(g) PROVE TypeInv'
    BY <1>4, <2>1 DEF InspectStep, SkipGroup, ReadCommitted, PartitionsOf, TypeInv, broker, run
  <2>2. ASSUME NEW p \in Partitions, ReadWatermark(p) PROVE TypeInv'
    BY <1>4, <2>2 DEF InspectStep, ReadWatermark, TypeInv, Offsets, broker, run
  <2> QED
    BY <1>4, <2>1, <2>2 DEF InspectStep, Inspect
<1>5. CASE \/ BaselineDone \/ ConsumptionDone \/ NotYet \/ TimedOut \/ Expire
           \/ NoteDlqTail \/ GeneratorExits \/ CountDlq \/ StageFails \/ UNCHANGED vars
  <2>1. /\ UNCHANGED <<established, end, handled, committed, inspection>>
        /\ Fault \/ UNCHANGED faults
        /\ expired' \in {expired, TRUE, FALSE} /\ inspected' \in {inspected, FALSE}
    BY <1>5 DEF BaselineDone, ConsumptionDone, NotYet, TimedOut, Expire, NoteDlqTail,
                GeneratorExits, CountDlq, StageFails, Enter, vars, broker, run
  <2> QED
    BY <2>1, FaultStays DEF TypeInv, inspection
<1> QED
  BY <1>1, <1>2, <1>3, <1>4, <1>5 DEF Next, Runner

\* The broker, the inspection and the run have the types the code gives them.
THEOREM BenchmarkTypeCorrect == Spec => []TypeOK
<1>1. Init => TypeInv
  <2> SUFFICES ASSUME Init PROVE TypeInv
    OBVIOUS
  <2> USE LagAssumption DEF Init, LagInit
  <2>1. \A p \in Partitions : end[p] \in 0 .. MaxEnd /\ InitialEnd[p] \in Nat /\ InitialEnd[p] <= MaxEnd
    OBVIOUS
  <2>2. ASSUME NEW p \in Partitions PROVE handled[p] \in 0 .. MaxEnd /\ committed[p] \in Offsets
    <3>1. CASE InitialCommitted[p] = NoOffsetYet
      BY <3>1 DEF Offsets
    <3>2. CASE InitialCommitted[p] \in 0 .. InitialEnd[p]
      <4>1. handled[p] = InitialCommitted[p] /\ committed[p] = InitialCommitted[p]
        BY <3>2
      <4> QED
        BY <2>1, <3>2, <4>1 DEF Offsets
    <3> QED
      BY <3>1, <3>2
  <2>3. handled \in [Partitions -> 0 .. MaxEnd] /\ committed \in [Partitions -> Offsets]
    BY <2>2 DEF Offsets
  <2>4. NoRows \in [Partitions -> Offsets]
    BY DEF NoRows, Offsets
  <2>5. /\ established \subseteq Groups /\ existing \subseteq Groups
        /\ groupsLeft \subseteq Groups /\ rowsLeft \subseteq Partitions
    OBVIOUS
  <2>6. end = InitialEnd /\ end \in [Partitions -> 0 .. MaxEnd]
    OBVIOUS
  <2>7. current = NoRows /\ high = NoRows
    OBVIOUS
  <2>8. faults \in 0 .. MaxFaults /\ expired \in BOOLEAN /\ inspected \in BOOLEAN
    <3>1. faults \in 0 .. MaxFaults
      OBVIOUS
    <3>2. expired \in BOOLEAN /\ inspected \in BOOLEAN
      BY Zenon
    <3> QED
      BY <3>1, <3>2, Zenon
  <2> QED
    BY ONLY <2>3, <2>4, <2>5, <2>6, <2>7, <2>8 DEF TypeInv
<1>2. BenchmarkInv /\ TypeInv /\ [Next]_vars => TypeInv'
  BY TypeStep DEF BenchmarkInv
<1>3. TypeInv /\ BenchmarkInv /\ DlqInv => TypeOK
  BY DEF TypeInv, BenchmarkInv, RunInv, DlqInv, Coordinates, TypeOK, LagTypeOK
<1> QED
  BY <1>1, <1>2, <1>3, BenchmarkInvariant, BenchmarkDlqInvariant, PTL DEF Spec
=============================================================================

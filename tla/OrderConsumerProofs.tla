------------------------ MODULE OrderConsumerProofs ------------------------
(* Proofs about the order consumer, for every topic, group and bound. *)
EXTENDS OrderConsumer, TLAPS

\* What an address is.
LEMMA CoordinateShape ==
  ASSUME NEW c \in Coordinates
  PROVE  /\ c[1] \in Partitions
         /\ c[2] \in 0 .. (LogEnd[c[1]] - 1)
         /\ c[2] \in Nat
         /\ c = <<c[1], c[2]>>
         /\ c # NoRecord
BY TopicAssumption, OrderAssumption DEF Coordinates

LEMMA CoordinateIntro ==
  ASSUME NEW p \in Partitions, NEW o \in Nat, o < LogEnd[p]
  PROVE  <<p, o>> \in Coordinates
<1>1. o \in 0 .. (LogEnd[p] - 1)
  BY TopicAssumption
<1>2. <<p, o>> \in {p} \X (0 .. (LogEnd[p] - 1))
  BY <1>1
<1>. QED
  BY <1>2 DEF Coordinates

\* A record that decodes carries an event id.
LEMMA DecodableEvent ==
  ASSUME NEW c \in Coordinates
  PROVE  /\ c \in Decodable => EventAt(c) \in Events
         /\ c \in Malformed => EventAt(c) = NoEvent
         /\ c \in Malformed <=> c \notin Decodable
<1>1. RecordAt(c) \in Records
  BY CoordinateShape, TopicAssumption DEF RecordAt
<1>. QED
  BY <1>1, TopicAssumption DEF Records, EventAt, Malformed, Decodable

\* Nothing is before offset 0, and one more offset adds one record.
LEMMA BeforeZero ==
  ASSUME NEW p \in Partitions
  PROVE  Before(p, 0) = {}
BY CoordinateShape DEF Before

LEMMA BeforeNext ==
  ASSUME NEW p \in Partitions, NEW o \in Nat,
         NEW c \in Before(p, o + 1)
  PROVE  c \in Before(p, o) \/ c = <<p, o>>
<1>1. c \in Coordinates /\ c[1] = p /\ c[2] < o + 1
  BY DEF Before
<1>2. c[2] \in Nat /\ c = <<c[1], c[2]>>
  BY <1>1, CoordinateShape
<1>. QED
  BY <1>1, <1>2 DEF Before

THEOREM InitEstablishes == Init => IndInv
<1>. SUFFICES ASSUME Init PROVE IndInv
  OBVIOUS
<1>1. TypeOK
  BY OrderAssumption DEF Init, TypeOK, Stages
<1>2. InHandSafe
  BY OrderAssumption DEF Init, InHandSafe, InHand, Transaction
<1>3. PrefixDone
  BY DEF Init, PrefixDone
<1>4. PositionSafe
  BY DEF Init, PositionSafe
<1>5. MarkersExclusive
  BY DEF Init, MarkersExclusive
<1>6. NoSkip
  BY BeforeZero DEF Init, NoSkip
<1>7. OneRowPerEvent /\ MarkerMatchesRow
  BY DEF Init, OneRowPerEvent, MarkerMatchesRow
<1>. QED
  BY <1>1, <1>2, <1>3, <1>4, <1>5, <1>6, <1>7 DEF IndInv

\* What is done stays done.
LEMMA DoneStays ==
  ASSUME validOrders \subseteq validOrders', dlq \subseteq dlq', NEW c
  PROVE  Done(c) => Done(c)'
BY DEF Done

\* The group gives a partition to a member, which starts at the committed
\* offset: everything before it is done.
LEMMA GroupStep ==
  ASSUME IndInv, NEW p \in Partitions, NEW m \in Members,
         Assign(p, m) \/ Rebalance(p, m)
  PROVE  IndInv'
<1>. USE DEF IndInv
<1>1. /\ owner' = [owner EXCEPT ![p] = m]
      /\ position' = [position EXCEPT ![p] = committed[p]]
      /\ faults' \in 0 .. MaxFaults
      /\ UNCHANGED <<committed, tables, dlq, process>>
  BY OrderAssumption DEF Assign, Rebalance, Fault, TypeOK
<1>2. TypeOK'
  BY <1>1 DEF TypeOK, tables, process
<1>3. InHandSafe' /\ PrefixDone' /\ MarkersExclusive' /\ NoSkip' /\ OneRowPerEvent'
      /\ MarkerMatchesRow'
  BY <1>1 DEF InHandSafe, InHand, PrefixDone, MarkersExclusive, NoSkip, OneRowPerEvent,
              MarkerMatchesRow, tables, process, Done, ProcessedIds
<1>4. PositionSafe'
  <2>. SUFFICES ASSUME NEW q \in Partitions, owner'[q] # NoMember,
                       NEW c \in Before(q, position'[q])
                PROVE  (Done(c) \/ current[owner[q]] = c)'
    BY DEF PositionSafe
  <2>1. CASE q = p
    BY <1>1, <2>1 DEF TypeOK, NoSkip, Done, tables
  <2>2. CASE q # p
    BY <1>1, <2>2 DEF TypeOK, PositionSafe, Done, tables, process
  <2>. QED
    BY <2>1, <2>2
<1>. QED
  BY <1>2, <1>3, <1>4

\* A member with nothing in hand fetches: everything before the record it now
\* holds is done, and the owner's position passes only that record.
LEMMA PollStep ==
  ASSUME IndInv, NEW m \in Members, NEW p \in Partitions, Poll(m, p)
  PROVE  IndInv'
<1>. USE DEF IndInv
<1>. DEFINE r == <<p, position[p]>>
<1>1. r \in Coordinates /\ position[p] \in Nat /\ r[1] = p /\ r[2] = position[p]
  BY CoordinateIntro DEF Poll, TypeOK
<1>2. /\ current' = [current EXCEPT ![m] = r]
      /\ position' = [position EXCEPT ![p] = position[p] + 1]
      /\ stage' = [stage EXCEPT ![m] = IF r \in Malformed THEN "dlq" ELSE "marker"]
      /\ attempt' = [attempt EXCEPT ![m] = 0]
      /\ UNCHANGED <<owner, committed, processed, validOrders, dlq, stopping, faults>>
      /\ stage[m] = "loop" /\ owner[p] = m /\ current[m] = NoRecord
  BY DEF Poll, GoTo, TypeOK, tables, InHandSafe, InHand
<1>3. TypeOK'
  BY <1>1, <1>2, OrderAssumption DEF TypeOK, Stages
<1>4. InHandSafe'
  <2>. SUFFICES ASSUME NEW n \in Members
                PROVE  InHand(n)'
    BY DEF InHandSafe
  <2>1. CASE n = m
    BY <1>1, <1>2, <2>1, DecodableEvent, CoordinateShape DEF TypeOK, Transaction, InHand
  <2>2. CASE n # m
    BY <1>2, <2>2 DEF TypeOK, InHandSafe, InHand, Done, ProcessedIds
  <2>. QED
    BY <2>1, <2>2
<1>5. PrefixDone'
  <2>. SUFFICES ASSUME NEW n \in Members, current'[n] # NoRecord,
                       NEW c \in Before(Partition(current'[n]), current'[n][2])
                PROVE  Done(c)'
    BY DEF PrefixDone
  <2>1. CASE n = m
    <3>1. c \in Before(p, position[p]) /\ c \in Coordinates
      BY <1>1, <1>2, <2>1 DEF Partition, TypeOK, Before
    <3>2. Done(c)
      BY <3>1, <1>2, CoordinateShape, OrderAssumption DEF PositionSafe
    <3>. QED
      BY <3>2, <1>2 DEF Done
  <2>2. CASE n # m
    BY <1>2, <2>2 DEF TypeOK, PrefixDone, Done
  <2>. QED
    BY <2>1, <2>2
<1>6. PositionSafe'
  <2>. SUFFICES ASSUME NEW q \in Partitions, owner'[q] # NoMember,
                       NEW c \in Before(q, position'[q])
                PROVE  (Done(c) \/ current[owner[q]] = c)'
    BY DEF PositionSafe
  <2>1. CASE q = p
    <3>1. c \in Before(p, position[p]) \/ c = r
      BY <1>1, <1>2, <2>1, BeforeNext DEF TypeOK
    <3>2. CASE c = r
      BY <1>2, <2>1, <3>2 DEF TypeOK
    <3>3. CASE c \in Before(p, position[p])
      <4>1. Done(c) \/ current[m] = c
        BY <3>3, <1>2, OrderAssumption DEF PositionSafe
      <4>2. c # NoRecord
        BY <3>3, CoordinateShape DEF Before
      <4>. QED
        BY <4>1, <4>2, <1>2 DEF Done
    <3>. QED
      BY <3>1, <3>2, <3>3
  <2>2. CASE q # p
    <3>1. c \in Before(q, position[q]) /\ c # NoRecord /\ owner[q] \in Members
      BY <1>2, <2>2, CoordinateShape DEF TypeOK, Before
    <3>2. Done(c) \/ current[owner[q]] = c
      BY <3>1, <1>2 DEF PositionSafe
    <3>3. current[owner[q]] = c => current'[owner'[q]] = c
      BY <3>1, <1>2 DEF TypeOK
    <3>. QED
      BY <3>2, <3>3, <1>2 DEF Done
  <2>. QED
    BY <2>1, <2>2
<1>7. MarkersExclusive'
  BY <1>2 DEF MarkersExclusive, TypeOK
<1>8. NoSkip' /\ OneRowPerEvent' /\ MarkerMatchesRow'
  BY <1>2 DEF NoSkip, OneRowPerEvent, MarkerMatchesRow, Done
<1>. QED
  BY <1>3, <1>4, <1>5, <1>6, <1>7, <1>8

\* A step that moves no position and no record in hand, and undoes nothing,
\* keeps what depends on them.
LEMMA SameHandStep ==
  ASSUME IndInv, UNCHANGED <<owner, position, current>>,
         validOrders \subseteq validOrders', dlq \subseteq dlq'
  PROVE  PrefixDone' /\ PositionSafe'
<1>1. \A c : Done(c) => Done(c)'
  BY DoneStays
<1>. QED
  BY <1>1 DEF IndInv, PrefixDone, PositionSafe, Partition

\* A member that leaves takes nothing with it: its partitions are unowned.
LEMMA LeaveStep ==
  ASSUME IndInv, NEW m \in Members, Leave(m),
         validOrders \subseteq validOrders', dlq \subseteq dlq'
  PROVE  PrefixDone' /\ PositionSafe'
<1>1. \A c : Done(c) => Done(c)'
  BY DoneStays
<1>2. /\ owner' = [p \in Partitions |-> IF owner[p] = m THEN NoMember ELSE owner[p]]
      /\ current' = [current EXCEPT ![m] = NoRecord]
      /\ position' = position
  BY DEF Leave
<1>3. PrefixDone'
  BY <1>1, <1>2 DEF IndInv, TypeOK, PrefixDone, Partition
<1>4. PositionSafe'
  <2>. SUFFICES ASSUME NEW q \in Partitions, owner'[q] # NoMember,
                       NEW c \in Before(q, position'[q])
                PROVE  (Done(c) \/ current[owner[q]] = c)'
    BY DEF PositionSafe
  <2>1. owner'[q] = owner[q] /\ owner[q] # m /\ owner[q] \in Members
    BY <1>2 DEF IndInv, TypeOK
  <2>2. Done(c) \/ current[owner[q]] = c
    BY <1>2, <2>1 DEF IndInv, PositionSafe
  <2>. QED
    BY <1>1, <1>2, <2>1, <2>2 DEF IndInv, TypeOK
<1>. QED
  BY <1>3, <1>4

\* What an open transaction inserts is a row for an event that has none.
LEMMA InsertedIsNew ==
  ASSUME IndInv, NEW m \in Members
  PROVE  /\ Inserted(m) \subseteq Events \X Decodable
         /\ \A r \in Inserted(m) : r[1] \notin ProcessedIds
         /\ \A r, s \in Inserted(m) : r = s
         /\ \A r \in Inserted(m) : stage[m] = "tx" /\ r[1] = EventAt(current[m])
<1>1. stage[m] = "tx" => /\ current[m] \in Decodable
                         /\ EventAt(current[m]) \in Events
                         /\ EventAt(current[m]) \notin ProcessedIds
  BY DecodableEvent DEF IndInv, InHandSafe, InHand, Transaction, Decodable
<1>. QED
  BY <1>1 DEF Inserted

\* The two tables after a step of m: as they were, or with its transaction.
Tables(m) ==
  \/ processed' = processed /\ validOrders' = validOrders
  \/ processed' = processed \cup Inserted(m) /\ validOrders' = validOrders \cup Inserted(m)

LEMMA TablesStep ==
  ASSUME IndInv, NEW m \in Members, Tables(m)
  PROVE  /\ OneRowPerEvent' /\ MarkerMatchesRow'
         /\ validOrders \subseteq validOrders' /\ ProcessedIds \subseteq ProcessedIds'
         /\ processed' \subseteq Events \X Decodable
         /\ validOrders' \subseteq Events \X Decodable
         /\ \A i \in ProcessedIds' \ ProcessedIds : stage[m] = "tx" /\ i = EventAt(current[m])
<1>1. CASE processed' = processed /\ validOrders' = validOrders
  BY <1>1 DEF IndInv, OneRowPerEvent, MarkerMatchesRow, ProcessedIds, TypeOK
<1>2. CASE processed' = processed \cup Inserted(m) /\ validOrders' = validOrders \cup Inserted(m)
  <2>1. MarkerMatchesRow' /\ validOrders \subseteq validOrders'
        /\ ProcessedIds \subseteq ProcessedIds'
    BY <1>2 DEF IndInv, MarkerMatchesRow, ProcessedIds
  <2>2. OneRowPerEvent'
    BY <1>2, InsertedIsNew DEF IndInv, OneRowPerEvent, MarkerMatchesRow, ProcessedIds
  <2>3. processed' \subseteq Events \X Decodable /\ validOrders' \subseteq Events \X Decodable
    BY <1>2, InsertedIsNew DEF IndInv, TypeOK
  <2>4. ASSUME NEW i \in ProcessedIds' \ ProcessedIds
        PROVE  stage[m] = "tx" /\ i = EventAt(current[m])
    BY <1>2, InsertedIsNew DEF ProcessedIds
  <2>. QED
    BY <2>1, <2>2, <2>3, <2>4
<1>. QED
  BY <1>1, <1>2 DEF Tables

\* A step of m leaves the others' records in hand safe, and its own marker
\* exclusive.
LEMMA StageStep ==
  ASSUME IndInv, NEW m \in Members, NEW s, Tables(m), dlq \subseteq dlq',
         stage' = [stage EXCEPT ![m] = s],
         current' = current \/ current' = [current EXCEPT ![m] = NoRecord],
         InHand(m)',
         s \in {"row", "tx"} => stage[m] \in {"row", "tx"} \/ ~MarkerLocked(m)
  PROVE  InHandSafe' /\ MarkersExclusive'
<1>1. \A c : Done(c) => Done(c)'
  BY TablesStep, DoneStays
<1>2. s \in {"row", "tx"} => current' = current
  BY DEF InHand, IndInv, TypeOK
<1>3. \A n \in Members \ {m} : stage'[n] = stage[n] /\ current'[n] = current[n]
  BY DEF IndInv, TypeOK
<1>4. InHandSafe'
  <2>. SUFFICES ASSUME NEW n \in Members \ {m} PROVE InHand(n)'
    BY DEF InHandSafe
  <2>1. InHand(n)
    BY DEF IndInv, InHandSafe
  <2>2. stage[n] \in {"row", "tx"} => EventAt(current[n]) \notin ProcessedIds'
    <3>. SUFFICES ASSUME stage[n] \in {"row", "tx"}, EventAt(current[n]) \in ProcessedIds'
                  PROVE  FALSE
      OBVIOUS
    <3>1. stage[m] = "tx" /\ EventAt(current[n]) = EventAt(current[m])
      BY <2>1, TablesStep DEF InHand
    <3>. QED
      BY <3>1 DEF IndInv, MarkersExclusive
  <2>3. stage[n] = "duplicate" => EventAt(current[n]) \in ProcessedIds'
    BY <2>1, TablesStep DEF InHand
  <2>4. EventAt(current'[n]) = EventAt(current[n])
    BY <1>3
  <2>. QED
    BY <1>1, <1>3, <2>1, <2>2, <2>3, <2>4 DEF InHand
<1>5. MarkersExclusive'
  <2>. SUFFICES ASSUME NEW n \in Members, NEW k \in Members,
                       stage'[n] \in {"row", "tx"}, stage'[k] \in {"row", "tx"},
                       EventAt(current'[n]) = EventAt(current'[k])
                PROVE  n = k
    BY DEF MarkersExclusive, EventAt, RecordAt
  <2>1. stage'[m] = s
    BY DEF IndInv, TypeOK
  <2>2. CASE n # m /\ k # m
    BY <1>3, <2>2 DEF IndInv, MarkersExclusive, EventAt, RecordAt
  <2>3. CASE n = m /\ k # m
    BY <1>2, <1>3, <2>1, <2>3 DEF IndInv, MarkersExclusive, MarkerLocked, EventAt, RecordAt
  <2>4. CASE n # m /\ k = m
    BY <1>2, <1>3, <2>1, <2>4 DEF IndInv, MarkersExclusive, MarkerLocked, EventAt, RecordAt
  <2>. QED
    BY <2>2, <2>3, <2>4
<1>. QED
  BY <1>4, <1>5

\* Committed offsets that do not move stay behind what is done.
LEMMA NoSkipStays ==
  ASSUME IndInv, committed' = committed,
         validOrders \subseteq validOrders', dlq \subseteq dlq'
  PROVE  NoSkip'
BY DoneStays DEF IndInv, NoSkip

\* The offset after a done record is safe to commit for whoever holds it.
LEMMA AcceptStep ==
  ASSUME IndInv, NEW m \in Members, stage[m] = "offset", Accept(m),
         validOrders \subseteq validOrders', dlq \subseteq dlq'
  PROVE  NoSkip' /\ committed' \in [Partitions -> Nat]
<1>. DEFINE r == current[m]
<1>1. r \in Coordinates /\ Done(r)
  BY DEF IndInv, TypeOK, InHandSafe, InHand
<1>2. r[1] \in Partitions /\ r[2] \in Nat /\ r = <<r[1], r[2]>> /\ r # NoRecord
  BY <1>1, CoordinateShape
<1>3. committed' = [committed EXCEPT ![r[1]] = r[2] + 1]
  BY DEF Accept, Partition, NextOffset
<1>4. ASSUME NEW p \in Partitions, NEW c \in Before(p, committed'[p])
      PROVE  Done(c)'
  <2>1. CASE p = r[1]
    <3>1. c \in Before(p, r[2]) \/ c = r
      BY <1>2, <1>3, <1>4, <2>1, BeforeNext DEF IndInv, TypeOK
    <3>2. Done(c)
      BY <1>1, <1>2, <2>1, <3>1 DEF IndInv, PrefixDone, Partition
    <3>. QED
      BY <3>2, DoneStays
  <2>2. CASE p # r[1]
    BY <1>3, <1>4, <2>2, DoneStays DEF IndInv, TypeOK, NoSkip
  <2>. QED
    BY <2>1, <2>2
<1>. QED
  BY <1>2, <1>3, <1>4 DEF NoSkip, IndInv, TypeOK

\* A member publishes to the dead-letter topic, and the broker answers.
LEMMA DlqDeliveredStep ==
  ASSUME IndInv, NEW m \in Members, DlqDelivered(m)
  PROVE  IndInv'
<1>1. /\ stage[m] = "dlq" /\ dlq' = dlq \cup {current[m]}
      /\ stage' = [stage EXCEPT ![m] = "offset"]
      /\ attempt' = [attempt EXCEPT ![m] = 0]
      /\ UNCHANGED <<owner, position, committed, processed, validOrders, current,
                     stopping, faults>>
  BY DEF DlqDelivered, GoTo, group, tables
<1>2. current[m] \in Malformed
  BY <1>1 DEF IndInv, InHandSafe, InHand
<1>3. TypeOK'
  <2>1. dlq' \subseteq Malformed /\ "offset" \in Stages /\ 0 \in 0 .. MaxRetries
    BY <1>1, <1>2, OrderAssumption DEF IndInv, TypeOK, Stages
  <2>. QED
    BY <1>1, <2>1 DEF IndInv, TypeOK
<1>4. InHand(m)'
  BY <1>1, <1>2, CoordinateShape DEF IndInv, TypeOK, InHand, Done, Transaction, Malformed
<1>5. InHandSafe' /\ MarkersExclusive'
  BY <1>1, <1>4, StageStep DEF Tables
<1>6. OneRowPerEvent' /\ MarkerMatchesRow'
  BY <1>1, TablesStep DEF Tables
<1>. QED
  BY <1>1, <1>3, <1>5, <1>6, SameHandStep, NoSkipStays DEF IndInv

\* What the ends of a failed operation have in common: a fresh attempt, or
\* the process gone with nothing in hand.
LEMMA TryAgainOrGiveUp ==
  ASSUME IndInv, NEW m \in Members, NEW first \in Stages,
         TryAgain(m, first) \/ GiveUp(m),
         Tables(m), dlq \subseteq dlq',
         TryAgain(m, first) => /\ current[m] # NoRecord
                               /\ first = "dlq" => current[m] \in Malformed
                               /\ first = "marker" => current[m] \in Decodable
                               /\ first = "offset" => Done(current[m])
                               /\ first \in {"dlq", "marker", "offset"}
  PROVE  /\ InHandSafe' /\ MarkersExclusive' /\ PrefixDone' /\ PositionSafe'
         /\ owner' \in [Partitions -> Members \cup {NoMember}]
         /\ position' \in [Partitions -> Nat]
         /\ stage' \in [Members -> Stages]
         /\ current' \in [Members -> Coordinates \cup {NoRecord}]
         /\ attempt' \in [Members -> 0 .. MaxRetries]
         /\ stopping' \in [Members -> BOOLEAN]
<1>1. validOrders \subseteq validOrders'
  BY TablesStep
<1>2. CASE TryAgain(m, first)
  <2>1. /\ stage' = [stage EXCEPT ![m] = first]
        /\ attempt[m] < MaxRetries /\ attempt' = [attempt EXCEPT ![m] = attempt[m] + 1]
        /\ UNCHANGED <<current, stopping, owner, position>>
    BY <1>2 DEF TryAgain, IndInv, TypeOK
  <2>2. current[m] # NoRecord
    BY <1>2
  <2>3. InHand(m)'
    BY <2>1, <2>2, <1>1, <1>2, DoneStays DEF IndInv, TypeOK, InHand, Transaction
  <2>4. InHandSafe' /\ MarkersExclusive'
    BY <1>2, <2>1, <2>3, StageStep
  <2>5. attempt' \in [Members -> 0 .. MaxRetries]
    BY <2>1, OrderAssumption DEF IndInv, TypeOK
  <2>6. stage' \in [Members -> Stages]
    BY <2>1 DEF IndInv, TypeOK
  <2>. QED
    BY <2>1, <2>4, <2>5, <2>6, <1>1, SameHandStep DEF IndInv, TypeOK
<1>3. CASE GiveUp(m)
  <2>1. Leave(m)
    BY <1>3 DEF GiveUp
  <2>2. /\ stage' = [stage EXCEPT ![m] = "down"]
        /\ current' = [current EXCEPT ![m] = NoRecord]
        /\ attempt' = [attempt EXCEPT ![m] = 0]
        /\ stopping' = [stopping EXCEPT ![m] = FALSE]
        /\ position' = position
        /\ owner' = [p \in Partitions |-> IF owner[p] = m THEN NoMember ELSE owner[p]]
    BY <2>1 DEF Leave
  <2>3. InHand(m)'
    BY <2>2 DEF IndInv, TypeOK, InHand, Transaction
  <2>4. InHandSafe' /\ MarkersExclusive'
    BY <2>2, <2>3, StageStep
  <2>. QED
    BY <2>1, <2>2, <2>4, <1>1, LeaveStep, OrderAssumption DEF IndInv, TypeOK, Stages
<1>. QED
  BY <1>2, <1>3

\* A fault stays within its bound.
LEMMA FaultStep ==
  ASSUME TypeOK, Fault PROVE faults' \in 0 .. MaxFaults
BY OrderAssumption DEF TypeOK, Fault

\* The process ends, by an exception, a crash or the stop flag.
LEMMA EndStep ==
  ASSUME IndInv, NEW m \in Members, PollFails(m) \/ RowRefused(m) \/ Stop(m) \/ Crash(m)
  PROVE  IndInv'
<1>1. /\ GiveUp(m)
      /\ UNCHANGED <<committed, processed, validOrders, dlq>>
      /\ faults' \in 0 .. MaxFaults
  BY FaultStep DEF PollFails, RowRefused, Stop, Crash, GiveUp, tables, IndInv, TypeOK
<1>2. Tables(m) /\ "loop" \in Stages /\ dlq \subseteq dlq' /\ validOrders \subseteq validOrders'
  BY <1>1 DEF Tables, Stages
<1>3. Leave(m)
  BY <1>1 DEF GiveUp
<1>4. /\ stage' = [stage EXCEPT ![m] = "down"]
      /\ current' = [current EXCEPT ![m] = NoRecord]
      /\ attempt' = [attempt EXCEPT ![m] = 0]
      /\ stopping' = [stopping EXCEPT ![m] = FALSE]
      /\ position' = position
      /\ owner' = [p \in Partitions |-> IF owner[p] = m THEN NoMember ELSE owner[p]]
  BY <1>3 DEF Leave
<1>5. TypeOK'
  BY <1>1, <1>4, OrderAssumption DEF IndInv, TypeOK, Stages
<1>6. InHand(m)'
  BY <1>4 DEF IndInv, TypeOK, InHand, Transaction
<1>7. InHandSafe' /\ MarkersExclusive'
  BY <1>2, <1>4, <1>6, StageStep
<1>. QED
  BY <1>1, <1>2, <1>3, <1>5, <1>7, TablesStep, LeaveStep, NoSkipStays DEF IndInv

\* The broker does not answer for a dead letter, which may be there or not.
LEMMA DlqFailsStep ==
  ASSUME IndInv, NEW m \in Members, DlqFails(m)
  PROVE  IndInv'
<1>0. stage[m] = "dlq"
  BY DEF DlqFails
<1>1. /\ TryAgain(m, "dlq") \/ GiveUp(m)
      /\ dlq' = dlq \/ dlq' = dlq \cup {current[m]}
      /\ UNCHANGED <<committed, processed, validOrders>>
      /\ faults' \in 0 .. MaxFaults
  BY FaultStep DEF DlqFails, tables, IndInv
<1>2. current[m] \in Malformed /\ current[m] # NoRecord
  BY <1>0 DEF IndInv, InHandSafe, InHand
<1>3. Tables(m) /\ "dlq" \in Stages /\ dlq \subseteq dlq' /\ dlq' \subseteq Malformed
  BY <1>1, <1>2 DEF Tables, Stages, IndInv, TypeOK
<1>4. /\ InHandSafe' /\ MarkersExclusive' /\ PrefixDone' /\ PositionSafe'
      /\ owner' \in [Partitions -> Members \cup {NoMember}]
      /\ position' \in [Partitions -> Nat]
      /\ stage' \in [Members -> Stages]
      /\ current' \in [Members -> Coordinates \cup {NoRecord}]
      /\ attempt' \in [Members -> 0 .. MaxRetries]
      /\ stopping' \in [Members -> BOOLEAN]
  BY <1>1, <1>2, <1>3, TryAgainOrGiveUp
<1>5. TypeOK'
  BY <1>1, <1>3, <1>4 DEF IndInv, TypeOK
<1>. QED
  BY <1>1, <1>3, <1>4, <1>5, TablesStep, NoSkipStays DEF IndInv

\* The marker insert finds the event committed, or takes it when nobody holds it.
LEMMA InsertMarkerStep ==
  ASSUME IndInv, NEW m \in Members, InsertMarker(m)
  PROVE  IndInv'
<1>. DEFINE s == IF EventAt(current[m]) \in ProcessedIds THEN "duplicate" ELSE "row"
<1>1. /\ stage[m] = "marker" /\ ~MarkerLocked(m)
      /\ stage' = [stage EXCEPT ![m] = s]
      /\ UNCHANGED <<owner, position, committed, processed, validOrders, dlq, current,
                     attempt, stopping, faults>>
  BY DEF InsertMarker, group, tables
<1>2. current[m] \in Decodable /\ current[m] # NoRecord
  BY <1>1 DEF IndInv, InHandSafe, InHand, Transaction
<1>3. s \in Stages
  BY DEF Stages
<1>4. TypeOK'
  BY <1>1, <1>3 DEF IndInv, TypeOK
<1>5. InHand(m)'
  BY <1>1, <1>2 DEF IndInv, TypeOK, InHand, ProcessedIds, EventAt, RecordAt
<1>6. Tables(m) /\ dlq \subseteq dlq'
  BY <1>1 DEF Tables
<1>7. InHandSafe' /\ MarkersExclusive'
  BY <1>1, <1>5, <1>6, StageStep
<1>. QED
  BY <1>1, <1>4, <1>6, <1>7, TablesStep, SameHandStep, NoSkipStays DEF IndInv

LEMMA InsertRowStep ==
  ASSUME IndInv, NEW m \in Members, InsertRow(m)
  PROVE  IndInv'
<1>1. /\ stage[m] = "row"
      /\ stage' = [stage EXCEPT ![m] = "tx"]
      /\ UNCHANGED <<owner, position, committed, processed, validOrders, dlq, current,
                     attempt, stopping, faults>>
  BY DEF InsertRow, group, tables
<1>2. TypeOK'
  BY <1>1 DEF IndInv, TypeOK, Stages
<1>3. InHand(m)
  BY DEF IndInv, InHandSafe
<1>4. InHand(m)'
  BY <1>1, <1>3 DEF IndInv, TypeOK, InHand, ProcessedIds, EventAt, RecordAt, Transaction
<1>5. Tables(m) /\ dlq \subseteq dlq'
  BY <1>1 DEF Tables
<1>6. InHandSafe' /\ MarkersExclusive'
  BY <1>1, <1>4, <1>5, StageStep
<1>. QED
  BY <1>1, <1>2, <1>5, <1>6, TablesStep, SameHandStep, NoSkipStays DEF IndInv

\* The transaction commits: its rows, if any, are there, and the event is done.
LEMMA AppliedIsDone ==
  ASSUME IndInv, NEW m \in Members, stage[m] \in {"tx", "duplicate"}, Apply(m)
  PROVE  Tables(m) /\ EventAt(current[m]) \in {r[1] : r \in validOrders'}
<1>1. Tables(m)
  BY DEF Apply, Tables
<1>2. CASE stage[m] = "tx"
  <2>1. <<EventAt(current[m]), current[m]>> \in validOrders'
    BY <1>2 DEF Apply, Inserted
  <2>. QED
    BY <1>1, <2>1
<1>3. CASE stage[m] = "duplicate"
  <2>1. EventAt(current[m]) \in ProcessedIds /\ processed = validOrders
    BY <1>3 DEF IndInv, InHandSafe, InHand, MarkerMatchesRow
  <2>. QED
    BY <1>1, <2>1, TablesStep DEF ProcessedIds
<1>. QED
  BY <1>2, <1>3

LEMMA CommitTransactionStep ==
  ASSUME IndInv, NEW m \in Members, CommitTransaction(m)
  PROVE  IndInv'
<1>1. /\ stage[m] \in {"tx", "duplicate"} /\ Apply(m)
      /\ stage' = [stage EXCEPT ![m] = "offset"]
      /\ attempt' = [attempt EXCEPT ![m] = 0]
      /\ UNCHANGED <<owner, position, committed, dlq, current, stopping, faults>>
  BY DEF CommitTransaction, GoTo, group
<1>2. Tables(m) /\ EventAt(current[m]) \in {r[1] : r \in validOrders'} /\ dlq \subseteq dlq'
  BY <1>1, AppliedIsDone
<1>3. TypeOK'
  <2>1. "offset" \in Stages /\ 0 \in 0 .. MaxRetries
    BY OrderAssumption DEF Stages
  <2>2. processed' \subseteq Events \X Decodable /\ validOrders' \subseteq Events \X Decodable
    BY <1>2, TablesStep
  <2>. QED
    BY <1>1, <2>1, <2>2 DEF IndInv, TypeOK
<1>4. InHand(m)'
  <2>1. current[m] # NoRecord
    BY <1>1 DEF IndInv, InHandSafe, InHand
  <2>2. Done(current[m])'
    BY <1>1, <1>2 DEF Done, EventAt, RecordAt
  <2>. QED
    BY <1>1, <2>1, <2>2 DEF IndInv, TypeOK, InHand, Transaction
<1>5. InHandSafe' /\ MarkersExclusive'
  BY <1>1, <1>2, <1>4, StageStep
<1>. QED
  BY <1>1, <1>2, <1>3, <1>5, TablesStep, SameHandStep, NoSkipStays DEF IndInv

\* The transaction fails, or its commit is in doubt.
LEMMA TransactionFailsStep ==
  ASSUME IndInv, NEW m \in Members, TransactionFails(m)
  PROVE  IndInv'
<1>0. stage[m] \in Transaction
  BY DEF TransactionFails
<1>1. /\ TryAgain(m, "marker") \/ GiveUp(m)
      /\ Tables(m)
      /\ UNCHANGED <<committed, dlq>>
      /\ faults' \in 0 .. MaxFaults
  BY FaultStep DEF TransactionFails, Apply, Tables, tables, IndInv
<1>2. current[m] \in Decodable /\ current[m] # NoRecord
  BY <1>0 DEF IndInv, InHandSafe, InHand, Transaction
<1>3. "marker" \in Stages /\ dlq \subseteq dlq'
  BY <1>1 DEF Stages
<1>4. /\ InHandSafe' /\ MarkersExclusive' /\ PrefixDone' /\ PositionSafe'
      /\ owner' \in [Partitions -> Members \cup {NoMember}]
      /\ position' \in [Partitions -> Nat]
      /\ stage' \in [Members -> Stages]
      /\ current' \in [Members -> Coordinates \cup {NoRecord}]
      /\ attempt' \in [Members -> 0 .. MaxRetries]
      /\ stopping' \in [Members -> BOOLEAN]
  BY <1>1, <1>2, <1>3, TryAgainOrGiveUp
<1>5. processed' \subseteq Events \X Decodable /\ validOrders' \subseteq Events \X Decodable
  BY <1>1, TablesStep
<1>6. TypeOK'
  BY <1>1, <1>4, <1>5 DEF IndInv, TypeOK
<1>. QED
  BY <1>1, <1>3, <1>4, <1>6, TablesStep, NoSkipStays DEF IndInv

\* The offset of the record in hand is committed, and the hand is empty: the
\* owner's position has passed nothing that is not done.
LEMMA CommitOffsetStep ==
  ASSUME IndInv, NEW m \in Members, CommitOffset(m)
  PROVE  IndInv'
<1>1. /\ stage[m] = "offset" /\ Accept(m)
      /\ stage' = [stage EXCEPT ![m] = "loop"]
      /\ current' = [current EXCEPT ![m] = NoRecord]
      /\ attempt' = [attempt EXCEPT ![m] = 0]
      /\ UNCHANGED <<owner, position, processed, validOrders, dlq, stopping, faults>>
  BY DEF CommitOffset, GoTo, tables
<1>2. Done(current[m])
  BY <1>1 DEF IndInv, InHandSafe, InHand
<1>3. NoSkip' /\ committed' \in [Partitions -> Nat]
  BY <1>1, AcceptStep
<1>4. Tables(m) /\ dlq \subseteq dlq' /\ validOrders \subseteq validOrders'
  BY <1>1 DEF Tables
<1>5. TypeOK'
  <2>1. "loop" \in Stages /\ 0 \in 0 .. MaxRetries
    BY OrderAssumption DEF Stages
  <2>. QED
    BY <1>1, <1>3, <2>1 DEF IndInv, TypeOK
<1>6. InHand(m)'
  BY <1>1 DEF IndInv, TypeOK, InHand, Transaction
<1>7. InHandSafe' /\ MarkersExclusive'
  BY <1>1, <1>4, <1>6, StageStep
<1>8. \A c : Done(c) => Done(c)'
  BY <1>4, DoneStays
<1>9. PrefixDone'
  BY <1>1, <1>8 DEF IndInv, TypeOK, PrefixDone, Partition
<1>10. PositionSafe'
  <2>. SUFFICES ASSUME NEW p \in Partitions, owner[p] # NoMember,
                       NEW c \in Before(p, position[p])
                PROVE  Done(c)' \/ current'[owner[p]] = c
    BY <1>1 DEF PositionSafe
  <2>1. Done(c) \/ current[owner[p]] = c
    BY DEF IndInv, PositionSafe
  <2>2. CASE owner[p] = m
    BY <1>2, <1>8, <2>1, <2>2
  <2>3. CASE owner[p] # m
    BY <1>1, <1>8, <2>1, <2>3 DEF IndInv, TypeOK
  <2>. QED
    BY <2>2, <2>3
<1>. QED
  BY <1>3, <1>4, <1>5, <1>7, <1>9, <1>10, TablesStep DEF IndInv

\* The offset commit fails, or is recorded all the same.
LEMMA CommitOffsetFailsStep ==
  ASSUME IndInv, NEW m \in Members, CommitOffsetFails(m)
  PROVE  IndInv'
<1>0. stage[m] = "offset"
  BY DEF CommitOffsetFails
<1>1. /\ TryAgain(m, "offset") \/ GiveUp(m)
      /\ committed' = committed \/ Accept(m)
      /\ UNCHANGED <<processed, validOrders, dlq>>
      /\ faults' \in 0 .. MaxFaults
  BY FaultStep DEF CommitOffsetFails, tables, IndInv
<1>2. Done(current[m]) /\ current[m] # NoRecord
  BY <1>0 DEF IndInv, InHandSafe, InHand
<1>3. "offset" \in Stages /\ Tables(m) /\ dlq \subseteq dlq' /\ validOrders \subseteq validOrders'
  BY <1>1 DEF Stages, Tables
<1>4. NoSkip' /\ committed' \in [Partitions -> Nat]
  <2>1. CASE committed' = committed
    <3>1. NoSkip'
      BY <1>3, <2>1, NoSkipStays
    <3>. QED
      BY <2>1, <3>1 DEF IndInv, TypeOK
  <2>2. CASE Accept(m)
    BY <1>0, <1>3, <2>2, AcceptStep
  <2>. QED
    BY <1>1, <2>1, <2>2
<1>5. /\ InHandSafe' /\ MarkersExclusive' /\ PrefixDone' /\ PositionSafe'
      /\ owner' \in [Partitions -> Members \cup {NoMember}]
      /\ position' \in [Partitions -> Nat]
      /\ stage' \in [Members -> Stages]
      /\ current' \in [Members -> Coordinates \cup {NoRecord}]
      /\ attempt' \in [Members -> 0 .. MaxRetries]
      /\ stopping' \in [Members -> BOOLEAN]
  BY <1>1, <1>2, <1>3, TryAgainOrGiveUp
<1>6. TypeOK'
  BY <1>1, <1>4, <1>5 DEF IndInv, TypeOK
<1>. QED
  BY <1>3, <1>4, <1>5, <1>6, TablesStep DEF IndInv

\* A signal or a restart moves nothing else.
LEMMA SignalStep ==
  ASSUME IndInv, NEW m \in Members, RequestShutdown(m) \/ Restart(m)
  PROVE  IndInv'
<1>1. /\ UNCHANGED <<owner, position, committed, processed, validOrders, dlq, current>>
      /\ stage' = [stage EXCEPT ![m] = IF stage[m] = "down" THEN "loop" ELSE stage[m]]
      /\ attempt' \in [Members -> 0 .. MaxRetries]
      /\ stopping' \in [Members -> BOOLEAN]
      /\ faults' \in 0 .. MaxFaults
  <2>1. CASE RequestShutdown(m)
    BY <2>1, FaultStep DEF RequestShutdown, group, tables, IndInv, TypeOK
  <2>2. CASE Restart(m)
    BY <2>2, OrderAssumption DEF Restart, GoTo, group, tables, IndInv, TypeOK
  <2>. QED
    BY <2>1, <2>2
<1>2. TypeOK'
  BY <1>1 DEF IndInv, TypeOK, Stages
<1>3. InHand(m)
  BY DEF IndInv, InHandSafe
<1>4. InHand(m)'
  BY <1>1, <1>3 DEF IndInv, TypeOK, InHand, ProcessedIds, EventAt, RecordAt, Transaction, Done
<1>5. Tables(m) /\ dlq \subseteq dlq'
  BY <1>1 DEF Tables
<1>6. InHandSafe' /\ MarkersExclusive'
  BY <1>1, <1>4, <1>5, StageStep
<1>. QED
  BY <1>1, <1>2, <1>5, <1>6, TablesStep, SameHandStep, NoSkipStays DEF IndInv

-----------------------------------------------------------------------------
(* The theorems. *)

\* Every step of a member, of its faults and of the group keeps the invariant.
THEOREM StepKeeps == IndInv /\ [Next]_vars => IndInv'
<1>. SUFFICES ASSUME IndInv, [Next]_vars PROVE IndInv'
  OBVIOUS
<1>1. ASSUME NEW m \in Members, Progress(m)
      PROVE  IndInv'
  <2>1. ASSUME NEW p \in Partitions, Poll(m, p) PROVE IndInv'
    BY <2>1, PollStep
  <2>2. CASE DlqDelivered(m)
    BY <2>2, DlqDeliveredStep
  <2>3. CASE InsertMarker(m)
    BY <2>3, InsertMarkerStep
  <2>4. CASE InsertRow(m)
    BY <2>4, InsertRowStep
  <2>5. CASE RowRefused(m) \/ Stop(m)
    BY <2>5, EndStep
  <2>6. CASE CommitTransaction(m)
    BY <2>6, CommitTransactionStep
  <2>7. CASE CommitOffset(m)
    BY <2>7, CommitOffsetStep
  <2>. QED
    BY <1>1, <2>1, <2>2, <2>3, <2>4, <2>5, <2>6, <2>7 DEF Progress
<1>2. ASSUME NEW m \in Members, Failure(m)
      PROVE  IndInv'
  <2>1. CASE PollFails(m) \/ Crash(m)
    BY <2>1, EndStep
  <2>2. CASE DlqFails(m)
    BY <2>2, DlqFailsStep
  <2>3. CASE TransactionFails(m)
    BY <2>3, TransactionFailsStep
  <2>4. CASE CommitOffsetFails(m)
    BY <2>4, CommitOffsetFailsStep
  <2>5. CASE RequestShutdown(m)
    BY <2>5, SignalStep
  <2>. QED
    BY <1>2, <2>1, <2>2, <2>3, <2>4, <2>5 DEF Failure
<1>3. ASSUME NEW m \in Members, Restart(m) PROVE IndInv'
  BY <1>3, SignalStep
<1>4. ASSUME NEW p \in Partitions, NEW m \in Members, Assign(p, m) \/ Rebalance(p, m)
      PROVE  IndInv'
  BY <1>4, GroupStep
<1>5. CASE UNCHANGED vars
  BY <1>5 DEF vars, group, tables, process, IndInv, TypeOK, InHandSafe, InHand, PrefixDone,
              PositionSafe, MarkersExclusive, NoSkip, OneRowPerEvent, MarkerMatchesRow,
              Done, ProcessedIds
<1>. QED
  BY <1>1, <1>2, <1>3, <1>4, <1>5 DEF Next

\* The inductive invariant holds for every topic, group size and retry bound.
THEOREM OrderInvariant == Spec => []IndInv
BY InitEstablishes, StepKeeps, PTL DEF Spec

\* The state keeps its shape, and the attempts of an operation never exceed
\* max_retries (retry.py).
THEOREM OrderTypeCorrect == Spec => []TypeOK
<1>1. IndInv => TypeOK
  BY DEF IndInv
<1>. QED
  BY <1>1, OrderInvariant, PTL

\* No committed offset passes a record that is neither stored nor dead-lettered.
THEOREM OrderNoSkip == Spec => []NoSkip
<1>1. IndInv => NoSkip
  BY DEF IndInv
<1>. QED
  BY <1>1, OrderInvariant, PTL

\* An event has at most one row, whoever stores it and however often it comes.
THEOREM OrderOneRowPerEvent == Spec => []OneRowPerEvent
<1>1. IndInv => OneRowPerEvent
  BY DEF IndInv
<1>. QED
  BY <1>1, OrderInvariant, PTL

\* The marker and the business row are never apart.
THEOREM OrderMarkerMatchesRow == Spec => []MarkerMatchesRow
<1>1. IndInv => MarkerMatchesRow
  BY DEF IndInv
<1>. QED
  BY <1>1, OrderInvariant, PTL

-----------------------------------------------------------------------------
(* The order consumer implements DurableDelivery. *)

\* The abstract specification speaks of the same topic.
LEMMA SameTopic ==
  /\ Delivery!Coordinates = Coordinates /\ Delivery!Decodable = Decodable
  /\ \A c : Delivery!EventAt(c) = EventAt(c)
  /\ \A p, o : Delivery!Before(p, o) = Before(p, o)
  /\ \A c : Delivery!Done(c) <=> Done(c)
  /\ Delivery!AppliedEvents = {r[1] : r \in validOrders}
BY DEF Delivery!Coordinates, Coordinates, Delivery!Decodable, Decodable,
       Delivery!Malformed, Malformed, Delivery!EventAt, EventAt, Delivery!RecordAt, RecordAt,
       Delivery!Before, Before, Delivery!Done, Done, Delivery!AppliedEvents

LEMMA InitRefines == Init => Delivery!Init
BY DEF Init, Delivery!Init

\* A committed transaction is one abstract step, or none for a duplicate.
LEMMA ApplyRefines ==
  ASSUME IndInv, NEW m \in Members, Apply(m), UNCHANGED <<committed, dlq>>
  PROVE  Delivery!Next \/ UNCHANGED Delivery!dVars
<1>1. CASE stage[m] = "tx"
  <2>. DEFINE r == current[m]
  <2>1. /\ r \in Decodable /\ EventAt(r) \in Events /\ EventAt(r) \notin ProcessedIds
        /\ ProcessedIds = {s[1] : s \in validOrders}
    BY <1>1, DecodableEvent DEF IndInv, InHandSafe, InHand, Transaction, Decodable,
                                MarkerMatchesRow, ProcessedIds
  <2>2. validOrders' = validOrders \cup {<<EventAt(c), c>> : c \in {r}}
    BY <1>1 DEF Apply, Inserted
  <2>3. Delivery!Apply({r})
    BY <2>1, <2>2, SameTopic DEF Delivery!Apply
  <2>. QED
    BY <2>1, <2>3, SameTopic DEF Delivery!Next
<1>2. CASE stage[m] # "tx"
  BY <1>2 DEF Apply, Inserted, Delivery!dVars
<1>. QED
  BY <1>1, <1>2

\* A dead letter is a rejection of a record that does not decode.
LEMMA RejectRefines ==
  ASSUME NEW c \in Malformed, dlq' = dlq \cup {c}, UNCHANGED <<committed, validOrders>>
  PROVE  Delivery!Next
BY DEF Delivery!Next, Delivery!Reject

\* An accepted offset commit moves to a place with nothing undone before it.
LEMMA AcceptRefines ==
  ASSUME IndInv, NEW m \in Members, stage[m] = "offset", Accept(m),
         UNCHANGED <<validOrders, dlq>>
  PROVE  Delivery!Next
<1>. DEFINE r == current[m]
            n == r[2] + 1
<1>1. r \in Coordinates
  BY DEF IndInv, TypeOK, InHandSafe, InHand
<1>2. r[1] \in Partitions /\ n \in 0 .. LogEnd[r[1]] /\ LogEnd[r[1]] \in Nat
  BY <1>1, CoordinateShape, TopicAssumption
<1>3. committed' = [committed EXCEPT ![r[1]] = n]
  BY DEF Accept, Partition, NextOffset
<1>4. NoSkip'
  BY AcceptStep
<1>5. \A c \in Before(r[1], n) : Done(c)
  <2>1. committed'[r[1]] = n
    BY <1>2, <1>3 DEF IndInv, TypeOK
  <2>. QED
    BY <1>2, <1>4, <2>1 DEF NoSkip, Done
<1>6. Delivery!CommitTo(r[1], n)
  BY <1>3, <1>5, SameTopic DEF Delivery!CommitTo
<1>. QED
  BY <1>2, <1>6 DEF Delivery!Next

LEMMA StepRefines ==
  IndInv /\ [Next]_vars => Delivery!Next \/ UNCHANGED Delivery!dVars
<1>. SUFFICES ASSUME IndInv, [Next]_vars
              PROVE  Delivery!Next \/ UNCHANGED Delivery!dVars
  OBVIOUS
<1>1. ASSUME NEW m \in Members,
             \/ \E p \in Partitions : Poll(m, p)
             \/ InsertMarker(m) \/ InsertRow(m) \/ RowRefused(m) \/ Stop(m)
             \/ PollFails(m) \/ RequestShutdown(m) \/ Crash(m) \/ Restart(m)
      PROVE  UNCHANGED Delivery!dVars
  BY <1>1 DEF Poll, InsertMarker, InsertRow, RowRefused, Stop, PollFails, RequestShutdown,
              Crash, Restart, group, tables, Delivery!dVars
<1>2. ASSUME NEW m \in Members, DlqDelivered(m) \/ DlqFails(m)
      PROVE  Delivery!Next \/ UNCHANGED Delivery!dVars
  <2>1. current[m] \in Malformed
    BY <1>2 DEF DlqDelivered, DlqFails, IndInv, InHandSafe, InHand
  <2>2. /\ UNCHANGED <<committed, validOrders>>
        /\ dlq' = dlq \/ dlq' = dlq \cup {current[m]}
    BY <1>2 DEF DlqDelivered, DlqFails, group, tables
  <2>. QED
    BY <2>1, <2>2, RejectRefines DEF Delivery!dVars
<1>3. ASSUME NEW m \in Members, CommitTransaction(m) \/ TransactionFails(m)
      PROVE  Delivery!Next \/ UNCHANGED Delivery!dVars
  <2>1. UNCHANGED <<committed, dlq>> /\ (Apply(m) \/ UNCHANGED validOrders)
    BY <1>3 DEF CommitTransaction, TransactionFails, group, tables
  <2>. QED
    BY <2>1, ApplyRefines DEF Delivery!dVars
<1>4. ASSUME NEW m \in Members, CommitOffset(m) \/ CommitOffsetFails(m)
      PROVE  Delivery!Next \/ UNCHANGED Delivery!dVars
  <2>1. /\ stage[m] = "offset" /\ UNCHANGED <<validOrders, dlq>>
        /\ Accept(m) \/ committed' = committed
    BY <1>4 DEF CommitOffset, CommitOffsetFails, tables
  <2>. QED
    BY <2>1, AcceptRefines DEF Delivery!dVars
<1>5. ASSUME NEW p \in Partitions, NEW m \in Members, Assign(p, m) \/ Rebalance(p, m)
      PROVE  UNCHANGED Delivery!dVars
  BY <1>5 DEF Assign, Rebalance, tables, Delivery!dVars
<1>6. CASE UNCHANGED vars
  BY <1>6 DEF vars, group, tables, Delivery!dVars
<1>. QED
  BY <1>1, <1>2, <1>3, <1>4, <1>5, <1>6 DEF Next, Progress, Failure

\* Every behaviour of the order consumer is one of the abstract delivery
\* specification: effects once and for ever, offsets only past done records.
THEOREM OrderImplementsDelivery == Spec => DeliverySpec
<1>1. IndInv /\ [Next]_vars => [Delivery!Next]_(Delivery!dVars)
  BY StepRefines
<1>. QED
  BY <1>1, InitRefines, OrderInvariant, PTL DEF Spec, DeliverySpec, Delivery!Spec
=============================================================================

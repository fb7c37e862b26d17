------------------------- MODULE LogConsumerProofs -------------------------
(***************************************************************************)
(* Proofs about the log consumer group, for every topic, group and bound.  *)
(*                                                                         *)
(* A step of a member changes its own process, the tables, the dead-letter *)
(* topic and the group.  Own* lemmas say what an operation does to the     *)
(* member's process (OwnStep); MemberStep is the one argument that turns   *)
(* an OwnStep into a step of the invariant, other members included.        *)
(***************************************************************************)
EXTENDS LogConsumer, FiniteSetTheorems, TLAPS

-----------------------------------------------------------------------------
(* The inductive invariant. *)

\* The variables of the processes, and who owns what.
ProcessType ==
  /\ owner \in [Partitions -> Members \cup {NoMember}]
  /\ assigned \in [Members -> SUBSET Partitions]
  /\ position \in [Members -> [Partitions -> Nat]]
  /\ buffer \in [Members -> SUBSET Decodable]
  /\ snapshot \in [Members -> SUBSET Decodable]
  /\ inserted \in [Members -> SUBSET Decodable]
  /\ tracker \in [Members -> Trackers]
  /\ stage \in [Members -> Stages]
  /\ mode \in [Members -> Modes]
  /\ current \in [Members -> Coordinates \cup {NoRecord}]
  /\ attempt \in [Members -> 0 .. MaxRetries]
  /\ stopping \in [Members -> BOOLEAN]

\* A record is in hand only to be dead-lettered, and a flush works on the
\* snapshot alone: the loop buffers nothing meanwhile.
Holding(m) ==
  /\ current[m] # NoRecord <=> stage[m] = "dlq"
  /\ current[m] # NoRecord => current[m] \in (Malformed \cup Reusing) \ buffer[m]
  /\ IF stage[m] \in {"markers", "metrics"} THEN buffer[m] = {} ELSE snapshot[m] = {}
  /\ stage[m] # "metrics" => inserted[m] = {}
  /\ stage[m] \in {"loop", "down"} => mode[m] = "run"
  /\ IsFiniteSet(buffer[m]) /\ IsFiniteSet(snapshot[m])

\* The open transaction inserts markers for events that have none, one each;
\* with them every event of the snapshot is accounted for.
Transaction(m) ==
  /\ inserted[m] \subseteq snapshot[m]
  /\ OneOfEach(inserted[m])
  /\ EventsOf(inserted[m]) \cap ProcessedIds = {}
  /\ stage[m] = "metrics" => EventsOf(snapshot[m]) \subseteq EventsOf(inserted[m]) \cup ProcessedIds

\* Where the next commit of a partition starts from.
Start(m, p) == IF tracker[m][p].next = Untracked THEN position[m][p] ELSE tracker[m][p].next

\* The tracker holds exactly the offsets between the next commit and the
\* position, each either pending or completed, and nothing of a partition the
\* process does not have.
Tracked(m, p) ==
  LET t == tracker[m][p] IN
  /\ p \notin assigned[m] => t = Forgotten
  /\ t.next = Untracked => t.pending = {} /\ t.completed = {}
  /\ t.pending \cap t.completed = {}
  /\ \A o \in t.pending \cup t.completed : t.next <= o /\ o < position[m][p]
  /\ Start(m, p) <= position[m][p] /\ position[m][p] <= LogEnd[p]
  /\ t.next # Untracked => \A o \in t.next .. (position[m][p] - 1) : o \in t.pending \cup t.completed

\* What lies before the next commit, and what the tracker calls completed, is
\* done.
TrackedDone(m, p) ==
  /\ p \in assigned[m] => \A c \in Before(p, Start(m, p)) : Done(c)
  /\ \A o \in tracker[m][p].completed : Done(<<p, o>>)

\* The committed offset of a partition that is still the member's own lies
\* between the tracker's next offset and the position.
Owned(m, p) ==
  p \in assigned[m] /\ owner[p] = m =>
    Start(m, p) <= committed[p] /\ committed[p] <= position[m][p]

\* TrackerMatchesBatch of one member, offset by offset.
Matches(m) ==
  /\ \A c \in InMemory(m) : c[2] \in tracker[m][c[1]].pending
  /\ mode[m] \in {"run", "shutdown", "revoke"} =>
       \A p \in Partitions : \A o \in tracker[m][p].pending : <<p, o>> \in InMemory(m)

MemberInv(m) ==
  /\ Holding(m) /\ Transaction(m) /\ Matches(m)
  /\ \A p \in Partitions : Tracked(m, p) /\ TrackedDone(m, p) /\ Owned(m, p)

\* No two open transactions hold the marker of one event.
MarkersExclusive ==
  \A m, n \in Members : m # n => EventsOf(inserted[m]) \cap EventsOf(inserted[n]) = {}

\* What the group and the database know.
GroupInv ==
  /\ \A p \in Partitions : committed[p] <= LogEnd[p]
  /\ IsFiniteSet(processed)
  /\ MarkersExclusive /\ NoSkip /\ MetricsExact

IndInv == TypeOK /\ GroupInv /\ \A m \in Members : MemberInv(m)

-----------------------------------------------------------------------------
(* Topics, trackers and tables. *)

\* What an address is.
LEMMA CoordinateShape ==
  ASSUME NEW c \in Coordinates
  PROVE  /\ c[1] \in Partitions
         /\ c[2] \in Nat /\ c[2] < LogEnd[c[1]]
         /\ c = <<c[1], c[2]>>
         /\ c # NoRecord
BY TopicAssumption, LogAssumption DEF Coordinates

LEMMA CoordinateIntro ==
  ASSUME NEW p \in Partitions, NEW o \in Nat, o < LogEnd[p]
  PROVE  <<p, o>> \in Coordinates
<1>1. o \in 0 .. (LogEnd[p] - 1)
  BY TopicAssumption
<1>2. <<p, o>> \in {p} \X (0 .. (LogEnd[p] - 1))
  BY <1>1
<1>. QED
  BY <1>2 DEF Coordinates

\* A record that decodes carries an event id.
LEMMA DecodableEvent ==
  ASSUME NEW c \in Decodable
  PROVE  c \in Coordinates /\ EventAt(c) \in Events
<1>1. c \in Coordinates /\ RecordAt(c) \in Records
  BY CoordinateShape, TopicAssumption DEF RecordAt, Decodable
<1>. QED
  BY <1>1, TopicAssumption DEF Records, EventAt, Malformed, Decodable

\* Nothing is before offset 0.
LEMMA BeforeZero ==
  ASSUME NEW p \in Partitions
  PROVE  Before(p, 0) = {}
BY CoordinateShape DEF Before

\* What the offsets of a set of addresses are.
LEMMA OffsetsOfShape ==
  ASSUME NEW C \in SUBSET Coordinates, NEW p \in Partitions, NEW o
  PROVE  o \in OffsetsOf(C, p) <=> <<p, o>> \in C
BY CoordinateShape DEF OffsetsOf

\* What completing, acknowledging and forgetting do to one partition's state.
LEMMA CompleteShape ==
  ASSUME NEW t \in Trackers, NEW C \in SUBSET Coordinates
  PROVE  /\ Complete(t, C) \in Trackers
         /\ \A p \in Partitions :
              /\ Complete(t, C)[p].next = t[p].next
              /\ Complete(t, C)[p].pending = {o \in t[p].pending : <<p, o>> \notin C}
              /\ Complete(t, C)[p].completed =
                   t[p].completed \cup {o \in t[p].pending : <<p, o>> \in C}
<1>. DEFINE u == Complete(t, C)
<1>1. ASSUME NEW p \in Partitions
      PROVE  u[p] = [next |-> t[p].next,
                     pending |-> t[p].pending \ OffsetsOf(C, p),
                     completed |-> t[p].completed \cup (OffsetsOf(C, p) \cap t[p].pending)]
  BY DEF Complete, Trackers, PartitionStates
<1>2. u = [p \in Partitions |-> u[p]]
  BY DEF Complete
<1>. HIDE DEF u
<1>3. ASSUME NEW p \in Partitions
      PROVE  u[p] \in PartitionStates
  <2>. DEFINE O == OffsetsOf(C, p)
  <2>1. /\ t[p].next \in Nat \cup {Untracked}
        /\ t[p].pending \in SUBSET Nat /\ t[p].completed \in SUBSET Nat
    BY DEF Trackers, PartitionStates
  <2>. HIDE DEF O
  <2>2. t[p].pending \ O \in SUBSET Nat /\ t[p].completed \cup (O \cap t[p].pending) \in SUBSET Nat
    BY <2>1
  <2>3. u[p] = [next |-> t[p].next, pending |-> t[p].pending \ O,
                completed |-> t[p].completed \cup (O \cap t[p].pending)]
    BY <1>1 DEF O
  <2>. QED
    BY <2>1, <2>2, <2>3 DEF PartitionStates
<1>4. u \in Trackers
  BY <1>2, <1>3 DEF Trackers
<1>5. ASSUME NEW p \in Partitions
      PROVE  /\ u[p].next = t[p].next
             /\ u[p].pending = {o \in t[p].pending : <<p, o>> \notin C}
             /\ u[p].completed = t[p].completed \cup {o \in t[p].pending : <<p, o>> \in C}
  <2>. DEFINE O == OffsetsOf(C, p)
  <2>1. \A o : o \in O <=> <<p, o>> \in C
    BY OffsetsOfShape
  <2>. HIDE DEF O
  <2>2. u[p] = [next |-> t[p].next, pending |-> t[p].pending \ O,
                completed |-> t[p].completed \cup (O \cap t[p].pending)]
    BY <1>1 DEF O
  <2>. QED
    BY <2>1, <2>2
<1>. QED
  BY <1>4, <1>5 DEF u

LEMMA AcknowledgeShape ==
  ASSUME NEW t \in Trackers, NEW p \in Partitions, NEW n \in Nat
  PROVE  /\ Acknowledge(t, p, n) \in Trackers
         /\ \A q \in Partitions \ {p} : Acknowledge(t, p, n)[q] = t[q]
         /\ Acknowledge(t, p, n)[p] = [next |-> n,
                                       pending |-> {o \in t[p].pending : o >= n},
                                       completed |-> {o \in t[p].completed : o >= n}]
BY DEF Acknowledge, Trackers, PartitionStates

LEMMA ForgetShape ==
  ASSUME NEW t \in Trackers, NEW P \in SUBSET Partitions
  PROVE  /\ Forget(t, P) \in Trackers /\ EmptyTracker \in Trackers
         /\ \A p \in Partitions : Forget(t, P)[p] = IF p \in P THEN Forgotten ELSE t[p]
BY DEF Forget, Forgotten, Trackers, PartitionStates, EmptyTracker

\* A fault stays within its bound.
LEMMA FaultStep ==
  ASSUME TypeOK, Fault PROVE faults' \in 0 .. MaxFaults
BY LogAssumption DEF TypeOK, Fault

\* The tables and the dead-letter topic after a step of m: what was there
\* stays, with the effects of its open transaction or without.
Tables(m) ==
  /\ \/ processed' = processed /\ metrics' = metrics
     \/ stage[m] = "metrics" /\ Write(m)
  /\ dlq \subseteq dlq' /\ dlq' \subseteq Coordinates

\* What is done stays done.
LEMMA DoneStays ==
  ASSUME NEW m \in Members, Tables(m), NEW c, Done(c)
  PROVE  Done(c)'
<1>1. processed \subseteq processed' /\ dlq \subseteq dlq'
  BY DEF Tables, Write
<1>. QED
  BY <1>1 DEF Done, ProcessedIds

\* The ids a step of m adds are those its transaction holds.
LEMMA ProcessedGrows ==
  ASSUME NEW m \in Members, Tables(m)
  PROVE  /\ ProcessedIds \subseteq ProcessedIds'
         /\ ProcessedIds' \subseteq ProcessedIds \cup EventsOf(inserted[m])
BY DEF Tables, Write, ProcessedIds, EventsOf

\* Disjoint finite sets add up.
LEMMA DisjointUnion ==
  ASSUME NEW S, NEW T, IsFiniteSet(S), IsFiniteSet(T), S \cap T = {}
  PROVE  Cardinality(S \cup T) = Cardinality(S) + Cardinality(T)
<1>1. Cardinality(S \cup T) = Cardinality(S) + Cardinality(T) - Cardinality(S \cap T)
  BY FS_Union
<1>2. Cardinality(S \cap T) = 0 /\ Cardinality(S) \in Nat /\ Cardinality(T) \in Nat
  BY FS_EmptySet, FS_CardinalityType
<1>. QED
  BY <1>1, <1>2

\* The metric rows stay the totals of the markers when a transaction commits.
LEMMA TablesStep ==
  ASSUME IndInv, NEW m \in Members, Tables(m)
  PROVE  /\ processed' \subseteq Events \X Decodable /\ IsFiniteSet(processed')
         /\ metrics' \in [Data -> Nat]
         /\ MetricsExact'
<1>1. CASE processed' = processed /\ metrics' = metrics
  BY <1>1 DEF IndInv, GroupInv, TypeOK, MetricsExact
<1>2. CASE Write(m)
  <2>. DEFINE C == inserted[m]
              Marker(c) == <<EventAt(c), c>>
              N == {Marker(c) : c \in C}
              Old(d) == {r \in processed : DataAt(r[2]) = d}
              Add(d) == {c \in C : DataAt(c) = d}
              New(d) == {Marker(c) : c \in Add(d)}
  <2>1. /\ processed' = processed \cup N
        /\ metrics' = [d \in Data |-> metrics[d] + Cardinality(Add(d))]
    BY <1>2 DEF Write
  <2>2. /\ C \subseteq Decodable /\ IsFiniteSet(C) /\ IsFiniteSet(processed)
        /\ EventsOf(C) \cap ProcessedIds = {}
    <3>1. C \subseteq Decodable /\ C \subseteq snapshot[m] /\ IsFiniteSet(snapshot[m])
          /\ IsFiniteSet(processed) /\ EventsOf(C) \cap ProcessedIds = {}
      BY DEF IndInv, GroupInv, MemberInv, TypeOK, Holding, Transaction
    <3>. QED
      BY <3>1, FS_Subset
  <2>3. ASSUME NEW A \in SUBSET C
        PROVE  /\ IsFiniteSet(A) /\ IsFiniteSet({Marker(c) : c \in A})
               /\ Cardinality({Marker(c) : c \in A}) = Cardinality(A)
               /\ Cardinality(A) \in Nat
    <3>. DEFINE B == {Marker(c) : c \in A}
                f == [c \in A |-> Marker(c)]
    <3>1. IsFiniteSet(A) /\ Cardinality(A) \in Nat
      BY <2>2, FS_Subset, FS_CardinalityType
    <3>2. f \in [A -> B] /\ \A c, e \in A : f[c] = f[e] => c = e
      OBVIOUS
    <3>3. \A b \in B : \E c \in A : f[c] = b
      OBVIOUS
    <3>4. f \in Bijection(A, B)
      BY <3>2, <3>3 DEF Bijection, Injection, IsInjective, Surjection
    <3>5. ExistsBijection(A, B)
      BY <3>4 DEF ExistsBijection
    <3>. QED
      BY <3>1, <3>5, FS_Bijection
  <2>4. processed' \subseteq Events \X Decodable
    BY <2>1, <2>2, DecodableEvent DEF IndInv, TypeOK
  <2>5. IsFiniteSet(processed')
    BY <2>1, <2>2, <2>3, FS_Union
  <2>6. metrics' \in [Data -> Nat]
    <3>1. \A d \in Data : Cardinality(Add(d)) \in Nat /\ metrics[d] \in Nat
      BY <2>3 DEF IndInv, TypeOK
    <3>. HIDE DEF Add
    <3>. QED
      BY <2>1, <3>1
  <2>7. ASSUME NEW d \in Data
        PROVE  metrics'[d] = Cardinality({r \in processed' : DataAt(r[2]) = d})
    <3>1. {r \in processed' : DataAt(r[2]) = d} = Old(d) \cup New(d)
      BY <2>1
    <3>2. Old(d) \cap New(d) = {}
      BY <2>2 DEF EventsOf, ProcessedIds
    <3>3. IsFiniteSet(Old(d)) /\ Cardinality(Old(d)) \in Nat
      BY <2>2, FS_Subset, FS_CardinalityType
    <3>4. /\ IsFiniteSet(New(d)) /\ Cardinality(New(d)) = Cardinality(Add(d))
          /\ Cardinality(Add(d)) \in Nat
      BY <2>3
    <3>5. Cardinality(Old(d) \cup New(d)) = Cardinality(Old(d)) + Cardinality(Add(d))
      <4>. HIDE DEF Old, New, Add
      <4>. QED
        BY <3>2, <3>3, <3>4, DisjointUnion
    <3>6. metrics[d] = Cardinality(Old(d))
      BY DEF IndInv, GroupInv, MetricsExact
    <3>. QED
      BY <2>1, <3>1, <3>5, <3>6
  <2>8. MetricsExact'
    BY <2>7 DEF MetricsExact, DataAt, RecordAt
  <2>. QED
    BY <2>4, <2>5, <2>6, <2>8
<1>. QED
  BY <1>1, <1>2 DEF Tables

-----------------------------------------------------------------------------
(* The initial state. *)

LEMMA InitMember ==
  ASSUME Init, NEW m \in Members
  PROVE  MemberInv(m)
<1>1. /\ current[m] = NoRecord /\ stage[m] = "loop" /\ buffer[m] = {} /\ snapshot[m] = {}
      /\ inserted[m] = {} /\ assigned[m] = {} /\ tracker[m] = EmptyTracker /\ mode[m] = "run"
  BY DEF Init
<1>2. Holding(m) /\ Transaction(m)
  BY <1>1, FS_EmptySet DEF Holding, Transaction, EventsOf, OneOfEach
<1>3. \A p \in Partitions :
        tracker[m][p] = Forgotten /\ position[m][p] = 0 /\ p \notin assigned[m]
  BY <1>1 DEF EmptyTracker, Init
<1>4. Matches(m)
  BY <1>1, <1>3 DEF Matches, InMemory, Forgotten
<1>5. ASSUME NEW p \in Partitions
      PROVE  Tracked(m, p) /\ TrackedDone(m, p) /\ Owned(m, p)
  BY <1>3, TopicAssumption DEF Tracked, TrackedDone, Owned, Start, Forgotten, Untracked
<1>. QED
  BY <1>2, <1>4, <1>5 DEF MemberInv

THEOREM InitEstablishes == Init => IndInv
<1>. SUFFICES ASSUME Init PROVE IndInv
  OBVIOUS
<1>1. EmptyTracker \in Trackers
  BY DEF EmptyTracker, Forgotten, Trackers, PartitionStates
<1>2. TypeOK
  BY <1>1, LogAssumption DEF Init, TypeOK, Stages, Modes
<1>3. \A p \in Partitions : committed[p] = 0
  BY DEF Init
<1>4. NoSkip /\ \A p \in Partitions : committed[p] <= LogEnd[p]
  BY <1>3, BeforeZero, TopicAssumption DEF NoSkip
<1>5. IsFiniteSet(processed) /\ MetricsExact
  <2>1. processed = {} /\ \A d \in Data : metrics[d] = 0
    BY DEF Init
  <2>2. \A d \in Data : {r \in processed : DataAt(r[2]) = d} = {}
    BY <2>1
  <2>. QED
    BY <2>1, <2>2, FS_EmptySet DEF MetricsExact
<1>6. MarkersExclusive
  BY DEF Init, MarkersExclusive, EventsOf
<1>. QED
  BY <1>2, <1>4, <1>5, <1>6, InitMember DEF IndInv, GroupInv

-----------------------------------------------------------------------------
(* Steps of a member, in general. *)

\* What commit_ready offers is the end of a done prefix, within what the
\* process has polled.
LEMMA CommittableShape ==
  ASSUME IndInv, NEW m \in Members, NEW p, NEW n, <<p, n>> \in Committable(tracker[m])
  PROVE  /\ p \in Partitions /\ p \in assigned[m]
         /\ n \in Nat /\ n <= position[m][p] /\ n <= LogEnd[p]
         /\ tracker[m][p].next # Untracked /\ tracker[m][p].next < n
         /\ \A o \in tracker[m][p].next .. (n - 1) : o \in tracker[m][p].completed
         /\ \A c \in Before(p, n) : Done(c)
<1>. DEFINE t == tracker[m][p]
<1>1. /\ p \in Partitions /\ n \in 1 .. LogEnd[p] /\ n > t.next
      /\ \A o \in t.next .. (n - 1) : o \in t.completed
  BY DEF Committable
<1>2. /\ t \in PartitionStates /\ position[m][p] \in Nat /\ LogEnd[p] \in Nat
      /\ Tracked(m, p) /\ TrackedDone(m, p)
  BY <1>1, TopicAssumption DEF IndInv, TypeOK, MemberInv, Trackers
<1>3. t.next \in Int /\ n \in Nat
  BY <1>1, <1>2 DEF PartitionStates, Untracked
<1>4. t.next \in t.next .. (n - 1) /\ n - 1 \in t.next .. (n - 1)
  BY <1>1, <1>3
<1>5. t.next # Untracked /\ p \in assigned[m]
  BY <1>1, <1>2, <1>4 DEF Tracked, Forgotten
<1>6. n - 1 < position[m][p]
  BY <1>1, <1>2, <1>4 DEF Tracked
<1>7. \A c \in Before(p, n) : Done(c)
  <2>. SUFFICES ASSUME NEW c \in Before(p, n) PROVE Done(c)
    OBVIOUS
  <2>1. c \in Coordinates /\ c[1] = p /\ c[2] \in Nat /\ c[2] < n /\ c = <<p, c[2]>>
    BY CoordinateShape DEF Before
  <2>2. CASE c[2] < t.next
    <3>1. c \in Before(p, Start(m, p))
      BY <1>5, <2>1, <2>2 DEF Before, Start
    <3>. QED
      BY <1>2, <1>5, <3>1 DEF TrackedDone
  <2>3. CASE ~(c[2] < t.next)
    <3>1. c[2] \in t.completed
      BY <1>1, <1>3, <2>1, <2>3
    <3>. QED
      BY <1>2, <2>1, <3>1 DEF TrackedDone
  <2>. QED
    BY <2>2, <2>3
<1>. QED
  BY <1>1, <1>2, <1>3, <1>5, <1>6, <1>7

\* The committed offsets after a step of m: an accepted commit moves that of
\* a partition it owns.
Commits(m) ==
  \/ committed' = committed
  \/ \E p, n : /\ <<p, n>> \in Committable(tracker[m]) /\ owner[p] = m
               /\ Accept(p, n)

LEMMA CommitsStep ==
  ASSUME IndInv, NEW m \in Members, Commits(m), Tables(m)
  PROVE  /\ committed' \in [Partitions -> Nat]
         /\ \A p \in Partitions : committed'[p] <= LogEnd[p]
         /\ NoSkip'
         /\ \A p \in Partitions :
              /\ owner[p] # m => committed'[p] = committed[p]
              /\ p \in assigned[m] /\ owner[p] = m =>
                   Start(m, p) <= committed'[p] /\ committed'[p] <= position[m][p]
<1>1. \A p \in Partitions : /\ Owned(m, p) /\ Tracked(m, p)
                            /\ \A c \in Before(p, committed[p]) : Done(c)
                            /\ committed[p] \in Nat /\ committed[p] <= LogEnd[p]
  BY DEF IndInv, GroupInv, MemberInv, NoSkip, TypeOK
<1>2. CASE committed' = committed
  <2>1. NoSkip'
    BY <1>1, <1>2, DoneStays DEF NoSkip, Before
  <2>. QED
    BY <1>1, <1>2, <2>1 DEF IndInv, TypeOK, Owned
<1>3. ASSUME NEW p, NEW n, <<p, n>> \in Committable(tracker[m]), owner[p] = m, Accept(p, n)
      PROVE  /\ committed' \in [Partitions -> Nat]
             /\ \A q \in Partitions : committed'[q] <= LogEnd[q]
             /\ NoSkip'
             /\ \A q \in Partitions :
                  /\ owner[q] # m => committed'[q] = committed[q]
                  /\ q \in assigned[m] /\ owner[q] = m =>
                       Start(m, q) <= committed'[q] /\ committed'[q] <= position[m][q]
  <2>1. /\ p \in Partitions /\ n \in Nat /\ n <= position[m][p] /\ n <= LogEnd[p]
        /\ tracker[m][p].next # Untracked /\ tracker[m][p].next < n
        /\ \A c \in Before(p, n) : Done(c)
    BY <1>3, CommittableShape
  <2>2. committed' = [committed EXCEPT ![p] = n]
    BY <1>3 DEF Accept
  <2>3. committed' \in [Partitions -> Nat]
    BY <2>1, <2>2 DEF IndInv, TypeOK
  <2>4. /\ committed'[p] = n
        /\ \A q \in Partitions \ {p} : committed'[q] = committed[q]
    BY <2>1, <2>2 DEF IndInv, TypeOK
  <2>5. Start(m, p) = tracker[m][p].next /\ tracker[m][p].next \in Int
    BY <2>1 DEF Start, IndInv, TypeOK, Trackers, PartitionStates, Untracked
  <2>6. NoSkip'
    <3>. SUFFICES ASSUME NEW q \in Partitions, NEW c \in Before(q, committed'[q])
                  PROVE  Done(c)'
      BY DEF NoSkip, Before
    <3>1. Done(c)
      BY <1>1, <2>1, <2>4
    <3>. QED
      BY <3>1, DoneStays
  <2>7. ASSUME NEW q \in Partitions
        PROVE  /\ committed'[q] <= LogEnd[q]
               /\ owner[q] # m => committed'[q] = committed[q]
               /\ q \in assigned[m] /\ owner[q] = m =>
                    Start(m, q) <= committed'[q] /\ committed'[q] <= position[m][q]
    <3>1. CASE q = p
      BY <1>3, <2>1, <2>4, <2>5, <3>1
    <3>2. CASE q # p
      BY <1>1, <2>4, <3>2 DEF Owned
    <3>. QED
      BY <3>1, <3>2
  <2>. QED
    BY <2>3, <2>6, <2>7
<1>. QED
  BY <1>2, <1>3 DEF Commits

\* A step of m leaves the other processes, and what they own, alone.
Others(m) ==
  \A n \in Members \ {m} :
    /\ assigned'[n] = assigned[n] /\ position'[n] = position[n]
    /\ buffer'[n] = buffer[n] /\ snapshot'[n] = snapshot[n] /\ inserted'[n] = inserted[n]
    /\ tracker'[n] = tracker[n]
    /\ stage'[n] = stage[n] /\ mode'[n] = mode[n] /\ current'[n] = current[n]
    /\ \A p \in Partitions : owner'[p] = n <=> owner[p] = n

\* The marker keys m holds after its step are held by nobody else.
Exclusive(m) ==
  \A n \in Members \ {m} : EventsOf(inserted'[m]) \cap EventsOf(inserted[n]) = {}

\* What an operation of m does to its process.
OwnStep(m) == ProcessType' /\ Others(m) /\ Exclusive(m) /\ MemberInv(m)'

\* The other members' invariants survive.
LEMMA OtherKeeps ==
  ASSUME IndInv, NEW m \in Members, Others(m), Tables(m), Commits(m), NEW n \in Members \ {m}
  PROVE  MemberInv(n)'
<1>. USE DEF Others
<1>1. MemberInv(n)
  BY DEF IndInv
<1>2. Holding(n)' /\ Matches(n)'
  BY <1>1 DEF MemberInv, Holding, Matches, InMemory
<1>3. Transaction(n)'
  <2>1. EventsOf(inserted[n]) \cap EventsOf(inserted[m]) = {}
    BY DEF IndInv, GroupInv, MarkersExclusive
  <2>2. EventsOf(inserted[n]) \cap ProcessedIds' = {}
    BY <1>1, <2>1, ProcessedGrows DEF MemberInv, Transaction
  <2>3. EventsOf(inserted[n])' = EventsOf(inserted[n])
        /\ EventsOf(snapshot[n])' = EventsOf(snapshot[n])
    BY DEF EventsOf, EventAt, RecordAt
  <2>4. OneOfEach(inserted[n])'
    BY <1>1 DEF MemberInv, Transaction, OneOfEach, EventAt, RecordAt
  <2>. QED
    BY <1>1, <2>2, <2>3, <2>4, ProcessedGrows DEF MemberInv, Transaction
<1>4. ASSUME NEW p \in Partitions
      PROVE  (Tracked(n, p) /\ TrackedDone(n, p) /\ Owned(n, p))'
  <2>1. Tracked(n, p) /\ TrackedDone(n, p) /\ Owned(n, p)
    BY <1>1 DEF MemberInv
  <2>2. Start(n, p)' = Start(n, p)
    BY DEF Start
  <2>3. Tracked(n, p)'
    BY <2>1, <2>2 DEF Tracked
  <2>4. TrackedDone(n, p)'
    BY <2>1, <2>2, DoneStays DEF TrackedDone, Before
  <2>5. Owned(n, p)'
    BY <2>1, <2>2, CommitsStep DEF Owned
  <2>. QED
    BY <2>3, <2>4, <2>5
<1>. QED
  BY <1>2, <1>3, <1>4 DEF MemberInv

\* A step of m that keeps its own process in order keeps the invariant.
LEMMA MemberStep ==
  ASSUME IndInv, NEW m \in Members, OwnStep(m), Tables(m), Commits(m), faults' \in 0 .. MaxFaults
  PROVE  IndInv'
<1>. USE DEF OwnStep
<1>1. TypeOK'
  BY CommitsStep, TablesStep DEF TypeOK, ProcessType, Tables
<1>2. MarkersExclusive'
  <2>. SUFFICES ASSUME NEW n \in Members, NEW k \in Members, n # k
                PROVE  (EventsOf(inserted[n]) \cap EventsOf(inserted[k]) = {})'
    BY DEF MarkersExclusive
  <2>. DEFINE E(C) == {EventAt(c) : c \in C}
  <2>1. E(inserted[n]) \cap E(inserted[k]) = {}
    BY DEF IndInv, GroupInv, MarkersExclusive, EventsOf
  <2>2. \A i \in Members \ {m} : inserted'[i] = inserted[i] /\ E(inserted'[m]) \cap E(inserted[i]) = {}
    BY DEF Others, Exclusive, EventsOf
  <2>3. E(inserted'[n]) \cap E(inserted'[k]) = {}
    <3>1. CASE n = m
      BY <2>2, <3>1
    <3>2. CASE k = m
      BY <2>2, <3>2
    <3>3. CASE n # m /\ k # m
      BY <2>1, <2>2, <3>3
    <3>. QED
      BY <3>1, <3>2, <3>3
  <2>. QED
    BY <2>3 DEF EventsOf, EventAt, RecordAt
<1>3. GroupInv'
  BY <1>2, CommitsStep, TablesStep DEF GroupInv
<1>4. \A n \in Members : MemberInv(n)'
  BY OtherKeeps
<1>. QED
  BY <1>1, <1>3, <1>4 DEF IndInv

\* What IndInv says of one process.
LEMMA MemberFacts ==
  ASSUME IndInv, NEW m \in Members
  PROVE  /\ ProcessType /\ MemberInv(m)
         /\ tracker[m] \in Trackers
         /\ \A p \in Partitions :
              /\ tracker[m][p] \in PartitionStates
              /\ position[m][p] \in Nat /\ committed[p] \in Nat /\ LogEnd[p] \in Nat
              /\ Start(m, p) \in Nat
<1>1. ProcessType /\ MemberInv(m) /\ committed \in [Partitions -> Nat]
  BY DEF IndInv, TypeOK, ProcessType
<1>2. tracker[m] \in Trackers /\ position[m] \in [Partitions -> Nat]
  BY <1>1 DEF ProcessType
<1>3. ASSUME NEW p \in Partitions
      PROVE  tracker[m][p] \in PartitionStates /\ Start(m, p) \in Nat
  BY <1>2 DEF Trackers, PartitionStates, Start, Untracked
<1>. QED
  BY <1>1, <1>2, <1>3, TopicAssumption

-----------------------------------------------------------------------------
(* What the operations do to a process. *)

\* A process that is gone remembers and owns nothing.
LEMMA OwnLeave ==
  ASSUME IndInv, NEW m \in Members, Leave(m), Tables(m), Commits(m)
  PROVE  OwnStep(m)
<1>1. /\ owner' = [p \in Partitions |-> IF owner[p] = m THEN NoMember ELSE owner[p]]
      /\ assigned' = [assigned EXCEPT ![m] = {}]
      /\ position' = [position EXCEPT ![m] = [p \in Partitions |-> 0]]
      /\ buffer' = [buffer EXCEPT ![m] = {}]
      /\ snapshot' = [snapshot EXCEPT ![m] = {}]
      /\ inserted' = [inserted EXCEPT ![m] = {}]
      /\ tracker' = [tracker EXCEPT ![m] = EmptyTracker]
      /\ stage' = [stage EXCEPT ![m] = "down"]
      /\ mode' = [mode EXCEPT ![m] = "run"]
      /\ current' = [current EXCEPT ![m] = NoRecord]
      /\ attempt' = [attempt EXCEPT ![m] = 0]
      /\ stopping' = [stopping EXCEPT ![m] = FALSE]
  BY DEF Leave, Unassign
<1>2. ProcessType
  BY MemberFacts
<1>3. EmptyTracker \in Trackers
  BY DEF EmptyTracker, Forgotten, Trackers, PartitionStates
<1>4. ProcessType'
  BY <1>1, <1>2, <1>3, LogAssumption DEF ProcessType, Stages, Modes
<1>5. Others(m)
  BY <1>1, <1>2, LogAssumption DEF Others, ProcessType
<1>6. /\ assigned'[m] = {} /\ buffer'[m] = {} /\ snapshot'[m] = {} /\ inserted'[m] = {}
      /\ tracker'[m] = EmptyTracker /\ stage'[m] = "down" /\ mode'[m] = "run"
      /\ current'[m] = NoRecord
      /\ \A p \in Partitions : position'[m][p] = 0 /\ tracker'[m][p] = Forgotten
  BY <1>1, <1>2 DEF ProcessType, EmptyTracker
<1>7. Exclusive(m)
  BY <1>6 DEF Exclusive, EventsOf
<1>8. Holding(m)' /\ Transaction(m)'
  BY <1>6, FS_EmptySet DEF Holding, Transaction, EventsOf, OneOfEach
<1>9. Matches(m)'
  BY <1>6 DEF Matches, InMemory, Forgotten
<1>10. ASSUME NEW p \in Partitions
       PROVE  (Tracked(m, p) /\ TrackedDone(m, p) /\ Owned(m, p))'
  BY <1>6, TopicAssumption DEF Tracked, TrackedDone, Owned, Start, Forgotten, Untracked
<1>. QED
  BY <1>4, <1>5, <1>7, <1>8, <1>9, <1>10 DEF OwnStep, MemberInv

\* A step that leaves the partitions of m and its tracker alone.
LEMMA SameTracking ==
  ASSUME IndInv, NEW m \in Members, Tables(m), Commits(m),
         assigned'[m] = assigned[m], position'[m] = position[m], tracker'[m] = tracker[m],
         owner' = owner, NEW p \in Partitions
  PROVE  (Tracked(m, p) /\ TrackedDone(m, p) /\ Owned(m, p))'
<1>1. Tracked(m, p) /\ TrackedDone(m, p) /\ Owned(m, p)
  BY DEF IndInv, MemberInv
<1>2. Start(m, p)' = Start(m, p)
  BY DEF Start
<1>3. Tracked(m, p)'
  BY <1>1, <1>2 DEF Tracked
<1>4. TrackedDone(m, p)'
  BY <1>1, <1>2, DoneStays DEF TrackedDone, Before
<1>5. Owned(m, p)'
  BY <1>1, <1>2, CommitsStep DEF Owned
<1>. QED
  BY <1>3, <1>4, <1>5

\* A flush begins with all that is in memory, but for a record in hand that
\* could not be dead-lettered: only a process on its way out leaves that.
LEMMA OwnBeginFlush ==
  ASSUME IndInv, NEW m \in Members, NEW how \in Modes, BeginFlush(m, how),
         Tables(m), Commits(m),
         how \in {"run", "shutdown", "revoke"} =>
           current[m] = NoRecord /\ mode[m] \in {"run", "shutdown", "revoke"}
  PROVE  OwnStep(m)
<1>. DEFINE taken == buffer[m] \cup snapshot[m]
            next == IF taken = {} THEN "commit" ELSE "markers"
<1>1. /\ snapshot' = [snapshot EXCEPT ![m] = taken]
      /\ buffer' = [buffer EXCEPT ![m] = {}]
      /\ inserted' = [inserted EXCEPT ![m] = {}]
      /\ stage' = [stage EXCEPT ![m] = next]
      /\ mode' = [mode EXCEPT ![m] = how]
      /\ current' = [current EXCEPT ![m] = NoRecord]
      /\ attempt' = [attempt EXCEPT ![m] = 0]
      /\ owner' = owner /\ assigned' = assigned /\ position' = position
      /\ tracker' = tracker /\ stopping' = stopping
  BY DEF BeginFlush, fetch
<1>2. ProcessType /\ MemberInv(m)
  BY MemberFacts
<1>3. ProcessType'
  BY <1>1, <1>2, LogAssumption DEF ProcessType, Stages
<1>4. Others(m)
  BY <1>1, <1>2 DEF Others, ProcessType
<1>5. /\ buffer'[m] = {} /\ snapshot'[m] = taken /\ inserted'[m] = {} /\ stage'[m] = next
      /\ mode'[m] = how /\ current'[m] = NoRecord
      /\ tracker'[m] = tracker[m] /\ position'[m] = position[m] /\ assigned'[m] = assigned[m]
  BY <1>1, <1>2 DEF ProcessType
<1>6. Exclusive(m)
  BY <1>5 DEF Exclusive, EventsOf
<1>7. IsFiniteSet(taken)
  BY <1>2, FS_Union DEF MemberInv, Holding
<1>8. Holding(m)' /\ Transaction(m)'
  BY <1>5, <1>7, FS_EmptySet DEF Holding, Transaction, EventsOf, OneOfEach
<1>9. Matches(m)'
  BY <1>2, <1>5 DEF MemberInv, Matches, InMemory
<1>10. \A p \in Partitions : (Tracked(m, p) /\ TrackedDone(m, p) /\ Owned(m, p))'
  BY <1>1, SameTracking
<1>. QED
  BY <1>3, <1>4, <1>6, <1>8, <1>9, <1>10 DEF OwnStep, MemberInv

\* on_lost flushes or leaves.
LEMMA OwnOnLost ==
  ASSUME IndInv, NEW m \in Members, OnLost(m), Tables(m), Commits(m)
  PROVE  OwnStep(m)
BY OwnLeave, OwnBeginFlush DEF OnLost, Modes

LEMMA OwnClose ==
  ASSUME IndInv, NEW m \in Members, Close(m), Tables(m), Commits(m)
  PROVE  OwnStep(m)
BY OwnLeave, OwnBeginFlush, OwnOnLost DEF Close, Modes

LEMMA OwnGiveUp ==
  ASSUME IndInv, NEW m \in Members, GiveUp(m), Tables(m), Commits(m)
  PROVE  OwnStep(m)
BY OwnLeave, OwnClose DEF GiveUp

\* run_with_retry starts the operation again, with no transaction open.
LEMMA OwnTryAgain ==
  ASSUME IndInv, NEW m \in Members, NEW first, TryAgain(m, first), Tables(m), Commits(m),
         \/ first = stage[m] /\ stage[m] \in {"dlq", "markers", "commit"}
         \/ first = "markers" /\ stage[m] = "metrics"
  PROVE  OwnStep(m)
<1>1. /\ attempt[m] < MaxRetries /\ attempt' = [attempt EXCEPT ![m] = attempt[m] + 1]
      /\ stage' = [stage EXCEPT ![m] = first]
      /\ inserted' = [inserted EXCEPT ![m] = {}]
      /\ owner' = owner /\ assigned' = assigned /\ position' = position
      /\ buffer' = buffer /\ snapshot' = snapshot /\ tracker' = tracker
      /\ mode' = mode /\ current' = current /\ stopping' = stopping
  BY DEF TryAgain, fetch
<1>2. ProcessType /\ MemberInv(m)
  BY MemberFacts
<1>3. ProcessType'
  <2>1. attempt' \in [Members -> 0 .. MaxRetries]
    BY <1>1, <1>2, LogAssumption DEF ProcessType
  <2>2. stage' \in [Members -> Stages]
    BY <1>1, <1>2 DEF ProcessType, Stages
  <2>. QED
    BY <1>1, <1>2, <2>1, <2>2 DEF ProcessType
<1>4. Others(m)
  BY <1>1, <1>2 DEF Others, ProcessType
<1>5. /\ inserted'[m] = {} /\ stage'[m] = first
  BY <1>1, <1>2 DEF ProcessType
<1>6. Exclusive(m)
  BY <1>5 DEF Exclusive, EventsOf
<1>7. Holding(m)' /\ Transaction(m)' /\ Matches(m)'
  BY <1>1, <1>2, <1>5 DEF MemberInv, Holding, Transaction, Matches, InMemory, EventsOf, OneOfEach
<1>8. \A p \in Partitions : (Tracked(m, p) /\ TrackedDone(m, p) /\ Owned(m, p))'
  BY <1>1, SameTracking
<1>. QED
  BY <1>3, <1>4, <1>6, <1>7, <1>8 DEF OwnStep, MemberInv

\* What an operation that fails leaves: a fresh attempt, or the way out.
LEMMA OwnFailure ==
  ASSUME IndInv, NEW m \in Members, NEW first, TryAgain(m, first) \/ GiveUp(m),
         Tables(m), Commits(m),
         \/ first = stage[m] /\ stage[m] \in {"dlq", "markers", "commit"}
         \/ first = "markers" /\ stage[m] = "metrics"
  PROVE  OwnStep(m)
BY OwnTryAgain, OwnGiveUp

-----------------------------------------------------------------------------
(* The actions. *)

\* A member that gets a partition starts at the committed offset.
LEMMA AssignStep ==
  ASSUME IndInv, NEW p \in Partitions, NEW m \in Members, Assign(p, m)
  PROVE  IndInv'
<1>1. /\ owner[p] = NoMember /\ p \notin assigned[m]
      /\ owner' = [owner EXCEPT ![p] = m]
      /\ assigned' = [assigned EXCEPT ![m] = assigned[m] \cup {p}]
      /\ position' = [position EXCEPT ![m][p] = committed[p]]
      /\ committed' = committed /\ processed' = processed /\ metrics' = metrics /\ dlq' = dlq
      /\ buffer' = buffer /\ snapshot' = snapshot /\ inserted' = inserted /\ tracker' = tracker
      /\ stage' = stage /\ mode' = mode /\ current' = current /\ attempt' = attempt
      /\ stopping' = stopping /\ faults' = faults
  BY DEF Assign, tables, batch, process
<1>2. ProcessType /\ MemberInv(m) /\ NoMember \notin Members
  BY MemberFacts, LogAssumption
<1>3. \A q \in Partitions : committed[q] \in Nat /\ committed[q] <= LogEnd[q] /\ LogEnd[q] \in Nat
  BY TopicAssumption DEF IndInv, GroupInv, TypeOK
<1>4. Tables(m) /\ Commits(m) /\ faults' \in 0 .. MaxFaults
  BY <1>1 DEF Tables, Commits, IndInv, TypeOK
<1>5. ProcessType'
  <2>1. position' \in [Members -> [Partitions -> Nat]]
    BY <1>1, <1>2, <1>3 DEF ProcessType
  <2>. QED
    BY <1>1, <1>2, <2>1 DEF ProcessType
<1>6. Others(m)
  BY <1>1, <1>2 DEF Others, ProcessType
<1>7. /\ assigned'[m] = assigned[m] \cup {p} /\ position'[m][p] = committed[p] /\ owner'[p] = m
      /\ \A q \in Partitions \ {p} : position'[m][q] = position[m][q] /\ owner'[q] = owner[q]
  BY <1>1, <1>2 DEF ProcessType
<1>8. Exclusive(m)
  BY <1>1 DEF Exclusive, EventsOf, IndInv, GroupInv, MarkersExclusive
<1>9. Holding(m)' /\ Transaction(m)' /\ Matches(m)'
  BY <1>1, <1>2 DEF MemberInv, Holding, Transaction, Matches, InMemory, EventsOf, OneOfEach,
                    ProcessedIds, EventAt, RecordAt
<1>10. ASSUME NEW q \in Partitions
       PROVE  (Tracked(m, q) /\ TrackedDone(m, q) /\ Owned(m, q))'
  <2>1. Tracked(m, q) /\ TrackedDone(m, q) /\ Owned(m, q)
    BY <1>2 DEF MemberInv
  <2>2. CASE q = p
    <3>1. tracker[m][q] = Forgotten
      BY <1>1, <2>1, <2>2 DEF Tracked
    <3>2. Start(m, q)' = committed[q]
      BY <1>1, <1>7, <2>2, <3>1 DEF Start, Forgotten
    <3>3. Tracked(m, q)'
      BY <1>1, <1>3, <1>7, <2>2, <3>1, <3>2 DEF Tracked, Forgotten
    <3>4. TrackedDone(m, q)'
      BY <1>1, <1>4, <2>2, <3>1, <3>2, DoneStays DEF TrackedDone, Forgotten, Before, IndInv,
                                                    GroupInv, NoSkip
    <3>5. Owned(m, q)'
      BY <1>1, <1>3, <1>7, <2>2, <3>2 DEF Owned
    <3>. QED
      BY <3>3, <3>4, <3>5
  <2>3. CASE q # p
    <3>1. Start(m, q)' = Start(m, q)
      BY <1>1, <1>7, <2>3 DEF Start
    <3>2. Tracked(m, q)'
      BY <1>1, <1>7, <2>1, <2>3, <3>1 DEF Tracked
    <3>3. TrackedDone(m, q)'
      BY <1>1, <1>4, <1>7, <2>1, <2>3, <3>1, DoneStays DEF TrackedDone, Before
    <3>4. Owned(m, q)'
      BY <1>1, <1>7, <2>1, <2>3, <3>1 DEF Owned
    <3>. QED
      BY <3>2, <3>3, <3>4
  <2>. QED
    BY <2>2, <2>3
<1>11. OwnStep(m)
  BY <1>5, <1>6, <1>8, <1>9, <1>10 DEF OwnStep, MemberInv
<1>. QED
  BY <1>4, <1>11, MemberStep

\* What observing the record at the position does: the tracker of a partition
\* starts there at the latest, and the offset is new to it.
LEMMA ObserveShape ==
  ASSUME IndInv, NEW m \in Members, NEW p \in assigned[m]
  PROVE  LET o == position[m][p]
             u == Observe(tracker[m], <<p, o>>)
         IN  /\ u \in Trackers
             /\ \A q \in Partitions \ {p} : u[q] = tracker[m][q]
             /\ u[p] = [next |-> Start(m, p),
                        pending |-> tracker[m][p].pending \cup {o},
                        completed |-> tracker[m][p].completed]
             /\ o \notin tracker[m][p].pending /\ o \notin tracker[m][p].completed
<1>. DEFINE o == position[m][p]
            t == tracker[m]
            c == <<p, o>>
            s == IF t[p].next = Untracked THEN [t[p] EXCEPT !.next = o] ELSE t[p]
            new == IF o >= s.next THEN {o} \ s.completed ELSE {}
<1>1. p \in Partitions /\ Tracked(m, p)
  BY DEF IndInv, TypeOK, MemberInv
<1>2. t \in Trackers /\ t[p] \in PartitionStates /\ o \in Nat /\ Start(m, p) \in Nat
  BY <1>1, MemberFacts
<1>3. o \notin t[p].pending /\ o \notin t[p].completed
  BY <1>1, <1>2 DEF Tracked
<1>4. s = [next |-> Start(m, p), pending |-> t[p].pending, completed |-> t[p].completed]
  BY <1>2 DEF Start, PartitionStates
<1>5. new = {o}
  BY <1>1, <1>2, <1>3, <1>4 DEF Tracked
<1>6. Observe(t, c) = [t EXCEPT ![p] = [s EXCEPT !.pending = s.pending \cup new]]
  BY DEF Observe
<1>7. [s EXCEPT !.pending = s.pending \cup new]
        = [next |-> Start(m, p), pending |-> t[p].pending \cup {o}, completed |-> t[p].completed]
  BY <1>4, <1>5
<1>8. Observe(t, c) = [t EXCEPT ![p] = [next |-> Start(m, p), pending |-> t[p].pending \cup {o},
                                        completed |-> t[p].completed]]
  BY <1>6, <1>7
<1>9. [next |-> Start(m, p), pending |-> t[p].pending \cup {o}, completed |-> t[p].completed]
        \in PartitionStates
  BY <1>2 DEF PartitionStates
<1>. QED
  BY <1>1, <1>2, <1>3, <1>8, <1>9 DEF Trackers

\* A record is polled: observed, and buffered or in hand.
LEMMA PollStep ==
  ASSUME IndInv, NEW m \in Members, NEW p \in Partitions, Poll(m, p)
  PROVE  IndInv'
<1>. DEFINE o == position[m][p]
            c == <<p, o>>
            t == tracker[m][p]
            u == Observe(tracker[m], c)
            rejected == c \in Malformed \/ Conflicting(m, c)
<1>1. /\ stage[m] = "loop" /\ p \in assigned[m] /\ o < LogEnd[p]
      /\ position' = [position EXCEPT ![m][p] = o + 1]
      /\ tracker' = [tracker EXCEPT ![m] = u]
      /\ buffer' = [buffer EXCEPT ![m] = IF rejected THEN buffer[m] ELSE buffer[m] \cup {c}]
      /\ current' = [current EXCEPT ![m] = IF rejected THEN c ELSE NoRecord]
      /\ stage' = [stage EXCEPT ![m] = IF rejected THEN "dlq" ELSE "commit"]
      /\ owner' = owner /\ committed' = committed /\ processed' = processed
      /\ metrics' = metrics /\ dlq' = dlq /\ assigned' = assigned /\ snapshot' = snapshot
      /\ inserted' = inserted /\ mode' = mode /\ attempt' = attempt /\ stopping' = stopping
      /\ faults' = faults
  BY DEF Poll, group, tables
<1>2. ProcessType /\ MemberInv(m) /\ o \in Nat /\ LogEnd[p] \in Nat /\ Start(m, p) \in Nat
      /\ t \in PartitionStates
  BY MemberFacts
<1>3. /\ u \in Trackers
      /\ \A q \in Partitions \ {p} : u[q] = tracker[m][q]
      /\ u[p] = [next |-> Start(m, p), pending |-> t.pending \cup {o}, completed |-> t.completed]
      /\ o \notin t.pending /\ o \notin t.completed
  BY <1>1, ObserveShape
<1>. HIDE DEF u
<1>4. /\ c \in Coordinates /\ c # NoRecord /\ c[1] = p /\ c[2] = o
      /\ rejected => c \in Malformed \cup Reusing
      /\ ~rejected => c \in Decodable
  <2>1. c \in Coordinates
    BY <1>1, <1>2, CoordinateIntro
  <2>2. Conflicting(m, c) => c \in Reusing
    <3>1. buffer[m] \subseteq Coordinates
      BY <1>2 DEF ProcessType, Decodable
    <3>. QED
      BY <2>1, <3>1 DEF Conflicting, Reusing
  <2>. QED
    BY <2>1, <2>2, LogAssumption DEF Decodable
<1>5. /\ current[m] = NoRecord /\ snapshot[m] = {} /\ inserted[m] = {} /\ c \notin buffer[m]
  BY <1>1, <1>3, <1>4, <1>2 DEF MemberInv, Holding, Matches, InMemory
<1>6. Tables(m) /\ Commits(m) /\ faults' \in 0 .. MaxFaults
  BY <1>1 DEF Tables, Commits, IndInv, TypeOK
<1>7. ProcessType'
  <2>1. position' \in [Members -> [Partitions -> Nat]]
    BY <1>1, <1>2 DEF ProcessType
  <2>2. buffer' \in [Members -> SUBSET Decodable] /\ stage' \in [Members -> Stages]
        /\ current' \in [Members -> Coordinates \cup {NoRecord}]
    BY <1>1, <1>2, <1>4 DEF ProcessType, Stages
  <2>. QED
    BY <1>1, <1>2, <1>3, <2>1, <2>2 DEF ProcessType
<1>8. Others(m)
  BY <1>1, <1>2 DEF Others, ProcessType
<1>9. /\ position'[m][p] = o + 1
      /\ \A q \in Partitions \ {p} : position'[m][q] = position[m][q]
      /\ tracker'[m] = u
      /\ buffer'[m] = IF rejected THEN buffer[m] ELSE buffer[m] \cup {c}
      /\ current'[m] = IF rejected THEN c ELSE NoRecord
      /\ stage'[m] = IF rejected THEN "dlq" ELSE "commit"
  BY <1>1, <1>2 DEF ProcessType
<1>. HIDE DEF rejected
<1>10. Exclusive(m)
  BY <1>1 DEF Exclusive, EventsOf, IndInv, GroupInv, MarkersExclusive
<1>11. Holding(m)' /\ Transaction(m)'
  <2>1. IsFiniteSet(buffer'[m])
    <3>1. IsFiniteSet(buffer[m])
      BY <1>2 DEF MemberInv, Holding
    <3>2. IsFiniteSet(buffer[m] \cup {c})
      BY <3>1, FS_AddElement
    <3>. QED
      BY <1>9, <3>1, <3>2
  <2>2. Holding(m)'
    BY <1>1, <1>2, <1>4, <1>5, <1>9, <2>1 DEF MemberInv, Holding
  <2>3. Transaction(m)'
    BY <1>1, <1>5, <1>9 DEF Transaction, EventsOf, OneOfEach
  <2>. QED
    BY <2>2, <2>3
<1>12. Matches(m)'
  <2>1. InMemory(m) = buffer[m] /\ InMemory(m)' = buffer[m] \cup {c}
    BY <1>1, <1>4, <1>5, <1>9 DEF InMemory
  <2>2. ASSUME NEW b \in buffer[m] \cup {c}
        PROVE  b[2] \in tracker'[m][b[1]].pending
    <3>1. CASE b = c
      BY <1>3, <1>4, <1>9, <3>1
    <3>2. CASE b \in buffer[m]
      <4>1. b[1] \in Partitions /\ b[2] \in tracker[m][b[1]].pending
        BY <1>2, <2>1, <3>2, CoordinateShape DEF MemberInv, Matches, ProcessType, Decodable
      <4>. QED
        BY <1>3, <1>9, <4>1
    <3>. QED
      BY <2>2, <3>1, <3>2
  <2>3. ASSUME mode[m] \in {"run", "shutdown", "revoke"}, NEW q \in Partitions,
               NEW k \in tracker'[m][q].pending
        PROVE  <<q, k>> \in buffer[m] \cup {c}
    <3>1. k \in tracker[m][q].pending \/ (q = p /\ k = o)
      BY <1>3, <1>9
    <3>. QED
      BY <1>2, <2>1, <2>3, <3>1 DEF MemberInv, Matches
  <2>. QED
    BY <1>1, <2>1, <2>2, <2>3 DEF Matches
<1>13. ASSUME NEW q \in Partitions
       PROVE  (Tracked(m, q) /\ TrackedDone(m, q) /\ Owned(m, q))'
  <2>1. Tracked(m, q) /\ TrackedDone(m, q) /\ Owned(m, q)
    BY <1>2 DEF MemberInv
  <2>2. CASE q = p
    <3>1. Start(m, q)' = Start(m, q)
      BY <1>2, <1>3, <1>9, <2>2 DEF Start, Untracked
    <3>2. Tracked(m, q)'
      <4>1. /\ tracker'[m][q].next = Start(m, q) /\ tracker'[m][q].pending = t.pending \cup {o}
            /\ tracker'[m][q].completed = t.completed
        BY <1>3, <1>9, <2>2
      <4>2. \A k \in Start(m, q) .. o : k \in t.pending \cup {o} \cup t.completed
        <5>1. CASE t.next = Untracked
          BY <1>2, <2>2, <5>1 DEF Start
        <5>2. CASE t.next # Untracked
          BY <1>2, <2>1, <2>2, <5>2 DEF Start, Tracked
        <5>. QED
          BY <5>1, <5>2
      <4>3. \A k \in t.pending \cup {o} \cup t.completed : Start(m, q) <= k /\ k < o + 1
        <5>1. t.pending \subseteq Nat /\ t.completed \subseteq Nat
          BY <1>2 DEF PartitionStates
        <5>. QED
          BY <1>2, <2>1, <2>2, <5>1 DEF Start, Tracked
      <4>4. (t.pending \cup {o}) \cap t.completed = {}
        BY <1>3, <2>1, <2>2 DEF Tracked
      <4>5. Start(m, q) <= o + 1 /\ o + 1 <= LogEnd[q] /\ Start(m, q) # Untracked
        BY <1>1, <1>2, <2>1, <2>2 DEF Tracked, Untracked
      <4>. QED
        BY <1>1, <1>2, <1>9, <2>2, <3>1, <4>1, <4>2, <4>3, <4>4, <4>5 DEF Tracked
    <3>3. TrackedDone(m, q)'
      BY <1>1, <1>3, <1>6, <1>9, <2>1, <2>2, <3>1, DoneStays DEF TrackedDone, Before
    <3>4. Owned(m, q)'
      <4>1. committed[q] \in Nat
        BY DEF IndInv, TypeOK
      <4>. QED
        BY <1>1, <1>2, <1>9, <2>1, <2>2, <3>1, <4>1 DEF Owned
    <3>. QED
      BY <3>2, <3>3, <3>4
  <2>3. CASE q # p
    <3>1. Start(m, q)' = Start(m, q) /\ tracker'[m][q] = tracker[m][q]
      BY <1>3, <1>9, <2>3 DEF Start
    <3>2. Tracked(m, q)'
      BY <1>1, <1>9, <2>1, <2>3, <3>1 DEF Tracked
    <3>3. TrackedDone(m, q)'
      BY <1>1, <1>6, <2>1, <2>3, <3>1, DoneStays DEF TrackedDone, Before
    <3>4. Owned(m, q)'
      BY <1>1, <1>9, <2>1, <2>3, <3>1 DEF Owned
    <3>. QED
      BY <3>2, <3>3, <3>4
  <2>. QED
    BY <2>2, <2>3
<1>14. OwnStep(m)
  BY <1>7, <1>8, <1>10, <1>11, <1>12, <1>13 DEF OwnStep, MemberInv
<1>. QED
  BY <1>6, <1>14, MemberStep

\* The flush interval, a rebalance, a lost assignment, the stop flag, a poll
\* error, a crash: the tables stay and the process flushes or leaves.
LEMMA LoopStep ==
  ASSUME IndInv, NEW m \in Members,
         \/ FlushInterval(m) \/ PollFails(m) \/ Revoke(m) \/ Lost(m) \/ Stop(m) \/ Crash(m)
  PROVE  IndInv'
<1>1. Tables(m) /\ Commits(m) /\ faults' \in 0 .. MaxFaults
  BY FaultStep DEF FlushInterval, PollFails, Revoke, Lost, Stop, Crash, Tables, Commits, tables,
                   IndInv, TypeOK
<1>2. stage[m] = "loop" => current[m] = NoRecord /\ mode[m] = "run"
  BY MemberFacts DEF MemberInv, Holding
<1>3. OwnStep(m)
  <2>1. CASE FlushInterval(m) \/ Revoke(m) \/ Stop(m)
    BY <1>1, <1>2, <2>1, OwnBeginFlush DEF FlushInterval, Revoke, Stop, Modes
  <2>2. CASE PollFails(m)
    BY <1>1, <2>2, OwnClose DEF PollFails
  <2>3. CASE Lost(m)
    BY <1>1, <2>3, OwnOnLost DEF Lost
  <2>4. CASE Crash(m)
    BY <1>1, <2>4, OwnLeave DEF Crash
  <2>. QED
    BY <2>1, <2>2, <2>3, <2>4
<1>. QED
  BY <1>1, <1>3, MemberStep

\* An eviction changes only who owns what.
LEMMA EvictStep ==
  ASSUME IndInv, NEW m \in Members, Evict(m)
  PROVE  IndInv'
<1>1. /\ owner' = [p \in Partitions |-> IF owner[p] = m THEN NoMember ELSE owner[p]]
      /\ committed' = committed /\ processed' = processed /\ metrics' = metrics /\ dlq' = dlq
      /\ assigned' = assigned /\ position' = position
      /\ buffer' = buffer /\ snapshot' = snapshot /\ inserted' = inserted /\ tracker' = tracker
      /\ stage' = stage /\ mode' = mode /\ current' = current /\ attempt' = attempt
      /\ stopping' = stopping /\ faults' \in 0 .. MaxFaults
  BY FaultStep DEF Evict, tables, fetch, batch, process, IndInv
<1>2. ProcessType /\ MemberInv(m) /\ NoMember \notin Members
  BY MemberFacts, LogAssumption
<1>3. Tables(m) /\ Commits(m)
  BY <1>1 DEF Tables, Commits, IndInv, TypeOK
<1>4. ProcessType'
  BY <1>1, <1>2 DEF ProcessType
<1>5. Others(m) /\ \A p \in Partitions : owner'[p] # m
  BY <1>1, <1>2 DEF Others, ProcessType
<1>6. Exclusive(m)
  BY <1>1 DEF Exclusive, EventsOf, IndInv, GroupInv, MarkersExclusive
<1>7. Holding(m)' /\ Transaction(m)' /\ Matches(m)'
  BY <1>1, <1>2 DEF MemberInv, Holding, Transaction, Matches, InMemory, EventsOf, OneOfEach,
                    ProcessedIds, EventAt, RecordAt
<1>8. ASSUME NEW p \in Partitions
      PROVE  (Tracked(m, p) /\ TrackedDone(m, p) /\ Owned(m, p))'
  <2>1. Tracked(m, p) /\ TrackedDone(m, p)
    BY <1>2 DEF MemberInv
  <2>2. Start(m, p)' = Start(m, p)
    BY <1>1 DEF Start
  <2>3. Tracked(m, p)'
    BY <1>1, <2>1, <2>2 DEF Tracked
  <2>4. TrackedDone(m, p)'
    BY <1>1, <1>3, <2>1, <2>2, DoneStays DEF TrackedDone, Before
  <2>5. Owned(m, p)'
    BY <1>5 DEF Owned
  <2>. QED
    BY <2>3, <2>4, <2>5
<1>9. OwnStep(m)
  BY <1>4, <1>5, <1>6, <1>7, <1>8 DEF OwnStep, MemberInv
<1>. QED
  BY <1>1, <1>3, <1>9, MemberStep

\* A signal or a restart.
LEMMA SignalStep ==
  ASSUME IndInv, NEW m \in Members, RequestShutdown(m) \/ Restart(m)
  PROVE  IndInv'
<1>1. /\ stage' = [stage EXCEPT ![m] = IF stage[m] = "down" THEN "loop" ELSE stage[m]]
      /\ stopping' = stopping \/ stopping' = [stopping EXCEPT ![m] = TRUE]
      /\ owner' = owner
      /\ committed' = committed /\ processed' = processed /\ metrics' = metrics /\ dlq' = dlq
      /\ assigned' = assigned /\ position' = position
      /\ buffer' = buffer /\ snapshot' = snapshot /\ inserted' = inserted /\ tracker' = tracker
      /\ mode' = mode /\ current' = current /\ attempt' = attempt
      /\ faults' \in 0 .. MaxFaults
  BY FaultStep DEF RequestShutdown, Restart, group, tables, fetch, batch, IndInv, TypeOK
<1>2. ProcessType /\ MemberInv(m)
  BY MemberFacts
<1>3. Tables(m) /\ Commits(m)
  BY <1>1 DEF Tables, Commits, IndInv, TypeOK
<1>4. ProcessType'
  BY <1>1, <1>2 DEF ProcessType, Stages
<1>5. Others(m)
  BY <1>1, <1>2 DEF Others, ProcessType
<1>6. Exclusive(m)
  BY <1>1 DEF Exclusive, EventsOf, IndInv, GroupInv, MarkersExclusive
<1>7. Holding(m)' /\ Transaction(m)' /\ Matches(m)'
  <2>1. stage'[m] = IF stage[m] = "down" THEN "loop" ELSE stage[m]
    BY <1>1, <1>2 DEF ProcessType
  <2>2. Holding(m)'
    BY <1>1, <1>2, <2>1 DEF MemberInv, Holding
  <2>3. Transaction(m)'
    <3>1. /\ EventsOf(inserted[m])' = EventsOf(inserted[m])
          /\ EventsOf(snapshot[m])' = EventsOf(snapshot[m])
          /\ ProcessedIds' = ProcessedIds
          /\ OneOfEach(inserted[m])' <=> OneOfEach(inserted[m])
      BY <1>1 DEF EventsOf, OneOfEach, ProcessedIds, EventAt, RecordAt
    <3>2. stage'[m] = "metrics" => stage[m] = "metrics"
      BY <2>1
    <3>. QED
      BY <1>1, <1>2, <3>1, <3>2 DEF MemberInv, Transaction
  <2>4. Matches(m)'
    BY <1>1, <1>2 DEF MemberInv, Matches, InMemory
  <2>. QED
    BY <2>2, <2>3, <2>4
<1>8. \A p \in Partitions : (Tracked(m, p) /\ TrackedDone(m, p) /\ Owned(m, p))'
  BY <1>1, <1>3, SameTracking
<1>9. OwnStep(m)
  BY <1>4, <1>5, <1>6, <1>7, <1>8 DEF OwnStep, MemberInv
<1>. QED
  BY <1>1, <1>3, <1>9, MemberStep

\* Completing offsets whose records are done moves no start and forgets no
\* offset.
LEMMA CompleteTracking ==
  ASSUME IndInv, NEW m \in Members, NEW C \in SUBSET Coordinates, Tables(m), Commits(m),
         \A c \in C : Done(c)',
         tracker'[m] = Complete(tracker[m], C),
         assigned'[m] = assigned[m], position'[m] = position[m], owner' = owner,
         NEW p \in Partitions
  PROVE  (Tracked(m, p) /\ TrackedDone(m, p) /\ Owned(m, p))'
<1>. DEFINE t == tracker[m][p]
            u == tracker'[m][p]
<1>1. Tracked(m, p) /\ TrackedDone(m, p) /\ Owned(m, p) /\ t \in PartitionStates
      /\ tracker[m] \in Trackers
  BY MemberFacts DEF MemberInv
<1>2. /\ u \in PartitionStates
      /\ u.next = t.next
      /\ u.pending = {o \in t.pending : <<p, o>> \notin C}
      /\ u.completed = t.completed \cup {o \in t.pending : <<p, o>> \in C}
  BY <1>1, CompleteShape DEF Trackers
<1>3. Start(m, p)' = Start(m, p)
  BY <1>2 DEF Start
<1>4. Tracked(m, p)'
  <2>1. /\ p \notin assigned[m] => u = Forgotten
        /\ u.next = Untracked => u.pending = {} /\ u.completed = {}
    <3>1. u.next = Untracked => u.pending = {} /\ u.completed = {}
      BY <1>1, <1>2 DEF Tracked
    <3>2. p \notin assigned[m] => u.next = Untracked
      BY <1>1, <1>2 DEF Tracked, Forgotten
    <3>3. u = [next |-> u.next, pending |-> u.pending, completed |-> u.completed]
      BY <1>2 DEF PartitionStates
    <3>. HIDE DEF u, t
    <3>. QED
      BY <3>1, <3>2, <3>3 DEF Forgotten
  <2>2. u.pending \cup u.completed = t.pending \cup t.completed /\ u.pending \cap u.completed = {}
    BY <1>1, <1>2 DEF Tracked
  <2>. HIDE DEF u, t
  <2>. QED
    BY <1>1, <1>2, <1>3, <2>1, <2>2 DEF Tracked, u, t
<1>5. TrackedDone(m, p)'
  <2>1. \A o \in u.completed : Done(<<p, o>>)'
    BY <1>1, <1>2, DoneStays DEF TrackedDone
  <2>. QED
    BY <1>1, <1>3, <2>1, DoneStays DEF TrackedDone, Before
<1>6. Owned(m, p)'
  BY <1>1, <1>3, CommitsStep DEF Owned
<1>. QED
  BY <1>4, <1>5, <1>6

\* The dead letter is acknowledged: the offset in hand is complete.
LEMMA DlqDeliveredStep ==
  ASSUME IndInv, NEW m \in Members, DlqDelivered(m)
  PROVE  IndInv'
<1>. DEFINE c == current[m]
            u == Complete(tracker[m], {c})
<1>1. /\ stage[m] = "dlq" /\ dlq' = dlq \cup {c}
      /\ tracker' = [tracker EXCEPT ![m] = u]
      /\ stage' = [stage EXCEPT ![m] = "commit"]
      /\ current' = [current EXCEPT ![m] = NoRecord]
      /\ attempt' = [attempt EXCEPT ![m] = 0]
      /\ owner' = owner /\ committed' = committed /\ processed' = processed
      /\ metrics' = metrics /\ assigned' = assigned /\ position' = position
      /\ buffer' = buffer /\ snapshot' = snapshot /\ inserted' = inserted
      /\ mode' = mode /\ stopping' = stopping /\ faults' = faults
  BY DEF DlqDelivered, group, tables, fetch, batch
<1>2. ProcessType /\ MemberInv(m) /\ tracker[m] \in Trackers
  BY MemberFacts
<1>3. /\ c \in Coordinates /\ c \notin buffer[m] /\ snapshot[m] = {} /\ inserted[m] = {}
      /\ c # NoRecord
  BY <1>1, <1>2 DEF MemberInv, Holding, ProcessType
<1>4. Tables(m) /\ Commits(m) /\ faults' \in 0 .. MaxFaults
  BY <1>1, <1>3 DEF Tables, Commits, IndInv, TypeOK
<1>5. /\ u \in Trackers
      /\ \A p \in Partitions : u[p].pending = {o \in tracker[m][p].pending : <<p, o>> # c}
  <2>. DEFINE D == {c}
  <2>1. D \in SUBSET Coordinates /\ \A d : d \in D <=> d = c
    BY <1>3
  <2>. HIDE DEF D
  <2>2. Complete(tracker[m], D) \in Trackers /\ \A p \in Partitions :
          Complete(tracker[m], D)[p].pending = {o \in tracker[m][p].pending : <<p, o>> \notin D}
    BY <1>2, <2>1, CompleteShape
  <2>3. u = Complete(tracker[m], D)
    BY DEF D
  <2>. HIDE DEF u, c
  <2>4. ASSUME NEW p \in Partitions
        PROVE  u[p].pending = {o \in tracker[m][p].pending : <<p, o>> # c}
    <3>1. u[p].pending = {o \in tracker[m][p].pending : <<p, o>> \notin D}
      BY <2>2, <2>3
    <3>2. \A o : <<p, o>> \in D <=> <<p, o>> = c
      BY <2>1
    <3>. QED
      BY <3>1, <3>2
  <2>. QED
    BY <2>2, <2>3, <2>4
<1>. HIDE DEF u
<1>6. ProcessType'
  BY <1>1, <1>2, <1>5, LogAssumption DEF ProcessType, Stages
<1>7. Others(m)
  BY <1>1, <1>2 DEF Others, ProcessType
<1>8. tracker'[m] = u /\ stage'[m] = "commit" /\ current'[m] = NoRecord
  BY <1>1, <1>2 DEF ProcessType
<1>9. Exclusive(m)
  BY <1>1, <1>3 DEF Exclusive, EventsOf
<1>10. Holding(m)' /\ Transaction(m)'
  BY <1>1, <1>2, <1>3, <1>8 DEF MemberInv, Holding, Transaction, EventsOf, OneOfEach
<1>11. Matches(m)'
  <2>1. InMemory(m) = buffer[m] \cup {c} /\ InMemory(m)' = buffer[m]
    BY <1>1, <1>3, <1>8 DEF InMemory
  <2>2. ASSUME NEW b \in buffer[m] PROVE b[2] \in u[b[1]].pending
    <3>1. /\ b[1] \in Partitions /\ b = <<b[1], b[2]>> /\ b # c
          /\ b[2] \in tracker[m][b[1]].pending
      BY <1>2, <1>3, <2>1, CoordinateShape DEF MemberInv, Matches, ProcessType, Decodable
    <3>. QED
      BY <1>5, <3>1
  <2>3. ASSUME mode[m] \in {"run", "shutdown", "revoke"}, NEW p \in Partitions,
               NEW o \in u[p].pending
        PROVE  <<p, o>> \in buffer[m]
    BY <1>2, <1>5, <2>1, <2>3 DEF MemberInv, Matches
  <2>. QED
    BY <1>1, <1>8, <2>1, <2>2, <2>3 DEF Matches
<1>12. \A p \in Partitions : (Tracked(m, p) /\ TrackedDone(m, p) /\ Owned(m, p))'
  <2>1. \A d \in {c} : Done(d)'
    BY <1>1 DEF Done
  <2>2. {c} \in SUBSET Coordinates /\ tracker'[m] = Complete(tracker[m], {c})
        /\ assigned'[m] = assigned[m] /\ position'[m] = position[m]
    BY <1>1, <1>3, <1>8 DEF u
  <2>. QED
    BY <1>1, <1>4, <2>1, <2>2, CompleteTracking
<1>13. OwnStep(m)
  BY <1>6, <1>7, <1>9, <1>10, <1>11, <1>12 DEF OwnStep, MemberInv
<1>. QED
  BY <1>4, <1>13, MemberStep

\* A dead letter, a transaction or an offset commit fails.
LEMMA FailureStep ==
  ASSUME IndInv, NEW m \in Members,
         \/ DlqFails(m) \/ TransactionFails(m)
         \/ \E p, n : CommitOffsetFails(m, p, n)
  PROVE  IndInv'
<1>1. CASE DlqFails(m)
  <2>1. current[m] \in Coordinates
    BY <1>1, MemberFacts DEF DlqFails, MemberInv, Holding, ProcessType
  <2>2. Tables(m) /\ Commits(m) /\ faults' \in 0 .. MaxFaults
    BY <1>1, <2>1, FaultStep DEF DlqFails, Tables, Commits, tables, IndInv, TypeOK
  <2>3. OwnStep(m)
    BY <1>1, <2>2, OwnFailure DEF DlqFails
  <2>. QED
    BY <2>2, <2>3, MemberStep
<1>2. CASE TransactionFails(m)
  <2>1. Tables(m) /\ Commits(m) /\ faults' \in 0 .. MaxFaults
    BY <1>2, FaultStep DEF TransactionFails, Tables, Commits, tables, IndInv, TypeOK
  <2>2. OwnStep(m)
    BY <1>2, <2>1, OwnFailure DEF TransactionFails
  <2>. QED
    BY <2>1, <2>2, MemberStep
<1>3. ASSUME NEW p, NEW n, CommitOffsetFails(m, p, n)
      PROVE  IndInv'
  <2>1. Tables(m) /\ Commits(m) /\ faults' \in 0 .. MaxFaults
    BY <1>3, FaultStep DEF CommitOffsetFails, Tables, Commits, tables, IndInv, TypeOK
  <2>2. OwnStep(m)
    BY <1>3, <2>1, OwnFailure DEF CommitOffsetFails
  <2>. QED
    BY <2>1, <2>2, MemberStep
<1>. QED
  BY <1>1, <1>2, <1>3

\* A refused snapshot or a fenced commit ends the process's work.
LEMMA RefusedStep ==
  ASSUME IndInv, NEW m \in Members,
         SnapshotRefused(m) \/ \E p, n : CommitOffsetFenced(m, p, n)
  PROVE  IndInv'
<1>1. GiveUp(m) /\ Tables(m) /\ Commits(m) /\ faults' \in 0 .. MaxFaults
  BY DEF SnapshotRefused, CommitOffsetFenced, Tables, Commits, tables, IndInv, TypeOK
<1>. QED
  BY <1>1, OwnGiveUp, MemberStep

\* The markers of the snapshot are inserted, in nobody's way.
LEMMA InsertMarkersStep ==
  ASSUME IndInv, NEW m \in Members, InsertMarkers(m)
  PROVE  IndInv'
<1>1. PICK C \in SUBSET snapshot[m] :
        /\ OneOfEach(C)
        /\ EventsOf(C) = EventsOf(snapshot[m]) \ ProcessedIds
        /\ inserted' = [inserted EXCEPT ![m] = C]
  BY DEF InsertMarkers
<1>2. /\ stage[m] = "markers" /\ ~MarkersLocked(m)
      /\ stage' = [stage EXCEPT ![m] = "metrics"]
      /\ owner' = owner /\ committed' = committed /\ processed' = processed
      /\ metrics' = metrics /\ dlq' = dlq /\ assigned' = assigned /\ position' = position
      /\ buffer' = buffer /\ snapshot' = snapshot /\ tracker' = tracker /\ mode' = mode
      /\ current' = current /\ attempt' = attempt /\ stopping' = stopping /\ faults' = faults
  BY DEF InsertMarkers, group, tables, fetch
<1>3. ProcessType /\ MemberInv(m)
  BY MemberFacts
<1>4. Tables(m) /\ Commits(m) /\ faults' \in 0 .. MaxFaults
  BY <1>2 DEF Tables, Commits, IndInv, TypeOK
<1>5. ProcessType'
  <2>1. C \in SUBSET Decodable
    BY <1>3 DEF ProcessType
  <2>. QED
    BY <1>1, <1>2, <1>3, <2>1 DEF ProcessType, Stages
<1>6. Others(m)
  BY <1>1, <1>2, <1>3 DEF Others, ProcessType
<1>7. inserted'[m] = C /\ stage'[m] = "metrics"
  BY <1>1, <1>2, <1>3 DEF ProcessType
<1>8. Exclusive(m)
  BY <1>1, <1>2, <1>7 DEF Exclusive, MarkersLocked
<1>9. Holding(m)' /\ Matches(m)'
  BY <1>2, <1>3, <1>7 DEF MemberInv, Holding, Matches, InMemory
<1>10. Transaction(m)'
  <2>1. ProcessedIds' = ProcessedIds /\ snapshot'[m] = snapshot[m]
    BY <1>2 DEF ProcessedIds
  <2>2. /\ EventsOf(inserted[m])' = EventsOf(C) /\ OneOfEach(inserted[m])'
        /\ EventsOf(snapshot[m])' = EventsOf(snapshot[m])
    BY <1>1, <1>7, <2>1 DEF EventsOf, OneOfEach, EventAt, RecordAt
  <2>. QED
    BY <1>1, <1>7, <2>1, <2>2 DEF Transaction
<1>11. \A p \in Partitions : (Tracked(m, p) /\ TrackedDone(m, p) /\ Owned(m, p))'
  BY <1>2, <1>4, SameTracking
<1>12. OwnStep(m)
  BY <1>5, <1>6, <1>8, <1>9, <1>10, <1>11 DEF OwnStep, MemberInv
<1>. QED
  BY <1>4, <1>12, MemberStep

\* The snapshot is durable: every record of it is done, and its offsets are
\* complete.
LEMMA CommitSnapshotStep ==
  ASSUME IndInv, NEW m \in Members, CommitSnapshot(m)
  PROVE  IndInv'
<1>. DEFINE C == snapshot[m]
            u == Complete(tracker[m], C)
<1>1. /\ stage[m] = "metrics" /\ Write(m)
      /\ committed' = committed /\ dlq' = dlq /\ faults' = faults
  BY DEF CommitSnapshot
<1>2. Tables(m) /\ Commits(m) /\ faults' \in 0 .. MaxFaults
  BY <1>1 DEF Tables, Commits, IndInv, TypeOK
<1>3. CASE mode[m] = "lost"
  BY <1>2, <1>3, OwnLeave, MemberStep DEF CommitSnapshot
<1>4. CASE mode[m] # "lost"
  <2>1. /\ tracker' = [tracker EXCEPT ![m] = u]
        /\ snapshot' = [snapshot EXCEPT ![m] = {}]
        /\ inserted' = [inserted EXCEPT ![m] = {}]
        /\ stage' = [stage EXCEPT ![m] = "commit"]
        /\ attempt' = [attempt EXCEPT ![m] = 0]
        /\ owner' = owner /\ assigned' = assigned /\ position' = position /\ buffer' = buffer
        /\ mode' = mode /\ current' = current /\ stopping' = stopping
    BY <1>4 DEF CommitSnapshot, fetch
  <2>2. ProcessType /\ MemberInv(m) /\ tracker[m] \in Trackers /\ C \subseteq Coordinates
    BY MemberFacts DEF ProcessType, Decodable
  <2>3. /\ u \in Trackers
        /\ \A p \in Partitions : u[p].pending = {o \in tracker[m][p].pending : <<p, o>> \notin C}
    BY <2>2, CompleteShape
  <2>. HIDE DEF u
  <2>4. ProcessType'
    BY <2>1, <2>2, <2>3, LogAssumption DEF ProcessType, Stages
  <2>5. Others(m)
    BY <2>1, <2>2 DEF Others, ProcessType
  <2>6. tracker'[m] = u /\ stage'[m] = "commit" /\ snapshot'[m] = {} /\ inserted'[m] = {}
    BY <2>1, <2>2 DEF ProcessType
  <2>7. Exclusive(m)
    BY <2>6 DEF Exclusive, EventsOf
  <2>8. buffer[m] = {} /\ current[m] = NoRecord
    BY <1>1, <2>2 DEF MemberInv, Holding
  <2>9. Holding(m)' /\ Transaction(m)'
    BY <2>1, <2>6, <2>8, FS_EmptySet DEF Holding, Transaction, EventsOf, OneOfEach
  <2>10. Matches(m)'
    <3>1. InMemory(m) = C /\ InMemory(m)' = {}
      BY <2>1, <2>6, <2>8 DEF InMemory
    <3>2. mode[m] \in {"run", "shutdown", "revoke"} => \A p \in Partitions : u[p].pending = {}
      <4>. SUFFICES ASSUME mode[m] \in {"run", "shutdown", "revoke"}, NEW p \in Partitions,
                           NEW o \in u[p].pending
                    PROVE  FALSE
        OBVIOUS
      <4>1. o \in tracker[m][p].pending /\ <<p, o>> \notin C
        BY <2>3
      <4>. QED
        BY <2>2, <3>1, <4>1 DEF MemberInv, Matches
    <3>. QED
      BY <2>1, <2>6, <3>1, <3>2 DEF Matches
  <2>11. \A c \in C : Done(c)'
    <3>. SUFFICES ASSUME NEW c \in C PROVE Done(c)'
      OBVIOUS
    <3>1. EventAt(c) \in EventsOf(inserted[m]) \cup ProcessedIds
      BY <1>1, <2>2 DEF MemberInv, Transaction, EventsOf
    <3>2. EventsOf(inserted[m]) \subseteq ProcessedIds' /\ ProcessedIds \subseteq ProcessedIds'
      <4>1. ASSUME NEW d \in inserted[m] PROVE EventAt(d) \in ProcessedIds'
        <5>1. <<EventAt(d), d>> \in processed'
          BY <1>1 DEF Write
        <5>. QED
          BY <5>1 DEF ProcessedIds
      <4>. QED
        BY <1>2, <4>1, ProcessedGrows DEF EventsOf
    <3>. QED
      BY <3>1, <3>2 DEF Done, EventAt, RecordAt
  <2>12. \A p \in Partitions : (Tracked(m, p) /\ TrackedDone(m, p) /\ Owned(m, p))'
    BY <1>2, <2>1, <2>2, <2>6, <2>11, CompleteTracking DEF u
  <2>13. OwnStep(m)
    BY <2>4, <2>5, <2>7, <2>9, <2>10, <2>12 DEF OwnStep, MemberInv
  <2>. QED
    BY <1>2, <2>13, MemberStep
<1>. QED
  BY <1>3, <1>4

\* A commit is acknowledged: the tracker starts at the committed offset and
\* drops no pending one.
LEMMA CommitOffsetStep ==
  ASSUME IndInv, NEW m \in Members, NEW p, NEW n, CommitOffset(m, p, n)
  PROVE  IndInv'
<1>. DEFINE t == tracker[m][p]
            u == Acknowledge(tracker[m], p, n)
<1>1. /\ stage[m] = "commit" /\ <<p, n>> \in Committable(tracker[m]) /\ owner[p] = m
      /\ Accept(p, n)
      /\ tracker' = [tracker EXCEPT ![m] = u]
      /\ attempt' = [attempt EXCEPT ![m] = 0]
      /\ owner' = owner /\ processed' = processed /\ metrics' = metrics /\ dlq' = dlq
      /\ assigned' = assigned /\ position' = position
      /\ buffer' = buffer /\ snapshot' = snapshot /\ inserted' = inserted
      /\ stage' = stage /\ mode' = mode /\ current' = current /\ stopping' = stopping
      /\ faults' = faults
  BY DEF CommitOffset, tables, fetch, batch
<1>2. ProcessType /\ MemberInv(m) /\ tracker[m] \in Trackers
  BY MemberFacts
<1>3. /\ p \in Partitions /\ p \in assigned[m]
      /\ n \in Nat /\ n <= position[m][p] /\ n <= LogEnd[p]
      /\ t.next # Untracked /\ t.next < n
      /\ \A o \in t.next .. (n - 1) : o \in t.completed
      /\ \A c \in Before(p, n) : Done(c)
  BY <1>1, CommittableShape
<1>4. t \in PartitionStates /\ position[m][p] \in Nat /\ LogEnd[p] \in Nat /\ Tracked(m, p)
      /\ TrackedDone(m, p)
  BY <1>2, <1>3, MemberFacts DEF MemberInv
<1>5. t.next \in Nat /\ t.pending \subseteq Nat /\ t.completed \subseteq Nat
  BY <1>3, <1>4 DEF PartitionStates
<1>6. {o \in t.pending : o >= n} = t.pending
  BY <1>3, <1>4, <1>5 DEF Tracked
<1>7. /\ u \in Trackers
      /\ \A q \in Partitions \ {p} : u[q] = tracker[m][q]
      /\ u[p].next = n /\ u[p].pending = t.pending
      /\ u[p].completed = {o \in t.completed : o >= n}
  <2>1. /\ u \in Trackers
        /\ \A q \in Partitions \ {p} : u[q] = tracker[m][q]
        /\ u[p] = [next |-> n, pending |-> {o \in t.pending : o >= n},
                   completed |-> {o \in t.completed : o >= n}]
    BY <1>2, <1>3, AcknowledgeShape
  <2>. HIDE DEF u
  <2>. QED
    BY <1>6, <2>1
<1>. HIDE DEF u
<1>8. Tables(m) /\ Commits(m) /\ faults' \in 0 .. MaxFaults
  BY <1>1 DEF Tables, Commits, IndInv, TypeOK
<1>9. ProcessType'
  BY <1>1, <1>2, <1>7, LogAssumption DEF ProcessType
<1>10. Others(m)
  BY <1>1, <1>2 DEF Others, ProcessType
<1>11. /\ tracker'[m] = u /\ committed'[p] = n
       /\ \A q \in Partitions \ {p} : committed'[q] = committed[q]
  BY <1>1, <1>2, <1>3 DEF ProcessType, Accept, IndInv, TypeOK
<1>12. Exclusive(m)
  BY <1>1 DEF Exclusive, EventsOf, IndInv, GroupInv, MarkersExclusive
<1>13. Holding(m)' /\ Transaction(m)'
  BY <1>1, <1>2 DEF MemberInv, Holding, Transaction, EventsOf, OneOfEach, ProcessedIds, EventAt,
                    RecordAt
<1>14. Matches(m)'
  <2>1. \A q \in Partitions : u[q].pending = tracker[m][q].pending
    BY <1>7
  <2>2. InMemory(m) \subseteq Coordinates /\ InMemory(m)' = InMemory(m)
    BY <1>1, <1>2 DEF InMemory, ProcessType, Decodable
  <2>. QED
    BY <1>1, <1>2, <1>11, <2>1, <2>2, CoordinateShape DEF MemberInv, Matches
<1>15. ASSUME NEW q \in Partitions
       PROVE  (Tracked(m, q) /\ TrackedDone(m, q) /\ Owned(m, q))'
  <2>1. CASE q = p
    <3>1. Start(m, q)' = n
      BY <1>3, <1>7, <1>11, <2>1 DEF Start, Untracked
    <3>2. Tracked(m, q)'
      <4>1. \A o \in n .. (position[m][p] - 1) : o \in u[p].pending \cup u[p].completed
        BY <1>3, <1>4, <1>5, <1>7 DEF Tracked
      <4>2. \A o \in u[p].pending \cup u[p].completed : n <= o /\ o < position[m][p]
        BY <1>4, <1>5, <1>6, <1>7, <1>3 DEF Tracked
      <4>3. u[p].pending \cap u[p].completed = {}
        BY <1>4, <1>7 DEF Tracked
      <4>. QED
        BY <1>1, <1>3, <1>4, <1>7, <1>11, <2>1, <3>1, <4>1, <4>2, <4>3 DEF Tracked, Untracked
    <3>3. TrackedDone(m, q)'
      BY <1>1, <1>3, <1>4, <1>7, <1>8, <1>11, <2>1, <3>1, DoneStays DEF TrackedDone, Before
    <3>4. Owned(m, q)'
      BY <1>1, <1>3, <1>11, <2>1, <3>1 DEF Owned
    <3>. QED
      BY <3>2, <3>3, <3>4
  <2>2. CASE q # p
    <3>1. Tracked(m, q) /\ TrackedDone(m, q) /\ Owned(m, q)
      BY <1>2 DEF MemberInv
    <3>2. Start(m, q)' = Start(m, q) /\ tracker'[m][q] = tracker[m][q]
      BY <1>1, <1>7, <1>11, <2>2 DEF Start
    <3>3. Tracked(m, q)'
      BY <1>1, <3>1, <3>2 DEF Tracked
    <3>4. TrackedDone(m, q)'
      BY <1>1, <1>8, <3>1, <3>2, DoneStays DEF TrackedDone, Before
    <3>5. Owned(m, q)'
      BY <1>1, <1>11, <2>2, <3>1, <3>2 DEF Owned
    <3>. QED
      BY <3>3, <3>4, <3>5
  <2>. QED
    BY <2>1, <2>2
<1>16. OwnStep(m)
  BY <1>9, <1>10, <1>12, <1>13, <1>14, <1>15 DEF OwnStep, MemberInv
<1>. QED
  BY <1>8, <1>16, MemberStep

\* A tracker with nothing pending and nothing to commit has everything polled
\* committed: this is what on_revoke hands back.
LEMMA NothingLeft ==
  ASSUME IndInv, NEW m \in Members, NEW p \in assigned[m],
         tracker[m][p].pending = {}, Committable(tracker[m]) = {}
  PROVE  Start(m, p) = position[m][p]
<1>. DEFINE t == tracker[m][p]
            n == position[m][p]
<1>1. /\ p \in Partitions /\ t \in PartitionStates /\ n \in Nat /\ LogEnd[p] \in Nat
      /\ Tracked(m, p)
  BY MemberFacts DEF ProcessType, MemberInv
<1>. SUFFICES ASSUME t.next # Untracked, t.next # n PROVE FALSE
  BY DEF Start
<1>2. /\ t.next \in Nat /\ t.next < n /\ n \in 1 .. LogEnd[p]
      /\ \A o \in t.next .. (n - 1) : o \in t.completed
      /\ n \notin t.completed
  BY <1>1 DEF Tracked, PartitionStates, Start
<1>3. <<p, n>> \in Committable(tracker[m])
  BY <1>1, <1>2 DEF Committable
<1>. QED
  BY <1>3

\* The partitions handed back in a rebalance are forgotten, and nothing of
\* them is in memory.
LEMMA HandBackStep ==
  ASSUME IndInv, NEW m \in Members, stage[m] = "commit", HandBack(m), Tables(m), Commits(m)
  PROVE  OwnStep(m)
<1>1. CASE HasPending(tracker[m], assigned[m])
  BY <1>1, OwnLeave DEF HandBack
<1>2. CASE ~HasPending(tracker[m], assigned[m])
  <2>. DEFINE u == Forget(tracker[m], assigned[m])
  <2>1. /\ owner' = [p \in Partitions |-> IF owner[p] = m THEN NoMember ELSE owner[p]]
        /\ assigned' = [assigned EXCEPT ![m] = {}]
        /\ position' = [position EXCEPT ![m] = [p \in Partitions |-> 0]]
        /\ tracker' = [tracker EXCEPT ![m] = u]
        /\ stage' = [stage EXCEPT ![m] = "loop"]
        /\ mode' = [mode EXCEPT ![m] = "run"]
        /\ buffer' = buffer /\ snapshot' = snapshot /\ inserted' = inserted
        /\ current' = current /\ attempt' = attempt /\ stopping' = stopping
    BY <1>2 DEF HandBack, Unassign, batch
  <2>2. ProcessType /\ MemberInv(m) /\ tracker[m] \in Trackers /\ assigned[m] \in SUBSET Partitions
        /\ NoMember \notin Members
    BY MemberFacts, LogAssumption DEF ProcessType
  <2>3. ASSUME NEW p \in Partitions PROVE u[p] = Forgotten /\ tracker[m][p].pending = {}
    <3>1. p \notin assigned[m] => tracker[m][p] = Forgotten
      BY <2>2 DEF MemberInv, Tracked
    <3>2. u[p] = IF p \in assigned[m] THEN Forgotten ELSE tracker[m][p]
      BY <2>2, ForgetShape
    <3>. HIDE DEF u
    <3>. QED
      BY <1>2, <3>1, <3>2 DEF HasPending, Forgotten
  <2>4. u \in Trackers
    BY <2>2, ForgetShape
  <2>. HIDE DEF u
  <2>5. ProcessType'
    BY <2>1, <2>2, <2>4 DEF ProcessType, Stages, Modes
  <2>6. Others(m)
    BY <2>1, <2>2 DEF Others, ProcessType
  <2>7. /\ assigned'[m] = {} /\ tracker'[m] = u /\ stage'[m] = "loop" /\ mode'[m] = "run"
        /\ \A p \in Partitions : position'[m][p] = 0
    BY <2>1, <2>2 DEF ProcessType
  <2>8. inserted[m] = {} /\ snapshot[m] = {} /\ current[m] = NoRecord
    BY <2>2 DEF MemberInv, Holding
  <2>9. Exclusive(m)
    BY <2>1, <2>8 DEF Exclusive, EventsOf
  <2>10. Holding(m)' /\ Transaction(m)'
    BY <2>1, <2>2, <2>7, <2>8 DEF MemberInv, Holding, Transaction, EventsOf, OneOfEach
  <2>11. Matches(m)'
    <3>1. InMemory(m)' = InMemory(m) /\ InMemory(m) \subseteq Coordinates
      BY <2>1, <2>2 DEF InMemory, ProcessType, Decodable
    <3>2. InMemory(m) = {}
      BY <2>2, <2>3, <3>1, CoordinateShape DEF MemberInv, Matches
    <3>. QED
      BY <2>3, <2>7, <3>1, <3>2 DEF Matches, Forgotten
  <2>12. ASSUME NEW p \in Partitions
         PROVE  (Tracked(m, p) /\ TrackedDone(m, p) /\ Owned(m, p))'
    BY <2>3, <2>7, TopicAssumption DEF Tracked, TrackedDone, Owned, Start, Forgotten, Untracked
  <2>. QED
    BY <2>5, <2>6, <2>9, <2>10, <2>11, <2>12 DEF OwnStep, MemberInv
<1>. QED
  BY <1>1, <1>2

\* There is nothing more to commit: back to the loop, or on with what called.
LEMMA CommitsDoneStep ==
  ASSUME IndInv, NEW m \in Members, CommitsDone(m)
  PROVE  IndInv'
<1>1. /\ stage[m] = "commit" /\ Tables(m) /\ Commits(m) /\ faults' \in 0 .. MaxFaults
      /\ committed' = committed /\ processed' = processed
  BY DEF CommitsDone, Tables, Commits, tables, IndInv, TypeOK
<1>2. CASE mode[m] = "run" /\ stage' = [stage EXCEPT ![m] = "loop"]
           /\ UNCHANGED <<owner, fetch, batch, tracker, mode, current, attempt, stopping>>
  <2>1. /\ owner' = owner /\ assigned' = assigned /\ position' = position
        /\ buffer' = buffer /\ snapshot' = snapshot /\ inserted' = inserted /\ tracker' = tracker
        /\ mode' = mode /\ current' = current /\ attempt' = attempt /\ stopping' = stopping
    BY <1>2 DEF fetch, batch
  <2>2. ProcessType /\ MemberInv(m)
    BY MemberFacts
  <2>3. ProcessType' /\ Others(m)
    BY <1>2, <2>1, <2>2 DEF ProcessType, Others, Stages
  <2>4. Exclusive(m)
    BY <2>1 DEF Exclusive, EventsOf, IndInv, GroupInv, MarkersExclusive
  <2>5. stage'[m] = "loop" /\ inserted[m] = {} /\ snapshot[m] = {} /\ current[m] = NoRecord
    BY <1>1, <1>2, <2>2 DEF ProcessType, MemberInv, Holding
  <2>6. Holding(m)' /\ Transaction(m)'
    BY <1>2, <2>1, <2>2, <2>5 DEF MemberInv, Holding, Transaction, EventsOf, OneOfEach
  <2>7. Matches(m)'
    BY <2>1, <2>2 DEF MemberInv, Matches, InMemory
  <2>8. \A p \in Partitions : (Tracked(m, p) /\ TrackedDone(m, p) /\ Owned(m, p))'
    BY <1>1, <2>1, SameTracking
  <2>9. OwnStep(m)
    BY <2>3, <2>4, <2>6, <2>7, <2>8 DEF OwnStep, MemberInv
  <2>. QED
    BY <1>1, <2>9, MemberStep
<1>3. CASE Close(m) \/ HandBack(m) \/ Leave(m)
  BY <1>1, <1>3, OwnClose, HandBackStep, OwnLeave, MemberStep
<1>. QED
  BY <1>2, <1>3 DEF CommitsDone

-----------------------------------------------------------------------------
(* The theorems. *)

\* Every step of a member, of its faults and of the group keeps the invariant.
THEOREM StepKeeps == IndInv /\ [Next]_vars => IndInv'
<1>. SUFFICES ASSUME IndInv, [Next]_vars PROVE IndInv'
  OBVIOUS
<1>1. ASSUME NEW m \in Members, Progress(m)
      PROVE  IndInv'
  <2>1. ASSUME NEW p \in Partitions, Poll(m, p) PROVE IndInv'
    BY <2>1, PollStep
  <2>2. CASE FlushInterval(m) \/ Lost(m) \/ Stop(m)
    BY <2>2, LoopStep
  <2>3. CASE DlqDelivered(m)
    BY <2>3, DlqDeliveredStep
  <2>4. CASE InsertMarkers(m)
    BY <2>4, InsertMarkersStep
  <2>5. CASE CommitSnapshot(m)
    BY <2>5, CommitSnapshotStep
  <2>6. CASE SnapshotRefused(m) \/ \E c \in Offsets : CommitOffsetFenced(m, c[1], c[2])
    BY <2>6, RefusedStep
  <2>7. ASSUME NEW c \in Offsets, CommitOffset(m, c[1], c[2]) PROVE IndInv'
    BY <2>7, CommitOffsetStep
  <2>8. CASE CommitsDone(m)
    BY <2>8, CommitsDoneStep
  <2>. QED
    BY <1>1, <2>1, <2>2, <2>3, <2>4, <2>5, <2>6, <2>7, <2>8 DEF Progress
<1>2. ASSUME NEW m \in Members, Failure(m)
      PROVE  IndInv'
  <2>1. CASE PollFails(m) \/ Revoke(m) \/ Crash(m)
    BY <2>1, LoopStep
  <2>2. CASE DlqFails(m) \/ TransactionFails(m) \/ \E c \in Offsets : CommitOffsetFails(m, c[1], c[2])
    BY <2>2, FailureStep
  <2>3. CASE RequestShutdown(m)
    BY <2>3, SignalStep
  <2>. QED
    BY <1>2, <2>1, <2>2, <2>3 DEF Failure
<1>3. ASSUME NEW m \in Members, Evict(m) \/ Restart(m)
      PROVE  IndInv'
  BY <1>3, EvictStep, SignalStep
<1>4. ASSUME NEW p \in Partitions, NEW m \in Members, Assign(p, m)
      PROVE  IndInv'
  BY <1>4, AssignStep
<1>5. CASE UNCHANGED vars
  <2>1. /\ owner' = owner /\ committed' = committed /\ processed' = processed
        /\ metrics' = metrics /\ dlq' = dlq /\ assigned' = assigned /\ position' = position
        /\ buffer' = buffer /\ snapshot' = snapshot /\ inserted' = inserted /\ tracker' = tracker
        /\ stage' = stage /\ mode' = mode /\ current' = current /\ attempt' = attempt
        /\ stopping' = stopping /\ faults' = faults
    BY <1>5 DEF vars, group, tables, fetch, batch, process
  <2>2. TypeOK'
    BY <2>1 DEF IndInv, TypeOK
  <2>3. GroupInv'
    BY <2>1 DEF IndInv, GroupInv, MarkersExclusive, NoSkip, MetricsExact, EventsOf, Done,
                ProcessedIds, EventAt, DataAt, RecordAt, Before
  <2>4. ASSUME NEW m \in Members PROVE MemberInv(m)'
    <3>1. MemberInv(m) /\ Tables(m) /\ Commits(m)
      BY <2>1 DEF IndInv, TypeOK, Tables, Commits
    <3>2. Holding(m)' /\ Matches(m)'
      BY <2>1, <3>1 DEF MemberInv, Holding, Matches, InMemory
    <3>3. Transaction(m)'
      BY <2>1, <3>1 DEF MemberInv, Transaction, EventsOf, OneOfEach, ProcessedIds, EventAt,
                        RecordAt
    <3>4. \A p \in Partitions : (Tracked(m, p) /\ TrackedDone(m, p) /\ Owned(m, p))'
      BY <2>1, <3>1, SameTracking
    <3>. QED
      BY <3>2, <3>3, <3>4 DEF MemberInv
  <2>. QED
    BY <2>2, <2>3, <2>4 DEF IndInv
<1>. QED
  BY <1>1, <1>2, <1>3, <1>4, <1>5 DEF Next

\* The inductive invariant holds for every topic, group size and bound.
THEOREM LogInvariant == Spec => []IndInv
BY InitEstablishes, StepKeeps, PTL DEF Spec

\* The state keeps its shape, and the attempts of an operation never exceed
\* max_retries (retry.py).
THEOREM LogTypeCorrect == Spec => []TypeOK
<1>1. IndInv => TypeOK
  BY DEF IndInv
<1>. QED
  BY <1>1, LogInvariant, PTL

\* No committed offset passes a record that is neither counted nor
\* dead-lettered, through flushes, retries, crashes and rebalance callbacks.
THEOREM LogNoSkip == Spec => []NoSkip
<1>1. IndInv => NoSkip
  BY DEF IndInv, GroupInv
<1>. QED
  BY <1>1, LogInvariant, PTL

\* Each event id is counted once, however many members flush it however often.
THEOREM LogMetricsExact == Spec => []MetricsExact
<1>1. IndInv => MetricsExact
  BY DEF IndInv, GroupInv
<1>. QED
  BY <1>1, LogInvariant, PTL

\* The tracker's pending offsets are the records in memory.
THEOREM LogTrackerMatchesBatch == Spec => []TrackerMatchesBatch
<1>1. IndInv => TrackerMatchesBatch
  <2>. SUFFICES ASSUME IndInv, NEW m \in Members
                PROVE  /\ InMemory(m) \subseteq PendingAt(m)
                       /\ mode[m] \in {"run", "shutdown", "revoke"} => PendingAt(m) \subseteq InMemory(m)
    BY DEF TrackerMatchesBatch
  <2>1. Matches(m) /\ InMemory(m) \subseteq Coordinates
    BY MemberFacts DEF MemberInv, InMemory, ProcessType, Decodable
  <2>2. ASSUME NEW c \in InMemory(m) PROVE c \in PendingAt(m)
    <3>1. c[1] \in Partitions /\ c = <<c[1], c[2]>> /\ c[2] \in tracker[m][c[1]].pending
      BY <2>1, CoordinateShape DEF Matches
    <3>2. c \in {c[1]} \X tracker[m][c[1]].pending
      BY <3>1
    <3>. QED
      BY <3>1, <3>2 DEF PendingAt
  <2>3. ASSUME mode[m] \in {"run", "shutdown", "revoke"}, NEW c \in PendingAt(m)
        PROVE  c \in InMemory(m)
    <3>1. PICK p \in Partitions : c \in {p} \X tracker[m][p].pending
      BY DEF PendingAt
    <3>. QED
      BY <2>1, <2>3, <3>1 DEF Matches
  <2>. QED
    BY <2>2, <2>3
<1>. QED
  BY <1>1, LogInvariant, PTL

-----------------------------------------------------------------------------
(* Partitions handed back. *)

\* The steps that may take a partition from a process.
LEMMA WhoGivesBack ==
  ASSUME Next
  PROVE  \/ assigned' = assigned
         \/ \E m \in Members : Leave(m)
         \/ \E m \in Members : Committable(tracker[m]) = {} /\ HandBack(m)
         \/ \E m \in Members, p \in Partitions : Assign(p, m)
<1>1. ASSUME NEW m \in Members, Close(m) \/ GiveUp(m) \/ OnLost(m)
      PROVE  assigned' = assigned \/ Leave(m)
  BY <1>1 DEF Close, GiveUp, OnLost, BeginFlush, fetch
<1>2. ASSUME NEW m \in Members, Progress(m)
      PROVE  assigned' = assigned \/ Leave(m) \/ (Committable(tracker[m]) = {} /\ HandBack(m))
  <2>1. CASE CommitsDone(m)
    BY <1>1, <2>1 DEF CommitsDone, fetch
  <2>2. CASE ~CommitsDone(m)
    BY <1>1, <1>2, <2>2 DEF Progress, Poll, FlushInterval, Lost, DlqDelivered, InsertMarkers,
         CommitSnapshot, SnapshotRefused, CommitOffset, CommitOffsetFenced, Stop, BeginFlush, fetch
  <2>. QED
    BY <2>1, <2>2
<1>3. ASSUME NEW m \in Members, Failure(m)
      PROVE  assigned' = assigned \/ Leave(m)
  BY <1>1, <1>3 DEF Failure, PollFails, Revoke, DlqFails, TransactionFails, CommitOffsetFails,
                    RequestShutdown, Crash, TryAgain, BeginFlush, fetch
<1>4. ASSUME NEW m \in Members, Evict(m) \/ Restart(m)
      PROVE  assigned' = assigned
  BY <1>4 DEF Evict, Restart, fetch
<1>. QED
  BY <1>2, <1>3, <1>4 DEF Next

LEMMA HandoverStep ==
  ASSUME IndInv, Next, NEW m \in Members, NEW p \in assigned[m] \ assigned'[m],
         stage'[m] = "loop", owner[p] = m
  PROVE  committed[p] = position[m][p]
<1>1. ProcessType /\ MemberInv(m) /\ p \in Partitions /\ committed[p] \in Nat
      /\ position[m][p] \in Nat
  BY MemberFacts DEF ProcessType
<1>2. ASSUME NEW k \in Members, Leave(k) PROVE FALSE
  <2>1. assigned' = [assigned EXCEPT ![k] = {}] /\ stage' = [stage EXCEPT ![k] = "down"]
    BY <1>2 DEF Leave, Unassign
  <2>. QED
    BY <1>1, <2>1 DEF ProcessType
<1>3. ASSUME NEW k \in Members, NEW q \in Partitions, Assign(q, k) PROVE FALSE
  BY <1>1, <1>3 DEF Assign, ProcessType
<1>4. ASSUME NEW k \in Members, Committable(tracker[k]) = {}, HandBack(k), ~Leave(k)
      PROVE  committed[p] = position[m][p]
  <2>1. assigned' = [assigned EXCEPT ![k] = {}] /\ ~HasPending(tracker[k], assigned[k])
    BY <1>4 DEF HandBack, Unassign
  <2>2. k = m
    BY <1>1, <2>1 DEF ProcessType
  <2>3. tracker[m][p].pending = {}
    BY <2>1, <2>2 DEF HasPending
  <2>4. Start(m, p) = position[m][p]
    BY <1>4, <2>2, <2>3, NothingLeft
  <2>. QED
    BY <1>1, <2>4 DEF MemberInv, Owned
<1>. QED
  BY <1>2, <1>3, <1>4, WhoGivesBack

\* on_revoke gives a partition back committed up to the last record polled.
THEOREM LogHandoverExact == Spec => HandoverExact
<1>. DEFINE Exact == \A m \in Members : \A p \in assigned[m] \ assigned'[m] :
                       stage'[m] = "loop" /\ owner[p] = m => committed[p] = position[m][p]
<1>1. IndInv /\ [Next]_vars => [Exact]_vars
  BY HandoverStep
<1>. QED
  BY <1>1, LogInvariant, PTL DEF Spec, HandoverExact

-----------------------------------------------------------------------------
(* The log consumer implements DurableDelivery. *)

\* The abstract specification speaks of the same topic.
LEMMA SameTopic ==
  /\ Delivery!Coordinates = Coordinates /\ Delivery!Decodable = Decodable
  /\ \A c : Delivery!EventAt(c) = EventAt(c)
  /\ \A p, o : Delivery!Before(p, o) = Before(p, o)
  /\ \A c : Delivery!Done(c) <=> Done(c)
  /\ Delivery!AppliedEvents = ProcessedIds
BY DEF Delivery!Coordinates, Coordinates, Delivery!Decodable, Decodable,
       Delivery!Malformed, Malformed, Delivery!EventAt, EventAt, Delivery!RecordAt, RecordAt,
       Delivery!Before, Before, Delivery!Done, Done, Delivery!AppliedEvents, ProcessedIds

LEMMA InitRefines == Init => Delivery!Init
BY DEF Init, Delivery!Init

\* A snapshot transaction is one abstract step: the new events, one record
\* each.
LEMMA WriteRefines ==
  ASSUME IndInv, NEW m \in Members, Write(m), UNCHANGED <<committed, dlq>>
  PROVE  Delivery!Next
<1>. DEFINE S == inserted[m]
<1>1. /\ S \subseteq Decodable /\ OneOfEach(S) /\ EventsOf(S) \cap ProcessedIds = {}
  BY MemberFacts DEF ProcessType, MemberInv, Transaction
<1>2. \A c \in S : EventAt(c) \in Events \ ProcessedIds
  BY <1>1, DecodableEvent DEF EventsOf
<1>3. processed' = processed \cup {<<EventAt(c), c>> : c \in S}
  BY DEF Write
<1>4. Delivery!Apply(S)
  BY <1>1, <1>2, <1>3, SameTopic DEF Delivery!Apply, OneOfEach
<1>. QED
  BY <1>1, <1>4, SameTopic DEF Delivery!Next

\* A dead letter is a rejection of a record that does not decode, or reuses an
\* event id.
LEMMA RejectRefines ==
  ASSUME NEW c \in Malformed \cup Reusing, dlq' = dlq \cup {c}, UNCHANGED <<committed, processed>>
  PROVE  Delivery!Next
BY DEF Delivery!Next, Delivery!Reject

\* An accepted commit moves to a place with nothing undone before it.
LEMMA AcceptRefines ==
  ASSUME IndInv, NEW m \in Members, NEW p, NEW n, <<p, n>> \in Committable(tracker[m]),
         Accept(p, n), UNCHANGED <<processed, dlq>>
  PROVE  Delivery!Next
<1>1. p \in Partitions /\ n \in 0 .. LogEnd[p] /\ \A c \in Before(p, n) : Done(c)
  BY CommittableShape, TopicAssumption
<1>2. Delivery!CommitTo(p, n)
  BY <1>1, SameTopic DEF Delivery!CommitTo, Accept
<1>. QED
  BY <1>1, <1>2 DEF Delivery!Next

LEMMA StepRefines ==
  IndInv /\ [Next]_vars => Delivery!Next \/ UNCHANGED Delivery!dVars
<1>. SUFFICES ASSUME IndInv, [Next]_vars
              PROVE  Delivery!Next \/ UNCHANGED Delivery!dVars
  OBVIOUS
<1>1. ASSUME NEW m \in Members,
             \/ \E p \in Partitions : Poll(m, p)
             \/ FlushInterval(m) \/ Lost(m) \/ InsertMarkers(m) \/ SnapshotRefused(m)
             \/ \E c \in Offsets : CommitOffsetFenced(m, c[1], c[2])
             \/ CommitsDone(m) \/ Stop(m)
             \/ PollFails(m) \/ Revoke(m) \/ RequestShutdown(m) \/ Crash(m)
             \/ Evict(m) \/ Restart(m)
             \/ \E p \in Partitions : Assign(p, m)
      PROVE  UNCHANGED Delivery!dVars
  BY <1>1 DEF Poll, FlushInterval, Lost, InsertMarkers, SnapshotRefused, CommitOffsetFenced,
              CommitsDone, Stop, PollFails, Revoke, RequestShutdown, Crash, Evict, Restart,
              Assign, group, tables, Delivery!dVars
<1>2. ASSUME NEW m \in Members, DlqDelivered(m) \/ DlqFails(m)
      PROVE  Delivery!Next \/ UNCHANGED Delivery!dVars
  <2>1. current[m] \in Malformed \cup Reusing
    BY <1>2, MemberFacts DEF DlqDelivered, DlqFails, MemberInv, Holding
  <2>2. /\ UNCHANGED <<committed, processed>>
        /\ dlq' = dlq \/ dlq' = dlq \cup {current[m]}
    BY <1>2 DEF DlqDelivered, DlqFails, group, tables
  <2>. QED
    BY <2>1, <2>2, RejectRefines DEF Delivery!dVars
<1>3. ASSUME NEW m \in Members, CommitSnapshot(m) \/ TransactionFails(m)
      PROVE  Delivery!Next \/ UNCHANGED Delivery!dVars
  <2>1. UNCHANGED <<committed, dlq>> /\ (Write(m) \/ UNCHANGED processed)
    BY <1>3 DEF CommitSnapshot, TransactionFails, tables
  <2>. QED
    BY <2>1, WriteRefines DEF Delivery!dVars
<1>4. ASSUME NEW m \in Members, NEW p, NEW n, CommitOffset(m, p, n) \/ CommitOffsetFails(m, p, n)
      PROVE  Delivery!Next \/ UNCHANGED Delivery!dVars
  <2>1. /\ <<p, n>> \in Committable(tracker[m]) /\ UNCHANGED <<processed, dlq>>
        /\ Accept(p, n) \/ committed' = committed
    BY <1>4 DEF CommitOffset, CommitOffsetFails, tables
  <2>. QED
    BY <2>1, AcceptRefines DEF Delivery!dVars
<1>5. CASE UNCHANGED vars
  BY <1>5 DEF vars, group, tables, Delivery!dVars
<1>. QED
  BY <1>1, <1>2, <1>3, <1>4, <1>5 DEF Next, Progress, Failure

\* Every behaviour of the log consumer group is one of the abstract delivery
\* specification: effects once and for ever, offsets only past done records.
THEOREM LogImplementsDelivery == Spec => DeliverySpec
<1>1. IndInv /\ [Next]_vars => [Delivery!Next]_(Delivery!dVars)
  BY StepRefines
<1>. QED
  BY <1>1, InitRefines, LogInvariant, PTL DEF Spec, DeliverySpec, Delivery!Spec
=============================================================================

---------------------------- MODULE OffsetTracker ----------------------------
(***************************************************************************)
(* ContiguousOffsetTracker (consumer/offsets.py): which polled offsets of  *)
(* each partition are durable, and how far a commit may go.                *)
(*                                                                         *)
(* A tracker maps each partition to a _PartitionState: the next offset to  *)
(* commit, and the offsets dict split into the pending ones (False) and    *)
(* the completed ones (True).  A partition absent from _states is          *)
(* Forgotten.                                                              *)
(***************************************************************************)
EXTENDS TopicLog

Untracked == -1
Forgotten == [next |-> Untracked, pending |-> {}, completed |-> {}]
EmptyTracker == [p \in Partitions |-> Forgotten]

PartitionStates == [next : Nat \cup {Untracked}, pending : SUBSET Nat, completed : SUBSET Nat]
Trackers == [Partitions -> PartitionStates]

OffsetsOf(C, p) == {c[2] : c \in {d \in C : d[1] = p}}

\* observe: the first offset polled is where commits start.
Observe(t, c) ==
  LET s == IF t[c[1]].next = Untracked THEN [t[c[1]] EXCEPT !.next = c[2]] ELSE t[c[1]]
      new == IF c[2] >= s.next THEN {c[2]} \ s.completed ELSE {}
  IN  [t EXCEPT ![c[1]] = [s EXCEPT !.pending = @ \cup new]]

\* complete_many; complete raises for an offset the tracker does not hold,
\* which TrackerMatchesBatch of LogConsumer shows never happens.
Complete(t, C) ==
  [p \in Partitions |->
     [t[p] EXCEPT !.pending = @ \ OffsetsOf(C, p),
                  !.completed = @ \cup (OffsetsOf(C, p) \cap t[p].pending)]]

\* Bug: the highest completed offset, whatever is pending below it.
CommittableHighest(t) ==
  UNION {{p} \X {n \in 1 .. LogEnd[p] :
                   /\ n > t[p].next
                   /\ n - 1 \in t[p].completed
                   /\ \A o \in t[p].completed : o < n} : p \in Partitions}

\* committable: for each partition with something to commit, the first offset
\* that is not completed.
Committable(t) ==
  UNION {{p} \X {n \in 1 .. LogEnd[p] :
                   /\ n > t[p].next
                   /\ \A o \in t[p].next .. (n - 1) : o \in t[p].completed
                   /\ n \notin t[p].completed} : p \in Partitions}

\* acknowledge_commit
Acknowledge(t, p, n) ==
  [t EXCEPT ![p] = [next |-> n,
                    pending |-> {o \in t[p].pending : o >= n},
                    completed |-> {o \in t[p].completed : o >= n}]]

\* Bug: revoked state is kept.
ForgetNothing(t, P) == t

\* forget
Forget(t, P) == [p \in Partitions |-> IF p \in P THEN Forgotten ELSE t[p]]

\* has_pending
HasPending(t, P) == \E p \in P : t[p].pending # {}
=============================================================================

-------------------------- MODULE MCOrderConsumer --------------------------
(* Small instances of OrderConsumer for TLC. *)
EXTENDS OrderConsumer, TLC

CONSTANTS m1, m2, none, noRecord, e1, e2, noEvent, d

V(e) == [kind |-> "valid", event |-> e, data |-> d]
U(e) == [kind |-> "unstorable", event |-> e, data |-> d]
Bad == [kind |-> "malformed", event |-> noEvent, data |-> d]

\* Event e1 arrives twice, on both partitions; a malformed record stands
\* between two valid ones; an unstorable one closes a partition.
SafetyEnd == "p0" :> 3 @@ "p1" :> 2
SafetyLog == "p0" :> (0 :> V(e1) @@ 1 :> Bad @@ 2 :> V(e1))
          @@ "p1" :> (0 :> V(e1) @@ 1 :> U(e2))

LiveEnd == "p0" :> 3
LiveLog == "p0" :> (0 :> V(e1) @@ 1 :> Bad @@ 2 :> V(e2))

PoisonEnd == "p0" :> 2
PoisonLog == "p0" :> (0 :> U(e1) @@ 1 :> V(e2))

MemberSymmetry == Permutations(Members)

\* docs/reliability.md:46 "Poison message must not block a partition
\* forever": the records behind one that PostgreSQL refuses get done.
PoisonNeverBlocks == \A c \in Coordinates \ Unstorable : <>Done(c)
=============================================================================

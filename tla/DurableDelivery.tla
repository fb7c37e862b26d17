-------------------------- MODULE DurableDelivery --------------------------
(***************************************************************************)
(* What a consumer of this platform promises, whatever its threads,        *)
(* retries and crashes: the abstract specification that OrderConsumer and  *)
(* LogConsumer are shown to implement (docs/reliability.md, "Delivery").   *)
(*                                                                         *)
(*   applied    the effects in PostgreSQL, one <<event id, coordinate>>    *)
(*              per event whose data has been written;                     *)
(*   rejected   the coordinates with a record in the dead-letter topic;    *)
(*   committed  the committed next offset of each partition.               *)
(*                                                                         *)
(* Effects are never undone and an event takes effect once; an offset may  *)
(* move (also backwards) only to a place with nothing undone before it.    *)
(***************************************************************************)
EXTENDS TopicLog

CONSTANT Rejectable     \* the coordinates a consumer may dead-letter

VARIABLES committed, applied, rejected

dVars == <<committed, applied, rejected>>

AppliedEvents == {a[1] : a \in applied}

\* A record needs no more work: it is in the dead-letter topic or its event
\* has taken effect (through this record or through another copy of it).
Done(c) == c \in rejected \/ EventAt(c) \in AppliedEvents

Init ==
  /\ committed = [p \in Partitions |-> 0]
  /\ applied = {}
  /\ rejected = {}

\* One database transaction gives effect to a set of records with distinct,
\* new event ids.
Apply(S) ==
  /\ \A c \in S : EventAt(c) \in Events \ AppliedEvents
  /\ \A c, d \in S : EventAt(c) = EventAt(d) => c = d
  /\ applied' = applied \cup {<<EventAt(c), c>> : c \in S}
  /\ UNCHANGED <<committed, rejected>>

Reject(c) ==
  /\ rejected' = rejected \cup {c}
  /\ UNCHANGED <<committed, applied>>

CommitTo(p, n) ==
  /\ \A c \in Before(p, n) : Done(c)
  /\ committed' = [committed EXCEPT ![p] = n]
  /\ UNCHANGED <<applied, rejected>>

Next ==
  \/ \E S \in SUBSET Decodable : Apply(S)
  \/ \E c \in Rejectable : Reject(c)
  \/ \E p \in Partitions : \E n \in 0 .. LogEnd[p] : CommitTo(p, n)

Spec == Init /\ [][Next]_dVars
=============================================================================

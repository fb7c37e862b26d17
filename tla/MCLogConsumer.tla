--------------------------- MODULE MCLogConsumer ---------------------------
(* Small instances of LogConsumer for TLC. *)
EXTENDS LogConsumer, TLC

CONSTANTS m1, m2, none, noRecord, e1, e2, noEvent, d1, d2

V(e, d) == [kind |-> "valid", event |-> e, data |-> d]
U(e, d) == [kind |-> "unstorable", event |-> e, data |-> d]
Bad == [kind |-> "malformed", event |-> noEvent, data |-> d1]

\* Event e1 comes twice on p0, around a malformed record, and on p1 with other
\* data that PostgreSQL refuses: rejected beside a buffered e1, refused when
\* flushed first, a duplicate once e1 is counted.
SafetyEnd == "p0" :> 3 @@ "p1" :> 1
SafetyLog == "p0" :> (0 :> V(e1, d1) @@ 1 :> Bad @@ 2 :> V(e1, d1))
          @@ "p1" :> (0 :> U(e1, d2))

LiveEnd == "p0" :> 3
LiveLog == "p0" :> (0 :> V(e1, d1) @@ 1 :> Bad @@ 2 :> V(e2, d1))

MemberSymmetry == Permutations(Members)
=============================================================================

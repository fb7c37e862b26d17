-------------------------- MODULE ProducerDelivery --------------------------
(***************************************************************************)
(* The event generator's producer: GeneratorRunner.run sending the planned *)
(* records through TrackedKafkaProducer, librdkafka delivering them in the *)
(* background, and DeliveryTracker accounting for every outcome until the  *)
(* report is written.  Records are numbered by their tracker token.        *)
(*                                                                         *)
(* The client library enqueues delivery reports from its own threads; they *)
(* run on the generator's only thread, inside poll and flush, which serve  *)
(* the reports present when they are called.                               *)
(*                                                                         *)
(* Stages:                                                                 *)
(*   next      at the head of run's loop                                   *)
(*   produce   attempt begun, record not accepted by the library yet       *)
(*   poll      accepted, in poll(0.0)                                      *)
(*   full      refused by a full queue, in poll(0.0)                       *)
(*   flush     in the client's flush(30.0)                                 *)
(*   report    flush done and the unconfirmed failed, report to write      *)
(*   exited    process gone                                                *)
(***************************************************************************)
EXTENDS OffsetRanges

CONSTANTS Planned,      \* options.planned_events
          Partitions,   \* the partitions the records go to
          Route,        \* Route[t], the partition of record t
          QueueLimit,   \* the library's queue.buffering.max.messages
          MaxBackoffs,  \* len(QUEUE_FULL_BACKOFF_SECONDS)
          MaxFaults

ASSUME ProducerAssumption ==
  /\ Planned \in Nat
  /\ Route \in [0 .. (Planned - 1) -> Partitions]
  /\ QueueLimit \in Nat \ {0}
  /\ MaxBackoffs \in Nat
  /\ MaxFaults \in Nat

VARIABLES stage, tries,
          attempted,    \* records begun; the next token
          pending,      \* tokens without an outcome
          delivered, failed,
          ranges,       \* per partition: delivered offset ranges
          queue,        \* tokens the library has not answered
          acks,         \* <<token, offset>> appended, the answer under way
          reports,      \* <<token, offset>> or <<token, NoOffset>>, to be served
          batch,        \* the reports the current poll or flush took
          log,          \* per partition: tokens in the order appended
          written,      \* the report file exists
          faults

runner == <<stage, tries, written>>
tracker == <<attempted, pending, delivered, failed, ranges>>
library == <<queue, acks, reports, batch>>
vars == <<runner, tracker, library, log, faults>>

Tokens == 0 .. (Planned - 1)
NoOffset == -1
Stages == {"next", "produce", "poll", "full", "flush", "report", "exited"}

Init ==
  /\ stage = "next" /\ tries = 0 /\ written = FALSE
  /\ attempted = 0 /\ pending = {} /\ delivered = 0 /\ failed = 0
  /\ ranges = [p \in Partitions |-> <<>>]
  /\ queue = {} /\ acks = {} /\ reports = <<>> /\ batch = <<>>
  /\ log = [p \in Partitions |-> <<>>]
  /\ faults = 0

Fault == faults < MaxFaults /\ faults' = faults + 1

-----------------------------------------------------------------------------
(* DeliveryTracker. *)

BeginAttempt ==
  /\ attempted' = attempted + 1
  /\ pending' = pending \cup {attempted}
  /\ UNCHANGED <<delivered, failed, ranges>>

Delivered(t, o) ==
  /\ IF t \in pending
     THEN /\ pending' = pending \ {t}
          /\ delivered' = delivered + 1
          /\ ranges' = [ranges EXCEPT ![Route[t]] = InsertOffset(@, o)]
     ELSE UNCHANGED <<pending, delivered, ranges>>
  /\ UNCHANGED <<attempted, failed>>

Failed(t) ==
  /\ IF t \in pending
     THEN pending' = pending \ {t} /\ failed' = failed + 1
     ELSE UNCHANGED <<pending, failed>>
  /\ UNCHANGED <<attempted, delivered, ranges>>

\* Mutant: counted but not cleared.
FailPendingKept ==
  /\ failed' = failed + Cardinality(pending)
  /\ UNCHANGED <<attempted, pending, delivered, ranges>>

FailPending ==
  /\ failed' = failed + Cardinality(pending)
  /\ pending' = {}
  /\ UNCHANGED <<attempted, delivered, ranges>>

-----------------------------------------------------------------------------
(* TrackedKafkaProducer.send and flush, GeneratorRunner.run. *)

Begin ==
  /\ stage = "next" /\ attempted < Planned
  /\ BeginAttempt
  /\ stage' = "produce" /\ tries' = 0
  /\ UNCHANGED <<written, library, log, faults>>

\* Unanswered records and unserved reports all count against the queue's limit.
HasRoom == Cardinality(queue) + Len(reports) + Len(batch) < QueueLimit

TakeReports == batch' = reports /\ reports' = <<>>

Produce ==
  /\ stage = "produce" /\ HasRoom
  /\ queue' = queue \cup {attempted - 1}
  /\ TakeReports
  /\ stage' = "poll"
  /\ UNCHANGED <<tries, written, tracker, acks, log, faults>>

QueueFull ==
  /\ stage = "produce" /\ ~HasRoom
  /\ TakeReports
  /\ stage' = "full"
  /\ UNCHANGED <<tries, written, tracker, queue, acks, log, faults>>

\* on_delivery, for the next report of the poll or flush in progress.
OnDelivery ==
  /\ stage \in {"poll", "full", "flush"} /\ batch # <<>>
  /\ LET t == Head(batch)[1]
         o == Head(batch)[2]
     IN IF o = NoOffset THEN Failed(t) ELSE Delivered(t, o)
  /\ batch' = Tail(batch)
  /\ UNCHANGED <<runner, queue, acks, reports, log, faults>>

Sent ==
  /\ stage = "poll" /\ batch = <<>>
  /\ stage' = "next"
  /\ UNCHANGED <<tries, written, tracker, library, log, faults>>

\* Mutant: no bound on the schedule.
BackOffUnbounded ==
  /\ stage = "full" /\ batch = <<>>
  /\ stage' = "produce" /\ tries' = tries + 1
  /\ UNCHANGED <<written, tracker, library, log, faults>>

\* Mutant: the attempt is not counted.
BackOffForever ==
  /\ stage = "full" /\ batch = <<>> /\ tries < MaxBackoffs
  /\ stage' = "produce"
  /\ UNCHANGED <<tries, written, tracker, library, log, faults>>

BackOff ==
  /\ stage = "full" /\ batch = <<>> /\ tries < MaxBackoffs
  /\ stage' = "produce" /\ tries' = tries + 1
  /\ UNCHANGED <<written, tracker, library, log, faults>>

QueueStayedFull ==
  /\ stage = "full" /\ batch = <<>> /\ tries = MaxBackoffs
  /\ Failed(attempted - 1)
  /\ stage' = "next"
  /\ UNCHANGED <<tries, written, library, log, faults>>

\* The loop ends; run's finally calls flush.
Finish ==
  /\ stage = "next" /\ attempted = Planned
  /\ stage' = "flush"
  /\ UNCHANGED <<tries, written, tracker, library, log, faults>>

\* produce raises something else than BufferError, or Ctrl+C interrupts the
\* loop: the poll under way puts back what it has not served, and the finally
\* clause still flushes.
Abort ==
  /\ stage \in {"next", "produce", "poll", "full"} /\ Fault
  /\ stage' = "flush"
  /\ reports' = batch \o reports /\ batch' = <<>>
  /\ UNCHANGED <<tries, written, tracker, queue, acks, log>>

FlushServes ==
  /\ stage = "flush" /\ batch = <<>> /\ reports # <<>>
  /\ TakeReports
  /\ UNCHANGED <<runner, tracker, queue, acks, log, faults>>

\* Nothing outstanding or 30 seconds over; fail_pending settles the rest.
FlushReturns ==
  /\ stage = "flush" /\ batch = <<>>
  /\ FailPending
  /\ stage' = "report"
  /\ UNCHANGED <<tries, written, library, log, faults>>

\* Ctrl+C in the finally clause itself: KeyboardInterrupt leaves it, from a
\* callback or from the client's flush as it returns, and main exits with 130.
EndInterrupted ==
  /\ stage \in {"flush", "report"} /\ Fault
  /\ stage' = "exited"
  /\ UNCHANGED <<tries, written, tracker, library, log>>

WriteReport ==
  /\ stage = "report"
  /\ written' = TRUE /\ stage' = "exited"
  /\ UNCHANGED <<tries, tracker, library, log, faults>>

-----------------------------------------------------------------------------
(* librdkafka and the broker, while the process lives. *)

\* The broker appends the record; its answer is on the way.
BrokerAppends(t) ==
  /\ stage # "exited" /\ t \in queue /\ \A a \in acks : a[1] # t
  /\ LET p == Route[t]
     IN /\ log' = [log EXCEPT ![p] = Append(@, t)]
        /\ acks' = acks \cup {<<t, Len(log[p])>>}
  /\ UNCHANGED <<runner, tracker, queue, reports, batch, faults>>

\* Answers of different connections arrive in any order.
BrokerAnswers(a) ==
  /\ stage # "exited" /\ a \in acks
  /\ acks' = acks \ {a} /\ queue' = queue \ {a[1]}
  /\ reports' = Append(reports, a)
  /\ UNCHANGED <<runner, tracker, batch, log, faults>>

\* The answer is lost and the library sends the record again: without
\* enable.idempotence, a second copy.
AnswerLost(a) ==
  /\ stage # "exited" /\ a \in acks /\ Fault
  /\ acks' = acks \ {a}
  /\ UNCHANGED <<runner, tracker, queue, reports, batch, log>>

\* The library gives up on a record, whether or not the broker has it.
Expires(t) ==
  /\ stage # "exited" /\ t \in queue /\ Fault
  /\ queue' = queue \ {t} /\ acks' = {a \in acks : a[1] # t}
  /\ reports' = Append(reports, <<t, NoOffset>>)
  /\ UNCHANGED <<runner, tracker, batch, log>>

-----------------------------------------------------------------------------
Program ==
  \/ Begin \/ Produce \/ QueueFull \/ OnDelivery \/ Sent \/ BackOff
  \/ QueueStayedFull \/ Finish \/ FlushServes \/ FlushReturns \/ WriteReport

Library ==
  \/ \E t \in Tokens : BrokerAppends(t)
  \/ \E a \in acks : BrokerAnswers(a)

Failure ==
  \/ Abort \/ EndInterrupted
  \/ \E a \in acks : AnswerLost(a)
  \/ \E t \in Tokens : Expires(t)

Next == Program \/ Library \/ Failure

Spec == Init /\ [][Next]_vars

\* Only the generator's own thread is fair: the broker may never answer.
FairSpec == Spec /\ WF_vars(Program)

-----------------------------------------------------------------------------
(* Properties. *)

\* Every variable has its type, and the backoffs stay within the schedule.
TypeOK ==
  /\ stage \in Stages /\ tries \in 0 .. MaxBackoffs /\ written \in BOOLEAN
  /\ attempted \in 0 .. Planned /\ pending \subseteq Tokens
  /\ delivered \in Nat /\ failed \in Nat
  /\ ranges \in [Partitions -> Seq(Nat \X Nat)]
  /\ queue \subseteq Tokens /\ acks \subseteq Tokens \X Nat
  /\ reports \in Seq(Tokens \X (Nat \cup {NoOffset}))
  /\ batch \in Seq(Tokens \X (Nat \cup {NoOffset}))
  /\ log \in [Partitions -> Seq(Tokens)]
  /\ faults \in 0 .. MaxFaults

\* Every record begun has exactly one outcome or is pending, whatever is served
\* late, lost, given up or interrupted; and nothing is pending in a report.
Accounting ==
  /\ attempted = delivered + failed + Cardinality(pending)
  /\ written => pending = {}

\* The delivered ranges are exactly the confirmed deliveries: as many offsets
\* as the delivered counter says, and on each of them a record of its own,
\* even when the topic holds second copies of it.
RangesExact ==
  LET Copies == UNION {{<<p, o>> : o \in Covered(ranges[p])} : p \in Partitions}
      At(c) == log[c[1]][c[2] + 1]
  IN /\ Cardinality(Copies) = delivered
     /\ \A c \in Copies : c[2] < Len(log[c[1]]) /\ At(c) \notin pending
     /\ \A c, d \in Copies : At(c) = At(d) => c = d

\* The list of each partition is the canonical one: what the benchmark sums
\* are its lengths, so no two of its ranges may overlap or touch.
RangesCanonical ==
  \A p \in Partitions :
    /\ Canonical(ranges[p])
    /\ TotalLength(ranges[p]) = Cardinality(Covered(ranges[p]))

\* docs/reliability.md:16 "bounded backoff, not retried without end": the run
\* comes to its end even if the broker never answers.
EventuallyEnds == <>(stage = "exited")
=============================================================================

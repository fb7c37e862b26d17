----------------------- MODULE ProducerDeliveryProofs -----------------------
(***************************************************************************)
(* The producer's accounting and its delivered ranges, for any number of   *)
(* records and partitions, any queue limit, any schedule and any number of *)
(* faults.                                                                 *)
(***************************************************************************)
EXTENDS ProducerDelivery, OffsetRangesProofs

\* The counters add up; only begun records are pending; and from fail_pending
\* on nothing is, which is why the written report is settled.
AccountingInv ==
  /\ attempted \in Nat /\ delivered \in Nat /\ failed \in Nat
  /\ pending \subseteq 0 .. (attempted - 1)
  /\ attempted = delivered + failed + Cardinality(pending)
  /\ stage = "report" => pending = {}
  /\ written => stage = "exited" /\ pending = {}

\* pending is finite, having an interval around it.
LEMMA PendingFinite ==
  ASSUME AccountingInv
  PROVE  IsFiniteSet(pending) /\ Cardinality(pending) \in Nat
<1>1. IsFiniteSet(0 .. (attempted - 1))
  BY FS_Interval DEF AccountingInv
<1> QED
  BY <1>1, FS_Subset, FS_CardinalityType DEF AccountingInv

\* DeliveryTracker.begin_attempt gives a token nobody holds.
LEMMA BeginCounts ==
  ASSUME AccountingInv, BeginAttempt
  PROVE  /\ attempted' \in Nat /\ delivered' \in Nat /\ failed' \in Nat
         /\ pending' \subseteq 0 .. (attempted' - 1)
         /\ attempted' = delivered' + failed' + Cardinality(pending')
<1>0. IsFiniteSet(pending) /\ Cardinality(pending) \in Nat
  BY PendingFinite
<1>1. attempted \notin pending
  BY DEF AccountingInv
<1>2. Cardinality(pending') = Cardinality(pending) + 1
  BY <1>0, <1>1, FS_AddElement DEF BeginAttempt
<1>3. ASSUME NEW t \in pending'
      PROVE  t \in 0 .. (attempted' - 1)
  <2>1. attempted \in Nat /\ attempted' = attempted + 1
    BY DEF AccountingInv, BeginAttempt
  <2>2. t \in 0 .. (attempted - 1) \/ t = attempted
    BY DEF AccountingInv, BeginAttempt
  <2> QED
    BY <2>1, <2>2
<1>4. attempted' = delivered' + failed' + Cardinality(pending')
  <2>1. /\ attempted' = attempted + 1 /\ delivered' = delivered /\ failed' = failed
        /\ attempted = delivered + failed + Cardinality(pending)
        /\ attempted \in Nat /\ delivered \in Nat /\ failed \in Nat
    BY DEF AccountingInv, BeginAttempt
  <2> QED
    BY <1>0, <1>2, <2>1
<1>5. pending' \subseteq 0 .. (attempted' - 1)
  BY <1>3
<1>6. attempted' \in Nat /\ delivered' \in Nat /\ failed' \in Nat
  BY DEF AccountingInv, BeginAttempt
<1> QED
  BY <1>4, <1>5, <1>6

\* An outcome moves one token from pending into one counter, and an outcome
\* for a token that has one changes nothing.
LEMMA OutcomeCounts ==
  ASSUME AccountingInv, NEW t, NEW o, Failed(t) \/ Delivered(t, o)
  PROVE  /\ attempted' \in Nat /\ delivered' \in Nat /\ failed' \in Nat
         /\ pending' \subseteq pending
         /\ pending' \subseteq 0 .. (attempted' - 1)
         /\ attempted' = delivered' + failed' + Cardinality(pending')
<1>0. IsFiniteSet(pending) /\ Cardinality(pending) \in Nat
  BY PendingFinite
<1>1. CASE t \in pending
  <2>1. Cardinality(pending \ {t}) = Cardinality(pending) - 1
    BY <1>0, <1>1, FS_RemoveElement
  <2>2. pending' = pending \ {t} /\ attempted' = attempted
    BY <1>1 DEF Failed, Delivered
  <2>3. \/ delivered' = delivered + 1 /\ failed' = failed
        \/ delivered' = delivered /\ failed' = failed + 1
    BY <1>1 DEF Failed, Delivered
  <2>4. /\ attempted = delivered + failed + Cardinality(pending)
        /\ attempted \in Nat /\ delivered \in Nat /\ failed \in Nat
    BY DEF AccountingInv
  <2>5. attempted' = delivered' + failed' + Cardinality(pending')
    <3>1. Cardinality(pending') = Cardinality(pending) - 1
      BY <2>1, <2>2
    <3> QED
      BY <1>0, <2>2, <2>3, <2>4, <3>1
  <2>6. pending' \subseteq 0 .. (attempted' - 1)
    BY <2>2 DEF AccountingInv
  <2> QED
    BY <2>2, <2>3, <2>4, <2>5, <2>6
<1>2. CASE t \notin pending
  BY <1>2 DEF AccountingInv, Failed, Delivered
<1> QED
  BY <1>1, <1>2

\* DeliveryTracker.fail_pending leaves nothing without an outcome.
LEMMA FailPendingCounts ==
  ASSUME AccountingInv, FailPending
  PROVE  /\ attempted' \in Nat /\ delivered' \in Nat /\ failed' \in Nat
         /\ pending' = {}
         /\ attempted' = delivered' + failed' + Cardinality(pending')
<1>1. Cardinality({}) = 0
  BY FS_EmptySet
<1>2. Cardinality(pending) \in Nat
  BY PendingFinite
<1> QED
  BY <1>1, <1>2 DEF AccountingInv, FailPending

\* Every step of the generator, the library and the broker keeps the sum.
LEMMA AccountingStep ==
  ASSUME AccountingInv, Next \/ UNCHANGED vars
  PROVE  AccountingInv'
<1>1. CASE Begin
  <2>1. BeginAttempt /\ stage = "next" /\ stage' = "produce" /\ written' = written
    BY <1>1 DEF Begin
  <2> QED
    BY <2>1, BeginCounts DEF AccountingInv
<1>2. CASE OnDelivery
  <2>1. PICK t, o : Failed(t) \/ Delivered(t, o)
    BY <1>2 DEF OnDelivery
  <2>2. stage \in {"poll", "full", "flush"} /\ stage' = stage /\ written' = written
    BY <1>2 DEF OnDelivery, runner
  <2> QED
    BY <2>1, <2>2, OutcomeCounts DEF AccountingInv
<1>3. CASE QueueStayedFull
  <2>1. Failed(attempted - 1) \/ Delivered(attempted - 1, NoOffset)
    BY <1>3 DEF QueueStayedFull
  <2>2. stage = "full" /\ stage' = "next" /\ written' = written
    BY <1>3 DEF QueueStayedFull
  <2> QED
    BY <2>1, <2>2, OutcomeCounts DEF AccountingInv
<1>4. CASE FlushReturns
  <2>1. FailPending /\ stage = "flush" /\ stage' = "report" /\ written' = written
    BY <1>4 DEF FlushReturns
  <2> QED
    BY <2>1, FailPendingCounts DEF AccountingInv
<1>5. CASE WriteReport
  BY <1>5 DEF WriteReport, tracker, AccountingInv
<1>6. CASE Produce \/ QueueFull \/ Sent \/ BackOff \/ Finish \/ Abort
  <2>1. /\ UNCHANGED tracker /\ written' = written
        /\ stage \in {"next", "produce", "poll", "full"}
        /\ stage' # "report"
    BY <1>6 DEF Produce, QueueFull, Sent, BackOff, Finish, Abort, tracker
  <2> QED
    BY <2>1 DEF tracker, AccountingInv
<1>7. CASE EndInterrupted
  BY <1>7 DEF EndInterrupted, tracker, AccountingInv
<1>8. CASE FlushServes \/ Library \/ (\E a \in acks : AnswerLost(a))
             \/ (\E t \in Tokens : Expires(t)) \/ UNCHANGED vars
  <2>1. UNCHANGED <<runner, tracker>>
    BY <1>8 DEF FlushServes, Library, BrokerAppends, BrokerAnswers, AnswerLost,
                Expires, vars
  <2> QED
    BY <2>1 DEF runner, tracker, AccountingInv
<1> QED
  BY <1>1, <1>2, <1>3, <1>4, <1>5, <1>6, <1>7, <1>8 DEF Next, Program, Failure

\* Whatever the broker, the library, the queue and Ctrl+C do, attempted is
\* delivered plus failed plus pending, and a written report has none pending.
THEOREM ProducerAccounting == Spec => []Accounting
<1>1. Init => AccountingInv
  BY FS_EmptySet DEF Init, AccountingInv
<1>2. AccountingInv /\ [Next]_vars => AccountingInv'
  BY AccountingStep
<1>3. AccountingInv => Accounting
  BY DEF AccountingInv, Accounting
<1> QED
  BY <1>1, <1>2, <1>3, PTL DEF Spec

-----------------------------------------------------------------------------
(* Types, and what an answer of the library says of the log. *)

Answers == Tokens \X (Nat \cup {NoOffset})

\* An answer with an offset names a record that is there: its own.
TrueAnswer(a) ==
  a[2] # NoOffset => /\ a[2] < Len(log[Route[a[1]]])
                     /\ log[Route[a[1]]][a[2] + 1] = a[1]

\* The types; a record in a callback, at the broker or in the topic has been
\* begun; a backed-off record is the last one begun.
TypeInv ==
  /\ stage \in Stages /\ tries \in 0 .. MaxBackoffs /\ written \in BOOLEAN
  /\ attempted \in 0 .. Planned
  /\ stage \in {"produce", "full"} => attempted # 0
  /\ queue \subseteq 0 .. (attempted - 1)
  /\ acks \subseteq (0 .. (attempted - 1)) \X Nat
  /\ reports \in Seq(Answers) /\ batch \in Seq(Answers)
  /\ log \in [Partitions -> Seq(Tokens)]
  /\ \A p \in Partitions : \A i \in 1 .. Len(log[p]) : log[p][i] < attempted
  /\ faults \in 0 .. MaxFaults

Entries(s) == {s[i] : i \in 1 .. Len(s)}
Told == acks \cup Entries(reports) \cup Entries(batch)
AnswerInv == \A a \in Told : TrueAnswer(a)

\* The delivered offsets, as RangesExact counts them.
Copies == UNION {{<<p, o>> : o \in Covered(ranges[p])} : p \in Partitions}

\* The ranges: canonical; on each offset a settled record; no record twice;
\* as many as were delivered.
CopyInv ==
  /\ ranges \in [Partitions -> Seq(Nat \X Nat)]
  /\ \A p \in Partitions : Ascending(ranges[p])
  /\ \A p \in Partitions : \A o \in Covered(ranges[p]) :
       o \in Nat /\ o < Len(log[p]) /\ log[p][o + 1] \notin pending
  /\ \A p, q \in Partitions : \A o \in Covered(ranges[p]), u \in Covered(ranges[q]) :
       log[p][o + 1] = log[q][u + 1] => p = q /\ o = u
  /\ IsFiniteSet(Copies) /\ Cardinality(Copies) = delivered

\* What Next can do to the log, as one fact: it keeps what it holds.
LogGrows ==
  \A p \in Partitions :
    /\ Len(log'[p]) >= Len(log[p])
    /\ \A i \in 1 .. Len(log[p]) : log'[p][i] = log[p][i]

LEMMA LogIs ==
  ASSUME TypeInv, NEW p \in Partitions
  PROVE  /\ log[p] \in Seq(Tokens) /\ Len(log[p]) \in Nat
         /\ \A i \in 1 .. Len(log[p]) : log[p][i] \in Tokens /\ log[p][i] < attempted
<1>1. log[p] \in Seq(Tokens)
  BY DEF TypeInv
<1>2. Len(log[p]) \in Nat
  BY <1>1, LenProperties
<1>3. \A i \in 1 .. Len(log[p]) : log[p][i] \in Tokens
  BY <1>1, ElementOfSeq
<1> QED
  BY <1>1, <1>2, <1>3 DEF TypeInv

LEMMA BegunIsToken ==
  ASSUME TypeInv
  PROVE  0 .. (attempted - 1) \subseteq Tokens
BY ProducerAssumption DEF TypeInv, Tokens

\* The broker appends behind what the log holds.
LEMMA BrokerAppendsAtEnd ==
  ASSUME TypeInv, NEW t \in Tokens, BrokerAppends(t)
  PROVE  /\ Route[t] \in Partitions
         /\ log' \in [Partitions -> Seq(Tokens)]
         /\ LogGrows
         /\ \A p \in Partitions : \A i \in 1 .. Len(log'[p]) :
              log'[p][i] = t \/ (i \in 1 .. Len(log[p]) /\ log'[p][i] = log[p][i])
         /\ Len(log[Route[t]]) \in Nat
         /\ Len(log[Route[t]]) < Len(log'[Route[t]])
         /\ log'[Route[t]][Len(log[Route[t]]) + 1] = t
<1> DEFINE r == Route[t]
           L == log[r]
           A == Append(L, t)
<1>1. r \in Partitions
  BY ProducerAssumption DEF Tokens
<1>2. L \in Seq(Tokens) /\ Len(L) \in Nat
  BY <1>1, LogIs
<1>3. /\ A \in Seq(Tokens) /\ Len(A) = Len(L) + 1
      /\ \A i \in 1 .. Len(L) : A[i] = L[i]
      /\ A[Len(L) + 1] = t
  <2> HIDE DEF L
  <2> QED
    BY <1>2, AppendProperties
<1>4. log' = [log EXCEPT ![r] = A]
  BY DEF BrokerAppends
<1>5. log \in [Partitions -> Seq(Tokens)]
  BY DEF TypeInv
<1> HIDE DEF A
<1>6. log' \in [Partitions -> Seq(Tokens)] /\ log'[r] = A
  BY <1>1, <1>3, <1>4, <1>5
<1>7. \A p \in Partitions : p # r => log'[p] = log[p]
  BY <1>4, <1>5
<1>8. ASSUME NEW p \in Partitions
      PROVE  /\ Len(log'[p]) >= Len(log[p])
             /\ \A i \in 1 .. Len(log[p]) : log'[p][i] = log[p][i]
             /\ \A i \in 1 .. Len(log'[p]) :
                  log'[p][i] = t \/ (i \in 1 .. Len(log[p]) /\ log'[p][i] = log[p][i])
  <2>1. Len(log[p]) \in Nat
    BY LogIs
  <2>2. CASE p = r
    <3>1. log'[p] = A /\ log[p] = L
      BY <1>6, <2>2
    <3> HIDE DEF L
    <3>2. \A i \in 1 .. Len(A) : i = Len(L) + 1 \/ i \in 1 .. Len(L)
      BY <1>2, <1>3
    <3>3. Len(A) >= Len(L)
      BY <1>2, <1>3
    <3> QED
      BY <1>3, <3>1, <3>2, <3>3, Zenon
  <2>3. CASE p # r
    <3>1. log'[p] = log[p]
      BY <1>7, <2>3
    <3>2. Len(log[p]) >= Len(log[p])
      BY <2>1
    <3> QED
      BY <3>1, <3>2, Zenon
  <2> QED
    BY <2>2, <2>3
<1>9. Len(L) < Len(A) /\ Len(L) \in Nat
  BY <1>2, <1>3
<1> QED
  <2>1. log'[r] = A /\ A[Len(L) + 1] = t
    BY <1>3, <1>6
  <2> QED
    BY <1>1, <1>6, <1>8, <1>9, <2>1, Zenon DEF LogGrows

\* An answer once true stays true.
LEMMA TrueAnswerStays ==
  ASSUME TypeInv, LogGrows, log' \in [Partitions -> Seq(Tokens)],
         NEW a \in Answers, TrueAnswer(a)
  PROVE  TrueAnswer(a)'
<1> DEFINE p == Route[a[1]]
           o == a[2]
<1>1. p \in Partitions /\ o \in Nat \cup {NoOffset}
  BY ProducerAssumption DEF Answers, Tokens
<1>2. Len(log[p]) \in Nat /\ Len(log'[p]) \in Nat
  BY <1>1, LogIs, LenProperties
<1>3. Len(log'[p]) >= Len(log[p]) /\ \A i \in 1 .. Len(log[p]) : log'[p][i] = log[p][i]
  BY <1>1 DEF LogGrows
<1>4. CASE o = NoOffset
  BY <1>4 DEF TrueAnswer
<1>5. CASE o \in Nat /\ o # NoOffset
  <2>1. o < Len(log[p]) /\ log[p][o + 1] = a[1]
    BY <1>5 DEF TrueAnswer
  <2>2. o < Len(log'[p]) /\ log'[p][o + 1] = log[p][o + 1]
    <3> DEFINE n == Len(log[p])
               m == Len(log'[p])
    <3>1. n \in Nat /\ m \in Nat /\ m >= n /\ o \in Nat /\ o < n
      BY <1>2, <1>3, <1>5, <2>1
    <3>2. \A i \in 1 .. n : log'[p][i] = log[p][i]
      BY <1>3
    <3> HIDE DEF n, m, p, o
    <3>3. o < m /\ o + 1 \in 1 .. n
      BY <3>1
    <3>4. log'[p][o + 1] = log[p][o + 1]
      BY <3>2, <3>3
    <3> QED
      BY <3>3, <3>4 DEF m
  <2> QED
    BY <2>1, <2>2 DEF TrueAnswer
<1> QED
  BY <1>1, <1>4, <1>5

\* Only the broker writes the log.
LEMMA LogStep ==
  ASSUME TypeInv, Next \/ UNCHANGED vars
  PROVE  LogGrows /\ log' \in [Partitions -> Seq(Tokens)]
<1>1. CASE \E t \in Tokens : BrokerAppends(t)
  BY <1>1, BrokerAppendsAtEnd
<1>2. CASE ~\E t \in Tokens : BrokerAppends(t)
  <2>1. log' = log
    BY <1>2 DEF Next, Program, Library, Failure, Begin, Produce, QueueFull, OnDelivery,
                Sent, BackOff, QueueStayedFull, Finish, FlushServes, FlushReturns,
                WriteReport, BrokerAnswers, Abort, EndInterrupted, AnswerLost, Expires, vars
  <2>2. ASSUME NEW p \in Partitions PROVE Len(log[p]) >= Len(log[p])
    BY LogIs
  <2> QED
    BY <2>1, <2>2 DEF LogGrows, TypeInv
<1> QED
  BY <1>1, <1>2

\* Every step keeps the types.
LEMMA TypeStep ==
  ASSUME TypeInv, AccountingInv, Next \/ UNCHANGED vars
  PROVE  TypeInv'
<1> USE ProducerAssumption
<1>0. attempted \in Nat /\ 0 .. (attempted - 1) \subseteq Tokens /\ faults \in Nat
  BY BegunIsToken DEF TypeInv
<1>1. CASE Begin
  <2>1. /\ attempted' = attempted + 1 /\ attempted < Planned
        /\ stage' = "produce" /\ tries' = 0
        /\ UNCHANGED <<written, queue, acks, reports, batch, log, faults>>
    BY <1>1 DEF Begin, BeginAttempt, library
  <2>2. 0 .. (attempted - 1) \subseteq 0 .. (attempted' - 1) /\ attempted' \in 0 .. Planned
    BY <1>0, <2>1
  <2>3. ASSUME NEW p \in Partitions, NEW i \in 1 .. Len(log[p])
        PROVE  log[p][i] < attempted'
    <3>1. log[p][i] \in Tokens /\ log[p][i] < attempted
      BY LogIs
    <3> QED
      BY <1>0, <2>1, <3>1 DEF Tokens
  <2>4. attempted' # 0
    BY <1>0, <2>1
  <2> QED
    BY <2>1, <2>2, <2>3, <2>4 DEF TypeInv, Stages
<1>2. CASE Produce
  <2>1. /\ stage = "produce" /\ stage' = "poll" /\ queue' = queue \cup {attempted - 1}
        /\ batch' = reports /\ reports' = <<>>
        /\ UNCHANGED <<tries, written, attempted, acks, log, faults>>
    BY <1>2 DEF Produce, TakeReports, tracker
  <2>2. attempted - 1 \in 0 .. (attempted - 1)
    BY <1>0, <2>1 DEF TypeInv
  <2>3. <<>> \in Seq(Answers)
    OBVIOUS
  <2> QED
    BY <2>1, <2>2, <2>3 DEF TypeInv, Stages
<1>3. CASE QueueFull \/ FlushServes
  <2>1. /\ batch' = reports /\ reports' = <<>> /\ stage' \in {stage, "full"}
        /\ stage' = "full" => stage \in {"produce", "full"}
        /\ UNCHANGED <<tries, written, attempted, queue, acks, log, faults>>
    BY <1>3 DEF QueueFull, FlushServes, TakeReports, tracker, runner
  <2>2. <<>> \in Seq(Answers)
    OBVIOUS
  <2>3. stage' \in Stages /\ (stage' \in {"produce", "full"} => attempted # 0)
    BY <2>1 DEF TypeInv, Stages
  <2> QED
    BY <2>1, <2>2, <2>3 DEF TypeInv
<1>4. CASE OnDelivery
  <2>1. batch # <<>> /\ batch' = Tail(batch)
        /\ UNCHANGED <<stage, tries, written, attempted, queue, acks, reports, log, faults>>
    BY <1>4 DEF OnDelivery, Delivered, Failed, runner
  <2>2. batch' \in Seq(Answers)
    BY <2>1, HeadTailProperties DEF TypeInv
  <2> QED
    BY <2>1, <2>2 DEF TypeInv
<1>5. CASE Sent \/ BackOff \/ QueueStayedFull \/ Finish \/ FlushReturns \/ WriteReport
           \/ EndInterrupted \/ UNCHANGED vars
  <2>1. /\ UNCHANGED <<attempted, queue, acks, reports, batch, log>>
        /\ faults' \in {faults, faults + 1} /\ (faults' # faults => faults < MaxFaults)
        /\ written' \in {written, TRUE}
    BY <1>5 DEF Sent, BackOff, QueueStayedFull, Finish, FlushReturns, WriteReport, Failed,
                FailPending, EndInterrupted, Fault, tracker, library, runner, vars
  <2>2. /\ stage' \in Stages
        /\ stage' \in {"produce", "full"} => attempted # 0
        /\ tries' \in 0 .. MaxBackoffs
    BY <1>5 DEF Sent, BackOff, QueueStayedFull, Finish, FlushReturns, WriteReport,
                EndInterrupted, runner, vars, TypeInv, Stages
  <2>3. faults' \in 0 .. MaxFaults
    BY <2>1 DEF TypeInv
  <2>4. written' \in BOOLEAN
    BY <2>1, Zenon DEF TypeInv
  <2> QED
    BY <2>1, <2>2, <2>3, <2>4 DEF TypeInv
<1>6. CASE Abort
  <2>1. /\ stage' = "flush" /\ reports' = batch \o reports /\ batch' = <<>>
        /\ faults < MaxFaults /\ faults' = faults + 1
        /\ UNCHANGED <<tries, written, attempted, queue, acks, log>>
    BY <1>6 DEF Abort, Fault, tracker
  <2>2. reports' \in Seq(Answers)
    BY <2>1, ConcatProperties DEF TypeInv
  <2>3. <<>> \in Seq(Answers) /\ faults' \in 0 .. MaxFaults
    BY <1>0, <2>1
  <2> QED
    BY <2>1, <2>2, <2>3 DEF TypeInv, Stages
<1>7. ASSUME NEW t \in Tokens, BrokerAppends(t) PROVE TypeInv'
  <2>1. /\ t \in queue /\ acks' = acks \cup {<<t, Len(log[Route[t]])>>}
        /\ UNCHANGED <<stage, tries, written, attempted, queue, reports, batch, faults>>
    BY <1>7 DEF BrokerAppends, runner, tracker
  <2>2. Len(log[Route[t]]) \in Nat /\ log' \in [Partitions -> Seq(Tokens)]
    BY <1>7, BrokerAppendsAtEnd
  <2>3. t \in 0 .. (attempted - 1)
    BY <2>1 DEF TypeInv
  <2>4. ASSUME NEW p \in Partitions, NEW i \in 1 .. Len(log'[p])
        PROVE  log'[p][i] < attempted
    <3>1. log'[p][i] = t \/ (i \in 1 .. Len(log[p]) /\ log'[p][i] = log[p][i])
      BY <1>7, BrokerAppendsAtEnd
    <3> QED
      BY <1>0, <2>3, <3>1, LogIs
  <2> QED
    BY <2>1, <2>2, <2>3, <2>4 DEF TypeInv
<1>8. ASSUME NEW a \in acks, BrokerAnswers(a) PROVE TypeInv'
  <2>1. /\ acks' = acks \ {a} /\ queue' = queue \ {a[1]} /\ reports' = Append(reports, a)
        /\ UNCHANGED <<stage, tries, written, attempted, batch, log, faults>>
    BY <1>8 DEF BrokerAnswers, runner, tracker
  <2>2. a \in Answers
    BY <1>0 DEF TypeInv, Answers
  <2>3. reports' \in Seq(Answers)
    BY <2>1, <2>2, AppendProperties DEF TypeInv
  <2> QED
    BY <2>1, <2>3 DEF TypeInv
<1>9. ASSUME NEW a \in acks, AnswerLost(a) PROVE TypeInv'
  <2>1. /\ acks' = acks \ {a} /\ faults < MaxFaults /\ faults' = faults + 1
        /\ UNCHANGED <<stage, tries, written, attempted, queue, reports, batch, log>>
    BY <1>9 DEF AnswerLost, Fault, runner, tracker
  <2>2. faults' \in 0 .. MaxFaults
    BY <1>0, <2>1
  <2> QED
    BY <2>1, <2>2 DEF TypeInv
<1>10. ASSUME NEW t \in Tokens, Expires(t) PROVE TypeInv'
  <2>1. /\ acks' \subseteq acks /\ queue' = queue \ {t} /\ reports' = Append(reports, <<t, NoOffset>>)
        /\ faults < MaxFaults /\ faults' = faults + 1
        /\ UNCHANGED <<stage, tries, written, attempted, batch, log>>
    BY <1>10 DEF Expires, Fault, runner, tracker
  <2>2. faults' \in 0 .. MaxFaults /\ <<t, NoOffset>> \in Answers
    BY <1>0, <2>1 DEF Answers
  <2>3. reports' \in Seq(Answers)
    BY <2>1, <2>2, AppendProperties DEF TypeInv
  <2> QED
    BY <2>1, <2>2, <2>3 DEF TypeInv
<1> QED
  BY <1>1, <1>2, <1>3, <1>4, <1>5, <1>6, <1>7, <1>8, <1>9, <1>10
     DEF Next, Program, Library, Failure

\* What a step can add to a list of answers, or take from it.
LEMMA EntriesOf ==
  ASSUME NEW s \in Seq(Answers)
  PROVE  /\ Entries(s) \subseteq Answers /\ Entries(<<>>) = {}
         /\ \A a \in Answers : Entries(Append(s, a)) \subseteq Entries(s) \cup {a}
         /\ s # <<>> => Entries(Tail(s)) \subseteq Entries(s)
         /\ \A u \in Seq(Answers) : Entries(s \o u) \subseteq Entries(s) \cup Entries(u)
<1>1. Entries(s) \subseteq Answers
  BY ElementOfSeq DEF Entries
<1>2. Entries(<<>>) = {}
  BY DEF Entries
<1>0. Len(s) \in Nat
  BY LenProperties
<1>3. ASSUME NEW a \in Answers PROVE Entries(Append(s, a)) \subseteq Entries(s) \cup {a}
  <2> DEFINE q == Append(s, a)
  <2>1. /\ Len(q) = Len(s) + 1 /\ \A i \in 1 .. Len(s) : q[i] = s[i]
        /\ q[Len(s) + 1] = a
    BY AppendProperties
  <2> HIDE DEF q
  <2>2. ASSUME NEW i \in 1 .. Len(q) PROVE q[i] \in Entries(s) \cup {a}
    <3>1. i \in 1 .. Len(s) \/ i = Len(s) + 1
      BY <1>0, <2>1
    <3> QED
      BY <2>1, <3>1 DEF Entries
  <2>3. Entries(q) \subseteq Entries(s) \cup {a}
    BY <2>2 DEF Entries
  <2> QED
    BY <2>3 DEF q
<1>4. ASSUME s # <<>> PROVE Entries(Tail(s)) \subseteq Entries(s)
  <2> DEFINE q == Tail(s)
  <2>1. Len(q) = Len(s) - 1 /\ \A i \in 1 .. Len(q) : q[i] = s[i + 1]
    BY <1>4, HeadTailProperties
  <2> HIDE DEF q
  <2>2. ASSUME NEW i \in 1 .. Len(q) PROVE q[i] \in Entries(s)
    <3>1. i + 1 \in 1 .. Len(s)
      BY <1>0, <2>1
    <3> QED
      BY <2>1, <3>1 DEF Entries
  <2>3. Entries(q) \subseteq Entries(s)
    BY <2>2 DEF Entries
  <2> QED
    BY <2>3 DEF q
<1>5. ASSUME NEW u \in Seq(Answers) PROVE Entries(s \o u) \subseteq Entries(s) \cup Entries(u)
  <2> DEFINE q == s \o u
  <2>0. Len(u) \in Nat
    BY LenProperties
  <2>1. /\ Len(q) = Len(s) + Len(u)
        /\ \A i \in 1 .. Len(s) + Len(u) :
             q[i] = IF i <= Len(s) THEN s[i] ELSE u[i - Len(s)]
    BY ConcatProperties
  <2> HIDE DEF q
  <2>2. ASSUME NEW i \in 1 .. Len(q) PROVE q[i] \in Entries(s) \cup Entries(u)
    <3>1. CASE i <= Len(s)
      <4>1. i \in 1 .. Len(s) /\ q[i] = s[i]
        BY <1>0, <2>0, <2>1, <3>1
      <4> QED
        BY <4>1 DEF Entries
    <3>2. CASE ~(i <= Len(s))
      <4>1. i - Len(s) \in 1 .. Len(u) /\ q[i] = u[i - Len(s)]
        BY <1>0, <2>0, <2>1, <3>2
      <4> QED
        BY <4>1 DEF Entries
    <3> QED
      BY <3>1, <3>2
  <2>3. Entries(q) \subseteq Entries(s) \cup Entries(u)
    BY <2>2 DEF Entries
  <2> QED
    BY <2>3 DEF q
<1> QED
  BY <1>1, <1>2, <1>3, <1>4, <1>5

\* Only the broker gives offsets; the other steps hand answers on, drop them
\* or make up one without an offset.
LEMMA ToldStep ==
  ASSUME TypeInv, Next \/ UNCHANGED vars, ~\E t \in Tokens : BrokerAppends(t)
  PROVE  Told' \subseteq Told \cup {<<t, NoOffset>> : t \in Tokens}
<1>1. /\ acks \subseteq Answers /\ reports \in Seq(Answers) /\ batch \in Seq(Answers)
      /\ Entries(<<>>) = {}
  BY BegunIsToken, EntriesOf DEF TypeInv, Answers
<1>2. CASE Begin \/ Sent \/ BackOff \/ QueueStayedFull \/ Finish \/ FlushReturns
           \/ WriteReport \/ EndInterrupted \/ UNCHANGED vars
  <2>1. UNCHANGED <<acks, reports, batch>>
    BY <1>2 DEF Begin, Sent, BackOff, QueueStayedFull, Finish, FlushReturns, WriteReport,
                EndInterrupted, library, vars
  <2> QED
    BY <2>1 DEF Told, Entries
<1>3. CASE Produce \/ QueueFull \/ FlushServes
  <2>1. batch' = reports /\ reports' = <<>> /\ acks' = acks
    BY <1>3 DEF Produce, QueueFull, FlushServes, TakeReports
  <2> QED
    BY <1>1, <2>1 DEF Told
<1>4. CASE OnDelivery
  <2>1. batch # <<>> /\ batch' = Tail(batch) /\ UNCHANGED <<acks, reports>>
    BY <1>4 DEF OnDelivery
  <2>2. Entries(Tail(batch)) \subseteq Entries(batch)
    BY <1>1, <2>1, EntriesOf
  <2> QED
    BY <2>1, <2>2 DEF Told
<1>5. CASE Abort
  <2>1. reports' = batch \o reports /\ batch' = <<>> /\ acks' = acks
    BY <1>5 DEF Abort
  <2>2. Entries(batch \o reports) \subseteq Entries(batch) \cup Entries(reports)
    BY <1>1, EntriesOf
  <2> QED
    BY <1>1, <2>1, <2>2 DEF Told
<1>6. ASSUME NEW a \in acks, BrokerAnswers(a)
      PROVE  Told' \subseteq Told
  <2>1. acks' \subseteq acks /\ reports' = Append(reports, a) /\ batch' = batch
    BY <1>6 DEF BrokerAnswers
  <2>2. Entries(Append(reports, a)) \subseteq Entries(reports) \cup {a}
    BY <1>1, EntriesOf
  <2> QED
    BY <2>1, <2>2 DEF Told
<1>7. ASSUME NEW a \in acks, AnswerLost(a)
      PROVE  Told' \subseteq Told
  BY <1>7 DEF AnswerLost, Told
<1>8. ASSUME NEW t \in Tokens, Expires(t)
      PROVE  Told' \subseteq Told \cup {<<t, NoOffset>>}
  <2>1. /\ acks' \subseteq acks /\ reports' = Append(reports, <<t, NoOffset>>)
        /\ batch' = batch
    BY <1>8 DEF Expires
  <2>2. <<t, NoOffset>> \in Answers
    BY DEF Answers
  <2>3. Entries(Append(reports, <<t, NoOffset>>)) \subseteq Entries(reports) \cup {<<t, NoOffset>>}
    BY <1>1, <2>2, EntriesOf
  <2> QED
    BY <2>1, <2>3 DEF Told
<1> QED
  BY <1>2, <1>3, <1>4, <1>5, <1>6, <1>7, <1>8 DEF Next, Program, Library, Failure

\* Every step keeps what the answers say true.
LEMMA AnswerStep ==
  ASSUME TypeInv, AnswerInv, Next \/ UNCHANGED vars
  PROVE  AnswerInv'
<1>0. /\ LogGrows /\ log' \in [Partitions -> Seq(Tokens)]
      /\ \A a \in Answers : TrueAnswer(a) => TrueAnswer(a)'
  BY LogStep, TrueAnswerStays
<1>1. Told \subseteq Answers
  <2>1. acks \subseteq Answers
    BY BegunIsToken DEF TypeInv, Answers
  <2>2. reports \in Seq(Answers) /\ batch \in Seq(Answers)
    BY DEF TypeInv
  <2> QED
    BY <2>1, <2>2, EntriesOf DEF Told
<1>2. \A a \in Told : TrueAnswer(a)'
  BY <1>0, <1>1 DEF AnswerInv
<1>3. CASE \E t \in Tokens : BrokerAppends(t)
  <2>1. PICK t \in Tokens : BrokerAppends(t)
    BY <1>3
  <2> DEFINE n == <<t, Len(log[Route[t]])>>
  <2>2. Told' = Told \cup {n}
    BY <2>1 DEF BrokerAppends, Told, Entries
  <2>3. ASSUME NEW a, a = n PROVE TrueAnswer(a)'
    <3>1. a[1] = t /\ a[2] = Len(log[Route[t]])
      BY <2>3
    <3>2. /\ Len(log[Route[t]]) \in Nat
          /\ Len(log[Route[t]]) < Len(log'[Route[t]])
          /\ log'[Route[t]][Len(log[Route[t]]) + 1] = t
      BY <2>1, BrokerAppendsAtEnd
    <3> QED
      BY <3>1, <3>2 DEF TrueAnswer
  <2> HIDE DEF n
  <2> QED
    BY <1>2, <2>2, <2>3 DEF AnswerInv
<1>4. CASE ~\E t \in Tokens : BrokerAppends(t)
  <2>1. ASSUME NEW a \in {<<t, NoOffset>> : t \in Tokens} PROVE TrueAnswer(a)'
    BY <2>1 DEF TrueAnswer
  <2> QED
    BY <1>2, <1>4, <2>1, ToldStep DEF AnswerInv
<1> QED
  BY <1>3, <1>4

\* A delivery report with an offset, for a pending record: its offset was not
\* covered, since a covered one holds a settled record.
LEMMA DeliveredCovers ==
  ASSUME TypeInv, CopyInv, AccountingInv, NEW t \in Tokens, NEW o \in Nat,
         t \in pending, Delivered(t, o), log' = log,
         o < Len(log[Route[t]]), log[Route[t]][o + 1] = t
  PROVE  CopyInv'
<1> DEFINE r == Route[t]
           N == InsertOffset(ranges[r], o)
<1>1. r \in Partitions
  BY ProducerAssumption DEF Tokens
<1>2. /\ ranges' = [ranges EXCEPT ![r] = N] /\ pending' = pending \ {t}
      /\ delivered' = delivered + 1 /\ delivered \in Nat
  BY DEF Delivered, AccountingInv
<1>3. Ascending(N) /\ Covered(N) = Covered(ranges[r]) \cup {o}
  BY <1>1, InsertOffsetAscending, InsertOffsetCovers DEF CopyInv
<1>4. N \in Seq(Nat \X Nat)
  BY <1>3 DEF Ascending
<1> HIDE DEF N
<1>5. /\ ranges' \in [Partitions -> Seq(Nat \X Nat)] /\ ranges'[r] = N
      /\ \A p \in Partitions : p # r => ranges'[p] = ranges[p]
  BY <1>1, <1>2, <1>4 DEF CopyInv
<1>6. ASSUME NEW p \in Partitions
      PROVE  /\ Ascending(ranges'[p])
             /\ Covered(ranges'[p]) = Covered(ranges[p]) \cup {x \in {o} : p = r}
  <2>1. CASE p = r
    BY <1>3, <1>5, <2>1
  <2>2. CASE p # r
    BY <1>5, <2>2 DEF CopyInv
  <2> QED
    BY <2>1, <2>2
<1>7. ASSUME NEW p \in Partitions, NEW x \in Covered(ranges'[p])
      PROVE  \/ x \in Covered(ranges[p])
             \/ p = r /\ x = o
  BY <1>6
<1>8. ASSUME NEW p \in Partitions, NEW x \in Covered(ranges'[p])
      PROVE  x \in Nat /\ x < Len(log[p]) /\ log[p][x + 1] \notin pending'
  BY <1>2, <1>7 DEF CopyInv
<1>9. ASSUME NEW p \in Partitions, NEW q \in Partitions,
             NEW x \in Covered(ranges'[p]), NEW y \in Covered(ranges'[q]),
             log[p][x + 1] = log[q][y + 1]
      PROVE  p = q /\ x = y
  <2>1. CASE x \in Covered(ranges[p]) /\ y \in Covered(ranges[q])
    BY <1>9, <2>1 DEF CopyInv
  <2>2. CASE x \in Covered(ranges[p]) /\ q = r /\ y = o
    BY <1>9, <2>2 DEF CopyInv
  <2>3. CASE p = r /\ x = o /\ y \in Covered(ranges[q])
    BY <1>9, <2>3 DEF CopyInv
  <2> QED
    BY <1>7, <2>1, <2>2, <2>3
<1>10. Copies' = Copies \cup {<<r, o>>}
  <2>1. ASSUME NEW c \in Copies' PROVE c \in Copies \cup {<<r, o>>}
    <3>1. PICK p \in Partitions : \E x \in Covered(ranges'[p]) : c = <<p, x>>
      BY <2>1 DEF Copies
    <3> QED
      BY <1>7, <3>1 DEF Copies
  <2>2. ASSUME NEW c \in Copies PROVE c \in Copies'
    <3>1. PICK p \in Partitions : \E x \in Covered(ranges[p]) : c = <<p, x>>
      BY <2>2 DEF Copies
    <3>2. \A x \in Covered(ranges[p]) : x \in Covered(ranges'[p])
      BY <1>6
    <3> QED
      BY <3>1, <3>2 DEF Copies
  <2>3. <<r, o>> \in Copies'
    <3>1. o \in Covered(ranges'[r])
      BY <1>1, <1>6
    <3> QED
      BY <1>1, <3>1 DEF Copies
  <2> QED
    BY <2>1, <2>2, <2>3
<1>11. <<r, o>> \notin Copies
  <2>1. o \notin Covered(ranges[r])
    BY <1>1 DEF CopyInv
  <2> QED
    BY <2>1 DEF Copies
<1>12. IsFiniteSet(Copies') /\ Cardinality(Copies') = delivered'
  <2>1. IsFiniteSet(Copies) /\ Cardinality(Copies) = delivered
    BY DEF CopyInv
  <2>2. /\ IsFiniteSet(Copies \cup {<<r, o>>})
        /\ Cardinality(Copies \cup {<<r, o>>}) = Cardinality(Copies) + 1
    BY <1>11, <2>1, FS_AddElement
  <2> QED
    BY <1>2, <1>10, <2>1, <2>2
<1> QED
  BY <1>5, <1>6, <1>8, <1>9, <1>12, SMTT(30) DEF CopyInv

\* Steps that count no delivery keep the ranges, as long as no settled record
\* becomes pending again and the log keeps what it holds.
LEMMA CopyKept ==
  ASSUME TypeInv, CopyInv, UNCHANGED <<ranges, delivered>>, LogGrows,
         log' \in [Partitions -> Seq(Tokens)],
         pending' \subseteq pending \cup {attempted}
  PROVE  CopyInv'
<1>1. Copies' = Copies
  BY DEF Copies
<1>2. ASSUME NEW p \in Partitions, NEW o \in Covered(ranges[p])
      PROVE  /\ o \in Nat /\ o < Len(log'[p]) /\ log'[p][o + 1] = log[p][o + 1]
             /\ log[p][o + 1] \notin pending'
  <2>1. o \in Nat /\ o < Len(log[p]) /\ log[p][o + 1] \notin pending
    BY DEF CopyInv
  <2>2. Len(log[p]) \in Nat /\ Len(log'[p]) \in Nat
    BY LogIs, LenProperties
  <2>3. o + 1 \in 1 .. Len(log[p])
    BY <2>1, <2>2
  <2>4. log[p][o + 1] \in Tokens /\ log[p][o + 1] < attempted
    BY <2>3, LogIs
  <2>5. log[p][o + 1] # attempted
    BY <2>4, ProducerAssumption DEF Tokens, TypeInv
  <2>6. Len(log'[p]) >= Len(log[p]) /\ log'[p][o + 1] = log[p][o + 1]
    BY <2>3 DEF LogGrows
  <2> QED
    BY <2>1, <2>2, <2>5, <2>6
<1>3. ranges' = ranges /\ delivered' = delivered
  OBVIOUS
<1>4. ASSUME NEW p \in Partitions, NEW q \in Partitions,
             NEW o \in Covered(ranges[p]), NEW u \in Covered(ranges[q]),
             log'[p][o + 1] = log'[q][u + 1]
      PROVE  p = q /\ o = u
  <2>1. log[p][o + 1] = log[q][u + 1]
    BY <1>2, <1>4
  <2> QED
    BY <2>1 DEF CopyInv
<1>5. ASSUME NEW p \in Partitions, NEW o \in Covered(ranges[p])
      PROVE  o \in Nat /\ o < Len(log'[p]) /\ log'[p][o + 1] \notin pending'
  BY <1>2
<1>6. /\ ranges \in [Partitions -> Seq(Nat \X Nat)]
      /\ \A p \in Partitions : Ascending(ranges[p])
      /\ IsFiniteSet(Copies) /\ Cardinality(Copies) = delivered
  BY DEF CopyInv
<1>7. IsFiniteSet(Copies') /\ Cardinality(Copies') = delivered'
  BY <1>1, <1>3, <1>6
<1> QED
  BY <1>3, <1>4, <1>5, <1>6, <1>7 DEF CopyInv

\* Every step keeps the ranges exact.
LEMMA CopyStep ==
  ASSUME TypeInv, AnswerInv, AccountingInv, CopyInv, Next \/ UNCHANGED vars
  PROVE  CopyInv'
<1>0. LogGrows /\ log' \in [Partitions -> Seq(Tokens)]
  BY LogStep
<1>1. CASE OnDelivery
  <2> DEFINE a == Head(batch)
  <2>1. batch # <<>> /\ batch \in Seq(Answers) /\ log' = log
    BY <1>1 DEF OnDelivery, TypeInv
  <2>2. a \in Answers /\ Len(batch) \in Nat /\ Len(batch) # 0 /\ a = batch[1]
    BY <2>1, HeadTailProperties, EmptySeq, LenProperties
  <2>3. TrueAnswer(a)
    BY <2>2 DEF AnswerInv, Told, Entries
  <2>4. IF a[2] = NoOffset THEN Failed(a[1]) ELSE Delivered(a[1], a[2])
    BY <1>1 DEF OnDelivery
  <2> HIDE DEF a
  <2>5. CASE a[2] # NoOffset /\ a[1] \in pending
    <3>1. /\ a[1] \in Tokens /\ a[2] \in Nat /\ Delivered(a[1], a[2])
          /\ a[2] < Len(log[Route[a[1]]]) /\ log[Route[a[1]]][a[2] + 1] = a[1]
      BY <2>2, <2>3, <2>4, <2>5 DEF Answers, TrueAnswer
    <3> QED
      BY <2>1, <2>5, <3>1, DeliveredCovers
  <2>6. CASE ~(a[2] # NoOffset /\ a[1] \in pending)
    <3>1. UNCHANGED <<ranges, delivered>> /\ pending' \subseteq pending
      BY <2>4, <2>6 DEF Failed, Delivered
    <3> QED
      BY <1>0, <3>1, CopyKept
  <2> QED
    BY <2>5, <2>6
<1>2. CASE ~OnDelivery
  <2>1. UNCHANGED <<ranges, delivered>> /\ pending' \subseteq pending \cup {attempted}
    BY <1>2 DEF Next, Program, Library, Failure, Begin, BeginAttempt, Produce, QueueFull,
                Sent, BackOff, QueueStayedFull, Failed, Finish, FlushServes, FlushReturns,
                FailPending, WriteReport, BrokerAppends, BrokerAnswers, Abort,
                EndInterrupted, AnswerLost, Expires, tracker, vars
  <2> QED
    BY <1>0, <2>1, CopyKept
<1> QED
  BY <1>1, <1>2

\* The inductive invariant of the producer: the counters, the types, the
\* answers that are under way, and the ranges.
ProducerInv == AccountingInv /\ TypeInv /\ AnswerInv /\ CopyInv

THEOREM ProducerInvariant == Spec => []ProducerInv
<1>1. Init => ProducerInv
  <2> SUFFICES ASSUME Init PROVE ProducerInv
    OBVIOUS
  <2>1. AccountingInv
    BY FS_EmptySet DEF Init, AccountingInv
  <2>2. <<>> \in Seq(Answers) /\ <<>> \in Seq(Tokens) /\ <<>> \in Seq(Nat \X Nat) /\ Len(<<>>) = 0
    OBVIOUS
  <2>3. log \in [Partitions -> Seq(Tokens)] /\ \A p \in Partitions : log[p] = <<>>
    BY <2>2 DEF Init
  <2>4. /\ stage = "next" /\ tries = 0 /\ attempted = 0 /\ queue = {} /\ acks = {}
        /\ reports = <<>> /\ batch = <<>> /\ faults = 0 /\ delivered = 0
    BY DEF Init
  <2>5. written \in BOOLEAN
    BY Zenon DEF Init
  <2>6. TypeInv
    BY <2>2, <2>3, <2>4, <2>5, ProducerAssumption DEF TypeInv, Stages
  <2>7. AnswerInv
    BY <2>4 DEF AnswerInv, Told, Entries
  <2>8. ranges \in [Partitions -> Seq(Nat \X Nat)] /\ \A p \in Partitions : ranges[p] = <<>>
    BY <2>2 DEF Init
  <2>9. Ascending(<<>>) /\ Covered(<<>>) = {}
    BY <2>2 DEF Ascending, Covered
  <2>10. Copies = {}
    BY <2>8, <2>9 DEF Copies
  <2>11. CopyInv
    BY <2>4, <2>8, <2>9, <2>10, FS_EmptySet DEF CopyInv
  <2> QED
    BY <2>1, <2>6, <2>7, <2>11 DEF ProducerInv
<1>2. ProducerInv /\ [Next]_vars => ProducerInv'
  BY AccountingStep, TypeStep, AnswerStep, CopyStep DEF ProducerInv
<1> QED
  BY <1>1, <1>2, PTL DEF Spec

\* The producer's state has its types: attempts within the backoff schedule,
\* every token one of the planned records.
THEOREM ProducerTypeCorrect == Spec => []TypeOK
<1>1. ProducerInv => TypeOK
  <2> SUFFICES ASSUME ProducerInv PROVE TypeOK
    OBVIOUS
  <2>1. 0 .. (attempted - 1) \subseteq Tokens
    BY BegunIsToken DEF ProducerInv
  <2>2. pending \subseteq Tokens /\ queue \subseteq Tokens /\ acks \subseteq Tokens \X Nat
    BY <2>1 DEF ProducerInv, AccountingInv, TypeInv
  <2> QED
    BY <2>2 DEF ProducerInv, AccountingInv, TypeInv, CopyInv, TypeOK, Answers
<1> QED
  BY <1>1, ProducerInvariant, PTL

\* The delivered ranges hold one offset for each delivery counted, on it a
\* record that has its outcome, and no record twice: whatever the broker
\* appended again after a lost answer, the report counts it once.
THEOREM ProducerRangesExact == Spec => []RangesExact
<1>1. ProducerInv => RangesExact
  <2> SUFFICES ASSUME ProducerInv PROVE RangesExact
    OBVIOUS
  <2>1. Cardinality(Copies) = delivered
    BY DEF ProducerInv, CopyInv
  <2>2. ASSUME NEW c \in Copies
        PROVE  \E p \in Partitions : \E o \in Covered(ranges[p]) :
                 /\ c = <<p, o>> /\ c[1] = p /\ c[2] = o
                 /\ o < Len(log[p]) /\ log[p][o + 1] \notin pending
    BY DEF Copies, ProducerInv, CopyInv
  <2>3. ASSUME NEW c \in Copies, NEW d \in Copies,
               log[c[1]][c[2] + 1] = log[d[1]][d[2] + 1]
        PROVE  c = d
    BY <2>2, <2>3 DEF ProducerInv, CopyInv
  <2> QED
    BY <2>1, <2>2, <2>3 DEF RangesExact, Copies
<1> QED
  BY <1>1, ProducerInvariant, PTL

\* DeliveryTracker's lists stay sorted, non-empty and apart, so that bisect_left
\* finds its way in them, and their lengths, which the benchmark sums, count
\* every delivered offset once.
THEOREM ProducerRangesCanonical == Spec => []RangesCanonical
<1>1. ProducerInv => RangesCanonical
  <2> SUFFICES ASSUME ProducerInv, NEW p \in Partitions
               PROVE  /\ Canonical(ranges[p])
                      /\ TotalLength(ranges[p]) = Cardinality(Covered(ranges[p]))
    BY DEF RangesCanonical
  <2>1. Ascending(ranges[p])
    BY DEF ProducerInv, CopyInv
  <2> QED
    BY <2>1, AscendingIsCanonical, TotalLengthCounts
<1> QED
  BY <1>1, ProducerInvariant, PTL
=============================================================================

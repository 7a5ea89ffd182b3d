----------------------- MODULE ScheduleBindingProofs -----------------------
(***************************************************************************)
(* Proofs about ScheduleBinding, for schedules of any length and any       *)
(* number of executions, replays and messages.                             *)
(*                                                                         *)
(* initialize and dispose first close the execution in hand and take its   *)
(* receipt, and then go on or do not.  Books says what holds of a session, *)
(* its executions and its receipts at every such point, the ones inside a  *)
(* call included; Earning says what a replay under way has to keep for its *)
(* verdict to be earned.                                                   *)
(***************************************************************************)
EXTENDS ScheduleBinding, SequenceTheorems, TLAPS

SessionType(n) ==
  [live : 0 .. n, initializations : 0 .. MaxExecutions, disposals : 0 .. 1, disposed : BOOLEAN,
   retained : BOOLEAN, complete : BOOLEAN, disposal : BOOLEAN]
RecordType(n) == [execution : 1 .. n, passed : BOOLEAN, kept : BOOLEAN]

\* An execution that was cleaned up is closed, and one that was not built has failed.
Plausible(e) ==
  e \in Execution /\ (e.cleanup # "not_started" => e.closed) /\ (~e.built => e.failed)

\* The execution in hand is the last one; all before it passed; each has its receipt,
\* the one in hand once retained, and it is not better than the execution; what has
\* its receipt runs no more.
Books(s, x, r) ==
  /\ x \in Seq(Execution) /\ s \in SessionType(Len(x)) /\ r \in Seq(RecordType(Len(x)))
  /\ \A i \in 1 .. Len(x) : Plausible(x[i])
  /\ s.live # NoExecution => s.live = Len(x)
  /\ Len(x) <= s.initializations
  /\ Len(r) = IF s.live # NoExecution /\ ~s.retained THEN Len(x) - 1 ELSE Len(x)
  /\ s.live # NoExecution /\ s.retained => ~x[s.live].built \/ x[s.live].closed
  /\ s.live # NoExecution /\ s.disposed => s.retained
  /\ s.disposals = IF s.disposed THEN 1 ELSE 0
  /\ \A i \in 1 .. Len(r) : r[i].execution = i /\ (r[i].passed => r[i].kept /\ Passed(x[i]))
  /\ \A i \in 1 .. Len(x) : i # s.live => Passed(x[i])

FlowType ==
  /\ flow \in [pc : {"idle", "register", "step", "dispose", "judge"}, guard : Phases,
               result : {"none", "ok", "failed", "step_mismatch", "dispose_failed"},
               terminal : {"", "all_steps_done", "step_mismatch"},
               replays : 0 .. MaxReplays, messages : 0 .. MaxMessages]
  /\ replay \in [made : BOOLEAN, passed : BOOLEAN, fresh : BOOLEAN,
                 comparison : {"incomplete", "step_mismatch", "matched"}]

\* A replay that can still pass has started as many executions as it initialized.
Earning ==
  /\ flow.pc # "idle" => ~replay.passed
  /\ \/ flow.pc \in {"register", "step"}
     \/ flow.pc \in {"dispose", "judge"} /\ flow.result = "ok"
     => session.initializations = Len(execs)

BooksInv == Books(session, execs, records) /\ FlowType /\ Earning /\ PassedIsEarned

---------------------------------------------------------------------------
\* Receipts of some executions are receipts of more.
LEMMA RecordsWiden ==
  ASSUME NEW m \in Nat, NEW n \in Nat, m <= n, NEW r \in Seq(RecordType(m))
  PROVE  r \in Seq(RecordType(n))
<1>1. RecordType(m) \subseteq RecordType(n)
  BY DEF RecordType
<1> QED
  BY <1>1, SeqMonotonic

\* cleanup closes an execution and keeps what it did.
LEMMA CleanedUpFacts ==
  ASSUME NEW e, Plausible(e), NEW d \in CleanedUp(e)
  PROVE  /\ Plausible(d) /\ d.closed /\ d.built = e.built /\ d.failed = e.failed /\ d.steps = e.steps
<1>1. e \in Execution
  BY DEF Plausible
<1>2. CASE ~e.built
  <2>1. d = [e EXCEPT !.closed = TRUE]
    BY <1>2 DEF CleanedUp
  <2>2. d \in Execution /\ d.closed /\ d.built = e.built /\ d.failed = e.failed /\ d.steps = e.steps
    BY <1>1, <2>1 DEF Execution
  <2> QED
    BY <1>1, <2>1, <2>2 DEF Plausible
<1>3. CASE e.built
  <2>1. PICK c \in Cleanups : d = [e EXCEPT !.closed = TRUE, !.cleanup = c]
    BY <1>1, <1>3 DEF CleanedUp, Execution, Cleanups
  <2>2. d \in Execution /\ d.closed /\ d.built = e.built /\ d.failed = e.failed /\ d.steps = e.steps
    BY <1>1, <2>1 DEF Execution
  <2> QED
    BY <1>3, <2>2 DEF Plausible
<1> QED
  BY <1>2, <1>3

\* finish closes a running execution, one short of its steps as a failure.
LEMMA FinishedFacts ==
  ASSUME NEW e, Plausible(e), NEW d \in Finished(e)
  PROVE  /\ Plausible(d) /\ (~d.built \/ d.closed)
         /\ (~e.built \/ e.closed) => d = e
<1>1. CASE e.closed \/ ~e.built
  BY <1>1 DEF Finished
<1>2. CASE ~(e.closed \/ ~e.built)
  <2> DEFINE f == [e EXCEPT !.failed = @ \/ ~Completed(e)]
  <2>1. d \in CleanedUp(f)
    BY <1>2 DEF Finished
  <2>2. f \in Execution /\ f.cleanup = e.cleanup /\ f.closed = e.closed /\ f.built = e.built
    BY DEF Plausible, Execution
  <2>3. Plausible(f)
    BY <1>2, <2>2 DEF Plausible
  <2> HIDE DEF f
  <2>4. Plausible(d) /\ d.closed
    BY <2>1, <2>3, CleanedUpFacts
  <2> QED
    BY <1>2, <2>4
<1> QED
  BY <1>1, <1>2
\* The fields of a session.
LEMMA SessionFacts ==
  ASSUME NEW n, NEW s \in SessionType(n)
  PROVE  /\ s.live \in 0 .. n /\ s.initializations \in 0 .. MaxExecutions /\ s.disposals \in 0 .. 1
         /\ s.disposed \in BOOLEAN /\ s.retained \in BOOLEAN /\ s.complete \in BOOLEAN
         /\ s.disposal \in BOOLEAN
BY DEF SessionType

\* A session is the record of its fields.
LEMMA SessionShape ==
  ASSUME NEW n, NEW s \in SessionType(n)
  PROVE  s = [live |-> s.live, initializations |-> s.initializations, disposals |-> s.disposals,
              disposed |-> s.disposed, retained |-> s.retained, complete |-> s.complete,
              disposal |-> s.disposal]
BY DEF SessionType

\* What taking the receipt does to the session.
LEMMA RetainedFacts ==
  ASSUME NEW n, NEW s \in SessionType(n), NEW fits \in BOOLEAN
  PROVE  /\ Retained(s, fits) \in SessionType(n) /\ Retained(s, fits).retained
         /\ Retained(s, fits).live = s.live /\ Retained(s, fits).disposed = s.disposed
         /\ Retained(s, fits).disposals = s.disposals
         /\ Retained(s, fits).initializations = s.initializations
<1>1. CASE s.retained
  BY <1>1 DEF Retained
<1>2. CASE ~s.retained
  <2> DEFINE t == [s EXCEPT !.retained = TRUE, !.complete = s.complete /\ fits]
  <2>1. Retained(s, fits) = t
    BY <1>2 DEF Retained
  <2>2. /\ t \in SessionType(n) /\ t.retained /\ t.live = s.live /\ t.disposed = s.disposed
        /\ t.disposals = s.disposals /\ t.initializations = s.initializations
    BY DEF SessionType
  <2> QED
    BY <2>1, <2>2
<1> QED
  BY <1>1, <1>2

\* The first receipt of the execution in hand.
LEMMA UnreceiptedFacts ==
  ASSUME Books(session, execs, records), session.live # NoExecution, ~session.retained,
         NEW e, NEW fits
  PROVE  /\ Len(records) = Len(execs) - 1
         /\ Recorded(session, e, fits) =
              Append(records, [execution |-> Len(execs), passed |-> fits /\ Passed(e), kept |-> fits])
<1>1. session.live = Len(execs) /\ Len(records) = Len(execs) - 1
  BY DEF Books
<1>2. Recorded(session, e, fits) =
        Append(records, [execution |-> session.live, passed |-> fits /\ Passed(e), kept |-> fits])
  BY DEF Recorded
<1> QED
  BY <1>1, <1>2

\* The execution in hand is closed and has its receipt: the books are in order, for
\* the call that goes on and for the one that does not.
LEMMA ReceiptTaken ==
  ASSUME Books(session, execs, records), session.live # NoExecution,
         NEW e, Plausible(e), ~e.built \/ e.closed, NEW fits \in BOOLEAN,
         session.retained /\ Passed(Current) => Passed(e)
  PROVE  LET x == [execs EXCEPT ![session.live] = e]
         IN /\ Books(Retained(session, fits), x, Recorded(session, e, fits))
            /\ Len(x) = Len(execs) /\ x[session.live] = e
            /\ Len(Recorded(session, e, fits)) = Len(execs)
<1> DEFINE n == Len(execs)
           x == [execs EXCEPT ![session.live] = e]
           s == Retained(session, fits)
           r == Recorded(session, e, fits)
           last == [execution |-> n, passed |-> fits /\ Passed(e), kept |-> fits]
<1>1. /\ execs \in Seq(Execution) /\ n \in Nat /\ session \in SessionType(n)
      /\ records \in Seq(RecordType(n)) /\ session.live = n /\ n > 0
  BY LenProperties, SessionFacts DEF Books, NoExecution
<1>2. /\ x \in Seq(Execution) /\ Len(x) = n /\ x[n] = e
      /\ \A i \in 1 .. n : i # n => x[i] = execs[i]
  BY <1>1, ExceptSeq DEF Plausible
<1>3. /\ s \in SessionType(n) /\ s.retained /\ s.live = n /\ s.disposed = session.disposed
      /\ s.disposals = session.disposals
  BY <1>1, RetainedFacts
<1>4. r \in Seq(RecordType(n)) /\ Len(r) = n
  <2>1. CASE session.retained
    BY <1>1, <2>1 DEF Recorded, Books
  <2>2. CASE ~session.retained
    <3>1. Len(records) = n - 1 /\ r = Append(records, last)
      BY <1>1, <2>2, UnreceiptedFacts
    <3>2. last \in RecordType(n)
      <4>1. (fits /\ Passed(e)) \in BOOLEAN /\ n \in 1 .. n
        BY <1>1
      <4> QED
        BY <4>1 DEF RecordType
    <3> QED
      BY <1>1, <3>1, <3>2, AppendProperties
  <2> QED
    BY <2>1, <2>2
<1>5. \A i \in 1 .. n : Plausible(x[i]) /\ (i # n => Passed(x[i]))
  BY <1>1, <1>2 DEF Books
<1>6. ASSUME NEW i \in 1 .. n
      PROVE  r[i].execution = i /\ (r[i].passed => r[i].kept /\ Passed(x[i]))
  <2>1. CASE session.retained
    <3>1. r = records /\ Len(records) = n
      BY <1>1, <2>1 DEF Recorded, Books
    <3>2. /\ records[i].execution = i
          /\ records[i].passed => records[i].kept /\ Passed(execs[i])
      BY <3>1 DEF Books
    <3>3. Passed(execs[i]) => Passed(x[i])
      BY <1>1, <1>2, <2>1 DEF Current
    <3> QED
      BY <3>1, <3>2, <3>3
  <2>2. CASE ~session.retained
    <3>1. Len(records) = n - 1 /\ r = Append(records, last)
      BY <1>1, <2>2, UnreceiptedFacts
    <3> HIDE DEF n, x, r, last
    <3>2. CASE i = n
      <4>1. r[i] = last
        BY <1>1, <3>1, <3>2, AppendProperties
      <4>2. last.execution = n /\ (last.passed <=> fits /\ Passed(e)) /\ last.kept = fits
        BY DEF last
      <4> QED
        BY <1>2, <3>2, <4>1, <4>2
    <3>3. CASE i # n
      <4>1. i \in 1 .. Len(records) /\ x[i] = execs[i]
        BY <1>1, <1>2, <3>1, <3>3
      <4>2. r[i] = records[i]
        BY <1>1, <3>1, <4>1
      <4> QED
        BY <4>1, <4>2 DEF Books
    <3> QED
      BY <3>2, <3>3
  <2> QED
    BY <2>1, <2>2
<1>7. (s.disposals = IF s.disposed THEN 1 ELSE 0) /\ n <= s.initializations
  BY <1>1, <1>3, RetainedFacts DEF Books
<1> HIDE DEF x, s, r, n, last
<1>8. Books(s, x, r)
  BY <1>1, <1>2, <1>3, <1>4, <1>5, <1>6, <1>7 DEF Books, NoExecution
<1> QED
  BY <1>1, <1>2, <1>4, <1>8 DEF x, s, r, n

\* The execution in hand.
LEMMA CurrentFacts ==
  ASSUME Books(session, execs, records), session.live # NoExecution
  PROVE  /\ Len(execs) \in Nat /\ session.live = Len(execs) /\ Len(execs) > 0 /\ Plausible(Current)
         /\ session.retained => ~Current.built \/ Current.closed
<1>1. Len(execs) \in Nat /\ session.live = Len(execs) /\ Len(execs) > 0
  BY LenProperties, SessionFacts DEF Books, NoExecution
<1>2. Plausible(execs[session.live])
  BY <1>1 DEF Books
<1> QED
  BY <1>1, <1>2 DEF Books, Current

\* The first half of initialize: only a session whose executions all passed goes on.
LEMMA PreviousClosed ==
  ASSUME Books(session, execs, records), NEW p \in ClosePrevious
  PROVE  /\ Books(p.s, p.x, p.r) /\ Len(p.x) = Len(execs)
         /\ p.s.initializations = session.initializations /\ p.s.disposed = session.disposed
         /\ p.ok => Len(p.r) = Len(p.x) /\ \A i \in 1 .. Len(p.x) : Passed(p.x[i])
<1>1. CASE session.live = NoExecution
  <2>1. p.s = session /\ p.x = execs /\ p.r = records
    BY <1>1 DEF ClosePrevious
  <2>2. Len(records) = Len(execs) /\ \A i \in 1 .. Len(execs) : i # NoExecution
    BY <1>1 DEF Books, NoExecution
  <2> QED
    BY <1>1, <2>1, <2>2 DEF Books
<1>2. CASE session.live # NoExecution
  <2>1. PICK e \in Finished(Current), fits \in BOOLEAN :
          p = [s |-> Retained(session, fits), x |-> [execs EXCEPT ![session.live] = e],
               r |-> Recorded(session, e, fits), ok |-> Replaceable(e, Retained(session, fits))]
    BY <1>2 DEF ClosePrevious
  <2>2. /\ p.s = Retained(session, fits) /\ p.x = [execs EXCEPT ![session.live] = e]
        /\ p.r = Recorded(session, e, fits) /\ (p.ok => Passed(e))
    BY <2>1 DEF Replaceable
  <2>3. /\ session.live = Len(execs) /\ Plausible(Current)
        /\ session.retained => ~Current.built \/ Current.closed
    BY <1>2, CurrentFacts
  <2>4. Plausible(e) /\ (~e.built \/ e.closed) /\ (session.retained /\ Passed(Current) => Passed(e))
    BY <2>3, FinishedFacts
  <2>5. /\ Books(p.s, p.x, p.r) /\ Len(p.x) = Len(execs) /\ p.x[session.live] = e
        /\ Len(p.r) = Len(execs)
    BY <1>2, <2>2, <2>4, ReceiptTaken
  <2>6. /\ p.s.live = session.live /\ p.s.disposed = session.disposed
        /\ p.s.initializations = session.initializations
    <3>1. session \in SessionType(Len(execs))
      BY DEF Books
    <3> QED
      BY <2>2, <3>1, RetainedFacts
  <2>7. ASSUME p.ok, NEW i \in 1 .. Len(p.x) PROVE Passed(p.x[i])
    BY <2>2, <2>5, <2>6, <2>7 DEF Books
  <2> QED
    BY <2>5, <2>6, <2>7
<1> QED
  BY <1>1, <1>2

\* start_schedule hands back an execution that is in order.
LEMMA StartedFacts ==
  ASSUME NEW e \in Started
  PROVE  Plausible(e) /\ e.failed \in BOOLEAN
<1>1. Built \in Execution /\ Built.cleanup = "not_started" /\ Built.built
  BY BindingAssumption DEF Built, Execution, Cleanups
<1>2. CASE e = Built
  BY <1>1, <1>2 DEF Plausible, Execution
<1>3. CASE e = [Built EXCEPT !.built = FALSE, !.failed = TRUE]
  <2>1. e \in Execution /\ e.cleanup = "not_started" /\ e.failed
    BY <1>1, <1>3 DEF Execution
  <2> QED
    BY <2>1 DEF Plausible, Execution
<1>4. CASE e \in CleanedUp([Built EXCEPT !.failed = TRUE])
  <2> DEFINE f == [Built EXCEPT !.failed = TRUE]
  <2>1. f \in Execution /\ f.cleanup = "not_started" /\ f.built
    BY <1>1 DEF Execution
  <2>2. Plausible(f)
    BY <2>1 DEF Plausible
  <2>3. Plausible(e)
    BY <1>4, <2>2, CleanedUpFacts
  <2> QED
    BY <2>3 DEF Plausible, Execution
<1> QED
  BY <1>2, <1>3, <1>4 DEF Started

\* An interval, run or failed.
LEMMA AdvancedFacts ==
  ASSUME NEW e, Plausible(e), e.steps # ReplaySteps, NEW d \in Advanced(e)
  PROVE  Plausible(d) /\ d.failed \in BOOLEAN
<1>1. e \in Execution /\ e.steps + 1 \in 0 .. ReplaySteps
  BY BindingAssumption DEF Plausible, Execution
<1>2. CASE d = [e EXCEPT !.steps = @ + 1]
  <2>1. /\ d \in Execution /\ d.cleanup = e.cleanup /\ d.closed = e.closed /\ d.built = e.built
        /\ d.failed = e.failed
    BY <1>1, <1>2 DEF Execution
  <2> QED
    BY <2>1 DEF Plausible, Execution
<1>3. CASE d \in CleanedUp([e EXCEPT !.failed = TRUE])
  <2> DEFINE f == [e EXCEPT !.failed = TRUE]
  <2>1. f \in Execution /\ f.cleanup = e.cleanup /\ f.closed = e.closed /\ f.built = e.built /\ f.failed
    BY <1>1 DEF Execution
  <2>2. Plausible(f)
    BY <2>1 DEF Plausible
  <2>3. Plausible(d)
    BY <1>3, <2>2, CleanedUpFacts
  <2> QED
    BY <2>3 DEF Plausible, Execution
<1> QED
  BY <1>2, <1>3 DEF Advanced

---------------------------------------------------------------------------
\* initialize keeps the books, whether it refuses, raises, or starts an execution,
\* and then one more is started for one more initialization.
LEMMA InitializeKeeps ==
  ASSUME Books(session, execs, records), NEW raised \in BOOLEAN, Initialize(raised)
  PROVE  /\ Books(session', execs', records')
         /\ ~raised => /\ session'.initializations = session.initializations + 1
                       /\ Len(execs') = Len(execs) + 1
<1>1. CASE session.disposed \/ LimitReached(session)
  <2>1. session' = session /\ execs' = execs /\ records' = records /\ raised
    BY <1>1 DEF Initialize
  <2> QED
    BY <2>1
<1>2. CASE ~(session.disposed \/ LimitReached(session))
  <2> DEFINE next(p) == [p.s EXCEPT !.initializations = @ + 1, !.retained = FALSE]
  <2>1. PICK p \in ClosePrevious :
          /\ records' = p.r
          /\ \/ ~p.ok /\ raised /\ session' = p.s /\ execs' = p.x
             \/ /\ p.ok
                /\ \E e \in Started : /\ raised = e.failed /\ execs' = Append(p.x, e)
                                      /\ session' = [next(p) EXCEPT !.live = Len(p.x) + 1]
             \/ /\ p.ok /\ raised /\ execs' = p.x
                /\ session' = [next(p) EXCEPT !.live = NoExecution]
    BY <1>2 DEF Initialize
  <2> DEFINE n == Len(p.x)
  <2>2. /\ Books(p.s, p.x, p.r) /\ n = Len(execs)
        /\ p.s.initializations = session.initializations /\ p.s.disposed = session.disposed
        /\ p.ok => Len(p.r) = n /\ \A i \in 1 .. n : Passed(p.x[i])
    BY PreviousClosed
  <2>3. /\ p.x \in Seq(Execution) /\ n \in Nat /\ p.s \in SessionType(n) /\ p.r \in Seq(RecordType(n))
        /\ p.s.disposals = 0 /\ p.s.disposed = FALSE
    <3>1. p.x \in Seq(Execution) /\ p.s \in SessionType(n) /\ p.r \in Seq(RecordType(n))
      BY <2>2 DEF Books
    <3>2. n \in Nat /\ p.s.disposed \in BOOLEAN
      BY <3>1, LenProperties, SessionFacts
    <3> QED
      BY <1>2, <2>2, <3>1, <3>2 DEF Books
  <2>4. session.initializations + 1 \in 0 .. MaxExecutions
    <3>1. session.initializations \in 0 .. MaxExecutions
      BY SessionFacts DEF Books
    <3> QED
      BY <1>2, <3>1, BindingAssumption DEF LimitReached
  <2>5. CASE ~p.ok /\ raised /\ session' = p.s /\ execs' = p.x
    BY <2>1, <2>2, <2>5
  <2>6. ASSUME p.ok, NEW e \in Started, raised = e.failed, execs' = Append(p.x, e),
               session' = [next(p) EXCEPT !.live = Len(p.x) + 1]
        PROVE  /\ Books(session', execs', records')
               /\ session'.initializations = session.initializations + 1
               /\ Len(execs') = Len(execs) + 1
    <3>1. Plausible(e) /\ e \in Execution
      BY StartedFacts DEF Plausible
    <3>2. /\ execs' \in Seq(Execution) /\ Len(execs') = n + 1 /\ execs'[n + 1] = e
          /\ \A i \in 1 .. n : execs'[i] = p.x[i]
      BY <2>3, <2>6, <3>1, AppendProperties
    <3>3. /\ session' \in SessionType(n + 1) /\ session'.live = n + 1 /\ session'.retained = FALSE
          /\ session'.disposed = FALSE /\ session'.disposals = 0
          /\ session'.initializations = session.initializations + 1
      <4>1. session' = [live |-> n + 1, initializations |-> session.initializations + 1,
                        disposals |-> 0, disposed |-> FALSE, retained |-> FALSE,
                        complete |-> p.s.complete, disposal |-> p.s.disposal]
        <5>1. p.s = [live |-> p.s.live, initializations |-> p.s.initializations,
                    disposals |-> p.s.disposals, disposed |-> p.s.disposed, retained |-> p.s.retained,
                    complete |-> p.s.complete, disposal |-> p.s.disposal]
          BY <2>3, SessionShape
        <5> QED
          BY <2>2, <2>3, <2>6, <5>1
      <4>2. p.s.complete \in BOOLEAN /\ p.s.disposal \in BOOLEAN /\ n + 1 \in 0 .. n + 1
        BY <2>3, SessionFacts
      <4> HIDE DEF n
      <4> QED
        BY <2>4, <4>1, <4>2 DEF SessionType
    <3>4. records' = p.r /\ records' \in Seq(RecordType(n + 1)) /\ Len(records') = n
      BY <2>1, <2>2, <2>3, <2>6, RecordsWiden
    <3>5. \A i \in 1 .. n + 1 : Plausible(execs'[i]) /\ (i # n + 1 => Passed(execs'[i]))
      BY <2>2, <2>3, <2>6, <3>1, <3>2 DEF Books
    <3>6. \A i \in 1 .. n : /\ records'[i].execution = i
                            /\ records'[i].passed => records'[i].kept /\ Passed(execs'[i])
      BY <2>2, <2>6, <3>2, <3>4 DEF Books
    <3>7. n + 1 <= session'.initializations /\ n + 1 - 1 = n
      <4>1. n <= session.initializations /\ session.initializations \in Nat
        BY <2>2, SessionFacts DEF Books
      <4> QED
        BY <2>3, <3>3, <4>1
    <3> HIDE DEF n
    <3>8. Books(session', execs', records')
      BY <2>3, <3>2, <3>3, <3>4, <3>5, <3>6, <3>7 DEF Books, NoExecution
    <3> QED
      BY <2>2, <3>2, <3>3, <3>8
  <2>7. CASE p.ok /\ raised /\ execs' = p.x /\ session' = [next(p) EXCEPT !.live = NoExecution]
    <3>1. /\ session' \in SessionType(n) /\ session'.live = NoExecution /\ session'.disposed = FALSE
          /\ session'.disposals = 0 /\ session'.initializations = session.initializations + 1
      <4>1. session' = [live |-> NoExecution, initializations |-> session.initializations + 1,
                        disposals |-> 0, disposed |-> FALSE, retained |-> FALSE,
                        complete |-> p.s.complete, disposal |-> p.s.disposal]
        <5>1. p.s = [live |-> p.s.live, initializations |-> p.s.initializations,
                    disposals |-> p.s.disposals, disposed |-> p.s.disposed, retained |-> p.s.retained,
                    complete |-> p.s.complete, disposal |-> p.s.disposal]
          BY <2>3, SessionShape
        <5> QED
          BY <2>2, <2>3, <2>7, <5>1
      <4>2. p.s.complete \in BOOLEAN /\ p.s.disposal \in BOOLEAN /\ NoExecution \in 0 .. n
        BY <2>3, SessionFacts DEF NoExecution
      <4> HIDE DEF n
      <4> QED
        BY <2>4, <4>1, <4>2 DEF SessionType
    <3>2. execs' = p.x /\ records' = p.r /\ Len(records') = n /\ \A i \in 1 .. n : Passed(execs'[i])
      BY <2>1, <2>2, <2>7
    <3>3. n = Len(execs') /\ n <= session'.initializations
      <4>1. n <= session.initializations /\ session.initializations \in Nat
        BY <2>2, SessionFacts DEF Books
      <4> QED
        BY <2>3, <3>1, <3>2, <4>1
    <3> HIDE DEF n
    <3> QED
      BY <2>2, <2>3, <2>7, <3>1, <3>2, <3>3 DEF Books
  <2> QED
    BY <2>1, <2>5, <2>6, <2>7
<1> QED
  BY <1>1, <1>2

\* advance keeps the books: an execution that has its receipt runs no more.
LEMMA AdvanceKeeps ==
  ASSUME Books(session, execs, records), NEW raised \in BOOLEAN, Advance(raised)
  PROVE  Books(session', execs', records') /\ session' = session /\ Len(execs') = Len(execs)
<1>1. CASE CannotAdvance
  <2>1. session' = session /\ execs' = execs /\ records' = records
    BY <1>1 DEF Advance
  <2> QED
    BY <2>1
<1>2. CASE ~CannotAdvance
  <2> DEFINE n == Len(execs)
  <2>1. PICK e \in Advanced(Current) : execs' = [execs EXCEPT ![session.live] = e]
    BY <1>2 DEF Advance
  <2>2. session' = session /\ records' = records
    BY <1>2 DEF Advance
  <2>3. /\ session.live # NoExecution /\ ~Current.failed /\ ~Current.closed /\ ~Completed(Current)
        /\ ~session.disposed
    BY <1>2 DEF CannotAdvance
  <2>4. n \in Nat /\ session.live = n /\ n > 0 /\ Plausible(Current) /\ ~session.retained
    BY <2>3, CurrentFacts DEF Plausible
  <2>5. Plausible(e) /\ e \in Execution
    BY <2>3, <2>4, AdvancedFacts DEF Completed, Plausible
  <2>6. /\ execs' \in Seq(Execution) /\ Len(execs') = n /\ execs'[n] = e
        /\ \A i \in 1 .. n : i # n => execs'[i] = execs[i]
    BY <2>1, <2>4, <2>5, ExceptSeq DEF Books
  <2>7. Len(records) = n - 1 /\ session.disposals = 0
    BY <2>3, <2>4 DEF Books
  <2>8. \A i \in 1 .. n : Plausible(execs'[i]) /\ (i # n => Passed(execs'[i]))
    BY <2>4, <2>5, <2>6 DEF Books
  <2>9. \A i \in 1 .. n - 1 : /\ records[i].execution = i
                              /\ records[i].passed => records[i].kept /\ Passed(execs'[i])
    <3> SUFFICES ASSUME NEW i \in 1 .. n - 1
                 PROVE  /\ records[i].execution = i
                        /\ records[i].passed => records[i].kept /\ Passed(execs'[i])
      OBVIOUS
    <3>1. i \in 1 .. Len(records) /\ execs'[i] = execs[i]
      BY <2>4, <2>6, <2>7
    <3> QED
      BY <3>1 DEF Books
  <2>10. session \in SessionType(n) /\ records \in Seq(RecordType(n))
    BY DEF Books
  <2> HIDE DEF n
  <2>11. Books(session, execs', records)
    BY <2>3, <2>4, <2>6, <2>7, <2>8, <2>9, <2>10 DEF Books
  <2> QED
    BY <2>2, <2>6, <2>11 DEF n
<1> QED
  BY <1>1, <1>2

\* dispose keeps the books and leaves a disposed session.
LEMMA DisposeKeeps ==
  ASSUME Books(session, execs, records), Dispose
  PROVE  /\ Books(session', execs', records') /\ session'.disposed
         /\ session'.initializations = session.initializations /\ Len(execs') = Len(execs)
<1> DEFINE n == Len(execs)
<1>1. session \in SessionType(n) /\ n \in Nat
  BY LenProperties DEF Books
<1>2. CASE session.disposed
  <2>1. session' = session /\ execs' = execs /\ records' = records
    BY <1>2 DEF Dispose
  <2> QED
    BY <1>2, <2>1
<1>3. CASE ~session.disposed /\ session.live = NoExecution
  <2>1. /\ session' = [session EXCEPT !.disposed = TRUE, !.disposals = @ + 1]
        /\ execs' = execs /\ records' = records /\ session.disposals = 0
    BY <1>3 DEF Dispose, Books
  <2>2. /\ session' \in SessionType(n) /\ session'.live = NoExecution /\ session'.disposed
        /\ session'.disposals = 1 /\ session'.initializations = session.initializations
    <3>1. session' = [live |-> NoExecution, initializations |-> session.initializations,
                      disposals |-> 1, disposed |-> TRUE, retained |-> session.retained,
                      complete |-> session.complete, disposal |-> session.disposal]
      <4>1. session = [live |-> session.live, initializations |-> session.initializations,
                    disposals |-> session.disposals, disposed |-> session.disposed, retained |-> session.retained,
                    complete |-> session.complete, disposal |-> session.disposal]
        BY <1>1, SessionShape
      <4>2. session.live = NoExecution
        BY <1>3
      <4>3. session' = [session EXCEPT !.disposed = TRUE, !.disposals = 1]
        BY <2>1
      <4> QED
        BY <4>1, <4>2, <4>3
    <3>2. /\ session.initializations \in 0 .. MaxExecutions /\ session.retained \in BOOLEAN
          /\ session.complete \in BOOLEAN /\ session.disposal \in BOOLEAN /\ NoExecution \in 0 .. n
      BY <1>1, SessionFacts DEF NoExecution
    <3> HIDE DEF n
    <3> QED
      BY <3>1, <3>2 DEF SessionType
  <2> QED
    BY <1>3, <2>1, <2>2 DEF Books
<1>4. CASE ~session.disposed /\ session.live # NoExecution
  <2>1. PICK e \in IF Completed(Current) THEN Finished(Current) ELSE CleanedUp(Current),
             fits \in BOOLEAN :
          /\ execs' = [execs EXCEPT ![session.live] = e]
          /\ records' = Recorded(session, e, fits)
          /\ session' = [Retained(session, fits) EXCEPT
                           !.disposed = TRUE, !.disposals = @ + 1,
                           !.disposal = e.cleanup = "confirmed" /\ Retained(session, fits).complete]
    BY <1>4 DEF Dispose
  <2> DEFINE s == Retained(session, fits)
             confirmed == e.cleanup = "confirmed" /\ s.complete
  <2>2. /\ Plausible(Current) /\ (session.retained => ~Current.built \/ Current.closed)
    BY <1>4, CurrentFacts
  <2>3. Plausible(e) /\ (~e.built \/ e.closed) /\ (session.retained /\ Passed(Current) => Passed(e))
    <3>1. CASE Completed(Current)
      BY <2>1, <2>2, <3>1, FinishedFacts
    <3>2. CASE ~Completed(Current)
      BY <2>1, <2>2, <3>2, CleanedUpFacts DEF Passed
    <3> QED
      BY <3>1, <3>2
  <2>4. Books(s, execs', records') /\ Len(execs') = n
    BY <1>4, <2>1, <2>3, ReceiptTaken
  <2>5. /\ s \in SessionType(n) /\ s.retained /\ s.live = session.live /\ s.disposals = 0
        /\ s.initializations = session.initializations
    BY <1>1, <1>4, RetainedFacts DEF Books
  <2>6. confirmed \in BOOLEAN
    OBVIOUS
  <2>7. session' = [s EXCEPT !.disposed = TRUE, !.disposals = @ + 1, !.disposal = confirmed]
    BY <2>1
  <2> HIDE DEF s, confirmed
  <2>8. /\ session' \in SessionType(n) /\ session'.live = s.live /\ session'.disposed
        /\ session'.disposals = 1 /\ session'.initializations = s.initializations
        /\ session'.retained
    <3>1. session' = [live |-> s.live, initializations |-> s.initializations,
                      disposals |-> 1, disposed |-> TRUE, retained |-> s.retained,
                      complete |-> s.complete, disposal |-> confirmed]
      <4>1. s = [live |-> s.live, initializations |-> s.initializations,
                    disposals |-> s.disposals, disposed |-> s.disposed, retained |-> s.retained,
                    complete |-> s.complete, disposal |-> s.disposal]
        BY <2>5, SessionShape
      <4>2. session' = [s EXCEPT !.disposed = TRUE, !.disposals = 1, !.disposal = confirmed]
        BY <2>5, <2>7
      <4> QED
        BY <4>1, <4>2
    <3>2. /\ s.live \in 0 .. n /\ s.initializations \in 0 .. MaxExecutions
          /\ s.retained \in BOOLEAN /\ s.complete \in BOOLEAN
      BY <2>5, SessionFacts
    <3> HIDE DEF n
    <3> QED
      BY <2>5, <2>6, <3>1, <3>2 DEF SessionType
  <2>9. Books(session', execs', records')
    BY <2>4, <2>5, <2>8 DEF Books
  <2> QED
    BY <2>4, <2>5, <2>8, <2>9
<1> QED
  BY <1>2, <1>3, <1>4

\* A disposed session stays as it is.
LEMMA DisposedStays ==
  ASSUME session.disposed,
         (\E raised \in BOOLEAN : Initialize(raised) \/ Advance(raised)) \/ Dispose
  PROVE  session' = session /\ execs' = execs /\ records' = records
<1>1. CASE Dispose
  BY <1>1 DEF Dispose
<1>2. ASSUME NEW raised, Initialize(raised)
      PROVE  session' = session /\ execs' = execs /\ records' = records
  BY <1>2 DEF Initialize
<1>3. ASSUME NEW raised, Advance(raised)
      PROVE  session' = session /\ execs' = execs /\ records' = records
  <2>1. CannotAdvance
    BY DEF CannotAdvance
  <2> QED
    BY <1>3, <2>1 DEF Advance
<1> QED
  BY <1>1, <1>2, <1>3

---------------------------------------------------------------------------
(* The replay *)

FlowShape ==
  flow = [pc |-> flow.pc, guard |-> flow.guard, result |-> flow.result, terminal |-> flow.terminal,
          replays |-> flow.replays, messages |-> flow.messages]

\* The fields of the running replay.
LEMMA FlowFacts ==
  ASSUME FlowType
  PROVE  /\ flow.pc \in {"idle", "register", "step", "dispose", "judge"} /\ flow.guard \in Phases
         /\ flow.result \in {"none", "ok", "failed", "step_mismatch", "dispose_failed"}
         /\ flow.terminal \in {"", "all_steps_done", "step_mismatch"}
         /\ flow.replays \in 0 .. MaxReplays /\ flow.messages \in 0 .. MaxMessages
         /\ FlowShape
BY DEF FlowType, FlowShape

\* A step of the replay that leaves its last result alone.
LEMMA FlowMade ==
  ASSUME FlowType, replay' = replay, FlowShape', flow'.guard \in Phases,
         flow'.pc \in {"idle", "register", "step", "dispose", "judge"},
         flow'.result \in {"none", "ok", "failed", "step_mismatch", "dispose_failed"},
         flow'.terminal \in {"", "all_steps_done", "step_mismatch"},
         flow'.replays \in 0 .. MaxReplays, flow'.messages \in 0 .. MaxMessages
  PROVE  FlowType'
BY DEF FlowType, FlowShape

\* The guard's next phase is a phase.
LEMMA PhaseAfter ==
  ASSUME NEW phase \in Phases, NEW tag
  PROVE  AfterReceive(phase, tag) \in Phases
BY DEF AfterReceive, Phases

\* A verdict of an earlier replay is not touched.
LEMMA VerdictStays ==
  ASSUME PassedIsEarned, replay' = replay, flow'.terminal = flow.terminal,
         session' = session, execs' = execs, records' = records
  PROVE  PassedIsEarned'
BY DEF PassedIsEarned

\* Calls of the owner.
LEMMA OwnerKeeps ==
  ASSUME BooksInv, OwnerCalls
  PROVE  BooksInv'
<1>1. /\ flow.pc = "idle" /\ flow' = flow /\ replay' = replay
      /\ (\E raised \in BOOLEAN : Initialize(raised) \/ Advance(raised)) \/ Dispose
  BY DEF OwnerCalls
<1>2. Books(session', execs', records')
  BY <1>1, InitializeKeeps, AdvanceKeeps, DisposeKeeps DEF BooksInv
<1>3. FlowType' /\ Earning'
  BY <1>1 DEF BooksInv, FlowType, Earning
<1>4. PassedIsEarned'
  <2>1. CASE replay.passed
    <3>1. session.disposed
      BY <2>1 DEF BooksInv, PassedIsEarned
    <3> QED
      BY <1>1, <3>1, DisposedStays, VerdictStays DEF BooksInv
  <2>2. CASE ~replay.passed
    BY <1>1, <2>2 DEF PassedIsEarned
  <2> QED
    BY <2>1, <2>2
<1> QED
  BY <1>2, <1>3, <1>4 DEF BooksInv

\* A replay begins, or is refused.
LEMMA ReplayKeeps ==
  ASSUME BooksInv, Replay
  PROVE  BooksInv'
<1>1. /\ flow.pc = "idle" /\ flow.replays < MaxReplays
      /\ session' = session /\ execs' = execs /\ records' = records
  BY DEF Replay
<1>2. Books(session', execs', records')
  BY <1>1 DEF BooksInv
<1>3. /\ flow.guard \in Phases /\ flow.replays + 1 \in 0 .. MaxReplays
      /\ flow.messages \in 0 .. MaxMessages /\ FlowShape
      /\ flow.terminal \in {"", "all_steps_done", "step_mismatch"}
  <2>1. FlowType /\ MaxReplays \in Nat
    BY BindingAssumption DEF BooksInv
  <2>2. flow.replays \in 0 .. MaxReplays
    BY <2>1, FlowFacts
  <2>3. flow.replays + 1 \in 0 .. MaxReplays
    BY <1>1, <2>1, <2>2
  <2> QED
    BY <2>1, <2>3, FlowFacts
<1>4. CASE Fresh
  <2>1. replay' = replay
    BY <1>4 DEF Replay
  <2>2. AfterSend("idle", "register_traces") = "validating" /\ "validating" \in Phases
    BY DEF AfterSend, Registrations, Phases
  <2>3. flow' = [pc |-> "register", guard |-> "validating", result |-> "none", terminal |-> "",
                 replays |-> flow.replays + 1, messages |-> 0]
    <3>1. flow' = [flow EXCEPT !.pc = "register", !.replays = flow.replays + 1, !.terminal = "",
                               !.guard = "validating", !.result = "none", !.messages = 0]
      BY <1>4, <2>2 DEF Replay
    <3> QED
      BY <1>3, <3>1 DEF FlowShape
  <2>4. FlowType'
    <3>1. FlowType /\ 0 \in 0 .. MaxMessages
      BY BindingAssumption DEF BooksInv
    <3>2. /\ flow'.pc = "register" /\ flow'.guard = "validating" /\ flow'.result = "none"
          /\ flow'.terminal = "" /\ flow'.replays = flow.replays + 1 /\ flow'.messages = 0
          /\ FlowShape'
      BY <2>3 DEF FlowShape
    <3> QED
      BY <1>3, <2>1, <2>2, <3>1, <3>2, FlowMade
  <2>5. ~replay.passed /\ session.initializations = Len(execs)
    <3>1. ~session.disposed /\ session.initializations = 0
      BY <1>4 DEF Fresh
    <3>2. Len(execs) \in Nat /\ Len(execs) <= session.initializations
      BY LenProperties DEF BooksInv, Books
    <3> QED
      BY <3>1, <3>2 DEF BooksInv, PassedIsEarned
  <2> QED
    BY <1>1, <1>2, <2>1, <2>3, <2>4, <2>5 DEF BooksInv, Earning, PassedIsEarned
<1>5. CASE ~Fresh
  <2>1. replay' = [made |-> TRUE, passed |-> FALSE, fresh |-> FALSE, comparison |-> "incomplete"]
    BY <1>5 DEF Replay
  <2>2. flow' = [pc |-> "idle", guard |-> flow.guard, result |-> "failed",
                 terminal |-> flow.terminal, replays |-> flow.replays + 1,
                 messages |-> flow.messages]
    <3>1. flow' = [flow EXCEPT !.replays = @ + 1, !.result = "failed"]
      BY <1>5 DEF Replay
    <3> QED
      BY <1>1, <1>3, <3>1 DEF FlowShape
  <2>3. FlowType'
    BY <1>3, <2>1, <2>2 DEF FlowType
  <2> QED
    BY <1>2, <2>1, <2>2, <2>3 DEF BooksInv, Earning, PassedIsEarned
<1> QED
  BY <1>4, <1>5

\* A step of a replay under way that makes no call of the session.
LEMMA UnderWayKeeps ==
  ASSUME BooksInv, flow.pc \in {"register", "step"}, FlowType',
         flow'.pc \in {"step", "dispose", "judge"},
         session' = session, execs' = execs, records' = records, replay' = replay
  PROVE  BooksInv'
<1>1. Books(session', execs', records') /\ ~replay'.passed /\ session'.initializations = Len(execs')
  BY DEF BooksInv, Earning
<1> QED
  BY <1>1 DEF BooksInv, Earning, PassedIsEarned

\* What a terminal message leaves.
LEMMA TerminalFacts ==
  ASSUME FlowType, NEW tag
  PROVE  /\ NotedTerminal(tag) \in {"", "all_steps_done", "step_mismatch"}
         /\ Ended(tag) \in {"ok", "failed", "step_mismatch"}
BY FlowFacts DEF NotedTerminal, Ended

\* The reply to the registration.
LEMMA RegisteredKeeps ==
  ASSUME BooksInv, NEW tag, NEW bound \in BOOLEAN, NEW admitted \in BOOLEAN,
         Registered(tag, bound, admitted)
  PROVE  BooksInv'
<1> DEFINE agreed == tag = "spec_valid" /\ bound
           guard == IF agreed THEN AfterReceive(flow.guard, tag) ELSE flow.guard
           result == IF agreed /\ admitted THEN flow.result ELSE "failed"
           pc == IF ~agreed THEN "judge" ELSE IF admitted THEN "step" ELSE "dispose"
           terminal == NotedTerminal(tag)
<1>1. /\ flow.pc = "register"
      /\ session' = session /\ execs' = execs /\ records' = records /\ replay' = replay
      /\ flow' = [flow EXCEPT !.terminal = terminal, !.guard = guard, !.result = result, !.pc = pc]
  BY DEF Registered
<1>2. /\ guard \in Phases /\ pc \in {"step", "dispose", "judge"}
      /\ result \in {"none", "ok", "failed", "step_mismatch", "dispose_failed"}
      /\ terminal \in {"", "all_steps_done", "step_mismatch"}
  BY FlowFacts, PhaseAfter, TerminalFacts DEF BooksInv
<1> HIDE DEF guard, result, pc, terminal
<1>3. flow' = [pc |-> pc, guard |-> guard, result |-> result, terminal |-> terminal,
               replays |-> flow.replays, messages |-> flow.messages]
  BY <1>1, FlowFacts DEF BooksInv, FlowShape
<1>4. FlowType'
  <2>1. FlowType /\ flow.replays \in 0 .. MaxReplays /\ flow.messages \in 0 .. MaxMessages
    BY FlowFacts DEF BooksInv
  <2>2. pc \in {"idle", "register", "step", "dispose", "judge"} /\ replay' = replay
    BY <1>1, <1>2
  <2>3. /\ flow'.pc = pc /\ flow'.guard = guard /\ flow'.result = result
        /\ flow'.terminal = terminal /\ flow'.replays = flow.replays
        /\ flow'.messages = flow.messages /\ FlowShape'
    BY <1>3 DEF FlowShape
  <2> QED
    BY <1>2, <2>1, <2>2, <2>3, FlowMade
<1> QED
  BY <1>1, <1>2, <1>3, <1>4, UnderWayKeeps

\* A message that asks for a step, and the call it makes.
LEMMA StepAskedKeeps ==
  ASSUME BooksInv, NEW tag, NEW raised \in BOOLEAN, NEW sent \in BOOLEAN,
         StepAsked(tag, raised, sent)
  PROVE  BooksInv'
<1> DEFINE ends == raised \/ ~sent
           guard == AfterReceive(flow.guard, tag)
           result == IF ends THEN "failed" ELSE flow.result
           pc == IF ends THEN "dispose" ELSE flow.pc
<1>1. /\ flow.pc = "step" /\ flow.messages < MaxMessages /\ replay' = replay
      /\ IF tag = "initial_state" THEN Initialize(raised) ELSE Advance(raised)
      /\ flow' = [flow EXCEPT !.guard = guard, !.messages = flow.messages + 1, !.result = result,
                              !.pc = pc]
  BY DEF StepAsked
<1>2. /\ Books(session, execs, records) /\ FlowType /\ ~replay.passed
      /\ session.initializations = Len(execs)
  BY <1>1 DEF BooksInv, Earning
<1>3. /\ guard \in Phases /\ pc \in {"idle", "register", "step", "dispose", "judge"}
      /\ result \in {"none", "ok", "failed", "step_mismatch", "dispose_failed"}
      /\ flow.terminal \in {"", "all_steps_done", "step_mismatch"} /\ flow.replays \in 0 .. MaxReplays
      /\ flow.messages \in 0 .. MaxMessages /\ FlowShape
  BY <1>1, <1>2, FlowFacts, PhaseAfter
<1>4. flow.messages + 1 \in 0 .. MaxMessages
  <2>1. flow.messages \in 0 .. MaxMessages /\ flow.messages < MaxMessages /\ MaxMessages \in Nat
    BY <1>1, <1>3, BindingAssumption
  <2> QED
    BY <2>1
<1>5. pc \in {"step", "dispose"} /\ (ends => pc = "dispose" /\ result = "failed")
  BY <1>1
<1> HIDE DEF guard, result, pc
<1>6. flow' = [pc |-> pc, guard |-> guard, result |-> result, terminal |-> flow.terminal,
               replays |-> flow.replays, messages |-> flow.messages + 1]
  BY <1>1, <1>3 DEF FlowShape
<1>7. FlowType'
  <2>1. /\ flow'.pc = pc /\ flow'.guard = guard /\ flow'.result = result
        /\ flow'.terminal = flow.terminal /\ flow'.replays = flow.replays
        /\ flow'.messages = flow.messages + 1 /\ FlowShape'
    BY <1>6 DEF FlowShape
  <2> QED
    BY <1>1, <1>2, <1>3, <1>4, <2>1, FlowMade
<1>8. /\ Books(session', execs', records')
      /\ ~raised => session'.initializations = Len(execs')
  <2>1. CASE tag = "initial_state"
    <3>1. Initialize(raised)
      BY <1>1, <2>1
    <3> QED
      BY <1>2, <3>1, InitializeKeeps
  <2>2. CASE tag # "initial_state"
    <3>1. Advance(raised)
      BY <1>1, <2>2
    <3> QED
      BY <1>2, <3>1, AdvanceKeeps
  <2> QED
    BY <2>1, <2>2
<1>9. Earning'
  BY <1>1, <1>2, <1>5, <1>6, <1>8 DEF Earning
<1> QED
  BY <1>1, <1>2, <1>7, <1>8, <1>9 DEF BooksInv, PassedIsEarned

\* Any other message.
LEMMA OtherMessageKeeps ==
  ASSUME BooksInv, NEW tag, OtherMessage(tag)
  PROVE  BooksInv'
<1> DEFINE goes == tag = "step_ok" /\ MayReceive(flow.guard, tag)
           messages == IF goes THEN flow.messages + 1 ELSE flow.messages
           result == IF goes THEN flow.result ELSE Ended(tag)
           pc == IF goes THEN flow.pc ELSE "dispose"
           terminal == NotedTerminal(tag)
<1>1. /\ flow.pc = "step" /\ (goes => flow.messages < MaxMessages)
      /\ session' = session /\ execs' = execs /\ records' = records /\ replay' = replay
      /\ flow' = [flow EXCEPT !.terminal = terminal, !.messages = messages, !.result = result,
                              !.pc = pc]
  BY DEF OtherMessage
<1>2. FlowType
  BY DEF BooksInv
<1>3. /\ flow.messages \in 0 .. MaxMessages /\ flow.replays \in 0 .. MaxReplays
      /\ flow.guard \in Phases /\ FlowShape
  BY <1>2, FlowFacts
<1>4. messages \in 0 .. MaxMessages
  BY <1>1, <1>3, BindingAssumption
<1>5. /\ pc \in {"step", "dispose", "judge"}
      /\ result \in {"none", "ok", "failed", "step_mismatch", "dispose_failed"}
      /\ terminal \in {"", "all_steps_done", "step_mismatch"}
  BY <1>1, <1>2, FlowFacts, TerminalFacts
<1>6. pc \in {"idle", "register", "step", "dispose", "judge"}
  BY <1>5
<1> HIDE DEF messages, result, pc, terminal
<1>7. flow' = [pc |-> pc, guard |-> flow.guard, result |-> result, terminal |-> terminal,
               replays |-> flow.replays, messages |-> messages]
  BY <1>1, <1>3 DEF FlowShape
<1>8. FlowType'
  <2>1. /\ flow'.pc = pc /\ flow'.guard = flow.guard /\ flow'.result = result
        /\ flow'.terminal = terminal /\ flow'.replays = flow.replays
        /\ flow'.messages = messages /\ FlowShape'
    BY <1>7 DEF FlowShape
  <2> QED
    BY <1>1, <1>2, <1>3, <1>4, <1>5, <1>6, <2>1, FlowMade
<1> QED
  BY <1>1, <1>5, <1>7, <1>8, UnderWayKeeps

\* The connection fails.
LEMMA DisconnectedKeeps ==
  ASSUME BooksInv, Disconnected
  PROVE  BooksInv'
<1> DEFINE pc == IF flow.pc = "register" THEN "judge" ELSE "dispose"
<1>1. /\ flow.pc \in {"register", "step"}
      /\ session' = session /\ execs' = execs /\ records' = records /\ replay' = replay
      /\ flow' = [flow EXCEPT !.result = "failed", !.pc = pc]
  BY DEF Disconnected
<1>2. /\ pc \in {"step", "dispose", "judge"} /\ pc \in {"idle", "register", "step", "dispose", "judge"}
  OBVIOUS
<1>3. FlowType
  BY DEF BooksInv
<1> HIDE DEF pc
<1>4. flow' = [pc |-> pc, guard |-> flow.guard, result |-> "failed", terminal |-> flow.terminal,
               replays |-> flow.replays, messages |-> flow.messages]
  BY <1>1, <1>3, FlowFacts DEF FlowShape
<1>5. FlowType'
  <2>1. /\ flow.guard \in Phases /\ flow.terminal \in {"", "all_steps_done", "step_mismatch"}
        /\ flow.replays \in 0 .. MaxReplays /\ flow.messages \in 0 .. MaxMessages
    BY <1>3, FlowFacts
  <2>2. /\ flow'.pc = pc /\ flow'.guard = flow.guard /\ flow'.result = "failed"
        /\ flow'.terminal = flow.terminal /\ flow'.replays = flow.replays
        /\ flow'.messages = flow.messages /\ FlowShape'
    BY <1>4 DEF FlowShape
  <2> QED
    BY <1>1, <1>2, <1>3, <2>1, <2>2, FlowMade
<1> QED
  BY <1>1, <1>2, <1>4, <1>5, UnderWayKeeps

\* The codec throws on the registration's reply.
LEMMA RegistrationThrowsKeeps ==
  ASSUME BooksInv, RegistrationThrows
  PROVE  BooksInv'
<1>1. /\ flow.pc = "register" /\ flow' = [flow EXCEPT !.pc = "idle"]
      /\ session' = session /\ execs' = execs /\ records' = records /\ replay' = replay
  BY DEF RegistrationThrows
<1>2. FlowType /\ FlowShape /\ ~replay.passed
  BY <1>1, FlowFacts DEF BooksInv, Earning
<1>3. /\ flow'.pc = "idle" /\ flow'.guard = flow.guard /\ flow'.result = flow.result
      /\ flow'.terminal = flow.terminal /\ flow'.replays = flow.replays
      /\ flow'.messages = flow.messages /\ FlowShape'
  BY <1>1, <1>2 DEF FlowShape
<1>4. FlowType'
  BY <1>1, <1>2, <1>3, FlowFacts, FlowMade
<1>5. Books(session', execs', records')
  BY <1>1 DEF BooksInv
<1>6. Earning' /\ PassedIsEarned'
  BY <1>1, <1>2, <1>3 DEF Earning, PassedIsEarned
<1> QED
  BY <1>4, <1>5, <1>6 DEF BooksInv

\* The client disposes the binding.
LEMMA BindingDisposedKeeps ==
  ASSUME BooksInv, BindingDisposed
  PROVE  BooksInv'
<1> DEFINE result == IF flow.result = "ok" /\ ~session'.disposal THEN "dispose_failed" ELSE flow.result
<1>1. /\ flow.pc = "dispose" /\ Dispose /\ replay' = replay
      /\ flow' = [flow EXCEPT !.pc = "judge", !.result = result]
  BY DEF BindingDisposed
<1>2. Books(session, execs, records) /\ FlowType /\ ~replay.passed
  BY <1>1 DEF BooksInv, Earning
<1>3. /\ Books(session', execs', records') /\ Len(execs') = Len(execs)
      /\ session'.initializations = session.initializations
  BY <1>1, <1>2, DisposeKeeps
<1>4. /\ flow.guard \in Phases /\ flow.terminal \in {"", "all_steps_done", "step_mismatch"}
      /\ flow.replays \in 0 .. MaxReplays /\ flow.messages \in 0 .. MaxMessages /\ FlowShape
      /\ result \in {"none", "ok", "failed", "step_mismatch", "dispose_failed"}
  BY <1>2, FlowFacts
<1>5. result = "ok" => flow.result = "ok"
  OBVIOUS
<1> HIDE DEF result
<1>6. flow' = [pc |-> "judge", guard |-> flow.guard, result |-> result, terminal |-> flow.terminal,
               replays |-> flow.replays, messages |-> flow.messages]
  BY <1>1, <1>4 DEF FlowShape
<1>7. FlowType'
  <2>1. /\ flow'.pc = "judge" /\ flow'.guard = flow.guard /\ flow'.result = result
        /\ flow'.terminal = flow.terminal /\ flow'.replays = flow.replays
        /\ flow'.messages = flow.messages /\ FlowShape'
    BY <1>6 DEF FlowShape
  <2> QED
    BY <1>1, <1>2, <1>4, <2>1, FlowMade
<1>8. Earning'
  BY <1>1, <1>2, <1>3, <1>5, <1>6 DEF BooksInv, Earning
<1> QED
  BY <1>1, <1>2, <1>3, <1>7, <1>8 DEF BooksInv, PassedIsEarned

\* What the receipts of a session that is fully completed say of its executions.
LEMMA CompletedIsEarned ==
  ASSUME Books(session, execs, records), FullyCompleted, session.initializations = Len(execs)
  PROVE  /\ session.disposed /\ execs # <<>> /\ \A i \in DOMAIN execs : Passed(execs[i])
         /\ [i \in DOMAIN records |-> records[i].execution] = [i \in DOMAIN execs |-> i]
         /\ \A i \in DOMAIN records : records[i].kept
<1>1. session.disposed /\ session.initializations # 0 /\ \A i \in DOMAIN records : records[i].passed
  BY DEF FullyCompleted, Retires
<1>2. execs \in Seq(Execution) /\ records \in Seq(RecordType(Len(execs)))
  BY DEF Books
<1>3. /\ Len(execs) \in Nat /\ DOMAIN execs = 1 .. Len(execs)
      /\ DOMAIN records = 1 .. Len(records) /\ Len(records) = Len(execs)
  <2>1. Len(records) = Len(execs)
    BY <1>1 DEF Books
  <2> QED
    BY <1>2, <2>1, LenProperties
<1>4. \A i \in 1 .. Len(execs) : /\ records[i].execution = i /\ records[i].kept
                                 /\ Passed(execs[i])
  BY <1>1, <1>3 DEF Books
<1>5. execs # <<>>
  BY <1>1, <1>2, EmptySeq
<1> QED
  BY <1>1, <1>3, <1>4, <1>5

\* The verdict.
LEMMA JudgeKeeps ==
  ASSUME BooksInv, JudgeReplay
  PROVE  BooksInv'
<1> DEFINE passed == flow.result = "ok" /\ Comparison = "matched" /\ FullyCompleted
<1>1. /\ flow.pc = "judge" /\ flow' = [flow EXCEPT !.pc = "idle"]
      /\ session' = session /\ execs' = execs /\ records' = records
      /\ replay' = [made |-> TRUE, fresh |-> TRUE, comparison |-> Comparison, passed |-> passed]
  BY DEF JudgeReplay
<1>2. Books(session, execs, records) /\ FlowType
  BY DEF BooksInv
<1>3. Books(session', execs', records')
  BY <1>1, <1>2
<1>4. flow' = [pc |-> "idle", guard |-> flow.guard, result |-> flow.result,
               terminal |-> flow.terminal, replays |-> flow.replays, messages |-> flow.messages]
  BY <1>1, <1>2, FlowFacts DEF FlowShape
<1>5. passed \in BOOLEAN /\ Comparison \in {"incomplete", "step_mismatch", "matched"}
  BY DEF Comparison
<1>6. passed =>
        /\ Comparison = "matched" /\ flow.terminal = "all_steps_done"
        /\ session.initializations = Len(execs) /\ session.disposed /\ execs # <<>>
        /\ \A i \in DOMAIN execs : Passed(execs[i])
        /\ [i \in DOMAIN records |-> records[i].execution] = [i \in DOMAIN execs |-> i]
        /\ \A i \in DOMAIN records : records[i].kept
  <2> SUFFICES ASSUME passed
               PROVE  /\ Comparison = "matched" /\ flow.terminal = "all_steps_done"
                      /\ session.initializations = Len(execs) /\ session.disposed /\ execs # <<>>
                      /\ \A i \in DOMAIN execs : Passed(execs[i])
                      /\ [i \in DOMAIN records |-> records[i].execution] = [i \in DOMAIN execs |-> i]
                      /\ \A i \in DOMAIN records : records[i].kept
    OBVIOUS
  <2>1. Comparison = "matched" /\ flow.result = "ok" /\ FullyCompleted
    OBVIOUS
  <2>2. session.initializations = Len(execs)
    BY <1>1, <2>1 DEF BooksInv, Earning
  <2>3. flow.terminal = "all_steps_done"
    BY <2>1 DEF Comparison
  <2> QED
    BY <1>2, <2>1, <2>2, <2>3, CompletedIsEarned
<1> HIDE DEF passed
<1>7. /\ replay'.passed = passed /\ replay'.comparison = Comparison /\ replay'.fresh
      /\ flow'.terminal = flow.terminal
  BY <1>1, <1>4
<1>8. FlowType'
  <2>1. /\ flow.guard \in Phases /\ flow.terminal \in {"", "all_steps_done", "step_mismatch"}
        /\ flow.replays \in 0 .. MaxReplays /\ flow.messages \in 0 .. MaxMessages
        /\ flow.result \in {"none", "ok", "failed", "step_mismatch", "dispose_failed"}
    BY <1>2, FlowFacts
  <2> QED
    BY <1>1, <1>4, <1>5, <2>1 DEF FlowType
<1>9. PassedIsEarned'
  BY <1>1, <1>6, <1>7 DEF PassedIsEarned
<1>10. Earning'
  BY <1>4 DEF Earning
<1> QED
  BY <1>3, <1>8, <1>9, <1>10 DEF BooksInv

---------------------------------------------------------------------------
\* The invariant of the session and of the replay holds in every step.
LEMMA BooksInvariant == BindingSpec => []BooksInv
<1>1. BindingInit => BooksInv
  <2> SUFFICES ASSUME BindingInit PROVE BooksInv
    OBVIOUS
  <2>1. /\ session \in SessionType(0) /\ session.live = NoExecution /\ session.disposals = 0
        /\ session.disposed = FALSE /\ session.initializations = 0
    <3>1. session = [live |-> 0, initializations |-> 0, disposals |-> 0, disposed |-> FALSE,
                     retained |-> FALSE, complete |-> TRUE, disposal |-> TRUE]
      BY DEF BindingInit, NoExecution
    <3>2. 0 \in 0 .. MaxExecutions /\ 0 \in 0 .. 0 /\ 0 \in 0 .. 1
      BY BindingAssumption
    <3> QED
      BY <3>1, <3>2 DEF SessionType, NoExecution
  <2>2. execs = <<>> /\ records = <<>> /\ replay.passed = FALSE /\ flow.pc = "idle"
    BY DEF BindingInit
  <2>3. Books(session, execs, records)
    BY <2>1, <2>2, EmptySeq DEF Books
  <2>4. FlowType
    <3>1. 0 \in 0 .. MaxReplays /\ 0 \in 0 .. MaxMessages /\ "idle" \in Phases
      BY BindingAssumption DEF Phases
    <3> QED
      BY <3>1 DEF BindingInit, FlowType
  <2> QED
    BY <2>2, <2>3, <2>4 DEF BooksInv, Earning, PassedIsEarned
<1>2. BooksInv /\ [BindingNext]_bindingVars => BooksInv'
  <2> SUFFICES ASSUME BooksInv, [BindingNext]_bindingVars PROVE BooksInv'
    OBVIOUS
  <2>1. CASE UNCHANGED bindingVars
    <3>1. /\ session' = session /\ execs' = execs /\ records' = records /\ flow' = flow
          /\ replay' = replay
      BY <2>1 DEF bindingVars
    <3> QED
      BY <3>1 DEF BooksInv, FlowType, Earning, PassedIsEarned
  <2>2. ASSUME NEW tag \in MirrorMessages, NEW b \in BOOLEAN, NEW c \in BOOLEAN,
               Registered(tag, b, c) \/ StepAsked(tag, b, c)
        PROVE  BooksInv'
    BY <2>2, RegisteredKeeps, StepAskedKeeps
  <2>3. ASSUME NEW tag \in MirrorMessages, OtherMessage(tag)
        PROVE  BooksInv'
    BY <2>3, OtherMessageKeeps
  <2> QED
    BY <2>1, <2>2, <2>3, OwnerKeeps, ReplayKeeps, DisconnectedKeeps, RegistrationThrowsKeeps,
       BindingDisposedKeeps, JudgeKeeps DEF BindingNext
<1> QED
  BY <1>1, <1>2, PTL DEF BindingSpec

\* The session's books are right throughout, for every length of the schedule, every
\* limit on executions, and every order of the owner's and the mirror's calls: each
\* execution has one receipt, in order, never better than the execution has become,
\* and none is lost or left open by disposal.
THEOREM BooksAreRight == BindingSpec => []BindingInv
<1>1. BooksInv => BindingInv
  <2> SUFFICES ASSUME BooksInv PROVE BindingInv
    OBVIOUS
  <2>1. Books(session, execs, records) /\ FlowType
    BY DEF BooksInv
  <2>2. /\ execs \in Seq(Execution) /\ session \in SessionType(Len(execs))
        /\ records \in Seq(RecordType(Len(execs)))
    BY <2>1 DEF Books
  <2>3. BindingTypeOK
    BY <2>1, <2>2 DEF BindingTypeOK, FlowType, SessionType, RecordType
  <2>4. DOMAIN execs = 1 .. Len(execs) /\ DOMAIN records = 1 .. Len(records) /\ Len(execs) \in Nat
    BY <2>2, LenProperties
  <2>5. ReceiptsOnce
    BY <2>1, <2>4 DEF ReceiptsOnce, Books
  <2>6. ReceiptNeverBetter
    BY <2>1, <2>4 DEF ReceiptNeverBetter, Books
  <2>7. ASSUME session.disposed, NEW i \in DOMAIN execs, execs[i].built PROVE execs[i].closed
    <3>1. CASE i = session.live
      <4>1. session.live # NoExecution
        BY <2>4, <2>7, <3>1 DEF NoExecution
      <4>2. session.retained
        BY <2>1, <2>7, <4>1 DEF Books
      <4> QED
        BY <2>1, <2>7, <3>1, <4>1, <4>2 DEF Books
    <3>2. CASE i # session.live
      BY <2>1, <2>4, <2>7, <3>2 DEF Books, Passed, Plausible
    <3> QED
      BY <3>1, <3>2
  <2>8. NoExecutionLost
    BY <2>1, <2>4, <2>7 DEF NoExecutionLost, Books
  <2> QED
    BY <2>3, <2>5, <2>6, <2>8 DEF BindingInv
<1> QED
  BY <1>1, BooksInvariant, PTL

\* A replay passes only if the mirror compared everything and said so and every
\* execution that was started ran its whole schedule, was cleaned up and has its
\* receipt: for every conversation with the mirror.
THEOREM VerdictIsEarned == BindingSpec => []PassedIsEarned
<1>1. BooksInv => PassedIsEarned
  BY DEF BooksInv
<1> QED
  BY <1>1, BooksInvariant, PTL

=============================================================================

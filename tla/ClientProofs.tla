---------------------------- MODULE ClientProofs ----------------------------
(***************************************************************************)
(* The client: job control, exploration sessions and the flows of a        *)
(* conversation, each for every value of the constants.                    *)
(***************************************************************************)
EXTENDS JobControl, ExploreSession, StepFlow, FiniteSetTheorems, SequenceTheorems, TLAPS

---------------------------------------------------------------------------
(***************************************************************************)
(* job_exchange returns the mirror's reply to the very request it sent,    *)
(* about the job it named, for every number of calls and every set of job  *)
(* ids, although nothing on the connection tells whose reply it is.        *)
(***************************************************************************)

\* What is underway on an open connection: nothing between calls, and during a
\* call its request or its reply and nothing else.  A call only waits on an open
\* connection, and it is query_job's only if it sent query_job.
Underway ==
  /\ exchange.pc = "reading" => connected
  /\ connected /\ exchange.pc = "idle" => arriving = <<>> /\ read = sent
  /\ connected /\ exchange.pc = "reading" =>
       \/ arriving = <<>> /\ read + 1 = sent
       \/ Len(arriving) = 1 /\ arriving[1].re = sent /\ read = sent
  /\ exchange.projected => exchange.request.tag = "query_job"

JobInv == JobTypeOK /\ Underway /\ RepliesToThisCall /\ AboutThisJob

---------------------------------------------------------------------------

JobCallType == [pc : {"idle", "reading"}, request : Requests, projected : BOOLEAN, capable : BOOLEAN]

\* The types of a call and the calls that the code makes of it.
LEMMA CallFacts ==
  ASSUME NEW c \in JobCallType
  PROVE  /\ c.pc \in {"idle", "reading"} /\ c.request \in Requests /\ c.projected \in BOOLEAN
         /\ [c EXCEPT !.pc = "idle"] \in JobCallType
         /\ [c EXCEPT !.pc = "idle"].pc = "idle"
         /\ [c EXCEPT !.pc = "idle"].request = c.request
         /\ [c EXCEPT !.pc = "idle"].projected = c.projected
         /\ \A r \in Requests, p \in BOOLEAN :
              LET d == [c EXCEPT !.pc = "reading", !.request = r, !.projected = p]
              IN d \in JobCallType /\ d.pc = "reading" /\ d.request = r /\ d.projected = p
BY DEF JobCallType

\* What a request is about.
LEMMA RequestFacts ==
  ASSUME NEW r \in Requests
  PROVE  /\ r.tag \in AsyncRegistrations \cup JobControls /\ r.job \in Ids \cup {NoId}
         /\ r.tag \in JobControls => r.tag \notin AsyncRegistrations
BY DEF Requests, Request, JobControls, AsyncRegistrations

\* What a well-formed reply may say.
LEMMA ReplyFacts ==
  ASSUME NEW m \in WellFormed
  PROVE  /\ m.job \in Ids /\ m.says \in Phase \cup Outcomes \cup JobKinds \cup {"none"}
         /\ m.tag = "job_status" => m.says \in Phase
         /\ m.tag = "job_result" => m.says \in Outcomes
         /\ m.tag = "job_accepted" => m.says \in JobKinds
BY DEF WellFormed, Replies, JobReplies, MirrorMessages, Errors, ExploreReplies

\* The counters are natural numbers.
LEMMA CounterFacts ==
  ASSUME JobTypeOK
  PROVE  calls \in Nat /\ sent \in Nat /\ read \in Nat /\ read <= sent
BY JobAssumption DEF JobTypeOK

\* An error carries nothing of a reply.
LEMMA NoResultFacts ==
  ASSUME NEW r \in Requests, NEW n \in Nat
  PROVE  LET e == [NoResult(r) EXCEPT !.kind = "error", !.no = n]
         IN /\ NoResult(r) \in Result /\ NoResult(r).kind = "none"
            /\ e \in Result /\ e.kind = "error"
BY DEF NoResult, Result

\* A sequence of one element is empty without it.
LEMMA JobLastOne ==
  ASSUME NEW S, NEW q \in Seq(S), Len(q) = 1
  PROVE  Head(q) = q[1] /\ Head(q) \in S /\ Tail(q) = <<>> /\ Tail(q) \in Seq(S)
<1>1. Head(q) = q[1] /\ Head(q) \in S /\ Tail(q) \in Seq(S) /\ Len(Tail(q)) = 0
  OBVIOUS
<1> QED
  BY <1>1, EmptySeq

\* The error a call returns.
LEMMA FailureFacts ==
  ASSUME NEW r \in Requests, JobTypeOK
  PROVE  Failure(r) \in Result /\ Failure(r).kind = "error"
BY NoResultFacts, CounterFacts DEF Failure

---------------------------------------------------------------------------
\* Before the first call nothing is underway.
LEMMA InitJobInv == JobInit => JobInv
<1> SUFFICES ASSUME JobInit PROVE JobInv
  OBVIOUS
<1>1. PICK r \in Requests, capable \in BOOLEAN :
        /\ exchange = [pc |-> "idle", request |-> r, projected |-> FALSE, capable |-> capable]
        /\ last = NoResult(r)
  BY DEF JobInit
<1>2. exchange \in JobCallType /\ exchange.pc = "idle" /\ ~exchange.projected
  BY <1>1 DEF JobCallType
<1>3. last \in Result /\ last.kind = "none"
  BY <1>1, NoResultFacts
<1> QED
  BY <1>2, <1>3, JobAssumption
     DEF JobInit, JobInv, JobTypeOK, JobCallType, Underway, RepliesToThisCall, AboutThisJob

\* A step that ends a call with an error keeps the invariant if it closes the
\* connection or leaves nothing underway on it.
LEMMA ErrorStep ==
  ASSUME JobInv, NEW r \in Requests, Give(Failure(r)),
         calls' \in calls .. MaxCalls, sent' = sent, read' = read, connected' \in BOOLEAN,
         arriving' \in Seq([reply : WellFormed, re : 1 .. read]),
         connected' => arriving' = <<>> /\ read = sent
  PROVE  JobInv'
<1> USE DEF JobInv
<1>1. /\ exchange' \in JobCallType /\ exchange'.pc = "idle" /\ exchange'.request = exchange.request
      /\ exchange'.projected = exchange.projected
  BY CallFacts DEF Give, JobTypeOK, JobCallType
<1>2. last' \in Result /\ last'.kind = "error"
  BY FailureFacts DEF Give
<1>3. JobTypeOK'
  BY <1>1, <1>2, JobAssumption DEF JobTypeOK, JobCallType
<1>4. Underway'
  BY <1>1 DEF Underway
<1> QED
  BY <1>2, <1>3, <1>4 DEF RepliesToThisCall, AboutThisJob

\* job_exchange sends a request, or fails to.
LEMMA JobSendStep ==
  ASSUME JobInv, NEW r \in Requests, NEW ok \in BOOLEAN, NEW projected \in BOOLEAN,
         SendRequest(r, projected, ok)
  PROVE  JobInv'
<1> USE DEF JobInv
<1>1. calls' \in calls .. MaxCalls /\ calls' = calls + 1 /\ read' = read /\ arriving' = arriving
  BY JobAssumption, CounterFacts DEF SendRequest, JobTypeOK
<1>2. CASE ~ok
  BY <1>1, <1>2, ErrorStep DEF SendRequest, Abort, JobTypeOK
<1>3. CASE ok
  <2>1. /\ connected /\ connected' = connected /\ last' = last /\ sent' = sent + 1 /\ exchange.pc = "idle"
        /\ exchange' = [exchange EXCEPT !.pc = "reading", !.request = r, !.projected = projected]
        /\ projected => r.tag = "query_job"
    BY <1>3 DEF SendRequest
  <2>2. /\ exchange' \in JobCallType /\ exchange'.pc = "reading" /\ exchange'.request = r
        /\ exchange'.projected = projected
    BY <2>1, CallFacts DEF JobTypeOK, JobCallType
  <2>3. arriving = <<>> /\ read = sent
    BY <2>1 DEF Underway
  <2>4. JobTypeOK'
    BY <1>1, <2>1, <2>2, <2>3, CounterFacts, JobAssumption DEF JobTypeOK, JobCallType
  <2>5. Underway'
    BY <1>1, <2>1, <2>2, <2>3 DEF Underway
  <2> QED
    BY <2>1, <2>4, <2>5 DEF RepliesToThisCall, AboutThisJob
<1> QED
  BY <1>2, <1>3

\* A transport that cannot carry jobs is left as it is.
LEMMA JobRefusedStep ==
  ASSUME JobInv, NEW r \in Requests, NotAsyncCapable(r)
  PROVE  JobInv'
<1>1. calls' \in calls .. MaxCalls
  BY JobAssumption, CounterFacts DEF NotAsyncCapable, JobInv, JobTypeOK
<1>2. connected' => arriving' = <<>> /\ read = sent
  BY DEF NotAsyncCapable, JobInv, Underway
<1> QED
  BY <1>1, <1>2, ErrorStep DEF NotAsyncCapable, JobInv, JobTypeOK

\* A request that cannot be encoded leaves the connection as it is.
LEMMA JobRequestThrowsStep ==
  ASSUME JobInv, NEW r \in Requests, RequestThrows(r)
  PROVE  JobInv'
<1>1. calls' \in calls .. MaxCalls
  BY JobAssumption, CounterFacts DEF RequestThrows, JobInv, JobTypeOK
<1>2. connected' => arriving' = <<>> /\ read = sent
  BY DEF RequestThrows, JobInv, Underway
<1> QED
  BY <1>1, <1>2, ErrorStep DEF RequestThrows, JobInv, JobTypeOK

\* A failed read closes the connection.
LEMMA JobReadFailsStep == ASSUME JobInv, ReadReplyFails PROVE JobInv'
<1>1. calls' \in calls .. MaxCalls
  BY CounterFacts DEF ReadReplyFails, JobInv, JobTypeOK
<1>2. exchange.request \in Requests
  BY CallFacts DEF JobInv, JobTypeOK, JobCallType
<1>3. /\ Give(Failure(exchange.request)) /\ connected' = FALSE
      /\ sent' = sent /\ read' = read /\ arriving' = arriving
  BY DEF ReadReplyFails, Abort
<1>4. arriving' \in Seq([reply : WellFormed, re : 1 .. read])
  BY <1>3 DEF JobInv, JobTypeOK
<1> QED
  BY <1>1, <1>2, <1>3, <1>4, ErrorStep

\* A reply whose decoding throws was the only thing underway and is consumed.
LEMMA JobReadThrowsStep == ASSUME JobInv, ReadReplyThrows PROVE JobInv'
<1>1. calls' \in calls .. MaxCalls
  BY CounterFacts DEF ReadReplyThrows, JobInv, JobTypeOK
<1>2. exchange.request \in Requests
  BY CallFacts DEF JobInv, JobTypeOK, JobCallType
<1>3. /\ Give(Failure(exchange.request)) /\ connected' = connected /\ exchange.pc = "reading"
      /\ arriving # <<>> /\ sent' = sent /\ read' = read /\ arriving' = Tail(arriving)
  BY DEF ReadReplyThrows
<1>4. connected /\ Len(arriving) = 1 /\ read = sent
  BY <1>3 DEF JobInv, Underway
<1>5. arriving \in Seq([reply : WellFormed, re : 1 .. read]) /\ connected' \in BOOLEAN
  BY <1>3 DEF JobInv, JobTypeOK
<1>6. arriving' = <<>> /\ arriving' \in Seq([reply : WellFormed, re : 1 .. read])
  BY <1>3, <1>4, <1>5, JobLastOne
<1> QED
  BY <1>1, <1>2, <1>3, <1>4, <1>5, <1>6, ErrorStep

\* The mirror's reply is the only thing underway.
LEMMA JobMirrorStep ==
  ASSUME JobInv, NEW reply \in WellFormed, MirrorReplies(reply)
  PROVE  JobInv'
<1> USE DEF JobInv
<1> DEFINE m == [reply |-> reply, re |-> read + 1]
<1>1. /\ connected /\ read + 1 <= sent /\ read' = read + 1 /\ arriving' = Append(arriving, m)
      /\ UNCHANGED <<exchange, calls, connected, sent, last>>
  BY CounterFacts DEF MirrorReplies
<1>2. arriving = <<>> /\ read + 1 = sent /\ exchange.pc = "reading"
  <2>1. read # sent
    BY <1>1, CounterFacts
  <2>2. exchange.pc \in {"idle", "reading"}
    BY CallFacts DEF JobTypeOK, JobCallType
  <2> QED
    BY <1>1, <2>1, <2>2 DEF Underway
<1>3. arriving' = <<m>> /\ m \in [reply : WellFormed, re : 1 .. read'] /\ m.re = sent
  BY <1>1, <1>2, CounterFacts
<1>4. arriving' \in Seq([reply : WellFormed, re : 1 .. read']) /\ Len(arriving') = 1
      /\ arriving'[1].re = sent
  BY <1>3
<1>5. JobTypeOK'
  BY <1>1, <1>4, CounterFacts DEF JobTypeOK
<1>6. Underway'
  BY <1>1, <1>2, <1>4 DEF Underway
<1> QED
  BY <1>1, <1>5, <1>6 DEF RepliesToThisCall, AboutThisJob

\* What a reply becomes in the caller's hands.
LEMMA GotFacts ==
  ASSUME JobInv, NEW m \in [reply : WellFormed, re : Nat], NEW kind \in {"value", "registration"},
         m.re = sent, kind = "value" => AnswersRequest(exchange.request, m.reply)
  PROVE  /\ Got(m, kind) \in Result
         /\ Got(m, kind).kind = kind /\ Got(m, kind).re = Got(m, kind).no
         /\ Got(m, kind).request = exchange.request /\ Got(m, kind).projected = exchange.projected
         /\ kind = "value" /\ Got(m, kind).projected => Got(m, kind).says \in Phase
         /\ kind = "value" /\ exchange.request.tag \in JobControls =>
              /\ Got(m, kind).job = exchange.request.job
              /\ Got(m, kind).says = "done" => Got(m, kind).heard \in {"done", "verdict"}
<1> DEFINE w == m.reply
<1>1. w \in WellFormed
  OBVIOUS
<1>2. /\ w.job \in Ids /\ w.says \in Phase \cup Outcomes \cup JobKinds \cup {"none"}
      /\ w.tag = "job_status" => w.says \in Phase
      /\ w.tag = "job_result" => w.says \in Outcomes
  BY <1>1, ReplyFacts
<1>3. /\ exchange.request \in Requests /\ exchange.projected \in BOOLEAN /\ sent \in Nat
      /\ exchange.projected => exchange.request.tag = "query_job"
  BY CallFacts, CounterFacts DEF JobInv, JobTypeOK, JobCallType, Underway
<1>4. kind = "value" /\ exchange.request.tag \in JobControls =>
        w.tag \in {"job_status", "job_result"} /\ w.job = exchange.request.job
  BY <1>3, RequestFacts DEF AnswersRequest
<1>5. "query_job" \in JobControls
  BY DEF JobControls
<1>6. Projected(w) \in Phase \cup Outcomes \cup JobKinds \cup {"none"}
  BY <1>2 DEF Projected, Phase
<1>7. kind = "value" /\ exchange.projected => Projected(w) \in Phase
  BY <1>2, <1>3, <1>4, <1>5 DEF Projected, Phase
<1>8. kind = "value" /\ exchange.request.tag \in JobControls =>
        /\ Projected(w) = "done" => w.says \in {"done", "verdict"}
        /\ w.says = "done" => w.says \in {"done", "verdict"}
  BY <1>2, <1>4 DEF Projected, Outcomes
<1> DEFINE g == Got(m, kind)
<1>9. /\ g.kind = kind /\ g.no = sent /\ g.re = m.re /\ g.request = exchange.request
      /\ g.projected = exchange.projected /\ g.heard = w.says
      /\ g.job = IF kind = "value" THEN w.job ELSE NoId
      /\ g.says = IF exchange.projected THEN Projected(w) ELSE w.says
  BY DEF Got
<1>10. g \in Result
  <2>1. (IF kind = "value" THEN w.job ELSE NoId) \in Ids \cup {NoId}
    BY <1>2
  <2>2. (IF exchange.projected THEN Projected(w) ELSE w.says)
           \in Phase \cup Outcomes \cup JobKinds \cup {"none"}
    BY <1>2, <1>6
  <2>3. m.re \in Nat
    OBVIOUS
  <2> HIDE DEF w
  <2> QED
    BY <1>2, <1>3, <2>1, <2>2, <2>3 DEF Got, Result, w
<1> HIDE DEF g, w
<1>11. g.projected /\ kind = "value" => g.says \in Phase
  BY <1>7, <1>9
<1>12. kind = "value" /\ exchange.request.tag \in JobControls =>
         /\ g.job = exchange.request.job
         /\ g.says = "done" => g.heard \in {"done", "verdict"}
  BY <1>3, <1>4, <1>8, <1>9
<1> QED
  BY <1>9, <1>10, <1>11, <1>12 DEF g

\* The reply that is read is the one to the call that waits.
LEMMA JobReadStep == ASSUME JobInv, ReadReply PROVE JobInv'
<1> USE DEF JobInv
<1> DEFINE m == Head(arriving)
<1>1. /\ exchange.pc = "reading" /\ arriving # <<>> /\ arriving' = Tail(arriving)
      /\ calls' = calls /\ sent' = sent /\ read' = read
  BY DEF ReadReply
<1>2. connected /\ Len(arriving) = 1 /\ m.re = sent /\ read = sent
  BY <1>1 DEF Underway, JobTypeOK
<1>3. /\ m \in [reply : WellFormed, re : 1 .. read] /\ arriving' = <<>>
      /\ arriving' \in Seq([reply : WellFormed, re : 1 .. read])
  <2>1. arriving \in Seq([reply : WellFormed, re : 1 .. read])
    BY DEF JobTypeOK
  <2> QED
    BY <1>1, <1>2, <2>1, JobLastOne
<1>4. exchange.request \in Requests
  BY CallFacts DEF JobTypeOK, JobCallType
<1>5. m \in [reply : WellFormed, re : Nat]
  BY <1>3, CounterFacts
<1>6. CASE Abort(exchange.request)
  <2>1. calls' \in calls .. MaxCalls
    BY <1>1, CounterFacts DEF JobTypeOK
  <2>2. Give(Failure(exchange.request)) /\ connected' = FALSE
    BY <1>6 DEF Abort
  <2> QED
    BY <1>1, <1>3, <1>4, <2>1, <2>2, ErrorStep
<1>7. ASSUME NEW kind \in {"value", "registration"}, Give(Got(m, kind)), UNCHANGED connected,
             kind = "value" => AnswersRequest(exchange.request, m.reply)
      PROVE  JobInv'
  <2> HIDE DEF m
  <2>1. /\ last' \in Result /\ last'.kind = kind /\ last'.re = last'.no
        /\ last'.request = exchange.request
        /\ kind = "value" /\ last'.projected => last'.says \in Phase
        /\ kind = "value" /\ exchange.request.tag \in JobControls =>
              /\ last'.job = exchange.request.job
              /\ last'.says = "done" => last'.heard \in {"done", "verdict"}
    BY <1>2, <1>5, <1>7, GotFacts DEF Give
  <2>2. /\ exchange' \in JobCallType /\ exchange'.pc = "idle" /\ exchange'.request = exchange.request
        /\ exchange'.projected = exchange.projected
    BY <1>7, CallFacts DEF Give, JobTypeOK, JobCallType
  <2>3. JobTypeOK'
    BY <1>1, <1>3, <1>7, <2>1, <2>2 DEF JobTypeOK, JobCallType
  <2>4. Underway'
    BY <1>1, <1>2, <1>3, <1>7, <2>2 DEF Underway
  <2> QED
    BY <2>1, <2>3, <2>4 DEF RepliesToThisCall, AboutThisJob
<1>8. \/ Give(Got(m, "registration")) /\ UNCHANGED connected
      \/ AnswersRequest(exchange.request, m.reply) /\ Give(Got(m, "value")) /\ UNCHANGED connected
      \/ Abort(exchange.request)
  BY DEF ReadReply
<1> HIDE DEF m
<1> QED
  BY <1>6, <1>7, <1>8

\* A step that changes nothing.
LEMMA JobStutterStep == ASSUME JobInv, UNCHANGED jobVars PROVE JobInv'
BY DEF jobVars, JobInv, JobTypeOK, Underway, RepliesToThisCall, AboutThisJob

\* Every call returns the mirror's reply to it, about the job it named, and leaves
\* the connection in step with the mirror or closed (job_exchange and its callers).
THEOREM ConnectionTruthful == JobSpec => []ConnectionInv
<1>1. JobInit => JobInv
  BY InitJobInv
<1>2. JobInv /\ [JobNext]_jobVars => JobInv'
  BY JobSendStep, JobRefusedStep, JobRequestThrowsStep, JobReadFailsStep, JobReadThrowsStep,
     JobReadStep, JobMirrorStep, JobStutterStep
     DEF JobNext, NoMoreCalls
<1>3. JobInv => ConnectionInv
  BY DEF JobInv, Underway, ConnectionInv, InStep
<1> QED
  BY <1>1, <1>2, <1>3, PTL DEF JobSpec

---------------------------------------------------------------------------
(***************************************************************************)
(* A session keeps in step with the mirror and ends for good, for every    *)
(* number of commands, although the mirror may answer wrongly or late and  *)
(* every send and read may fail.                                           *)
(***************************************************************************)

SessionType ==
  [transport : {"open", "closed", "null"}, done : BOOLEAN, lost : BOOLEAN,
   guard : {"idle", "exploring", "done"}, dying : BOOLEAN, 
   pc : {"open", "ready", "reading", "gone", "aborted"}]
OutcomeType == [no : Nat, re : Nat, threw : BOOLEAN]

\* A session in use: connected, neither poisoned nor over, and registered.
Live == session.transport = "open" /\ ~session.done /\ session.guard = "exploring"

\* Why a session ended: it was poisoned or assigned over, or the mirror confirmed
\* its explore_done.
Ended ==
  session.lost \/ Confirmed(FALSE)

\* Before the registration was sent.
Unopened ==
  /\ session.transport = "open" /\ ~session.done /\ ~session.dying /\ session.guard = "idle"
  /\ commands = <<>> /\ replies = <<>> /\ outcomes = <<>> /\ mirror.read = 0

\* While a call waits for its reply, only its message or the reply to it is on the
\* way, and a call of the destructor is done().
Waiting ==
  /\ Live /\ Len(commands) > 0 /\ Len(outcomes) + 1 = Len(commands)
  /\ \/ replies = <<>> /\ mirror.read + 1 = Len(commands)
     \/ Len(replies) = 1 /\ replies[1].re = Len(commands) /\ mirror.read = Len(commands)
  /\ session.dying => commands[Latest] = "explore_done" /\ outcomes # <<>>

\* Between calls the session is in use and in step, or it is over.
Usable ==
  /\ ~session.dying /\ outcomes # <<>>
  /\ ~session.done =>
       Live /\ replies = <<>> /\ mirror.read = Len(commands) /\ Len(outcomes) = Len(commands)

SessionInductive ==
  /\ SessionTypeOK /\ AnswersThisCommand
  /\ session.done => session.transport # "open" /\ Ended
  /\ SessionAt("open") => Unopened
  /\ SessionAt("reading") => Waiting
  /\ SessionAt("ready") => Usable
  /\ SessionAt("gone") => session.transport # "open" /\ Ended
  /\ SessionAt("aborted") => session.dying /\ session.transport # "open" /\ Confirmed(TRUE)

---------------------------------------------------------------------------

\* The types of the parts of a session.
LEMMA SessionFacts ==
  ASSUME NEW s \in SessionType
  PROVE  /\ s.transport \in {"open", "closed", "null"} /\ s.done \in BOOLEAN /\ s.lost \in BOOLEAN
         /\ s.guard \in {"idle", "exploring", "done"} /\ s.dying \in BOOLEAN
         /\ s.pc \in {"open", "ready", "reading", "gone", "aborted"}
BY DEF SessionType

\* What a call leaves of the object.
LEMMA RestFacts ==
  ASSUME NEW s \in SessionType
  PROVE  /\ Rest(s) \in SessionType
         /\ Rest(s).pc = IF s.dying THEN "gone" ELSE "ready"
         /\ Rest(s).transport = IF s.dying THEN "null" ELSE s.transport
         /\ Rest(s).done = s.done /\ Rest(s).lost = s.lost /\ Rest(s).guard = s.guard
         /\ Rest(s).dying = s.dying
BY DEF SessionType, Rest

\* poison() closes the connection and marks the session, whatever it was doing.
LEMMA PoisonFacts ==
  ASSUME NEW s \in SessionType
  PROVE  /\ Poison(s) \in SessionType /\ Poison(s).done /\ Poison(s).lost
         /\ Poison(s).transport # "open" /\ Poison(s).dying = s.dying
         /\ Poison(s).pc = IF outcomes = <<>> \/ s.dying THEN "gone" ELSE "ready"
<1> DEFINE t == [s EXCEPT !.done = TRUE, !.transport = "closed", !.lost = TRUE]
<1>1. /\ t \in SessionType /\ t.done /\ t.lost /\ t.transport = "closed" /\ t.dying = s.dying
  BY DEF SessionType
<1>2. Poison(s) = IF outcomes = <<>> THEN [t EXCEPT !.pc = "gone"] ELSE Rest(t)
  BY DEF Poison
<1>3. LET u == [t EXCEPT !.pc = "gone"]
      IN /\ u \in SessionType /\ u.done /\ u.lost /\ u.transport = "closed" /\ u.dying = s.dying
         /\ u.pc = "gone"
  BY <1>1 DEF SessionType
<1> HIDE DEF t
<1> QED
  BY <1>1, <1>2, <1>3, RestFacts

\* What TypeOK says of the session, the messages and the mirror.
LEMMA SessionTypeFacts ==
  ASSUME SessionTypeOK
  PROVE  /\ session \in SessionType /\ commands \in Seq({Open} \cup ExploreCommands)
         /\ Len(commands) \in Nat /\ Len(commands) <= MaxCommands /\ replies \in Seq(SessionReply)
         /\ mirror.read \in Nat /\ mirror.read <= Len(commands) /\ mirror.up \in BOOLEAN
         /\ outcomes \in Seq(OutcomeType) /\ Len(outcomes) \in Nat
<1>1. Len(commands) \in Nat /\ Len(outcomes) \in Nat
  BY DEF SessionTypeOK
<1> QED
  BY <1>1 DEF SessionTypeOK, SessionType, OutcomeType

\* poison() keeps the invariant at every point where a call can fail.
LEMMA PoisonStep ==
  ASSUME SessionInductive, NEW s \in SessionType, session' = Poison(s), s.dying => outcomes # <<>>,
         commands' = commands, mirror' = mirror, outcomes' = outcomes, replies' \in Seq(SessionReply)
  PROVE  SessionInductive'
<1>1. /\ session' \in SessionType /\ session'.done /\ session'.lost /\ session'.transport # "open"
      /\ session'.pc = IF outcomes = <<>> \/ s.dying THEN "gone" ELSE "ready"
      /\ session'.dying = s.dying
  BY PoisonFacts
<1>2. SessionTypeOK'
  BY <1>1 DEF SessionInductive, SessionTypeOK, SessionType
<1>3. AnswersThisCommand'
  BY DEF SessionInductive, AnswersThisCommand
<1>4. Ended' /\ (SessionAt("ready") => Usable)'
  BY <1>1, SessionFacts DEF Ended, SessionAt, Usable
<1> QED
  BY <1>1, <1>2, <1>3, <1>4 DEF SessionInductive, SessionAt

\* A session starts unopened.
LEMMA SessionInitInv == SessionInit => SessionInductive
<1> SUFFICES ASSUME SessionInit PROVE SessionInductive
  OBVIOUS
<1>1. /\ session \in SessionType /\ session.pc = "open" /\ session.transport = "open"
      /\ ~session.done /\ ~session.dying /\ session.guard = "idle"
  BY DEF SessionInit, SessionType
<1>2. mirror.read = 0 /\ mirror.up = TRUE /\ mirror \in [read : {0}, up : BOOLEAN]
  BY DEF SessionInit
<1>3. SessionTypeOK
  BY <1>1, <1>2, SessionAssumption DEF SessionInit, SessionTypeOK, SessionType
<1> QED
  BY <1>1, <1>2, <1>3 DEF SessionInit, SessionInductive, SessionAt, Unopened, AnswersThisCommand

\* Sending one more message makes the session wait for its reply.
LEMMA SentStep ==
  ASSUME SessionInductive, NEW tag \in {Open} \cup ExploreCommands, NEW s \in SessionType,
         s.transport = "open", ~s.done, s.guard = "exploring",
         s.dying => tag = "explore_done" /\ outcomes # <<>>,
         Len(commands) < MaxCommands, MaxCommands \in Nat,
         replies = <<>>, mirror.read = Len(commands), Len(outcomes) = Len(commands),
         commands' = Append(commands, tag), session' = [s EXCEPT !.pc = "reading"],
         UNCHANGED <<replies, mirror, outcomes>>
  PROVE  SessionInductive'
<1>1. /\ session' \in SessionType /\ session'.pc = "reading" /\ session'.transport = "open"
      /\ ~session'.done /\ session'.guard = "exploring" /\ session'.dying = s.dying
  BY DEF SessionType
<1>2. /\ commands' \in Seq({Open} \cup ExploreCommands) /\ Len(commands') = Len(commands) + 1
      /\ commands'[Len(commands')] = tag
  BY SessionTypeFacts DEF SessionInductive
<1>3. mirror \in [read : 0 .. Len(commands'), up : BOOLEAN]
  BY <1>2, SessionTypeFacts DEF SessionInductive, SessionTypeOK
<1>4. SessionTypeOK'
  BY <1>1, <1>2, <1>3, SessionTypeFacts DEF SessionInductive, SessionTypeOK, SessionType
<1>5. Waiting'
  BY <1>1, <1>2, SessionTypeFacts DEF SessionInductive, Waiting, Live, Latest
<1> QED
  BY <1>1, <1>4, <1>5 DEF SessionInductive, SessionAt, AnswersThisCommand

\* open() registers the session.
LEMMA OpenStep ==
  ASSUME SessionInductive, NEW ok \in BOOLEAN, OpenSend(ok)
  PROVE  SessionInductive'
<1>1. session \in SessionType /\ Unopened /\ UNCHANGED <<replies, mirror, outcomes>>
  BY SessionTypeFacts DEF OpenSend, SessionInductive
<1>2. CASE ok
  <2> DEFINE s == [session EXCEPT !.guard = "exploring"]
  <2>1. AfterSend(session.guard, Open) = "exploring"
    BY DEF AfterSend, Open, Registrations
  <2>2. /\ s \in SessionType /\ s.transport = "open" /\ ~s.done /\ s.guard = "exploring"
        /\ ~s.dying
    BY <1>1 DEF SessionType, Unopened
  <2>3. session' = [s EXCEPT !.pc = "reading"]
    BY <1>1, <1>2, <2>1 DEF OpenSend, SessionType
  <2>4. commands' = Append(commands, Open)
    BY <1>1, <1>2 DEF OpenSend, Unopened
  <2>5. Len(commands) < MaxCommands /\ MaxCommands \in Nat /\ Len(outcomes) = Len(commands)
        /\ mirror.read = Len(commands) /\ replies = <<>>
    BY <1>1, SessionAssumption DEF Unopened
  <2> HIDE DEF s
  <2> QED
    BY <1>1, <2>2, <2>3, <2>4, <2>5, SentStep
<1>3. CASE ~ok
  BY <1>1, <1>3, PoisonStep, SessionTypeFacts DEF OpenSend, SessionInductive, Unopened
<1> QED
  BY <1>2, <1>3

\* command() and the destructor's done() on a session in use.
LEMMA SessionSendStep ==
  ASSUME SessionInductive, SessionAt("ready"), ~Refused, NEW tag \in ExploreCommands,
         NEW ok \in BOOLEAN, NEW s \in SessionType, Send(tag, ok, s),
         s.transport = session.transport, s.done = session.done, s.guard = session.guard,
         s.dying => tag = "explore_done",
         UNCHANGED <<replies, mirror, outcomes>>
  PROVE  SessionInductive'
<1>1. Usable /\ ~session.done
  BY SessionFacts, SessionTypeFacts DEF SessionInductive, Refused
<1>2. CASE ok
  <2>1. /\ s.transport = "open" /\ ~s.done /\ s.guard = "exploring"
        /\ s.dying => tag = "explore_done" /\ outcomes # <<>>
        /\ replies = <<>> /\ mirror.read = Len(commands) /\ Len(outcomes) = Len(commands)
    BY <1>1 DEF Usable, Live
  <2>2. /\ Len(commands) < MaxCommands /\ commands' = Append(commands, tag)
        /\ session' = [s EXCEPT !.pc = "reading"]
    BY <1>2 DEF Send
  <2> QED
    BY <2>1, <2>2, SentStep, SessionAssumption
<1>3. CASE ~ok
  BY <1>1, <1>3, PoisonStep, SessionTypeFacts DEF Send, Usable, SessionInductive
<1> QED
  BY <1>2, <1>3

\* A command.
LEMMA CommandStep ==
  ASSUME SessionInductive, NEW tag \in ExploreCommands, NEW ok \in BOOLEAN, Command(tag, ok)
  PROVE  SessionInductive'
<1>1. session \in SessionType /\ ~session.dying
  BY SessionTypeFacts DEF SessionInductive, Command, Usable
<1> QED
  BY <1>1, SessionSendStep DEF Command

\* The object goes without another word.
LEMMA GoneStep ==
  ASSUME SessionInductive, session' \in SessionType, session'.pc = "gone", session'.transport = "null",
         session'.lost \/ (session'.lost = session.lost /\ session.done),
         UNCHANGED <<commands, replies, mirror, outcomes>>
  PROVE  SessionInductive'
<1>1. SessionTypeOK'
  BY DEF SessionInductive, SessionTypeOK, SessionType
<1>2. Ended'
  BY DEF SessionInductive, Ended, Confirmed, Latest
<1> QED
  BY <1>1, <1>2 DEF SessionInductive, SessionAt, AnswersThisCommand

\* The destructor.
LEMMA DestroyStep ==
  ASSUME SessionInductive, NEW ok \in BOOLEAN, Destroy(ok)
  PROVE  SessionInductive'
<1>1. session \in SessionType /\ SessionAt("ready") /\ UNCHANGED <<replies, mirror, outcomes>>
  BY SessionTypeFacts DEF SessionInductive, Destroy
<1>2. CASE Refused
  <2>1. session.done
    BY <1>1, <1>2, SessionFacts DEF SessionInductive, Usable, Live, Refused
  <2>2. session' = [session EXCEPT !.pc = "gone", !.transport = "null"] /\ UNCHANGED commands
    BY <1>2 DEF Destroy
  <2>3. /\ session' \in SessionType /\ session'.pc = "gone" /\ session'.transport = "null"
        /\ session'.lost = session.lost
    BY <1>1, <2>2 DEF SessionType
  <2> QED
    BY <1>1, <2>1, <2>2, <2>3, GoneStep
<1>3. CASE ~Refused
  <2> DEFINE s == [session EXCEPT !.dying = TRUE]
  <2>1. /\ s \in SessionType /\ s.transport = session.transport /\ s.done = session.done
        /\ s.guard = session.guard
    BY <1>1 DEF SessionType
  <2>2. Send("explore_done", ok, s)
    BY <1>3 DEF Destroy
  <2>3. "explore_done" \in ExploreCommands
    BY DEF ExploreCommands
  <2> HIDE DEF s
  <2> QED
    BY <1>1, <1>3, <2>1, <2>2, <2>3, SessionSendStep
<1> QED
  BY <1>2, <1>3

\* A step that changes nothing.
LEMMA SessionStutterStep == ASSUME SessionInductive, UNCHANGED sessionVars PROVE SessionInductive'
BY DEF SessionInductive, sessionVars, SessionTypeOK, AnswersThisCommand, SessionAt, Ended, Latest,
       Confirmed, Unopened, Waiting, Usable, Live

\* The object goes, or never comes, with its transport.
LEMMA DroppedFacts ==
  ASSUME NEW s \in SessionType
  PROVE  /\ Dropped(s) \in SessionType /\ Dropped(s).pc = "gone" /\ Dropped(s).transport = "null"
         /\ Dropped(s).lost
BY DEF SessionType, Dropped

\* The defaulted move assignment.
LEMMA MovedStep == ASSUME SessionInductive, MovedOver PROVE SessionInductive'
<1>1. session' = Dropped(session) /\ UNCHANGED <<commands, replies, mirror, outcomes>>
  BY DEF MovedOver
<1>2. /\ session' \in SessionType /\ session'.pc = "gone" /\ session'.transport = "null"
      /\ session'.lost
  BY <1>1, DroppedFacts, SessionTypeFacts DEF SessionInductive
<1> QED
  BY <1>1, <1>2, GoneStep

\* A registration or a state that cannot be encoded: nothing is sent.
LEMMA SendThrowsStep == ASSUME SessionInductive, SendThrows PROVE SessionInductive'
<1>1. /\ session' = Unwound(session) /\ UNCHANGED <<commands, replies, mirror, outcomes>>
      /\ SessionAt("open") \/ SessionAt("ready")
  BY DEF SendThrows
<1>2. session \in SessionType
  BY SessionTypeFacts DEF SessionInductive
<1>3. CASE SessionAt("open")
  <2>1. session' = Dropped(session)
    BY <1>1, <1>3 DEF SessionInductive, Unopened, Unwound
  <2>2. /\ session' \in SessionType /\ session'.pc = "gone" /\ session'.transport = "null"
        /\ session'.lost
    BY <1>2, <2>1, DroppedFacts
  <2> QED
    BY <1>1, <2>2, GoneStep
<1>4. CASE SessionAt("ready")
  <2>1. outcomes # <<>> /\ ~session.dying
    BY <1>4 DEF SessionInductive, Usable
  <2>2. session' = [session EXCEPT !.pc = "ready"]
    BY <1>1, <2>1 DEF Unwound
  <2>3. session' = session
    BY <1>2, <1>4, <2>2 DEF SessionType, SessionAt
  <2> QED
    BY <1>1, <2>3, SessionStutterStep DEF sessionVars
<1> QED
  BY <1>1, <1>3, <1>4

\* A failed read.
LEMMA SessionReadFailsStep == ASSUME SessionInductive, ReadFails PROVE SessionInductive'
<1>1. /\ session \in SessionType /\ session' = Poison(session) /\ replies' \in Seq(SessionReply)
      /\ commands' = commands /\ mirror' = mirror /\ outcomes' = outcomes
      /\ session.dying => outcomes # <<>>
  BY SessionTypeFacts DEF ReadFails, SessionInductive, Waiting
<1> QED
  BY <1>1, PoisonStep

\* The mirror answers the one message it has not answered.
LEMMA SessionMirrorStep ==
  ASSUME SessionInductive, NEW tag \in MirrorMessages, MirrorAnswers(tag)
  PROVE  SessionInductive'
<1> DEFINE m == [tag |-> tag, re |-> mirror.read + 1]
<1>1. /\ mirror.read < Len(commands) /\ session.transport = "open"
      /\ mirror' = [mirror EXCEPT !.read = @ + 1] /\ replies' = Append(replies, m)
      /\ UNCHANGED <<session, commands, outcomes>>
  BY DEF MirrorAnswers
<1>2. SessionAt("reading")
  <2>1. session.pc \in {"open", "ready", "reading", "gone", "aborted"} /\ session.done \in BOOLEAN
        /\ mirror.read # Len(commands)
    BY <1>1, SessionTypeFacts, SessionFacts DEF SessionInductive
  <2>2. ~SessionAt("open") /\ ~SessionAt("gone") /\ ~SessionAt("aborted")
    BY <1>1 DEF SessionInductive, Unopened
  <2>3. ~SessionAt("ready")
    BY <1>1, <2>1 DEF SessionInductive, Usable
  <2> QED
    BY <2>1, <2>2, <2>3 DEF SessionAt
<1>3. Waiting /\ replies = <<>> /\ mirror.read + 1 = Len(commands)
  BY <1>1, <1>2, SessionTypeFacts DEF SessionInductive, Waiting
<1>4. mirror' \in [read : 0 .. Len(commands), up : BOOLEAN] /\ mirror'.read = Len(commands)
  <2> DEFINE k == mirror.read + 1
  <2>1. mirror \in [read : 0 .. Len(commands), up : BOOLEAN] /\ Len(commands) \in Nat
    BY SessionTypeFacts DEF SessionInductive, SessionTypeOK
  <2>2. k = Len(commands) /\ mirror' = [mirror EXCEPT !.read = k]
    BY <1>1, <1>3
  <2>3. k \in 0 .. Len(commands)
    BY <2>1, <2>2
  <2> HIDE DEF k
  <2> QED
    BY <2>1, <2>2, <2>3
<1>5. m \in SessionReply /\ m.re = Len(commands)
  BY <1>3, SessionTypeFacts DEF SessionReply, SessionInductive
<1>6. replies' = <<m>>
  BY <1>1, <1>3
<1> HIDE DEF m
<1>7. replies' \in Seq(SessionReply) /\ Len(replies') = 1 /\ replies'[1] = m
  BY <1>5, <1>6
<1>8. SessionTypeOK'
  BY <1>1, <1>4, <1>7 DEF SessionInductive, SessionTypeOK
<1>9. Waiting'
  BY <1>1, <1>3, <1>4, <1>5, <1>7 DEF Waiting, Live, Latest
<1> QED
  BY <1>1, <1>2, <1>8, <1>9 DEF SessionInductive, SessionAt, AnswersThisCommand, Ended, Confirmed, Latest

\* The mirror stops.
LEMMA StopsStep == ASSUME SessionInductive, MirrorStops PROVE SessionInductive'
<1>1. UNCHANGED <<session, commands, replies, outcomes>>
      /\ mirror' = [mirror EXCEPT !.up = FALSE]
  BY DEF MirrorStops
<1>2. mirror' \in [read : 0 .. Len(commands), up : BOOLEAN] /\ mirror'.read = mirror.read
  BY <1>1 DEF SessionInductive, SessionTypeOK
<1> QED
  BY <1>1, <1>2
     DEF SessionInductive, SessionTypeOK, AnswersThisCommand, SessionAt, Ended, Confirmed, Latest,
         Unopened, Waiting, Usable, Live

\* A sequence of one element is empty without it.
LEMMA SessionLastOne ==
  ASSUME NEW S, NEW q \in Seq(S), Len(q) = 1
  PROVE  Head(q) = q[1] /\ Head(q) \in S /\ Tail(q) = <<>> /\ Tail(q) \in Seq(S)
<1>1. Head(q) = q[1] /\ Head(q) \in S /\ Tail(q) \in Seq(S) /\ Len(Tail(q)) = 0
  OBVIOUS
<1> QED
  BY <1>1, EmptySeq

\* Only explore_session_done, the answer to explore_done, takes the guard out of
\* the exploring phase.
LEMMA SessionGuardFacts ==
  ASSUME NEW tag \in MirrorMessages, NEW c \in {Open} \cup ExploreCommands,
         MayReceive("exploring", tag)
  PROVE  /\ AfterReceive("exploring", tag) \in {"exploring", "done"}
         /\ tag = Expected(c) /\ c # "explore_done" =>
              AfterReceive("exploring", tag) = "exploring"
<1>1. tag \in Errors \cup ExploreReplies \cup {"explorer_ready", "explore_session_done"}
  BY DEF MayReceive
<1>2. AfterReceive("exploring", tag) = IF tag = "explore_session_done" THEN "done" ELSE "exploring"
  BY <1>1 DEF AfterReceive, Errors, ExploreReplies
<1>3. c # "explore_done" => Expected(c) # "explore_session_done"
  BY DEF Expected, ExploreCommands, Open
<1> QED
  BY <1>2, <1>3

\* One more command has ended with the reply to it.
LEMMA OutcomeStep ==
  ASSUME SessionInductive, NEW e \in OutcomeType, e.re = e.no, outcomes' = Append(outcomes, e)
  PROVE  /\ outcomes' \in Seq(OutcomeType) /\ Len(outcomes') = Len(outcomes) + 1
         /\ outcomes'[Len(outcomes')] = e /\ outcomes' # <<>> /\ AnswersThisCommand'
<1>1. outcomes \in Seq(OutcomeType) /\ Len(outcomes) \in Nat
  BY SessionTypeFacts DEF SessionInductive
<1>2. /\ outcomes' \in Seq(OutcomeType) /\ Len(outcomes') = Len(outcomes) + 1
      /\ outcomes'[Len(outcomes')] = e /\ outcomes' # <<>>
      /\ \A i \in 1 .. Len(outcomes) : outcomes'[i] = outcomes[i]
  BY <1>1, AppendProperties
<1>3. AnswersThisCommand'
  <2> SUFFICES ASSUME NEW i \in 1 .. Len(outcomes') PROVE outcomes'[i].re = outcomes'[i].no
    BY DEF AnswersThisCommand
  <2>1. CASE i = Len(outcomes')
    BY <1>2, <2>1
  <2>2. CASE i # Len(outcomes')
    <3>1. i \in 1 .. Len(outcomes)
      BY <1>1, <1>2, <2>2
    <3> QED
      BY <1>2, <3>1 DEF SessionInductive, AnswersThisCommand
  <2> QED
    BY <2>1, <2>2
<1> QED
  BY <1>2, <1>3

\* The reply that is on the way belongs to the call that waits.
LEMMA WaitingFacts ==
  ASSUME SessionInductive, SessionAt("reading"), replies # <<>>
  PROVE  /\ Waiting /\ mirror.read = Len(commands) /\ Len(commands) \in Nat /\ Len(outcomes) \in Nat
         /\ Head(replies) \in SessionReply /\ Head(replies).re = Len(commands)
         /\ Head(replies).tag \in MirrorMessages
         /\ Tail(replies) = <<>> /\ Tail(replies) \in Seq(SessionReply)
<1>1. Waiting /\ Len(replies) = 1 /\ replies[1].re = Len(commands) /\ mirror.read = Len(commands)
  BY DEF SessionInductive, Waiting
<1>2. /\ Head(replies) \in SessionReply /\ Head(replies).re = Len(commands)
      /\ Tail(replies) = <<>> /\ Tail(replies) \in Seq(SessionReply)
  BY <1>1, SessionLastOne, SessionTypeFacts DEF SessionInductive
<1> QED
  BY <1>1, <1>2, SessionTypeFacts DEF SessionReply, SessionInductive

\* Decoding that reply throws: the session stays in step, or the process dies.
LEMMA ReadThrowsStep == ASSUME SessionInductive, ReadThrows PROVE SessionInductive'
<1> DEFINE e == [no |-> Latest, re |-> Head(replies).re, threw |-> TRUE]
<1>1. /\ SessionAt("reading") /\ replies # <<>> /\ replies' = Tail(replies)
      /\ session' = Unwound(session) /\ outcomes' = Append(outcomes, e)
      /\ commands' = commands /\ mirror' = mirror
  BY DEF ReadThrows
<1>2. /\ Waiting /\ mirror.read = Len(commands) /\ replies' = <<>> /\ replies' \in Seq(SessionReply)
      /\ Head(replies).re = Len(commands) /\ Len(commands) \in Nat /\ Len(outcomes) \in Nat
  BY <1>1, WaitingFacts
<1>3. e \in OutcomeType /\ e.re = e.no /\ e.re = Len(commands) /\ e.threw = TRUE
  BY <1>2 DEF Latest, OutcomeType
<1> HIDE DEF e
<1>4. /\ outcomes' \in Seq(OutcomeType) /\ Len(outcomes') = Len(outcomes) + 1
      /\ outcomes'[Len(outcomes')] = e /\ outcomes' # <<>> /\ AnswersThisCommand'
  BY <1>1, <1>3, OutcomeStep
<1>5. Len(outcomes') = Len(commands)
  BY <1>2, <1>4 DEF Waiting
<1>6. /\ session \in SessionType /\ session.transport = "open" /\ ~session.done
      /\ session.guard = "exploring" /\ session.dying \in BOOLEAN
  BY <1>2, SessionTypeFacts, SessionFacts DEF SessionInductive, Waiting, Live
<1>7. session' \in SessionType => SessionTypeOK'
  BY <1>1, <1>2, <1>4 DEF SessionInductive, SessionTypeOK, SessionType, OutcomeType
<1>8. CASE outcomes = <<>>
  <2>1. session' = Dropped(session)
    BY <1>1, <1>8 DEF Unwound
  <2>2. /\ session' \in SessionType /\ session'.pc = "gone" /\ session'.transport = "null"
        /\ session'.lost
    BY <1>6, <2>1, DroppedFacts
  <2> QED
    BY <1>4, <1>7, <2>2 DEF SessionInductive, SessionAt, Ended
<1>9. CASE outcomes # <<>> /\ session.dying
  <2>1. session' = [session EXCEPT !.pc = "aborted", !.transport = "null"]
    BY <1>1, <1>9 DEF Unwound
  <2>2. /\ session' \in SessionType /\ session'.pc = "aborted" /\ session'.transport = "null"
        /\ ~session'.done /\ session'.dying
    BY <1>6, <1>9, <2>1 DEF SessionType
  <2>3. Confirmed(TRUE)'
    BY <1>1, <1>2, <1>3, <1>4, <1>9 DEF Confirmed, Waiting, Latest
  <2> QED
    BY <1>4, <1>7, <2>2, <2>3 DEF SessionInductive, SessionAt
<1>10. CASE outcomes # <<>> /\ ~session.dying
  <2>1. session' = [session EXCEPT !.pc = "ready"]
    BY <1>1, <1>10 DEF Unwound
  <2>2. /\ session' \in SessionType /\ session'.pc = "ready" /\ session'.transport = "open"
        /\ ~session'.done /\ session'.guard = "exploring" /\ ~session'.dying
    BY <1>6, <1>10, <2>1 DEF SessionType
  <2>3. Usable'
    BY <1>1, <1>2, <1>4, <1>5, <2>2 DEF Usable, Live
  <2> QED
    BY <1>4, <1>7, <2>2, <2>3 DEF SessionInductive, SessionAt
<1> QED
  BY <1>6, <1>8, <1>9, <1>10

\* The reply that is read is the one to the call that waits.
LEMMA SessionReadStep == ASSUME SessionInductive, Read PROVE SessionInductive'
<1> DEFINE m == Head(replies)
           g == IF MayReceive(session.guard, m.tag) THEN AfterReceive(session.guard, m.tag)
                ELSE session.guard
           s == [session EXCEPT !.guard = g]
           c == commands[Latest]
<1>1. /\ SessionAt("reading") /\ replies # <<>> /\ replies' = Tail(replies)
      /\ commands' = commands /\ mirror' = mirror
  BY DEF Read
<1>2. Waiting /\ mirror.read = Len(commands)
  BY <1>1, WaitingFacts
<1>3. m \in SessionReply /\ m.re = Len(commands) /\ replies' = <<>> /\ replies' \in Seq(SessionReply)
  BY <1>1, WaitingFacts
<1>4. m.tag \in MirrorMessages /\ m.re \in Nat
  BY <1>3 DEF SessionReply
<1>5. c \in {Open} \cup ExploreCommands /\ Len(commands) \in Nat /\ Len(outcomes) \in Nat
  BY <1>2, SessionTypeFacts DEF SessionInductive, Waiting, Latest
<1>6. session.guard = "exploring"
  BY <1>2 DEF Waiting, Live
<1>7. g \in {"exploring", "done"} /\ (IsAnswer(m.tag) /\ c # "explore_done" => g = "exploring")
  <2>1. CASE MayReceive("exploring", m.tag)
    <3>1. g = AfterReceive("exploring", m.tag)
      BY <1>6, <2>1
    <3>2. IsAnswer(m.tag) => m.tag = Expected(c)
      BY DEF IsAnswer
    <3> HIDE DEF c, m, g
    <3> QED
      BY <1>4, <1>5, <2>1, <3>1, <3>2, SessionGuardFacts
  <2>2. CASE ~MayReceive("exploring", m.tag)
    <3>1. g = "exploring"
      BY <1>6, <2>2
    <3> HIDE DEF g
    <3> QED
      BY <3>1
  <2> QED
    BY <2>1, <2>2
<1> HIDE DEF g, c
<1>8. /\ s \in SessionType /\ s.transport = "open" /\ ~s.done /\ s.dying = session.dying
      /\ s.guard = g
  BY <1>2, <1>7, SessionTypeFacts DEF SessionType, Waiting, Live, SessionInductive
<1> HIDE DEF m, s
<1>9. CASE ~IsAnswer(m.tag)
  <2>1. session' = Poison(s) /\ outcomes' = outcomes
    BY <1>9 DEF Read, m, s, g
  <2>2. s.dying => outcomes # <<>>
    BY <1>2, <1>8 DEF Waiting
  <2> QED
    BY <1>1, <1>3, <1>8, <2>1, <2>2, PoisonStep
<1>10. CASE IsAnswer(m.tag)
  <2> DEFINE e == [no |-> Latest, re |-> m.re, threw |-> FALSE]
  <2>1. outcomes' = Append(outcomes, e)
    BY <1>10 DEF Read, m
  <2>2. e \in OutcomeType /\ e.re = e.no /\ e.re = Len(commands) /\ e.threw = FALSE
    BY <1>3, <1>5 DEF Latest, OutcomeType
  <2> HIDE DEF e
  <2>3. /\ outcomes' \in Seq(OutcomeType) /\ Len(outcomes') = Len(outcomes) + 1
        /\ outcomes'[Len(outcomes')] = e /\ outcomes' # <<>> /\ AnswersThisCommand'
    BY <2>1, <2>2, OutcomeStep
  <2>5. Len(outcomes') = Len(commands)
    BY <1>2, <1>5, <2>3 DEF Waiting
  <2>6. CASE c # "explore_done"
    <3>1. session' = Rest(s)
      BY <1>10, <2>6 DEF Read, m, s, g, c
    <3>2. ~s.dying
      BY <1>2, <1>8, <2>6, SessionFacts DEF Waiting, c
    <3>3. /\ session' \in SessionType /\ session'.pc = "ready" /\ session'.transport = "open"
          /\ ~session'.done /\ session'.guard = "exploring" /\ ~session'.dying
      BY <1>7, <1>8, <1>10, <2>6, <3>1, <3>2, RestFacts
    <3>4. SessionTypeOK'
      BY <1>1, <1>3, <2>3, <3>3 DEF SessionInductive, SessionTypeOK, SessionType, OutcomeType
    <3>5. Usable'
      BY <1>1, <1>2, <1>3, <2>3, <2>5, <3>3 DEF Usable, Live
    <3> QED
      BY <2>3, <3>3, <3>4, <3>5 DEF SessionInductive, SessionAt
  <2>7. CASE c = "explore_done"
    <3> DEFINE t == [s EXCEPT !.done = TRUE, !.transport = "null"]
    <3>1. session' = Rest(t)
      BY <1>10, <2>7 DEF Read, m, s, g, c
    <3>2. t \in SessionType /\ t.done /\ t.transport = "null" /\ t.dying = s.dying
      BY <1>8 DEF SessionType
    <3> HIDE DEF t
    <3>3. /\ session' \in SessionType /\ session'.transport = "null" /\ session'.done
          /\ session'.pc = IF s.dying THEN "gone" ELSE "ready"
          /\ session'.dying = s.dying
      BY <3>1, <3>2, RestFacts
    <3>4. SessionTypeOK'
      BY <1>1, <1>3, <2>3, <3>3 DEF SessionInductive, SessionTypeOK, SessionType, OutcomeType
    <3>5. Ended'
      BY <1>1, <2>2, <2>3, <2>7 DEF Ended, Confirmed, Latest, c
    <3>6. SessionAt("ready")' => Usable'
      BY <2>3, <3>3 DEF Usable, SessionAt
    <3> QED
      BY <2>3, <3>3, <3>4, <3>5, <3>6 DEF SessionInductive, SessionAt
  <2> QED
    BY <2>6, <2>7
<1> QED
  BY <1>9, <1>10

---------------------------------------------------------------------------
\* A call on a closed session changes nothing.
LEMMA SessionNextStep == ASSUME SessionInductive, [SessionNext]_sessionVars PROVE SessionInductive'
<1>1. ASSUME NEW c \in ExploreCommands, Closed(c) PROVE SessionInductive'
  BY <1>1, SessionStutterStep DEF Closed, sessionVars
<1>2. CASE Over \/ UNCHANGED sessionVars
  BY <1>2, SessionStutterStep DEF Over
<1> QED
  BY <1>1, <1>2, OpenStep, DestroyStep, CommandStep, MovedStep, SendThrowsStep,
     SessionReadFailsStep, ReadThrowsStep, SessionReadStep, StopsStep, SessionMirrorStep
     DEF SessionNext

\* The session's invariant.
LEMMA SessionAlwaysInv == SessionSpec => []SessionInductive
<1>1. SessionInit => SessionInductive
  BY SessionInitInv
<1>2. SessionInductive /\ [SessionNext]_sessionVars => SessionInductive'
  BY SessionNextStep
<1> QED
  BY <1>1, <1>2, PTL DEF SessionSpec

\* A session returns each answer to the command it belongs to, sends a command only
\* when everything before it was answered, and leaves the mirror informed or the
\* connection closed (ExploreSession::command, poison, ~ExploreSession).
THEOREM SessionInStep == SessionSpec => []SessionInv
<1>1. SessionInductive => SessionInv
  BY DEF SessionInductive, SessionInv, StrictAlternation, OrderlyEnd, Usable, Ended
<1> QED
  BY <1>1, SessionAlwaysInv, PTL

\* What is done once a session is over: nothing is sent or returned any more.
LEMMA OverStep ==
  ASSUME SessionInductive, SessionNext, session.done
  PROVE  session'.done /\ commands' = commands /\ outcomes' = outcomes
<1>1. session \in SessionType /\ ~SessionAt("open") /\ ~SessionAt("reading")
  BY SessionTypeFacts DEF SessionInductive, Unopened, Waiting, Live
<1>2. Refused
  BY DEF Refused
<1>3. ASSUME NEW ok \in BOOLEAN, Destroy(ok)
      PROVE  session'.done /\ commands' = commands /\ outcomes' = outcomes
  BY <1>1, <1>2, <1>3 DEF Destroy, SessionType
<1>4. ASSUME MovedOver PROVE session'.done /\ commands' = commands /\ outcomes' = outcomes
  BY <1>1, <1>4 DEF MovedOver, Dropped, SessionType
<1> QED
  BY <1>1, <1>2, <1>3, <1>4
     DEF SessionNext, OpenSend, Command, Closed, SendThrows, ReadFails, ReadThrows, Read, MirrorStops, MirrorAnswers,
         Over, sessionVars

\* A poisoned or finished session never speaks again, returns nothing more, and its
\* connection is closed (ExploreSession::poison, ExploreSession::done).
THEOREM PoisonIsFinal == SessionSpec => PoisonedForGood
<1>1. SessionInductive /\ SessionInductive' /\ [SessionNext]_sessionVars =>
        [session.done => /\ session'.done /\ commands' = commands /\ outcomes' = outcomes
                         /\ session'.transport # "open"]_sessionVars
  BY OverStep DEF SessionInductive
<1> QED
  BY <1>1, SessionAlwaysInv, PTL DEF SessionSpec, PoisonedForGood

---------------------------------------------------------------------------
(***************************************************************************)
(* The client's flows for every set of states, every number of flows and   *)
(* every length of the conversation: what they leave behind, what they     *)
(* compute from, what success means, and that they implement Conversation. *)
(***************************************************************************)

FlowCallType ==
  [flow : Flows, result : Kinds, prefer : BOOLEAN, fallback : BOOLEAN, calls : 0 .. MaxFlows,
   pc : {"idle", "register", "negotiate", "factory", "admit", "validation", "step",
         "compute", "report", "reply", "dispose"}]
AppType == [prev : States \cup {NoState}, asked : {"none", "initial_state", "next_step"}]
BindingType == [state : {"none", "live", "disposed"}, disposals : Nat,
                origin : {"none", "compiled", "fallback"}]

\* The connection carries a registration and nothing else ...
Registered ==
  open /\ Len(wire) = 1 /\ wire[1].from = "client" /\ wire[1].tag \in Registrations
\* ... or also the mirror's acceptance of the specification.
Accepted ==
  /\ Len(wire) >= 2 /\ wire[1].from = "client" /\ wire[1].tag \in Registrations
  /\ wire[2].from = "mirror" /\ wire[2].tag = "spec_valid"
Answered == open /\ Accepted /\ Len(wire) = 2

\* The mirror reported no error so far.
Quiet == Said("mirror", Errors \cup {"step_mismatch"}) = {}

\* The adapter that was chosen is one the mirror's acceptance allows.
Granted ==
  /\ Negotiated /\ Accepted /\ binding.disposals = 0
  /\ binding.origin = "compiled" => wire[2].reply = "same"
  /\ binding.origin = "fallback" =>
       call.prefer /\ call.fallback /\ wire[2].reply \in {"absent", "unsupported", "unavailable"}
Adapter == IF Negotiated THEN Granted /\ binding.state = "live" ELSE binding = NoBinding

\* The state that was reported last.
Reported(state) == \E i \in Reports : state = wire[i].val /\ \A j \in Reports : j <= i

\* The loop after the first step was asked for: so many steps are not answered yet.
Stepping(owing) ==
  /\ open /\ first = "none" /\ guard = "stepping" /\ Adapter /\ Accepted /\ Quiet
  /\ Len(wire) > 2 /\ wire[3].tag = "initial_state"
  /\ Cardinality(Asked) = Cardinality(Reports) + owing /\ Asked # {}

\* What success means.
Earned ==
  /\ wire[2].tag = "spec_valid" /\ wire[3].tag = "initial_state"
  /\ wire[Len(wire)].tag = "all_steps_done"
  /\ Cardinality(Asked) = Cardinality(Reports) /\ Quiet

\* Where a flow may be, and what it has then.
AtIdle ==
  /\ wire # <<>> => (open <=> call.result = "escaped") /\ (open => binding.state = "none")
  /\ binding.disposals = IF binding.state = "none" THEN 0 ELSE 1
  /\ call.result = "ok" /\ call.flow \notin OneShots => Earned
AtRegister ==
  wire = <<>> /\ binding = NoBinding /\ first = "none" /\ guard = "idle"
AtNegotiate ==
  Negotiated /\ Registered /\ binding = NoBinding /\ first = "none" /\ guard = "validating"
AtFactory(state) ==
  /\ Granted /\ Answered /\ binding.state = state /\ first = "spec_valid" /\ guard = "validating"
AtValidation ==
  /\ guard = "validating" /\ Adapter
  /\ IF Negotiated THEN Answered /\ first = "spec_valid" ELSE Registered /\ first = "none"
AtStep ==
  \/ Answered /\ Adapter /\ first = "none" /\ guard = "ready"
  \/ Stepping(0) /\ Reported(app.prev)
AtCompute == Stepping(1) /\ (app.asked # "initial_state" => Reported(app.prev))
AtReply ==
  /\ call.flow \in OneShots /\ Registered /\ binding = NoBinding /\ first = "none"
  /\ guard = "validating"
AtDispose ==
  /\ Negotiated /\ binding.state = "live" /\ binding.disposals = 0 /\ wire # <<>>
  /\ call.result # "escaped" /\ (call.result = "ok" => Earned)

FlowInductive ==
  /\ FlowTypeOK
  /\ At("idle") => AtIdle
  /\ At("register") => AtRegister
  /\ At("negotiate") => AtNegotiate
  /\ At("factory") => AtFactory("none")
  /\ At("admit") => AtFactory("live")
  /\ At("validation") => AtValidation
  /\ At("step") => AtStep
  /\ At("compute") => AtCompute
  /\ At("report") => Stepping(1)
  /\ At("reply") => AtReply
  /\ At("dispose") => AtDispose

---------------------------------------------------------------------------
(* The traffic *)

\* What TypeOK says of each variable.
LEMMA FlowTypeFacts ==
  ASSUME FlowTypeOK
  PROVE  /\ call \in FlowCallType /\ guard \in Phases /\ app \in AppType /\ binding \in BindingType
         /\ first \in {"none", "spec_valid"} /\ open \in BOOLEAN
         /\ wire \in Seq(Message) /\ Len(wire) \in Nat /\ Len(wire) <= MaxMessages
<1>1. Len(wire) \in Nat
  BY DEF FlowTypeOK
<1> QED
  BY <1>1 DEF FlowTypeOK, FlowCallType, AppType, BindingType

\* The positions of messages form a finite set.
LEMMA SaidFinite ==
  ASSUME wire \in Seq(Message), NEW who, NEW tags
  PROVE  IsFiniteSet(Said(who, tags)) /\ Said(who, tags) \subseteq 1 .. Len(wire)
<1>1. Said(who, tags) \subseteq 1 .. Len(wire)
  BY DEF Said
<1>2. IsFiniteSet(1 .. Len(wire))
  BY FS_Interval
<1> QED
  BY <1>1, <1>2, FS_Subset

\* One more message on the connection.
LEMMA WireFacts ==
  ASSUME wire \in Seq(Message), NEW m \in Message, wire' = Append(wire, m)
  PROVE  /\ wire' \in Seq(Message) /\ wire' # <<>> /\ Len(wire) \in Nat
         /\ Len(wire') = Len(wire) + 1
         /\ \A i \in 1 .. Len(wire) : wire'[i] = wire[i]
         /\ wire'[Len(wire) + 1] = m
  BY AppendProperties

\* One more message is among those a party said exactly when it is of that party and kind.
LEMMA SaidFacts ==
  ASSUME wire \in Seq(Message), NEW m \in Message, wire' = Append(wire, m), NEW who, NEW tags
  PROVE  LET old == Said(who, tags)
             new == Said(who, tags)'
         IN IF m.from = who /\ m.tag \in tags
            THEN /\ new = old \cup {Len(wire) + 1} /\ Cardinality(new) = Cardinality(old) + 1
                 /\ \A j \in old : j <= Len(wire)
            ELSE new = old /\ Cardinality(new) = Cardinality(old)
<1>1. /\ Len(wire) \in Nat /\ Len(wire') = Len(wire) + 1
      /\ \A i \in 1 .. Len(wire) : wire'[i] = wire[i]
      /\ wire'[Len(wire) + 1] = m
  BY WireFacts
<1>2. Said(who, tags)' = {i \in 1 .. Len(wire') : wire'[i].from = who /\ wire'[i].tag \in tags}
  BY DEF Said
<1>3. CASE ~(m.from = who /\ m.tag \in tags)
  <2>1. Said(who, tags)' = Said(who, tags)
    BY <1>1, <1>2, <1>3 DEF Said
  <2> QED
    BY <1>3, <2>1
<1>4. CASE m.from = who /\ m.tag \in tags
  <2>1. Said(who, tags)' = Said(who, tags) \cup {Len(wire) + 1}
    <3>1. 1 .. Len(wire') = 1 .. Len(wire) \cup {Len(wire) + 1}
      BY <1>1
    <3> QED
      BY <1>1, <1>2, <1>4, <3>1 DEF Said
  <2>2. IsFiniteSet(Said(who, tags)) /\ \A j \in Said(who, tags) : j <= Len(wire)
    BY <1>1, SaidFinite
  <2>3. Len(wire) + 1 \notin Said(who, tags)
    BY <1>1, <2>2
  <2>4. Cardinality(Said(who, tags) \cup {Len(wire) + 1}) = Cardinality(Said(who, tags)) + 1
    BY <2>2, <2>3, FS_AddElement
  <2> QED
    BY <1>4, <2>1, <2>2, <2>4
<1> QED
  BY <1>3, <1>4

\* The positions of messages are counted by natural numbers.
LEMMA CountFacts ==
  ASSUME FlowTypeOK
  PROVE  Cardinality(Asked) \in Nat /\ Cardinality(Reports) \in Nat
BY FlowTypeFacts, SaidFinite, FS_CardinalityType DEF Asked, Reports

\* After a registration alone nobody asked or reported anything ...
LEMMA RegisteredFacts ==
  ASSUME Registered
  PROVE  Asked = {} /\ Reports = {} /\ Said("mirror", {"spec_valid"}) = {} /\ wire # <<>> /\ Quiet
BY DEF Registered, Asked, Reports, Said, Registrations, Quiet

\* ... and after the acceptance alone neither.
LEMMA AnsweredFacts ==
  ASSUME Answered
  PROVE  /\ Asked = {} /\ Reports = {} /\ 2 \in Said("mirror", {"spec_valid"}) /\ wire # <<>>
         /\ Quiet
<1>1. /\ 1 .. Len(wire) = {1, 2} /\ wire[1].from = "client" /\ wire[1].tag # "report_state"
      /\ wire[2].from = "mirror" /\ wire[2].tag = "spec_valid"
  BY DEF Answered, Accepted, Registrations
<1>2. Asked = {} /\ Reports = {} /\ 2 \in Said("mirror", {"spec_valid"})
  BY <1>1 DEF Asked, Reports, Said
<1>3. Quiet
  BY <1>1 DEF Quiet, Said, Errors
<1> QED
  BY <1>2, <1>3 DEF Answered

---------------------------------------------------------------------------
(* Locals *)

Points == {"idle", "register", "negotiate", "factory", "admit", "validation", "step", "compute",
           "report", "reply", "dispose"}

\* The calls that the flow's steps make of a call: it goes on to another point ...
LEMMA GotoFacts ==
  ASSUME NEW p \in Points, Goto(p), call \in FlowCallType
  PROVE  /\ call' \in FlowCallType /\ call'.pc = p /\ call'.flow = call.flow
         /\ call'.prefer = call.prefer /\ call'.fallback = call.fallback
         /\ call'.result = call.result
BY DEF FlowCallType, Points, Goto

\* ... or it gets a result.
LEMMA ResultFacts ==
  ASSUME NEW p \in Points, NEW k \in Kinds, call \in FlowCallType,
         call' = [call EXCEPT !.pc = p, !.result = k]
  PROVE  /\ call' \in FlowCallType /\ call'.pc = p /\ call'.flow = call.flow /\ call'.result = k
BY DEF FlowCallType, Points

\* The messages are well formed.
LEMMA MessageFacts ==
  ASSUME NEW val \in States \cup {NoState}, NEW reply \in InterfaceReplies,
         NEW ctag \in ClientMessages, NEW mtag \in MirrorMessages
  PROVE  /\ FromClient(ctag, val) \in Message
         /\ FromClient(ctag, val).from = "client" /\ FromClient(ctag, val).tag = ctag
         /\ FromClient(ctag, val).val = val
         /\ FromMirror(mtag, reply) \in Message
         /\ FromMirror(mtag, reply).from = "mirror" /\ FromMirror(mtag, reply).tag = mtag
         /\ FromMirror(mtag, reply).reply = reply
BY DEF FromClient, FromMirror, Message, InterfaceReplies

\* The results of a flow that closed its connection.
Results == Kinds \ {"escaped"}

\* Every one of them.
LEMMA KindFacts ==
  /\ {"ok", "io", "json", "protocol", "spec_invalid", "registration", "step_mismatch",
      "model_interface", "threw", "none"} = Results
  /\ \A tag : ErrorOf(tag) \in Results \ {"ok"}
BY DEF Results, Kinds, ErrorOf

\* What the guard lets through in each phase of the loop, and the phase that follows.
LEMMA FlowGuardFacts ==
  ASSUME NEW tag \in MirrorMessages
  PROVE  /\ \A p \in Phases : AfterReceive(p, tag) \in Phases
         /\ MayReceive("validating", tag) /\ tag = "spec_valid" =>
              AfterReceive("validating", tag) = "ready"
         /\ MayReceive("ready", tag) => tag \in Errors \cup {"initial_state"}
         /\ MayReceive("stepping", tag) =>
              tag \in Errors \cup {"initial_state", "next_step", "step_ok", "all_steps_done",
                                   "step_mismatch"}
         /\ \A p \in Phases : AfterReceive(p, "initial_state") = "stepping"
         /\ AfterReceive("stepping", "next_step") = "stepping"
         /\ AfterReceive("stepping", "step_ok") = "stepping"
<1>1. \A p \in Phases : AfterReceive(p, tag) \in Phases
  BY DEF AfterReceive, Phases
<1>2. MayReceive("ready", tag) => tag \in Errors \cup {"initial_state"}
  BY DEF MayReceive
<1>3. MayReceive("stepping", tag) =>
        tag \in Errors \cup {"initial_state", "next_step", "step_ok", "all_steps_done",
                             "step_mismatch"}
  BY DEF MayReceive
<1> QED
  BY <1>1, <1>2, <1>3 DEF AfterReceive

---------------------------------------------------------------------------
(* Ends *)

\* A flow that fails, or one that had a single question, returns and closes.
LEMMA ReturnStep ==
  ASSUME FlowInductive, NEW k \in Results, k = "ok" => call.flow \in OneShots,
         call' = [call EXCEPT !.pc = "idle", !.result = k], open' = FALSE,
         binding' \in BindingType, binding'.disposals = IF binding'.state = "none" THEN 0 ELSE 1,
         guard' \in Phases, app' \in AppType, first' \in {"none", "spec_valid"},
         wire' \in Seq(Message), Len(wire') <= MaxMessages
  PROVE  FlowInductive'
<1>0. k \in Kinds /\ k # "escaped"
  BY DEF Results
<1>1. call' \in FlowCallType /\ call'.pc = "idle" /\ call'.flow = call.flow /\ call'.result = k
  BY <1>0, ResultFacts, FlowTypeFacts DEF FlowInductive, Points
<1>2. FlowTypeOK'
  BY <1>1 DEF FlowTypeOK, FlowCallType, AppType, BindingType
<1>3. AtIdle'
  BY <1>0, <1>1 DEF AtIdle
<1> QED
  BY <1>1, <1>2, <1>3 DEF FlowInductive, At

\* The loop ends: a negotiated flow goes on to dispose its binding.
LEMMA LeaveStep ==
  ASSUME FlowInductive, NEW k \in Results, Leave(k), Adapter, k = "ok" => Earned', binding' = binding,
         guard' \in Phases, app' \in AppType, first' \in {"none", "spec_valid"},
         wire' \in Seq(Message), Len(wire') <= MaxMessages, wire' # <<>>
  PROVE  FlowInductive'
<1>0. call \in FlowCallType /\ binding \in BindingType /\ k \in Kinds /\ k # "escaped"
  BY FlowTypeFacts DEF FlowInductive, Results
<1>1. CASE Negotiated
  <2>1. call' = [call EXCEPT !.pc = "dispose", !.result = k] /\ open' = FALSE
    BY <1>1 DEF Leave
  <2>2. call' \in FlowCallType /\ call'.pc = "dispose" /\ call'.flow = call.flow /\ call'.result = k
    BY <1>0, <2>1, ResultFacts DEF Points
  <2>3. FlowTypeOK'
    BY <1>0, <2>1, <2>2 DEF FlowTypeOK, FlowCallType, AppType, BindingType
  <2>4. AtDispose'
    BY <1>0, <1>1, <2>2 DEF AtDispose, Adapter, Granted, Negotiated
  <2> QED
    BY <2>2, <2>3, <2>4 DEF FlowInductive, At
<1>2. CASE ~Negotiated
  <2>1. call' = [call EXCEPT !.pc = "idle", !.result = k] /\ open' = FALSE
    BY <1>2 DEF Leave
  <2>2. call' \in FlowCallType /\ call'.pc = "idle" /\ call'.flow = call.flow /\ call'.result = k
    BY <1>0, <2>1, ResultFacts DEF Points
  <2>3. FlowTypeOK'
    BY <1>0, <2>1, <2>2 DEF FlowTypeOK, FlowCallType, AppType, BindingType
  <2>4. AtIdle'
    BY <1>0, <1>2, <2>1, <2>2 DEF AtIdle, Adapter, NoBinding
  <2> QED
    BY <2>2, <2>3, <2>4 DEF FlowInductive, At
<1> QED
  BY <1>1, <1>2

\* An exception leaves the flow, or is caught where a binding is to be disposed.
LEMMA EscapeStep ==
  ASSUME FlowInductive, Escape,
         binding.state = "live" => Negotiated /\ binding.disposals = 0 /\ wire # <<>>,
         binding.state # "live" => binding = NoBinding /\ (wire # <<>> => open)
  PROVE  FlowInductive'
<1>1. call \in FlowCallType /\ UNCHANGED <<guard, app, binding, first, open, wire>>
  BY FlowTypeFacts DEF FlowInductive, Escape
<1>2. CASE binding.state = "live"
  <2>1. call' = [call EXCEPT !.pc = "dispose", !.result = "model_interface"]
        /\ "model_interface" \in Kinds
    BY <1>2 DEF Escape, Kinds
  <2>2. /\ call' \in FlowCallType /\ call'.pc = "dispose" /\ call'.flow = call.flow
        /\ call'.result = "model_interface"
    BY <1>1, <2>1, ResultFacts DEF Points
  <2>3. FlowTypeOK'
    BY <1>1, <2>2 DEF FlowInductive, FlowTypeOK, FlowCallType
  <2>4. AtDispose'
    BY <1>1, <1>2, <2>2 DEF AtDispose, Negotiated
  <2> QED
    BY <2>2, <2>3, <2>4 DEF FlowInductive, At
<1>3. CASE binding.state # "live"
  <2>1. call' = [call EXCEPT !.pc = "idle", !.result = "escaped"] /\ "escaped" \in Kinds
    BY <1>3 DEF Escape, Kinds
  <2>2. /\ call' \in FlowCallType /\ call'.pc = "idle" /\ call'.result = "escaped"
    BY <1>1, <2>1, ResultFacts DEF Points
  <2>3. FlowTypeOK'
    BY <1>1, <2>2 DEF FlowInductive, FlowTypeOK, FlowCallType
  <2>4. AtIdle'
    BY <1>1, <1>3, <2>2 DEF AtIdle, NoBinding
  <2> QED
    BY <2>2, <2>3, <2>4 DEF FlowInductive, At
<1> QED
  BY <1>2, <1>3

---------------------------------------------------------------------------
(* Starting a flow *)

\* Before the first call.
LEMMA FlowInitInv == FlowInit => FlowInductive
<1> SUFFICES ASSUME FlowInit PROVE FlowInductive
  OBVIOUS
<1>1. /\ call \in FlowCallType /\ call.pc = "idle" /\ call.result = "none"
  BY FlowAssumption DEF FlowInit, FlowCallType, Flows, Plain, Kinds
<1>2. app \in AppType /\ binding \in BindingType /\ binding.disposals = 0 /\ binding.state = "none"
  BY DEF FlowInit, AppType, BindingType, NoBinding
<1>3. FlowTypeOK
  BY <1>1, <1>2, FlowAssumption DEF FlowInit, FlowTypeOK, FlowCallType, AppType, BindingType, Phases
<1> QED
  BY <1>1, <1>2, <1>3 DEF FlowInit, FlowInductive, At, AtIdle

\* A flow is called.
LEMMA CallStep ==
  ASSUME FlowInductive, NEW flow \in Flows, NEW prefer \in BOOLEAN, NEW fallback \in BOOLEAN,
         Call(flow, prefer, fallback)
  PROVE  FlowInductive'
<1>1. call \in FlowCallType /\ AtIdle /\ call.calls < MaxFlows
  BY FlowTypeFacts DEF FlowInductive, Call
<1>2. call.calls + 1 \in 0 .. MaxFlows
  BY <1>1, FlowAssumption DEF FlowCallType
<1>3. call' \in FlowCallType /\ call'.pc = "register"
  BY <1>2 DEF Call, FlowCallType, Kinds
<1>4. app' \in AppType /\ binding' \in BindingType /\ binding' = NoBinding
  BY DEF Call, AppType, BindingType, NoBinding
<1>5. /\ guard' = "idle" /\ first' = "none" /\ open' = open /\ wire' = <<>>
  BY DEF Call
<1>6. FlowTypeOK'
  BY <1>3, <1>4, <1>5, FlowAssumption DEF FlowInductive, FlowTypeOK, FlowCallType, AppType, BindingType, Phases
<1>7. AtRegister'
  BY <1>1, <1>4, <1>5 DEF AtRegister, AtIdle
<1> QED
  BY <1>3, <1>6, <1>7 DEF FlowInductive, At

\* A flow that cannot be prepared leaves the connection alone.
LEMMA FlowRefusedStep == ASSUME FlowInductive, CallRefused PROVE FlowInductive'
<1>1. call \in FlowCallType /\ AtRegister /\ UNCHANGED <<guard, app, binding, first, open, wire>>
  BY FlowTypeFacts DEF FlowInductive, CallRefused
<1> DEFINE k == IF Negotiated THEN "model_interface" ELSE "protocol"
<1>2. k \in Kinds /\ k # "ok" /\ call' = [call EXCEPT !.pc = "idle", !.result = k]
  BY DEF CallRefused, Kinds
<1> HIDE DEF k
<1>3. call' \in FlowCallType /\ call'.pc = "idle" /\ call'.result # "ok"
  BY <1>1, <1>2, ResultFacts DEF Points
<1>4. FlowTypeOK'
  BY <1>1, <1>3 DEF FlowInductive, FlowTypeOK, FlowCallType
<1>5. AtIdle'
  BY <1>1, <1>3 DEF AtIdle, AtRegister, NoBinding
<1> QED
  BY <1>3, <1>4, <1>5 DEF FlowInductive, At

\* The registration is sent, or not.
LEMMA RegisterStep ==
  ASSUME FlowInductive, NEW tag \in Registrations, NEW ok \in BOOLEAN, Register(tag, ok)
  PROVE  FlowInductive'
<1>1. /\ AtRegister /\ FlowTypeOK /\ UNCHANGED <<app, binding, first>>
      /\ tag \in (IF Negotiated THEN {"register", "register_traces"} ELSE {call.flow})
      /\ guard' = AfterSend(guard, tag)
  BY DEF FlowInductive, Register
<1>2. /\ call \in FlowCallType /\ app \in AppType /\ binding \in BindingType /\ first = "none"
      /\ wire \in Seq(Message) /\ Len(wire) \in Nat /\ Len(wire) <= MaxMessages
      /\ binding = NoBinding /\ guard = "idle"
  BY <1>1, FlowTypeFacts DEF AtRegister
<1>3. guard' \in Phases /\ (ok => guard' = "validating")
  <2>1. call.flow # "register_explore_session"
    BY <1>2 DEF FlowCallType, Flows, Plain, OneShots
  <2>2. tag # "register_explore_session"
    BY <1>1, <2>1
  <2> QED
    BY <1>1, <2>2 DEF AfterSend, Phases
<1>4. CASE ok
  <2> DEFINE m == FromClient(tag, NoState)
             p == IF Negotiated THEN "negotiate"
                  ELSE IF call.flow \in OneShots THEN "reply" ELSE "validation"
  <2>1. open /\ open' = open /\ Len(wire) < MaxMessages /\ wire' = Append(wire, m) /\ Goto(p)
    BY <1>4 DEF Register, Room
  <2>2. m \in Message /\ m.from = "client" /\ m.tag = tag
    BY DEF FromClient, Message, ClientMessages, InterfaceReplies
  <2>3. wire = <<>> /\ p \in Points
    BY <1>1, <2>1 DEF AtRegister, Points
  <2> HIDE DEF m, p
  <2>4. /\ wire' \in Seq(Message) /\ Len(wire') = 1 /\ wire'[1] = m
    BY <1>2, <2>1, <2>2, <2>3, WireFacts
  <2>5. /\ call' \in FlowCallType /\ call'.pc = p /\ call'.flow = call.flow
    BY <1>2, <2>1, <2>3, GotoFacts
  <2>6. FlowTypeOK'
    BY <1>1, <1>2, <1>3, <2>1, <2>3, <2>4, <2>5, FlowAssumption
       DEF FlowTypeOK, FlowCallType, AppType, BindingType
  <2>7. Registered'
    BY <2>1, <2>2, <2>4 DEF Registered
  <2>8. (At("negotiate") => AtNegotiate)' /\ (At("reply") => AtReply)'
    BY <1>1, <1>2, <1>3, <1>4, <2>5, <2>7
       DEF p, At, AtNegotiate, AtReply, Negotiated
  <2>9. (At("validation") => AtValidation)'
    BY <1>1, <1>2, <1>3, <1>4, <2>5, <2>7
       DEF p, At, AtValidation, Negotiated, Adapter
  <2>10. call'.pc \in {"negotiate", "reply", "validation"}
    BY <2>5 DEF p
  <2> QED
    BY <2>6, <2>8, <2>9, <2>10 DEF FlowInductive, At
<1>5. CASE ~ok
  <2>1. Return("io") /\ wire' = wire /\ "io" \in Results
    BY <1>5 DEF Register, Results, Kinds
  <2> QED
    BY <1>1, <1>2, <1>3, <2>1, ReturnStep DEF Return, NoBinding
<1> QED
  BY <1>4, <1>5

---------------------------------------------------------------------------
(* Negotiation *)

\* What authorize_compiled_reply grants, and on which reply.
LEMMA AuthorizeFacts ==
  ASSUME NEW tag, NEW reply
  PROVE  /\ Authorize(tag, reply) \in {"compiled", "fallback"} \cup (Results \ {"ok"})
         /\ Authorize(tag, reply) = "compiled" => tag = "spec_valid" /\ reply = "same"
         /\ Authorize(tag, reply) = "fallback" =>
              /\ tag = "spec_valid" /\ reply \in {"absent", "unsupported", "unavailable"}
              /\ call.prefer /\ call.fallback
<1>1. CASE tag = "spec_valid"
  BY <1>1 DEF Authorize, Results, Kinds
<1>2. CASE tag # "spec_valid"
  BY <1>2 DEF Authorize, Results, Kinds
<1> QED
  BY <1>1, <1>2

\* The mirror's first reply in a negotiated flow.
LEMMA NegotiateStep ==
  ASSUME FlowInductive, NEW tag \in MirrorMessages, NEW reply \in InterfaceReplies,
         Negotiate(tag, reply)
  PROVE  FlowInductive'
<1> DEFINE choice == Authorize(tag, reply)
           m == FromMirror(tag, reply)
<1>1. /\ AtNegotiate /\ FlowTypeOK /\ UNCHANGED <<guard, app>>
      /\ Len(wire) < MaxMessages /\ wire' = Append(wire, m)
  BY DEF FlowInductive, Negotiate, Room
<1>2. /\ call \in FlowCallType /\ app \in AppType /\ binding \in BindingType /\ guard \in Phases
      /\ wire \in Seq(Message) /\ Len(wire) = 1 /\ Len(wire) <= MaxMessages
      /\ binding = NoBinding /\ guard = "validating" /\ first = "none" /\ Negotiated
      /\ open /\ wire[1].from = "client" /\ wire[1].tag \in Registrations
  BY <1>1, FlowTypeFacts DEF AtNegotiate, Registered
<1>3. m \in Message /\ m.from = "mirror" /\ m.tag = tag /\ m.reply = reply
  BY DEF FromMirror, Message, InterfaceReplies
<1> HIDE DEF m
<1>4. /\ wire' \in Seq(Message) /\ Len(wire') = 2 /\ Len(wire') <= MaxMessages
      /\ wire'[2] = m /\ wire'[1] = wire[1]
  BY <1>1, <1>2, <1>3, WireFacts, FlowAssumption
<1>5. /\ choice \in {"compiled", "fallback"} \cup (Results \ {"ok"})
      /\ choice = "compiled" => tag = "spec_valid" /\ reply = "same"
      /\ choice = "fallback" =>
              /\ tag = "spec_valid" /\ reply \in {"absent", "unsupported", "unavailable"}
              /\ call.prefer /\ call.fallback
  BY AuthorizeFacts
<1>6. \/ \E k \in Results \ {"ok"} : Return(k) /\ UNCHANGED <<binding, first>>
      \/ /\ choice \in {"compiled", "fallback"} /\ Goto("factory") /\ first' = tag
         /\ open' = open /\ binding' = [binding EXCEPT !.origin = choice]
  <2>1. "model_interface" \in Results \ {"ok"}
    BY DEF Results, Kinds
  <2>2. CASE ~Decodable(tag, reply)
    BY <2>1, <2>2 DEF Negotiate
  <2>3. CASE Decodable(tag, reply) /\ choice \notin {"compiled", "fallback"}
    BY <1>5, <2>3 DEF Negotiate
  <2>4. CASE Decodable(tag, reply) /\ choice \in {"compiled", "fallback"}
    BY <2>4 DEF Negotiate
  <2> QED
    BY <2>2, <2>3, <2>4
<1> HIDE DEF choice
<1>7. ASSUME NEW k \in Results \ {"ok"}, Return(k), UNCHANGED <<binding, first>> PROVE FlowInductive'
  BY <1>1, <1>2, <1>4, <1>7, ReturnStep DEF Return, NoBinding
<1>8. CASE /\ choice \in {"compiled", "fallback"} /\ Goto("factory") /\ first' = tag
           /\ open' = open /\ binding' = [binding EXCEPT !.origin = choice]
  <2>1. /\ call' \in FlowCallType /\ call'.pc = "factory" /\ call'.flow = call.flow
        /\ call'.prefer = call.prefer /\ call'.fallback = call.fallback
    BY <1>2, <1>8, GotoFacts DEF Points
  <2>2. /\ binding' \in BindingType /\ binding'.state = "none" /\ binding'.disposals = 0
        /\ binding'.origin = choice
    BY <1>2, <1>8 DEF BindingType, NoBinding
  <2>3. tag = "spec_valid"
    BY <1>5, <1>8
  <2>4. FlowTypeOK'
    BY <1>1, <1>2, <1>4, <1>8, <2>1, <2>2, <2>3 DEF FlowTypeOK, FlowCallType, AppType, BindingType
  <2>5. Answered' /\ Accepted'
    BY <1>2, <1>3, <1>4, <1>8, <2>3 DEF Answered, Accepted
  <2>6. Granted'
    BY <1>2, <1>3, <1>4, <1>5, <2>1, <2>2, <2>5 DEF Granted, Negotiated
  <2>7. AtFactory("none")'
    BY <1>1, <1>2, <1>8, <2>2, <2>3, <2>5, <2>6 DEF AtFactory
  <2> QED
    BY <2>1, <2>4, <2>7 DEF FlowInductive, At
<1> QED
  BY <1>6, <1>7, <1>8

\* The connection fails before that reply, or the reply does not decode.
LEMMA NegotiateFailsStep == ASSUME FlowInductive, NegotiateFails PROVE FlowInductive'
<1>1. PICK k \in {"io", "json", "model_interface"} : Return(k)
  BY DEF NegotiateFails
<1>2. k \in Results /\ k # "ok"
  BY DEF Results, Kinds
<1>3. AtNegotiate /\ UNCHANGED <<guard, app, binding, first, wire>>
  BY DEF FlowInductive, NegotiateFails
<1>4. /\ app \in AppType /\ binding \in BindingType /\ guard \in Phases
      /\ wire \in Seq(Message) /\ Len(wire) <= MaxMessages /\ first \in {"none", "spec_valid"}
  BY FlowTypeFacts DEF FlowInductive
<1> QED
  BY <1>1, <1>2, <1>3, <1>4, ReturnStep DEF Return, AtNegotiate, NoBinding

\* The factory makes a binding, or fails.
LEMMA FactoryStep == ASSUME FlowInductive, NEW ok \in BOOLEAN, Factory(ok) PROVE FlowInductive'
<1>1. AtFactory("none") /\ UNCHANGED <<guard, app, first, wire>>
  BY DEF FlowInductive, Factory
<1>2. /\ call \in FlowCallType /\ app \in AppType /\ binding \in BindingType /\ guard \in Phases
      /\ wire \in Seq(Message) /\ Len(wire) <= MaxMessages /\ first \in {"none", "spec_valid"}
  BY FlowTypeFacts DEF FlowInductive
<1>3. CASE ok
  <2>1. Goto("admit") /\ binding' = [binding EXCEPT !.state = "live"] /\ open' = open
    BY <1>3 DEF Factory
  <2>2. /\ call' \in FlowCallType /\ call'.pc = "admit" /\ call'.flow = call.flow
        /\ call'.prefer = call.prefer /\ call'.fallback = call.fallback
    BY <1>2, <2>1, GotoFacts DEF Points
  <2>3. /\ binding' \in BindingType /\ binding'.state = "live"
        /\ binding'.disposals = binding.disposals /\ binding'.origin = binding.origin
    BY <1>2, <2>1 DEF BindingType
  <2>4. FlowTypeOK'
    BY <1>1, <1>2, <2>1, <2>2, <2>3 DEF FlowInductive, FlowTypeOK, FlowCallType, AppType, BindingType
  <2>5. AtFactory("live")'
    BY <1>1, <2>1, <2>2, <2>3 DEF AtFactory, Answered, Accepted, Granted, Negotiated
  <2> QED
    BY <2>2, <2>4, <2>5 DEF FlowInductive, At
<1>4. CASE ~ok
  <2>1. Return("model_interface") /\ binding' = binding /\ "model_interface" \in Results
    BY <1>4 DEF Factory, Results, Kinds
  <2> QED
    BY <1>1, <1>2, <2>1, ReturnStep DEF Return, AtFactory, Granted
<1> QED
  BY <1>3, <1>4

\* The binding is admitted, or goes to be disposed with the connection still open.
LEMMA AdmitStep == ASSUME FlowInductive, NEW ok \in BOOLEAN, Admit(ok) PROVE FlowInductive'
<1>1. AtFactory("live") /\ UNCHANGED <<guard, app, binding, first, open, wire>>
  BY DEF FlowInductive, Admit
<1>2. call \in FlowCallType
  BY FlowTypeFacts DEF FlowInductive
<1>3. CASE ok
  <2>1. /\ call' \in FlowCallType /\ call'.pc = "validation" /\ call'.flow = call.flow
        /\ call'.prefer = call.prefer /\ call'.fallback = call.fallback
    BY <1>2, <1>3, GotoFacts DEF Admit, Points
  <2>2. FlowTypeOK'
    BY <1>1, <2>1 DEF FlowInductive, FlowTypeOK, FlowCallType
  <2>3. AtValidation'
    BY <1>1, <2>1 DEF AtFactory, AtValidation, Adapter, Answered, Accepted, Granted, Negotiated
  <2> QED
    BY <2>1, <2>2, <2>3 DEF FlowInductive, At
<1>4. CASE ~ok
  <2>1. call' = [call EXCEPT !.pc = "dispose", !.result = "model_interface"]
        /\ "model_interface" \in Kinds
    BY <1>4 DEF Admit, Kinds
  <2>2. /\ call' \in FlowCallType /\ call'.pc = "dispose" /\ call'.flow = call.flow
        /\ call'.result = "model_interface"
    BY <1>2, <2>1, ResultFacts DEF Points
  <2>3. FlowTypeOK'
    BY <1>1, <2>2 DEF FlowInductive, FlowTypeOK, FlowCallType
  <2>4. Len(wire) = 2 /\ Negotiated /\ binding.state = "live" /\ binding.disposals = 0
    BY <1>1 DEF AtFactory, Answered, Granted
  <2>5. wire # <<>>
    BY <2>4
  <2>6. AtDispose'
    BY <1>1, <2>2, <2>4, <2>5 DEF AtDispose, Negotiated
  <2> QED
    BY <2>2, <2>3, <2>6 DEF FlowInductive, At
<1> QED
  BY <1>3, <1>4

\* The binding is disposed, once, and the flow returns.
LEMMA DisposeStep == ASSUME FlowInductive, NEW ok \in BOOLEAN, Dispose(ok) PROVE FlowInductive'
<1> DEFINE k == IF call.result = "ok" /\ ~ok THEN "model_interface" ELSE call.result
<1>1. AtDispose /\ UNCHANGED <<guard, app, first, wire>>
  BY DEF FlowInductive, Dispose
<1>2. /\ call' = [call EXCEPT !.pc = "idle", !.result = k] /\ open' = FALSE
      /\ binding' = [binding EXCEPT !.state = "disposed", !.disposals = @ + 1]
  BY DEF Dispose, Return
<1>3. call \in FlowCallType /\ binding \in BindingType
  BY FlowTypeFacts DEF FlowInductive
<1>4. k \in Kinds /\ k # "escaped" /\ (k = "ok" => call.result = "ok")
  BY <1>1, <1>3 DEF FlowCallType, Kinds, AtDispose
<1> HIDE DEF k
<1>5. /\ call' \in FlowCallType /\ call'.pc = "idle" /\ call'.result = k
  BY <1>2, <1>3, <1>4, ResultFacts DEF Points
<1>6. binding' \in BindingType /\ binding'.state = "disposed" /\ binding'.disposals = 1
  <2>1. binding.disposals = 0
    BY <1>1 DEF AtDispose
  <2>2. binding' = [binding EXCEPT !.state = "disposed", !.disposals = 1]
    BY <1>2, <2>1
  <2> QED
    BY <1>3, <2>2 DEF BindingType
<1>7. FlowTypeOK'
  BY <1>1, <1>2, <1>5, <1>6 DEF FlowInductive, FlowTypeOK, FlowCallType, BindingType
<1>8. Earned' <=> Earned
  BY <1>1 DEF Earned, Quiet, Asked, Reports, Said
<1>9. AtIdle'
  BY <1>1, <1>2, <1>4, <1>5, <1>6, <1>8 DEF AtIdle, AtDispose
<1> QED
  BY <1>5, <1>7, <1>9 DEF FlowInductive, At

---------------------------------------------------------------------------
(* The loop *)

\* One more message of the mirror in a conversation that was accepted.
LEMMA HeardFacts ==
  ASSUME FlowTypeOK, Accepted, Room, NEW tag \in MirrorMessages,
         wire' = Append(wire, FromMirror(tag, "absent"))
  PROVE  /\ wire' \in Seq(Message) /\ Len(wire') <= MaxMessages /\ wire' # <<>>
         /\ Len(wire') = Len(wire) + 1 /\ Accepted' /\ wire'[2] = wire[2]
         /\ Len(wire) > 2 => wire'[3] = wire[3]
         /\ wire'[Len(wire')].tag = tag
         /\ Reports' = Reports /\ \A i \in Reports : wire'[i] = wire[i]
         /\ tag \in {"initial_state", "next_step"} =>
              Cardinality(Asked)' = Cardinality(Asked) + 1 /\ Asked' # {}
         /\ tag \notin {"initial_state", "next_step"} => Asked' = Asked
         /\ tag \notin Errors \cup {"step_mismatch"} => (Quiet' <=> Quiet)
<1> DEFINE m == FromMirror(tag, "absent")
<1>1. m \in Message /\ m.from = "mirror" /\ m.tag = tag
  BY DEF FromMirror, Message, InterfaceReplies
<1>2. wire \in Seq(Message) /\ wire' = Append(wire, m) /\ Len(wire) \in Nat
  BY FlowTypeFacts
<1> HIDE DEF m
<1>3. /\ wire' \in Seq(Message) /\ wire' # <<>> /\ Len(wire') = Len(wire) + 1
      /\ \A i \in 1 .. Len(wire) : wire'[i] = wire[i]
      /\ wire'[Len(wire) + 1] = m
  BY <1>1, <1>2, WireFacts
<1>4. Len(wire') <= MaxMessages
  BY <1>2, <1>3, FlowAssumption DEF Room
<1>5. /\ wire'[1] = wire[1] /\ wire'[2] = wire[2] /\ (Len(wire) > 2 => wire'[3] = wire[3])
      /\ Accepted'
  BY <1>2, <1>3 DEF Accepted
<1>6. Reports' = Reports
  BY <1>1, <1>2, SaidFacts DEF Reports
<1>7. \A i \in Reports : wire'[i] = wire[i]
  BY <1>2, <1>3, SaidFinite DEF Reports
<1>8. /\ tag \in {"initial_state", "next_step"} =>
           Cardinality(Asked)' = Cardinality(Asked) + 1 /\ Asked' = Asked \cup {Len(wire) + 1}
      /\ tag \notin {"initial_state", "next_step"} => Asked' = Asked
  BY <1>1, <1>2, SaidFacts DEF Asked
<1>9. tag \notin Errors \cup {"step_mismatch"} => (Quiet' <=> Quiet)
  BY <1>1, <1>2, SaidFacts DEF Quiet
<1> QED
  BY <1>1, <1>3, <1>4, <1>5, <1>6, <1>7, <1>8, <1>9

\* The adapter stays while the call and the acceptance stay.
LEMMA AdapterKept ==
  ASSUME Adapter, binding' = binding, call'.flow = call.flow, call'.prefer = call.prefer,
         call'.fallback = call.fallback, Negotiated => Accepted' /\ wire'[2] = wire[2]
  PROVE  Adapter'
BY DEF Adapter, Granted, Negotiated

\* The mirror's verdict on the specification.
LEMMA ValidationStep ==
  ASSUME FlowInductive, NEW tag \in MirrorMessages, AwaitValidation(tag)
  PROVE  FlowInductive'
<1>1. /\ AtValidation /\ FlowTypeOK /\ Receives(tag) /\ app' = app /\ binding' = binding
      /\ guard = "validating"
      /\ guard' = IF MayReceive(guard, tag) THEN AfterReceive(guard, tag) ELSE guard
  BY DEF FlowInductive, AwaitValidation, AtValidation
<1>2. /\ call \in FlowCallType /\ app \in AppType /\ binding \in BindingType /\ guard \in Phases
      /\ wire \in Seq(Message) /\ Len(wire) \in Nat /\ Len(wire) <= MaxMessages
  BY <1>1, FlowTypeFacts
<1>3. guard' \in Phases
  BY <1>1, <1>2, FlowGuardFacts
<1>4. /\ wire' \in Seq(Message) /\ Len(wire') <= MaxMessages /\ wire' # <<>> /\ first' = "none"
      /\ tag = "spec_valid" => (Answered' <=> open') /\ (Negotiated => Accepted' /\ wire'[2] = wire[2])
  <2>1. CASE Negotiated
    <3>0. Answered /\ first = "spec_valid"
      BY <1>1, <2>1 DEF AtValidation
    <3>1. Answered /\ wire' = wire /\ first' = "none"
      BY <1>1, <3>0 DEF Receives
    <3>2. wire # <<>> /\ Accepted /\ Len(wire) = 2
      BY <3>0, AnsweredFacts DEF Answered
    <3>3. Accepted' /\ Len(wire') = 2
      BY <3>1, <3>2 DEF Accepted
    <3>4. Answered' <=> open'
      BY <3>3 DEF Answered
    <3> QED
      BY <1>2, <3>1, <3>2, <3>3, <3>4
  <2>2. CASE ~Negotiated
    <3> DEFINE m == FromMirror(tag, "absent")
    <3>1. Registered /\ Len(wire) < MaxMessages /\ wire' = Append(wire, m) /\ first' = "none"
      BY <1>1, <2>2 DEF AtValidation, Receives, Room
    <3>2. m \in Message /\ m.from = "mirror" /\ m.tag = tag
      BY DEF FromMirror, Message, InterfaceReplies
    <3> HIDE DEF m
    <3>3. /\ wire' \in Seq(Message) /\ Len(wire') = 2 /\ wire' # <<>> /\ wire'[1] = wire[1]
          /\ wire'[2] = m /\ Len(wire') <= MaxMessages
      BY <1>2, <3>1, <3>2, WireFacts, FlowAssumption DEF Registered
    <3> QED
      BY <2>2, <3>1, <3>2, <3>3 DEF Registered, Answered, Accepted
  <2> QED
    BY <2>1, <2>2
<1>5. CASE MayReceive(guard, tag) /\ tag = "spec_valid"
  <2>1. Goto("step") /\ open' = open
    BY <1>5 DEF AwaitValidation
  <2>2. /\ call' \in FlowCallType /\ call'.pc = "step" /\ call'.flow = call.flow
        /\ call'.prefer = call.prefer /\ call'.fallback = call.fallback
    BY <1>2, <2>1, GotoFacts DEF Points
  <2>3. open /\ guard' = "ready" /\ Adapter
    BY <1>1, <1>5, FlowGuardFacts DEF AtValidation, Answered, Registered
  <2>4. FlowTypeOK'
    BY <1>1, <1>2, <1>3, <1>4, <2>1, <2>2 DEF FlowTypeOK, FlowCallType, AppType, BindingType
  <2>5. Adapter'
    BY <1>1, <1>4, <1>5, <2>2, <2>3, AdapterKept
  <2>6. AtStep'
    BY <1>4, <1>5, <2>1, <2>3, <2>5 DEF AtStep
  <2> QED
    BY <2>2, <2>4, <2>6 DEF FlowInductive, At
<1>6. CASE ~(MayReceive(guard, tag) /\ tag = "spec_valid")
  <2> DEFINE k == IF MayReceive(guard, tag) THEN ErrorOf(tag) ELSE "protocol"
  <2>1. Leave(k)
    BY <1>6 DEF AwaitValidation
  <2>2. k \in Results /\ k # "ok"
    BY KindFacts
  <2> HIDE DEF k
  <2> QED
    BY <1>1, <1>2, <1>3, <1>4, <2>1, <2>2, LeaveStep DEF AtValidation
<1> QED
  BY <1>5, <1>6

\* The loop waits on an open connection, after the acceptance.
LEMMA AtStepFacts ==
  ASSUME FlowTypeOK, AtStep
  PROVE  /\ open /\ Adapter /\ Accepted /\ Quiet /\ first = "none" /\ guard \in {"ready", "stepping"}
         /\ Cardinality(Asked) = Cardinality(Reports) /\ Cardinality(Reports) \in Nat
         /\ guard = "ready" => Len(wire) = 2
         /\ guard = "stepping" => Stepping(0) /\ Reported(app.prev)
<1>1. CASE Answered /\ Adapter /\ first = "none" /\ guard = "ready"
  BY <1>1, AnsweredFacts, CountFacts DEF Answered
<1>2. CASE Stepping(0) /\ Reported(app.prev)
  BY <1>2, CountFacts DEF Stepping
<1> QED
  BY <1>1, <1>2 DEF AtStep

\* The next message of the loop.
LEMMA AwaitStepStep ==
  ASSUME FlowInductive, NEW tag \in MirrorMessages, AwaitStep(tag)
  PROVE  FlowInductive'
<1>1. /\ AtStep /\ FlowTypeOK /\ Receives(tag) /\ binding' = binding
      /\ guard' = IF MayReceive(guard, tag) THEN AfterReceive(guard, tag) ELSE guard
  BY DEF FlowInductive, AwaitStep
<1>2. /\ call \in FlowCallType /\ app \in AppType /\ binding \in BindingType /\ guard \in Phases
      /\ wire \in Seq(Message) /\ Len(wire) \in Nat /\ Len(wire) <= MaxMessages
  BY <1>1, FlowTypeFacts
<1>3. /\ open /\ Adapter /\ Accepted /\ Quiet /\ first = "none" /\ guard \in {"ready", "stepping"}
      /\ Cardinality(Asked) = Cardinality(Reports) /\ Cardinality(Reports) \in Nat
      /\ guard = "ready" => Len(wire) = 2
      /\ guard = "stepping" => Stepping(0) /\ Reported(app.prev)
  BY <1>1, AtStepFacts
<1>4. Room /\ wire' = Append(wire, FromMirror(tag, "absent")) /\ first' = "none"
  BY <1>1, <1>3 DEF Receives
<1>5. /\ wire' \in Seq(Message) /\ Len(wire') <= MaxMessages /\ wire' # <<>>
      /\ Len(wire') = Len(wire) + 1 /\ Accepted' /\ wire'[2] = wire[2]
      /\ Len(wire) > 2 => wire'[3] = wire[3]
      /\ wire'[Len(wire')].tag = tag
      /\ Reports' = Reports /\ \A i \in Reports : wire'[i] = wire[i]
      /\ tag \in {"initial_state", "next_step"} =>
           Cardinality(Asked)' = Cardinality(Asked) + 1 /\ Asked' # {}
      /\ tag \notin {"initial_state", "next_step"} => Asked' = Asked
      /\ tag \notin Errors \cup {"step_mismatch"} => (Quiet' <=> Quiet)
  BY <1>1, <1>3, <1>4, HeardFacts
<1>6. guard' \in Phases
  BY <1>1, <1>2, FlowGuardFacts
<1>7. guard = "stepping" => Len(wire) > 2 /\ wire'[3].tag = "initial_state" /\ Asked # {}
  BY <1>3, <1>5 DEF Stepping
<1>8. CASE ~MayReceive(guard, tag)
  <2>1. Leave("protocol") /\ app' = app /\ "protocol" \in Results
    BY <1>8 DEF AwaitStep, Results, Kinds
  <2> QED
    BY <1>1, <1>2, <1>3, <1>4, <1>5, <1>6, <2>1, LeaveStep
<1>9. CASE MayReceive(guard, tag) /\ tag \in {"initial_state", "next_step"}
  <2>1. Goto("compute") /\ app' = [app EXCEPT !.asked = tag] /\ open' = open
    BY <1>9 DEF AwaitStep
  <2>2. /\ call' \in FlowCallType /\ call'.pc = "compute" /\ call'.flow = call.flow
        /\ call'.prefer = call.prefer /\ call'.fallback = call.fallback
    BY <1>2, <2>1, GotoFacts DEF Points
  <2>3. app' \in AppType /\ app'.prev = app.prev /\ app'.asked = tag
    BY <1>2, <1>9, <2>1 DEF AppType
  <2>4. guard = "ready" => tag = "initial_state"
    BY <1>9, FlowGuardFacts DEF Errors
  <2>5. guard' = "stepping"
    <3>1. "initial_state" \in MirrorMessages /\ "next_step" \in MirrorMessages
      BY DEF MirrorMessages
    <3> QED
      BY <1>1, <1>2, <1>3, <1>9, <2>4, FlowGuardFacts
  <2>6. Len(wire') > 2 /\ wire'[3].tag = "initial_state"
    BY <1>2, <1>3, <1>5, <1>7, <2>4
  <2>7. FlowTypeOK'
    BY <1>1, <1>2, <1>4, <1>5, <1>6, <2>1, <2>2, <2>3 DEF FlowTypeOK, FlowCallType, AppType, BindingType
  <2>8. Adapter'
    BY <1>1, <1>3, <1>5, <2>2, AdapterKept
  <2>9. Quiet'
    BY <1>3, <1>5, <1>9 DEF Errors
  <2>10. Stepping(1)'
    BY <1>3, <1>4, <1>5, <1>9, <2>1, <2>5, <2>6, <2>8, <2>9 DEF Stepping
  <2>11. tag # "initial_state" => Reported(app.prev)'
    BY <1>3, <1>5, <2>3, <2>4 DEF Reported
  <2>12. AtCompute'
    BY <2>3, <2>10, <2>11 DEF AtCompute
  <2> QED
    BY <2>2, <2>7, <2>12 DEF FlowInductive, At
<1>10. CASE MayReceive(guard, tag) /\ tag = "step_ok"
  <2>1. call' = call /\ open' = open /\ app' = app
    BY <1>10 DEF AwaitStep
  <2>2. guard = "stepping"
    BY <1>3, <1>10, FlowGuardFacts DEF Errors
  <2>3. guard' = "stepping"
    BY <1>1, <1>10, <2>2, FlowGuardFacts
  <2>4. FlowTypeOK'
    BY <1>1, <1>2, <1>4, <1>5, <1>6, <2>1 DEF FlowTypeOK, FlowCallType, AppType, BindingType
  <2>5. Adapter'
    BY <1>1, <1>3, <1>5, <2>1, AdapterKept
  <2>6. Stepping(0)'
    BY <1>2, <1>3, <1>4, <1>5, <1>7, <1>10, <2>1, <2>2, <2>3, <2>5 DEF Stepping, Errors
  <2>7. Reported(app.prev)'
    BY <1>3, <1>5, <2>1, <2>2 DEF Reported
  <2>8. AtStep'
    BY <2>6, <2>7 DEF AtStep
  <2>9. call'.pc = "step"
    BY <2>1 DEF AwaitStep, At
  <2> QED
    BY <2>4, <2>8, <2>9 DEF FlowInductive, At
<1>11. CASE MayReceive(guard, tag) /\ tag \notin {"initial_state", "next_step", "step_ok"}
  <2> DEFINE k == IF tag = "all_steps_done" THEN "ok" ELSE ErrorOf(tag)
  <2>1. Leave(k) /\ app' = app
    BY <1>11 DEF AwaitStep
  <2>2. k \in Results /\ (k = "ok" => tag = "all_steps_done")
    BY KindFacts DEF Results, Kinds
  <2>3. k = "ok" => Earned'
    <3> SUFFICES ASSUME tag = "all_steps_done" PROVE Earned'
      BY <2>2
    <3>1. guard = "stepping"
      BY <1>3, <1>11, FlowGuardFacts DEF Errors
    <3>2. Quiet'
      BY <1>3, <1>5 DEF Errors
    <3> QED
      BY <1>3, <1>5, <1>7, <3>1, <3>2 DEF Earned, Accepted
  <2> HIDE DEF k
  <2> QED
    BY <1>1, <1>2, <1>3, <1>4, <1>5, <1>6, <2>1, <2>2, <2>3, LeaveStep
<1> QED
  BY <1>8, <1>9, <1>10, <1>11

\* The loop's connection is in use, so something is on the wire.
LEMMA WireUsed == ASSUME Accepted \/ Registered PROVE wire # <<>>
BY DEF Accepted, Registered

\* The loop's read fails.
LEMMA ReceiveFailsStep == ASSUME FlowInductive, ReceiveFails PROVE FlowInductive'
<1>1. PICK k \in {"io", "json"} : Leave(k)
  BY DEF ReceiveFails
<1>2. k \in Results /\ k # "ok"
  BY DEF Results, Kinds
<1>3. /\ UNCHANGED <<guard, app, binding, first, wire>> /\ FlowTypeOK
      /\ AtValidation \/ AtStep
  BY DEF FlowInductive, ReceiveFails
<1>4. Adapter /\ wire # <<>>
  BY <1>3, AtStepFacts, WireUsed DEF AtValidation, Answered
<1>5. /\ app \in AppType /\ guard \in Phases /\ wire \in Seq(Message) /\ Len(wire) <= MaxMessages
      /\ first \in {"none", "spec_valid"}
  BY <1>3, FlowTypeFacts
<1> QED
  BY <1>1, <1>2, <1>3, <1>4, <1>5, LeaveStep

\* A loop step that leaves the traffic alone keeps what it says.
LEMMA SteppingKept ==
  ASSUME NEW owing, Stepping(owing), UNCHANGED <<guard, binding, first, open, wire>>,
         call'.flow = call.flow, call'.prefer = call.prefer, call'.fallback = call.fallback
  PROVE  Stepping(owing)'
<1>1. Accepted' /\ Adapter'
  BY AdapterKept DEF Stepping, Accepted
<1>2. Asked' = Asked /\ Reports' = Reports /\ (Quiet' <=> Quiet)
  BY DEF Asked, Reports, Said, Quiet
<1> QED
  BY <1>1, <1>2 DEF Stepping

\* The computer returned a state ...
LEMMA ComputeStep == ASSUME FlowInductive, NEW state \in States, Compute(state) PROVE FlowInductive'
<1>1. /\ Stepping(1) /\ call \in FlowCallType /\ app \in AppType /\ Goto("report")
      /\ app' = [app EXCEPT !.prev = state] /\ UNCHANGED <<guard, binding, first, open, wire>>
  BY FlowTypeFacts DEF FlowInductive, Compute, AtCompute
<1>2. /\ call' \in FlowCallType /\ call'.pc = "report" /\ call'.flow = call.flow
      /\ call'.prefer = call.prefer /\ call'.fallback = call.fallback
  BY <1>1, GotoFacts DEF Points
<1>3. app' \in AppType
  BY <1>1 DEF AppType
<1>4. FlowTypeOK'
  BY <1>1, <1>2, <1>3 DEF FlowInductive, FlowTypeOK, FlowCallType, AppType
<1>5. Stepping(1)'
  BY <1>1, <1>2, SteppingKept
<1> QED
  BY <1>2, <1>4, <1>5 DEF FlowInductive, At

\* ... or it threw.
LEMMA ThrowsStep == ASSUME FlowInductive, ComputeThrows PROVE FlowInductive'
<1> DEFINE k == IF Negotiated THEN "model_interface" ELSE "threw"
<1>1. Leave(k) /\ UNCHANGED <<guard, app, binding, first, wire>> /\ k \in Results /\ k # "ok"
  BY DEF ComputeThrows, Results, Kinds
<1>2. Adapter /\ Accepted
  BY DEF FlowInductive, ComputeThrows, AtCompute, Stepping
<1>3. /\ app \in AppType /\ guard \in Phases /\ wire \in Seq(Message) /\ Len(wire) <= MaxMessages
      /\ first \in {"none", "spec_valid"}
  BY FlowTypeFacts DEF FlowInductive
<1> HIDE DEF k
<1> QED
  BY <1>1, <1>2, <1>3, LeaveStep, WireUsed

\* The state is reported, or the connection fails.
LEMMA ReportStep ==
  ASSUME FlowInductive, NEW ok \in BOOLEAN, Report(ok)
  PROVE  FlowInductive'
<1>1. Stepping(1) /\ FlowTypeOK /\ UNCHANGED <<guard, app, binding, first>>
  BY DEF FlowInductive, Report
<1>2. /\ call \in FlowCallType /\ app \in AppType /\ binding \in BindingType /\ guard \in Phases
      /\ wire \in Seq(Message) /\ Len(wire) \in Nat /\ Len(wire) <= MaxMessages
      /\ first \in {"none", "spec_valid"}
  BY <1>1, FlowTypeFacts
<1>3. CASE ok
  <2> DEFINE m == FromClient("report_state", app.prev)
  <2>1. Len(wire) < MaxMessages /\ Goto("step") /\ open' = open /\ wire' = Append(wire, m)
    BY <1>3 DEF Report, Room
  <2>2. app.prev \in States \cup {NoState}
    BY <1>2 DEF AppType
  <2>3. m \in Message /\ m.from = "client" /\ m.tag = "report_state" /\ m.val = app.prev
    BY <2>2 DEF FromClient, Message, ClientMessages, InterfaceReplies
  <2> HIDE DEF m
  <2>4. /\ wire' \in Seq(Message) /\ Len(wire') = Len(wire) + 1
        /\ \A i \in 1 .. Len(wire) : wire'[i] = wire[i]
        /\ wire'[Len(wire) + 1] = m
    BY <1>2, <2>1, <2>3, WireFacts
  <2>5. /\ call' \in FlowCallType /\ call'.pc = "step" /\ call'.flow = call.flow
        /\ call'.prefer = call.prefer /\ call'.fallback = call.fallback
    BY <1>2, <2>1, GotoFacts DEF Points
  <2>6. FlowTypeOK'
    BY <1>1, <1>2, <2>1, <2>4, <2>5, FlowAssumption DEF FlowTypeOK, FlowCallType, AppType, BindingType
  <2>7. /\ Asked' = Asked /\ Cardinality(Reports)' = Cardinality(Reports) + 1
        /\ Reports' = Reports \cup {Len(wire) + 1} /\ \A j \in Reports : j <= Len(wire)
        /\ Quiet' <=> Quiet
    <3>1. Asked' = Asked
      BY <1>2, <2>1, <2>3, SaidFacts DEF Asked
    <3>2. /\ Cardinality(Reports)' = Cardinality(Reports) + 1
          /\ Reports' = Reports \cup {Len(wire) + 1} /\ \A j \in Reports : j <= Len(wire)
      BY <1>2, <2>1, <2>3, SaidFacts DEF Reports
    <3>3. Quiet' <=> Quiet
      <4>1. m.from # "mirror"
        BY <2>3
      <4>2. \A tags : Said("mirror", tags)' = Said("mirror", tags)
        BY <1>2, <2>1, <2>3, <4>1, SaidFacts
      <4> QED
        BY <4>2 DEF Quiet
    <3> QED
      BY <3>1, <3>2, <3>3
  <2>8. /\ Accepted' /\ wire'[2] = wire[2] /\ wire'[3] = wire[3]
    BY <1>1, <1>2, <2>4 DEF Stepping, Accepted
  <2>9. Adapter'
    BY <1>1, <2>5, <2>8, AdapterKept DEF Stepping
  <2>10. Cardinality(Asked)' = Cardinality(Reports)' + 0
    BY <1>1, <2>7, CountFacts DEF Stepping
  <2>11. Stepping(0)'
    BY <1>1, <1>2, <2>1, <2>4, <2>7, <2>8, <2>9, <2>10 DEF Stepping
  <2>12. Reported(app.prev)'
    <3>1. Len(wire) + 1 \in Reports' /\ wire'[Len(wire) + 1].val = app'.prev
      <4>1. Len(wire) + 1 \in Reports'
        BY <2>7
      <4>2. app' = app
        BY <1>1
      <4> QED
        BY <2>3, <2>4, <4>1, <4>2
    <3>2. \A j \in Reports' : j <= Len(wire) + 1
      <4>1. \A j \in Reports : j \in Nat
        BY <1>2, SaidFinite DEF Reports
      <4> QED
        BY <1>2, <2>7, <4>1
    <3> QED
      BY <3>1, <3>2 DEF Reported
  <2>13. AtStep'
    BY <2>11, <2>12 DEF AtStep
  <2> QED
    BY <2>5, <2>6, <2>13 DEF FlowInductive, At
<1>4. CASE ~ok
  <2>1. Leave("io") /\ wire' = wire /\ "io" \in Results
    BY <1>4 DEF Report, Results, Kinds
  <2>2. Adapter /\ wire # <<>>
    BY <1>1, WireUsed DEF Stepping
  <2> QED
    BY <1>1, <1>2, <2>1, <2>2, LeaveStep
<1> QED
  BY <1>3, <1>4

---------------------------------------------------------------------------
(* Flows with one reply *)

\* The only reply.
LEMMA ReplyStep ==
  ASSUME FlowInductive, NEW tag \in MirrorMessages, Reply(tag)
  PROVE  FlowInductive'
<1>1. AtReply /\ FlowTypeOK /\ Receives(tag) /\ app' = app /\ binding' = binding
  BY DEF FlowInductive, Reply
<1>2. /\ call \in FlowCallType /\ app \in AppType /\ binding \in BindingType /\ guard \in Phases
      /\ wire \in Seq(Message) /\ Len(wire) \in Nat /\ Len(wire) <= MaxMessages
  BY <1>1, FlowTypeFacts
<1>3. guard' \in Phases
  <2>1. guard' = IF MayReceive(guard, tag) THEN AfterReceive(guard, tag) ELSE guard
    BY DEF Reply
  <2> QED
    BY <1>2, <2>1, FlowGuardFacts
<1>4. first' = "none" /\ wire' \in Seq(Message) /\ Len(wire') <= MaxMessages
  <2> DEFINE m == FromMirror(tag, "absent")
  <2>0. first = "none"
    BY <1>1 DEF AtReply
  <2>1. Len(wire) < MaxMessages /\ wire' = Append(wire, m) /\ first' = "none"
    BY <1>1, <2>0 DEF Receives, Room
  <2>2. m \in Message
    BY DEF FromMirror, Message, InterfaceReplies
  <2> HIDE DEF m
  <2> QED
    BY <1>2, <2>1, <2>2, WireFacts, FlowAssumption
<1>5. PICK k \in Results : Return(k)
  BY DEF Reply, Results, Kinds
<1> QED
  BY <1>1, <1>2, <1>3, <1>4, <1>5, ReturnStep DEF Return, AtReply, NoBinding

\* The read of the only reply fails.
LEMMA ReplyFailsStep == ASSUME FlowInductive, ReplyFails PROVE FlowInductive'
<1>1. PICK k \in {"io", "json"} : Return(k)
  BY DEF ReplyFails
<1>2. k \in Results /\ k # "ok"
  BY DEF Results, Kinds
<1>3. AtReply /\ UNCHANGED <<guard, app, binding, first, wire>>
  BY DEF FlowInductive, ReplyFails
<1>4. /\ app \in AppType /\ binding \in BindingType /\ guard \in Phases
      /\ wire \in Seq(Message) /\ Len(wire) <= MaxMessages /\ first \in {"none", "spec_valid"}
  BY FlowTypeFacts DEF FlowInductive
<1> QED
  BY <1>1, <1>2, <1>3, <1>4, ReturnStep DEF Return, AtReply, NoBinding

---------------------------------------------------------------------------
(* The codec throws *)

\* What a flow may lose to an exception inside the loop.
LEMMA LoopEscape ==
  ASSUME FlowInductive, Escape, Adapter, open, wire # <<>>
  PROVE  FlowInductive'
<1>1. CASE Negotiated
  BY <1>1, EscapeStep DEF Adapter, Granted
<1>2. CASE ~Negotiated
  BY <1>2, EscapeStep DEF Adapter, NoBinding
<1> QED
  BY <1>1, <1>2

\* A message that cannot be encoded.
LEMMA EncodeThrowsStep == ASSUME FlowInductive, EncodeThrows PROVE FlowInductive'
<1>1. CASE At("register")
  BY <1>1, EscapeStep DEF EncodeThrows, FlowInductive, AtRegister, NoBinding
<1>2. CASE At("report")
  <2>1. Adapter /\ open /\ Accepted
    BY <1>2 DEF FlowInductive, Stepping
  <2> QED
    BY <2>1, LoopEscape, WireUsed DEF EncodeThrows
<1> QED
  BY <1>1, <1>2 DEF EncodeThrows

\* A line whose decoding throws.
LEMMA DecodeThrowsStep == ASSUME FlowInductive, DecodeThrows PROVE FlowInductive'
<1>1. CASE At("negotiate") \/ At("reply")
  <2>1. binding = NoBinding /\ open
    BY <1>1 DEF FlowInductive, AtNegotiate, AtReply, Registered
  <2> QED
    BY <2>1, EscapeStep DEF DecodeThrows, NoBinding
<1>2. CASE At("validation") \/ At("step")
  <2>1. AtValidation \/ AtStep
    BY <1>2 DEF FlowInductive
  <2>2. Adapter /\ open /\ wire # <<>>
    BY <2>1, AtStepFacts, WireUsed DEF FlowInductive, AtValidation, Answered, Registered
  <2> QED
    BY <2>2, LoopEscape DEF DecodeThrows
<1> QED
  BY <1>1, <1>2 DEF DecodeThrows

---------------------------------------------------------------------------
(* The theorems *)

\* A step that changes nothing.
LEMMA FlowStutterStep == ASSUME FlowInductive, UNCHANGED flowVars PROVE FlowInductive'
<1>1. UNCHANGED <<call, guard, app, binding, first, open, wire>>
  BY DEF flowVars
<1>2. FlowTypeOK'
  BY <1>1 DEF FlowInductive, FlowTypeOK
<1>3. \A who, tags : Said(who, tags)' = Said(who, tags)
  BY <1>1 DEF Said
<1>4. /\ Registered' <=> Registered
      /\ Accepted' <=> Accepted
      /\ Answered' <=> Answered
      /\ Granted' <=> Granted
      /\ Adapter' <=> Adapter
  BY <1>1 DEF Registered, Accepted, Answered, Granted, Adapter, Negotiated
<1>5. /\ Asked' = Asked /\ Reports' = Reports /\ (Quiet' <=> Quiet) /\ (Earned' <=> Earned)
      /\ Reported(app.prev)' <=> Reported(app.prev)
      /\ Stepping(0)' <=> Stepping(0)
      /\ Stepping(1)' <=> Stepping(1)
  BY <1>1, <1>3, <1>4 DEF Asked, Reports, Quiet, Earned, Reported, Stepping
<1> QED
  BY <1>1, <1>2, <1>4, <1>5
     DEF FlowInductive, At, AtIdle, AtRegister, AtNegotiate, AtFactory, AtValidation, AtStep, AtCompute,
         AtReply, AtDispose, Negotiated

\* Every step keeps the invariant.
LEMMA FlowNextStep == ASSUME FlowInductive, [FlowNext]_flowVars PROVE FlowInductive'
<1>1. ASSUME NEW flow \in Flows \ {"negotiated"}, Call(flow, FALSE, FALSE) PROVE FlowInductive'
  BY <1>1, CallStep
<1>2. ASSUME NEW prefer \in BOOLEAN, NEW fallback \in BOOLEAN, Call("negotiated", prefer, fallback)
      PROVE  FlowInductive'
  BY <1>2, CallStep DEF Flows
<1>3. ASSUME NEW tag \in Registrations, NEW ok \in BOOLEAN, Register(tag, ok) PROVE FlowInductive'
  BY <1>3, RegisterStep
<1>4. ASSUME NEW ok \in BOOLEAN, Factory(ok) \/ Admit(ok) \/ Dispose(ok) \/ Report(ok) PROVE FlowInductive'
  BY <1>4, FactoryStep, AdmitStep, DisposeStep, ReportStep
<1>5. ASSUME NEW tag \in MirrorMessages,
             AwaitValidation(tag) \/ AwaitStep(tag) \/ Reply(tag)
             \/ \E r \in InterfaceReplies : Negotiate(tag, r)
      PROVE  FlowInductive'
  BY <1>5, ValidationStep, AwaitStepStep, ReplyStep, NegotiateStep
<1>6. ASSUME NEW state \in States, Compute(state) PROVE FlowInductive'
  BY <1>6, ComputeStep
<1>7. CASE \/ CallRefused \/ NegotiateFails \/ ReceiveFails \/ ComputeThrows \/ ReplyFails
           \/ EncodeThrows \/ DecodeThrows
  BY <1>7, FlowRefusedStep, NegotiateFailsStep, ReceiveFailsStep, ThrowsStep, ReplyFailsStep,
     EncodeThrowsStep, DecodeThrowsStep
<1>8. CASE Terminated \/ UNCHANGED flowVars
  BY <1>8, FlowStutterStep DEF Terminated
<1> QED
  BY <1>1, <1>2, <1>3, <1>4, <1>5, <1>6, <1>7, <1>8 DEF FlowNext

\* The flow's invariant.
LEMMA FlowAlwaysInv == FlowSpec => []FlowInductive
<1>1. FlowInit => FlowInductive
  BY FlowInitInv
<1>2. FlowInductive /\ [FlowNext]_flowVars => FlowInductive'
  BY FlowNextStep
<1> QED
  BY <1>1, <1>2, PTL DEF FlowSpec

\* A flow that used the connection leaves it closed unless an exception of the codec
\* passed it, and then it is open and no binding is left; it computes only with an
\* adapter the mirror authorised, and disposes its binding exactly once on every path
\* (run_stepping_loop, run_compiled_negotiated, dispose_binding).
THEOREM FlowLeavesNothing == FlowSpec => []FlowInv
<1>1. FlowInductive => FlowInv
  <2> SUFFICES ASSUME FlowInductive PROVE FlowInv
    OBVIOUS
  <2>1. FlowTypeOK /\ ClosedOnReturn
    BY DEF FlowInductive, AtIdle, ClosedOnReturn
  <2>2. call.pc \in {"step", "compute", "report"} => Adapter /\ Accepted
    BY AtStepFacts DEF FlowInductive, At, AtCompute, Stepping
  <2>3. AdapterAuthorized
    BY <2>2 DEF AdapterAuthorized, Adapter, Granted, Accepted
  <2>4. call.pc \in {"validation", "step", "compute", "report"} => Adapter
    BY <2>2 DEF FlowInductive, At, AtValidation
  <2>5. DisposedOnce
    BY <2>4 DEF DisposedOnce, FlowInductive, At, AtIdle, Adapter, Granted, NoBinding
  <2> QED
    BY <2>1, <2>3, <2>5 DEF FlowInv
<1> QED
  BY <1>1, FlowAlwaysInv, PTL

\* The computer continues from the state the mirror saw last (run_stepping_loop).
THEOREM ComputesFromReported == FlowSpec => []ContinuesFromReported
<1>1. FlowInductive => ContinuesFromReported
  BY DEF FlowInductive, AtCompute, ContinuesFromReported, Previous, Reported
<1> QED
  BY <1>1, FlowAlwaysInv, PTL

\* Success means that the mirror accepted the specification, asked, got an answer to
\* everything it asked and then said that all was done (run_stepping_loop).
THEOREM SuccessMeansAll == FlowSpec => []SuccessIsEarned
<1>1. FlowInductive => SuccessIsEarned
  BY DEF FlowInductive, AtIdle, SuccessIsEarned, Earned, Quiet
<1> QED
  BY <1>1, FlowAlwaysInv, PTL

---------------------------------------------------------------------------
(* The flow implements Conversation *)

\* How far the conversation is, seen from where the flow is.
StageKnown ==
  /\ ~open => Stage = "over" /\ Owed = 0
  /\ open => Stage # "over"
  /\ open /\ (wire = <<>> \/ Abandoned) => Stage = "silent" /\ Owed = 0
  /\ ~At("idle") =>
       /\ Registered => Stage = "asked" /\ Owed = 0
       /\ Answered => Stage = "agreed" /\ Owed = 0
       /\ Stepping(0) => Stage = "stepping" /\ Owed = 0
       /\ Stepping(1) => Stage = "stepping" /\ Owed = 1

\* The traffic alone tells how far the conversation is.
LEMMA StageFacts == FlowTypeOK => StageKnown
<1> SUFFICES ASSUME FlowTypeOK PROVE StageKnown
  OBVIOUS
<1>1. open /\ (wire = <<>> \/ Abandoned) => Stage = "silent" /\ Owed = 0
  BY DEF Stage, Owed
<1>2. (~open => Stage = "over" /\ Owed = 0) /\ (open => Stage # "over")
  BY DEF Stage, Owed
<1>3. ASSUME Asked = {}, Reports = {} PROVE Owed = 0
  <2>1. Cardinality(Asked) = 0 /\ Cardinality(Reports) = 0
    BY <1>3, FS_EmptySet
  <2> QED
    BY <2>1 DEF Owed
<1>4. ~At("idle") /\ Registered => Stage = "asked" /\ Owed = 0
  <2> SUFFICES ASSUME ~At("idle"), Registered PROVE Stage = "asked" /\ Owed = 0
    OBVIOUS
  <2>1. open
    BY DEF Registered
  <2>2. Asked = {} /\ Reports = {} /\ Said("mirror", {"spec_valid"}) = {} /\ wire # <<>>
    BY RegisteredFacts
  <2> QED
    BY <1>3, <2>1, <2>2 DEF Stage, Abandoned
<1>5. ~At("idle") /\ Answered => Stage = "agreed" /\ Owed = 0
  <2> SUFFICES ASSUME ~At("idle"), Answered PROVE Stage = "agreed" /\ Owed = 0
    OBVIOUS
  <2>1. open
    BY DEF Answered
  <2>2. Asked = {} /\ Reports = {} /\ Said("mirror", {"spec_valid"}) # {} /\ wire # <<>>
    BY AnsweredFacts
  <2> QED
    BY <1>3, <2>1, <2>2 DEF Stage, Abandoned
<1>6. ASSUME NEW owing \in {0, 1}, ~At("idle"), Stepping(owing)
      PROVE  Stage = "stepping" /\ Owed = owing
  <2>1. /\ open /\ Accepted /\ Asked # {} /\ Cardinality(Asked) = Cardinality(Reports) + owing
    BY <1>6 DEF Stepping
  <2>2. wire # <<>>
    BY <2>1, WireUsed
  <2> QED
    BY <1>6, <2>1, <2>2, CountFacts DEF Stage, Owed, Abandoned
<1> QED
  BY <1>1, <1>2, <1>4, <1>5, <1>6 DEF StageKnown

\* The same after a step.
LEMMA StageFactsPrimed == FlowTypeOK' => StageKnown'
BY StageFacts, PTL

\* A step of the conversation, or one it does not see.
Kept == (C!Next /\ Stage # "over") \/ UNCHANGED <<Stage, Owed>>

\* A step that leaves the traffic and the connection alone is not seen, unless it
\* abandons a conversation.
LEMMA UnseenStep ==
  ASSUME wire' = wire, open' = open, wire = <<>> \/ (Abandoned' <=> Abandoned)
  PROVE  Kept
<1>1. Asked' = Asked /\ Reports' = Reports /\ Said("mirror", {"spec_valid"})' = Said("mirror", {"spec_valid"})
  BY DEF Asked, Reports, Said
<1> QED
  BY <1>1 DEF Kept, Stage, Owed

\* A step inside a flow that leaves the traffic and the connection alone.
LEMMA InsideStep ==
  ASSUME wire' = wire, open' = open, ~At("idle"), ~At("idle")'
  PROVE  Kept
BY UnseenStep DEF Abandoned

\* Closing the connection ends the conversation, if it was not over.
LEMMA CloseStep ==
  ASSUME FlowTypeOK, FlowTypeOK', open' = FALSE
  PROVE  Kept
<1>1. Stage' = "over" /\ Owed' = 0
  BY StageFactsPrimed DEF StageKnown
<1>2. CASE ~open
  <2>1. Stage = "over" /\ Owed = 0
    BY <1>2, StageFacts DEF StageKnown
  <2> QED
    BY <1>1, <2>1 DEF Kept
<1>3. CASE open
  <2>1. Stage # "over"
    BY <1>3, StageFacts DEF StageKnown
  <2> QED
    BY <1>1, <2>1 DEF Kept, C!Next, C!End
<1> QED
  BY <1>2, <1>3

\* A flow is called: nothing was said on its behalf yet.
LEMMA CalledKept ==
  ASSUME FlowInductive, FlowInductive', NEW flow, NEW prefer, NEW fallback,
         Call(flow, prefer, fallback)
  PROVE  Kept
<1>1. /\ FlowTypeOK /\ FlowTypeOK' /\ wire' = <<>> /\ open' = open
      /\ At("idle") /\ AtIdle
  BY DEF FlowInductive, Call
<1>2. CASE ~open
  BY <1>1, <1>2, StageFacts, StageFactsPrimed DEF Kept, StageKnown
<1>3. CASE open
  <2>1. wire = <<>> \/ Abandoned
    BY <1>1, <1>3 DEF AtIdle, Abandoned
  <2> QED
    BY <1>1, <1>3, <2>1, StageFacts, StageFactsPrimed DEF Kept, StageKnown
<1> QED
  BY <1>2, <1>3

\* An exception abandons the conversation, or is caught and not seen.
LEMMA EscapeKept ==
  ASSUME FlowInductive, FlowInductive', Escape, ~At("idle")
  PROVE  Kept
<1>1. FlowTypeOK /\ FlowTypeOK' /\ call \in FlowCallType /\ wire' = wire /\ open' = open
  BY FlowTypeFacts DEF FlowInductive, Escape
<1>2. CASE binding.state = "live"
  <2>1. ~At("idle")'
    BY <1>1, <1>2 DEF Escape, At, FlowCallType
  <2> QED
    BY <1>1, <2>1, InsideStep
<1>3. CASE binding.state # "live"
  <2>1. Abandoned'
    BY <1>1, <1>3 DEF Escape, At, Abandoned, FlowCallType
  <2>2. CASE ~open
    BY <1>1, <2>2, StageFacts, StageFactsPrimed DEF Kept, StageKnown
  <2>3. CASE open
    <3>1. Stage # "over"
      BY <1>1, <2>3, StageFacts DEF StageKnown
    <3>2. Stage' = "silent" /\ Owed' = 0
      BY <1>1, <2>1, <2>3, StageFactsPrimed DEF StageKnown
    <3> QED
      BY <3>1, <3>2 DEF Kept, C!Next, C!Abandon
  <2> QED
    BY <2>2, <2>3
<1> QED
  BY <1>2, <1>3

\* The steps of a flow before the loop.
LEMMA OpeningKept ==
  ASSUME FlowInductive, FlowInductive',
         \/ \E tag \in Registrations, ok \in BOOLEAN : Register(tag, ok)
         \/ \E tag \in MirrorMessages, r \in InterfaceReplies : Negotiate(tag, r)
         \/ NegotiateFails \/ \E ok \in BOOLEAN : Factory(ok) \/ Dispose(ok)
  PROVE  Kept
<1>0. FlowTypeOK /\ FlowTypeOK'
  BY DEF FlowInductive
<1>1. ASSUME NEW tag \in Registrations, NEW ok \in BOOLEAN, Register(tag, ok) PROVE Kept
  <2>1. CASE ok
    <3>1. wire = <<>> /\ open /\ call \in FlowCallType
      BY <1>1, <2>1, FlowTypeFacts DEF Register, FlowInductive, AtRegister
    <3>2. call'.pc \in {"negotiate", "reply", "validation"} /\ call'.flow = call.flow
          /\ (call'.pc = "validation" => ~Negotiated)
      BY <1>1, <2>1, <3>1 DEF Register, Goto, FlowCallType
    <3>3. Registered'
      BY <3>2 DEF FlowInductive, At, AtNegotiate, AtReply, AtValidation, Negotiated
    <3>4. Stage = "silent" /\ Owed = 0
      BY <1>0, <3>1, StageFacts DEF StageKnown
    <3>5. Stage' = "asked" /\ Owed' = 0
      BY <1>0, <3>2, <3>3, StageFactsPrimed DEF StageKnown, At
    <3> QED
      BY <3>4, <3>5 DEF Kept, C!Next, C!Register
  <2>2. CASE ~ok
    BY <1>0, <1>1, <2>2, CloseStep DEF Register, Return
  <2> QED
    BY <2>1, <2>2
<1>2. ASSUME NEW tag \in MirrorMessages, NEW r \in InterfaceReplies, Negotiate(tag, r) PROVE Kept
  <2>1. Registered /\ ~At("idle")
    BY <1>2 DEF Negotiate, FlowInductive, AtNegotiate, At
  <2>3. (open' = FALSE) \/ Goto("factory")
    BY <1>2 DEF Negotiate, Return
  <2>4. CASE open' = FALSE
    BY <1>0, <2>4, CloseStep
  <2>5. CASE Goto("factory")
    <3>1. call'.pc = "factory"
      BY <1>0, <2>5, GotoFacts, FlowTypeFacts DEF Points
    <3>2. Answered'
      BY <3>1 DEF FlowInductive, At, AtFactory
    <3>3. Stage = "asked" /\ Owed = 0
      BY <1>0, <2>1, StageFacts DEF StageKnown
    <3>4. Stage' = "agreed" /\ Owed' = 0
      BY <1>0, <3>1, <3>2, StageFactsPrimed DEF StageKnown, At
    <3> QED
      BY <3>3, <3>4 DEF Kept, C!Next, C!Agree
  <2> QED
    BY <2>3, <2>4, <2>5
<1>3. CASE NegotiateFails
  BY <1>0, <1>3, CloseStep DEF NegotiateFails, Return
<1>4. ASSUME NEW ok \in BOOLEAN, Factory(ok) PROVE Kept
  <2>1. CASE ok
    <3>1. Goto("admit") /\ open' = open /\ wire' = wire /\ ~At("idle")
      BY <1>4, <2>1 DEF Factory, At
    <3>2. call'.pc = "admit"
      BY <1>0, <3>1, GotoFacts, FlowTypeFacts DEF Points
    <3> QED
      BY <3>1, <3>2, InsideStep DEF At
  <2>2. CASE ~ok
    BY <1>0, <1>4, <2>2, CloseStep DEF Factory, Return
  <2> QED
    BY <2>1, <2>2
<1>5. ASSUME NEW ok \in BOOLEAN, Dispose(ok) PROVE Kept
  BY <1>0, <1>5, CloseStep DEF Dispose, Return
<1> QED
  BY <1>1, <1>2, <1>3, <1>4, <1>5

\* The steps of the loop.
LEMMA LoopKept ==
  ASSUME FlowInductive, FlowInductive', NEW tag \in MirrorMessages,
         AwaitValidation(tag) \/ AwaitStep(tag) \/ Reply(tag)
  PROVE  Kept
<1>0. FlowTypeOK /\ FlowTypeOK'
  BY DEF FlowInductive
<1>1. CASE AwaitValidation(tag)
  <2>1. AtValidation /\ ~At("idle")
    BY <1>1 DEF AwaitValidation, FlowInductive, At
  <2>3. \/ open' = FALSE
        \/ /\ Goto("step") /\ open' = open /\ tag = "spec_valid" /\ MayReceive(guard, tag)
           /\ guard' = AfterReceive(guard, tag)
    BY <1>1 DEF AwaitValidation, Leave
  <2>4. CASE open' = FALSE
    BY <1>0, <2>4, CloseStep
  <2>5. CASE /\ Goto("step") /\ open' = open /\ tag = "spec_valid" /\ MayReceive(guard, tag)
             /\ guard' = AfterReceive(guard, tag)
    <3>1. call'.pc = "step"
      BY <1>0, <2>5, GotoFacts, FlowTypeFacts DEF Points
    <3>2. guard = "validating"
      BY <2>1 DEF AtValidation
    <3>3. guard' = "ready"
      BY <2>5, <3>2, FlowGuardFacts
    <3>4. Answered'
      BY <3>1, <3>3 DEF FlowInductive, At, AtStep, Stepping
    <3>5. CASE Negotiated
      <4>1. first = "spec_valid"
        BY <2>1, <3>5 DEF AtValidation
      <4>2. wire' = wire
        BY <1>1, <4>1 DEF AwaitValidation, Receives
      <4> QED
        BY <2>1, <2>5, <3>1, <4>2, InsideStep DEF At
    <3>6. CASE ~Negotiated
      <4>1. Registered
        BY <2>1, <3>6 DEF AtValidation
      <4>2. Stage = "asked" /\ Owed = 0
        BY <1>0, <2>1, <4>1, StageFacts DEF StageKnown
      <4>3. Stage' = "agreed" /\ Owed' = 0
        BY <1>0, <3>1, <3>4, StageFactsPrimed DEF StageKnown, At
      <4> QED
        BY <4>2, <4>3 DEF Kept, C!Next, C!Agree
    <3> QED
      BY <3>5, <3>6
  <2> QED
    BY <2>3, <2>4, <2>5
<1>2. CASE AwaitStep(tag)
  <2>1. AtStep /\ ~At("idle")
    BY <1>2 DEF AwaitStep, FlowInductive, At
  <2>2. guard \in {"ready", "stepping"}
    BY <1>0, <2>1, AtStepFacts
  <2>4. Stage \in {"agreed", "stepping"} /\ Owed = 0
    BY <1>0, <2>1, StageFacts DEF AtStep, StageKnown
  <2>5. \/ open' = FALSE
        \/ Goto("compute")
        \/ call' = call /\ MayReceive(guard, tag) /\ tag = "step_ok" /\ guard' = AfterReceive(guard, tag)
    BY <1>2 DEF AwaitStep, Leave
  <2>6. CASE open' = FALSE
    BY <1>0, <2>6, CloseStep
  <2>7. CASE Goto("compute")
    <3>1. call'.pc = "compute"
      BY <1>0, <2>7, GotoFacts, FlowTypeFacts DEF Points
    <3>2. Stepping(1)'
      BY <3>1 DEF FlowInductive, At, AtCompute
    <3>3. Stage' = "stepping" /\ Owed' = 1
      BY <1>0, <3>1, <3>2, StageFactsPrimed DEF StageKnown, At
    <3> QED
      BY <2>4, <3>3 DEF Kept, C!Next, C!Ask
  <2>8. CASE /\ call' = call /\ MayReceive(guard, tag) /\ tag = "step_ok"
             /\ guard' = AfterReceive(guard, tag)
    <3>1. guard = "stepping" /\ guard' = "stepping"
      BY <2>2, <2>8, FlowGuardFacts DEF Errors
    <3>2. Stepping(0)
      BY <2>1, <3>1 DEF AtStep
    <3>3. call'.pc = "step"
      BY <1>2, <2>8 DEF AwaitStep, At
    <3>4. Stepping(0)'
      BY <3>1, <3>3 DEF FlowInductive, At, AtStep
    <3> QED
      BY <1>0, <2>1, <3>2, <3>3, <3>4, StageFacts, StageFactsPrimed DEF Kept, StageKnown, At
  <2> QED
    BY <2>5, <2>6, <2>7, <2>8
<1>3. CASE Reply(tag)
  BY <1>0, <1>3, CloseStep DEF Reply, Return
<1> QED
  BY <1>1, <1>2, <1>3

\* A report answers the step that was asked for.
LEMMA ReportKept ==
  ASSUME FlowInductive, FlowInductive', NEW ok \in BOOLEAN, Report(ok)
  PROVE  Kept
<1>0. FlowTypeOK /\ FlowTypeOK' /\ Stepping(1) /\ ~At("idle")
  BY DEF FlowInductive, Report, At
<1>1. CASE ok
  <2>1. Goto("step") /\ guard' = guard
    BY <1>1 DEF Report
  <2>2. call'.pc = "step"
    BY <1>0, <2>1, GotoFacts, FlowTypeFacts DEF Points
  <2>3. Stepping(0)'
    BY <1>0, <2>1, <2>2 DEF FlowInductive, At, AtStep, Stepping
  <2>4. Stage = "stepping" /\ Owed = 1 /\ Stage' = "stepping" /\ Owed' = 0
    BY <1>0, <2>2, <2>3, StageFacts, StageFactsPrimed DEF StageKnown, At
  <2> QED
    BY <2>4 DEF Kept, C!Next, C!Answer
<1>2. CASE ~ok
  BY <1>0, <1>2, CloseStep DEF Report, Leave
<1> QED
  BY <1>1, <1>2

\* Every step of a flow is a step of the conversation or is not seen in it.
LEMMA NextKept == ASSUME FlowInductive, FlowInductive', [FlowNext]_flowVars PROVE Kept
<1>0. FlowTypeOK /\ FlowTypeOK'
  BY DEF FlowInductive
<1>1. ASSUME NEW flow, NEW prefer, NEW fallback, Call(flow, prefer, fallback) PROVE Kept
  BY <1>1, CalledKept
<1>2. ASSUME NEW ok, Admit(ok) PROVE Kept
  <2>1. ~At("idle") /\ wire' = wire /\ open' = open
    BY <1>2 DEF Admit, At
  <2>2. call'.pc \in {"validation", "dispose"}
    BY <1>0, <1>2, FlowTypeFacts DEF Admit, Goto, FlowCallType
  <2> QED
    BY <2>1, <2>2, InsideStep DEF At
<1>3. ASSUME NEW state, Compute(state) PROVE Kept
  <2>1. ~At("idle") /\ wire' = wire /\ open' = open /\ Goto("report")
    BY <1>3 DEF Compute, At
  <2>2. call'.pc = "report"
    BY <1>0, <2>1, GotoFacts, FlowTypeFacts DEF Points
  <2> QED
    BY <2>1, <2>2, InsideStep DEF At
<1>4. CASE CallRefused
  <2>1. wire = <<>> /\ wire' = wire /\ open' = open
    BY <1>4 DEF CallRefused, FlowInductive, AtRegister
  <2> QED
    BY <2>1, UnseenStep
<1>5. CASE Terminated \/ UNCHANGED flowVars
  <2>1. wire' = wire /\ open' = open /\ (Abandoned' <=> Abandoned)
    BY <1>5 DEF Terminated, flowVars, Abandoned, At
  <2> QED
    BY <2>1, UnseenStep
<1>6. CASE ReceiveFails \/ ComputeThrows \/ ReplyFails
  BY <1>0, <1>6, CloseStep DEF ReceiveFails, ComputeThrows, ReplyFails, Leave, Return
<1>7. CASE EncodeThrows \/ DecodeThrows
  <2>1. Escape /\ ~At("idle")
    BY <1>7 DEF EncodeThrows, DecodeThrows, At
  <2> QED
    BY <2>1, EscapeKept
<1> QED
  BY <1>1, <1>2, <1>3, <1>4, <1>5, <1>6, <1>7, OpeningKept, LoopKept, ReportKept DEF FlowNext

\* The flows implement Conversation: in each flow the mirror sees one registration, one
\* verdict and steps that the client answers one by one; nothing follows the end, and
\* only an exception of the codec leaves a conversation without one (run_client and
\* its kin).
THEOREM FlowRefinesConversation == FlowSpec => ConversationKept
<1>1. FlowInit => C!Init
  BY DEF FlowInit, C!Init, Stage, Owed
<1>2. FlowInductive /\ FlowInductive' /\ [FlowNext]_flowVars => [C!Next /\ Stage # "over"]_<<Stage, Owed>>
  BY NextKept DEF Kept
<1> QED
  BY <1>1, <1>2, FlowAlwaysInv, PTL DEF FlowSpec, ConversationKept, C!Spec
=============================================================================

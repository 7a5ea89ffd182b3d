---------------------------- MODULE JobControl ----------------------------
(***************************************************************************)
(* Asynchronous jobs (src/client.cpp, job_exchange and its callers): the   *)
(* owner of a connection submits jobs and asks about them.  Each call      *)
(* sends one request and reads one reply; nothing but the order on the     *)
(* connection tells whose reply it is.                                     *)
(*                                                                         *)
(* Requests and replies carry the number of the call they belong to, which *)
(* the code never sees.  The mirror answers in order, but it may answer    *)
(* wrongly, late or never, and a read may fail while a reply is underway.  *)
(***************************************************************************)
EXTENDS Naturals, Sequences, FiniteSets, PhaseGuard

CONSTANTS
  Ids,       \* job ids the mirror hands out, also ones the owner knows from elsewhere
  MaxCalls   \* bound on calls

ASSUME JobAssumption == MaxCalls \in Nat /\ Ids # {}

JobKinds == {"validate", "gen_traces"}
Phase == {"pending", "running", "done", "failed", "cancelled", "unknown"}
Outcomes == {"verdict", "infra_error"}   \* JobOutcome: an answer, or a string
NoId == "none"

\* One request: its message and, for job control, the job it is about.
Request == [tag : AsyncRegistrations \cup JobControls, job : Ids \cup {NoId}]
Requests == {r \in Request : (r.job = NoId) <=> (r.tag \in AsyncRegistrations)}
KindOf(tag) == IF tag = "register_validate_async" THEN "validate" ELSE "gen_traces"

\* One reply: its message, the job it names and what it says of it.
Replies == [tag : MirrorMessages, job : Ids, says : {"none"}]
           \cup [tag : {"job_accepted"}, job : Ids, says : JobKinds]
           \cup [tag : {"job_status"}, job : Ids, says : Phase]
           \cup [tag : {"job_result"}, job : Ids, says : Outcomes]
WellFormed == {r \in Replies : r.tag \in JobReplies => r.says # "none"}

VARIABLES
  exchange,  \* the call being made: its request, whether it is query_job's; and
             \* Transport::async_capable
  calls,     \* calls made so far
  connected, \* the transport is open
  sent,      \* requests that went over the connection
  read,      \* how many of them the mirror has read
  arriving,  \* replies on their way
  last       \* what the last call returned

jobVars == <<exchange, calls, connected, sent, read, arriving, last>>

\* What a call returns, with the request it answers and what the mirror said.
Result == [kind : {"none", "value", "registration", "error"}, no : Nat, re : Nat,
           request : Requests, projected : BOOLEAN, job : Ids \cup {NoId},
           says : Phase \cup Outcomes \cup JobKinds \cup {"none"},
           heard : Phase \cup Outcomes \cup JobKinds \cup {"none"}]

JobTypeOK ==
  /\ exchange \in [pc : {"idle", "reading"}, request : Requests, projected : BOOLEAN,
               capable : BOOLEAN]
  /\ calls \in 0 .. MaxCalls /\ connected \in BOOLEAN /\ sent \in 0 .. calls /\ read \in 0 .. sent
  /\ arriving \in Seq([reply : WellFormed, re : 1 .. read])
  /\ last \in Result /\ (last.kind = "value" /\ last.projected => last.says \in Phase)

NoResult(r) == [kind |-> "none", no |-> 0, re |-> 0, request |-> r, projected |-> FALSE,
                job |-> NoId, says |-> "none", heard |-> "none"]

JobInit ==
  /\ \E r \in Requests, capable \in BOOLEAN :
       /\ r.tag = "register_validate_async"
       /\ exchange = [pc |-> "idle", request |-> r, projected |-> FALSE, capable |-> capable]
       /\ last = NoResult(r)
  /\ calls = 0 /\ connected = TRUE /\ sent = 0 /\ read = 0 /\ arriving = <<>>

Give(result) == last' = result /\ exchange' = [exchange EXCEPT !.pc = "idle"]

\* job_exchange and its callers close on everything but an answer,
\* register_error and an exception from the codec.
Failure(r) == [NoResult(r) EXCEPT !.kind = "error", !.no = sent]
StayOpen(r) == Give(Failure(r)) /\ connected' = connected   \* mutant: the connection is kept
Abort(r) == Give(Failure(r)) /\ connected' = FALSE

---------------------------------------------------------------------------
(* job_exchange *)

\* A fresh PhaseGuard is idle and lets every job message pass.
SendRequest(r, projected, ok) ==
  /\ exchange.pc = "idle" /\ exchange.capable /\ calls < MaxCalls /\ MaySend("idle", r.tag)
  /\ projected => r.tag = "query_job"
  /\ calls' = calls + 1
  /\ IF ok THEN /\ connected /\ sent' = sent + 1
                /\ exchange' = [exchange EXCEPT !.pc = "reading", !.request = r,
                                                !.projected = projected]
                /\ UNCHANGED <<connected, last>>
     ELSE Abort(r) /\ UNCHANGED sent
  /\ UNCHANGED <<arriving, read>>

\* encode_client_message throws on text that is not UTF-8: the exception leaves
\* job_exchange with nothing sent.  The model keeps it as an error.
RequestThrows(r) ==
  /\ exchange.pc = "idle" /\ exchange.capable /\ calls < MaxCalls
  /\ calls' = calls + 1 /\ Give(Failure(r))
  /\ UNCHANGED <<connected, sent, read, arriving>>

\* A transport without a server behind it: refused up front and left open.
NotAsyncCapable(r) ==
  /\ exchange.pc = "idle" /\ ~exchange.capable /\ calls < MaxCalls
  /\ calls' = calls + 1 /\ Give(Failure(r))
  /\ UNCHANGED <<connected, sent, read, arriving>>

ReadReplyFails ==
  /\ exchange.pc = "reading" /\ Abort(exchange.request)
  /\ UNCHANGED <<calls, sent, arriving, read>>

\* decode_mirror_message throws (DecodeNeverThrows is violated): the reply is
\* consumed and the exception leaves job_exchange with the connection open.
ReadReplyThrows ==
  /\ exchange.pc = "reading" /\ arriving # <<>> /\ arriving' = Tail(arriving)
  /\ Give(Failure(exchange.request))
  /\ UNCHANGED <<calls, connected, sent, read>>

\* The reply answers the request: it passes the guard, has the right kind, and
\* names the right job.
AnyJob(r, reply) ==   \* mutant: the job id is not compared
  IF r.tag \in AsyncRegistrations THEN reply.tag = "job_accepted" /\ reply.says = KindOf(r.tag)
  ELSE reply.tag \in {"job_status", "job_result"}
AnswersRequest(r, reply) ==
  /\ MayReceive("idle", reply.tag)
  /\ IF r.tag \in AsyncRegistrations THEN reply.tag = "job_accepted" /\ reply.says = KindOf(r.tag)
     ELSE reply.tag \in {"job_status", "job_result"} /\ reply.job = r.job

\* query_job turns a retained result into the phase it means.
Projected(reply) ==
  IF reply.tag # "job_result" THEN reply.says
  ELSE IF reply.says = "infra_error" THEN "failed" ELSE "done"

Got(m, kind) ==
  [kind |-> kind, no |-> sent, re |-> m.re, request |-> exchange.request,
   projected |-> exchange.projected,
   job |-> IF kind = "value" THEN m.reply.job ELSE NoId, heard |-> m.reply.says,
   says |-> IF exchange.projected THEN Projected(m.reply) ELSE m.reply.says]
ReadReply ==
  LET m == Head(arriving)
      refused == m.reply.tag = "register_error"
  IN /\ exchange.pc = "reading" /\ arriving # <<>>
     /\ arriving' = Tail(arriving)
     /\ \/ refused /\ Give(Got(m, "registration")) /\ UNCHANGED connected
        \/ /\ ~refused /\ AnswersRequest(exchange.request, m.reply)
           /\ Give(Got(m, "value")) /\ UNCHANGED connected
        \/ ~refused /\ ~AnswersRequest(exchange.request, m.reply) /\ Abort(exchange.request)
     /\ UNCHANGED <<calls, sent, read>>

---------------------------------------------------------------------------
(* The mirror (external) *)

MirrorReplies(reply) ==
  /\ connected /\ read < sent /\ read' = read + 1
  /\ arriving' = Append(arriving, [reply |-> reply, re |-> read + 1])
  /\ UNCHANGED <<exchange, calls, connected, sent, last>>

NoMoreCalls == exchange.pc = "idle" /\ calls = MaxCalls /\ UNCHANGED jobVars

JobNext ==
  \/ \E r \in Requests, ok, projected \in BOOLEAN : SendRequest(r, projected, ok)
  \/ \E r \in Requests : NotAsyncCapable(r) \/ RequestThrows(r)
  \/ ReadReplyFails \/ ReadReplyThrows \/ ReadReply \/ NoMoreCalls
  \/ \E reply \in WellFormed : MirrorReplies(reply)

JobSpec == JobInit /\ [][JobNext]_jobVars

---------------------------------------------------------------------------

\* What a call returns, a refusal for a full queue included, is the mirror's
\* reply to that very request and never a late reply to an earlier one.
RepliesToThisCall == last.kind \in {"value", "registration"} => last.re = last.no

\* A value is about the job that was asked for, although the mirror may confuse
\* jobs, and no failed job is reported as done.
AboutThisJob ==
  last.kind = "value" /\ last.request.tag \in JobControls =>
    /\ last.job = last.request.job
    /\ last.says = "done" => last.heard \in {"done", "verdict"}

\* A connection is open between calls, also after one that an exception ended, only
\* if nothing is underway on it, so that the next exchange starts in step with the
\* mirror.
InStep == connected /\ exchange.pc = "idle" => arriving = <<>> /\ read = sent

\* What a call returns is the mirror's reply to it, about the job it named, and
\* job_exchange leaves the connection in step or closed.
ConnectionInv == JobTypeOK /\ InStep /\ RepliesToThisCall /\ AboutThisJob
=============================================================================

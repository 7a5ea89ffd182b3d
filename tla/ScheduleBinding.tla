-------------------------- MODULE ScheduleBinding --------------------------
(***************************************************************************)
(* BindingSession and replay_with_traces (src/schedule_binding.cpp): the   *)
(* executions of a schedule driven by the mirror's steps, and the verdict  *)
(* that combines the mirror's answer with what the executions did.         *)
(*                                                                         *)
(* An execution is what CheckpointSchedule describes, here reduced to the  *)
(* facts of its report.  The client loop is StepFlow's, reduced to the     *)
(* messages that reach the port; the generated port lets errors pass.      *)
(***************************************************************************)
EXTENDS Naturals, Sequences, PhaseGuard

CONSTANTS
  ReplaySteps,    \* length of the schedule
  MaxExecutions,  \* max_executions (64)
  MaxReplays,     \* bound on replays with one session
  MaxMessages     \* bound on messages of the mirror in one replay

ASSUME BindingAssumption ==
  /\ ReplaySteps \in Nat \ {0} /\ MaxExecutions \in Nat /\ MaxReplays \in Nat /\ MaxMessages \in Nat

Cleanups == {"not_started", "confirmed", "incomplete", "teardown_failed"}
Execution == [built : BOOLEAN, failed : BOOLEAN, steps : 0 .. ReplaySteps, closed : BOOLEAN,
              cleanup : Cleanups]
NoExecution == 0

VARIABLES
  session,  \* the fields of BindingSession; live is execution_
  execs,    \* every execution that was started; the session holds one
  records,  \* executions_: the execution, and what its receipt said
  flow,     \* the running replay: the client's loop and the observed transport
  replay    \* the last ReplayResult

bindingVars == <<session, execs, records, flow, replay>>

BindingTypeOK ==
  /\ session \in [live : 0 .. Len(execs), initializations : 0 .. MaxExecutions,
                  disposals : 0 .. 1, disposed : BOOLEAN, retained : BOOLEAN,
                  complete : BOOLEAN, disposal : BOOLEAN]
  /\ execs \in Seq(Execution)
  /\ records \in Seq([execution : 1 .. Len(execs), passed : BOOLEAN, kept : BOOLEAN])
  /\ flow \in [pc : {"idle", "register", "step", "dispose", "judge"}, guard : Phases,
               result : {"none", "ok", "failed", "step_mismatch", "dispose_failed"},
               terminal : {"", "all_steps_done", "step_mismatch"},
               replays : 0 .. MaxReplays, messages : 0 .. MaxMessages]
  /\ replay \in [made : BOOLEAN, passed : BOOLEAN, fresh : BOOLEAN,
                 comparison : {"incomplete", "step_mismatch", "matched"}]

BindingInit ==
  /\ session = [live |-> NoExecution, initializations |-> 0, disposals |-> 0, disposed |-> FALSE,
                retained |-> FALSE, complete |-> TRUE, disposal |-> TRUE]
  /\ execs = <<>> /\ records = <<>>
  /\ flow = [pc |-> "idle", guard |-> "idle", result |-> "none", terminal |-> "", replays |-> 0,
             messages |-> 0]
  /\ replay = [made |-> FALSE, passed |-> FALSE, fresh |-> FALSE, comparison |-> "incomplete"]

---------------------------------------------------------------------------
(* The execution, as its owner sees it *)

Completed(e) == e.steps = ReplaySteps
Passed(e) == ~e.failed /\ Completed(e) /\ e.cleanup = "confirmed"

\* What cleanup() may leave: a teardown is attempted once.
CleanedUp(e) ==
  IF ~e.built THEN {[e EXCEPT !.closed = TRUE]}
  ELSE {[e EXCEPT !.closed = TRUE, !.cleanup = c] :
          c \in IF e.cleanup \in {"confirmed", "teardown_failed"} THEN {e.cleanup}
                ELSE Cleanups \ {"not_started"}}
Finished(e) ==
  IF e.closed \/ ~e.built THEN {e} ELSE CleanedUp([e EXCEPT !.failed = @ \/ ~Completed(e)])

\* start_schedule: running, refused before it is built, or failed and cleaned up.
Built == [built |-> TRUE, failed |-> FALSE, steps |-> 0, closed |-> FALSE, cleanup |-> "not_started"]
Started == {Built, [Built EXCEPT !.built = FALSE, !.failed = TRUE]}
           \cup CleanedUp([Built EXCEPT !.failed = TRUE])

\* advance(): an interval runs, or fails and is cleaned up.
Advanced(e) ==
  {[e EXCEPT !.steps = @ + 1]} \cup CleanedUp([e EXCEPT !.failed = TRUE])

---------------------------------------------------------------------------
(* BindingSession *)

Current == execs[session.live]

\* retain(): the receipt as it is now, once; fits: within the byte bound.
Retained(s, fits) == IF s.retained THEN s ELSE [s EXCEPT !.retained = TRUE, !.complete = @ /\ fits]
RecordPlan(s, e, fits) ==   \* mutant: a completed schedule counts as passed
  IF s.retained THEN records
  ELSE Append(records, [execution |-> s.live, passed |-> fits /\ Completed(e), kept |-> fits])
Recorded(s, e, fits) ==
  IF s.retained THEN records
  ELSE Append(records, [execution |-> s.live, passed |-> fits /\ Passed(e), kept |-> fits])

\* initialize(), first half: the session with its previous execution closed.
LimitReached(s) == s.initializations >= MaxExecutions
Replaceable(e, s) == Passed(e) /\ s.complete
ClosePrevious ==
  IF session.live = NoExecution THEN {[s |-> session, x |-> execs, r |-> records, ok |-> TRUE]}
  ELSE {[s |-> Retained(session, fits), x |-> [execs EXCEPT ![session.live] = e],
         r |-> Recorded(session, e, fits), ok |-> Replaceable(e, Retained(session, fits))] :
          e \in Finished(Current), fits \in BOOLEAN}

\* initialize(): refused, raised by the previous execution, or a new execution
\* starts well or not, or start_schedule throws.
Initialize(raised) ==
  \/ /\ session.disposed \/ LimitReached(session)
     /\ raised /\ UNCHANGED <<session, execs, records>>
  \/ /\ ~session.disposed /\ ~LimitReached(session)
     /\ \E p \in ClosePrevious :
          LET next == [p.s EXCEPT !.initializations = @ + 1, !.retained = FALSE]
          IN /\ records' = p.r
             /\ \/ ~p.ok /\ raised /\ session' = p.s /\ execs' = p.x
                \/ /\ p.ok
                   /\ \E e \in Started : /\ raised = e.failed /\ execs' = Append(p.x, e)
                                         /\ session' = [next EXCEPT !.live = Len(p.x) + 1]
                \/ /\ p.ok /\ raised /\ execs' = p.x
                   /\ session' = [next EXCEPT !.live = NoExecution]

\* advance() with the next step of the schedule or another one: the session or
\* the execution refuses, or the interval runs.
CannotAdvance ==
  IF session.disposed \/ session.live = NoExecution THEN TRUE
  ELSE Current.failed \/ Current.closed \/ Completed(Current)
Advance(raised) ==
  \/ CannotAdvance /\ raised /\ UNCHANGED <<session, execs, records>>
  \/ /\ ~CannotAdvance
     /\ \E e \in Advanced(Current) : execs' = [execs EXCEPT ![session.live] = e] /\ raised = e.failed
     /\ UNCHANGED <<session, records>>

\* dispose(): a second call changes nothing.
Dispose ==
  \/ session.disposed /\ UNCHANGED <<session, execs, records>>
  \/ /\ ~session.disposed /\ session.live = NoExecution
     /\ session' = [session EXCEPT !.disposed = TRUE, !.disposals = @ + 1]
     /\ UNCHANGED <<execs, records>>
  \/ /\ ~session.disposed /\ session.live # NoExecution
     /\ \E e \in IF Completed(Current) THEN Finished(Current) ELSE CleanedUp(Current),
           fits \in BOOLEAN :
          LET s == Retained(session, fits)
          IN /\ execs' = [execs EXCEPT ![session.live] = e]
             /\ records' = Recorded(session, e, fits)
             /\ session' = [s EXCEPT !.disposed = TRUE, !.disposals = @ + 1,
                                     !.disposal = e.cleanup = "confirmed" /\ s.complete]

Retires == session.disposed /\ session.initializations # 0 /\ session.complete /\ session.disposal
AnyRecord == Retires /\ records # <<>>   \* mutant: the records' verdicts are not read
FullyCompleted == Retires /\ records # <<>> /\ \A i \in DOMAIN records : records[i].passed

---------------------------------------------------------------------------
(* The owner uses the session outside of a replay *)

OwnerCalls ==
  /\ flow.pc = "idle"
  /\ (\E raised \in BOOLEAN : Initialize(raised) \/ Advance(raised)) \/ Dispose
  /\ UNCHANGED <<flow, replay>>

---------------------------------------------------------------------------
(* replay_with_traces *)

Fresh == session.initializations = 0 /\ session.disposals = 0 /\ ~session.disposed

Replay ==
  /\ flow.pc = "idle" /\ flow.replays < MaxReplays
  /\ IF Fresh
     THEN /\ flow' = [flow EXCEPT !.pc = "register", !.replays = @ + 1, !.terminal = "",
                                  !.guard = AfterSend("idle", "register_traces"),
                                  !.result = "none", !.messages = 0]
          /\ UNCHANGED replay
     ELSE /\ flow' = [flow EXCEPT !.replays = @ + 1, !.result = "failed"]
          /\ replay' = [made |-> TRUE, passed |-> FALSE, fresh |-> FALSE, comparison |-> "incomplete"]
  /\ UNCHANGED <<session, execs, records>>

\* ObservedTransport: a terminal message is noted when it is read, in or out of turn.
NotedTerminal(tag) == IF tag \in {"all_steps_done", "step_mismatch"} THEN tag ELSE flow.terminal

\* The registration's reply: a binding is made and admitted, made and refused, or
\* there is none.
Registered(tag, bound, admitted) ==
  LET agreed == tag = "spec_valid" /\ bound
  IN /\ flow.pc = "register"
     /\ flow' = [flow EXCEPT !.terminal = NotedTerminal(tag),
                             !.guard = IF agreed THEN AfterReceive(@, tag) ELSE @,
                             !.result = IF agreed /\ admitted THEN @ ELSE "failed",
                             !.pc = IF ~agreed THEN "judge" ELSE IF admitted THEN "step" ELSE "dispose"]
     /\ UNCHANGED <<session, execs, records, replay>>

Ended(tag) == IF ~MayReceive(flow.guard, tag) THEN "failed"
              ELSE IF tag = "all_steps_done" THEN "ok"
              ELSE IF tag = "step_mismatch" THEN "step_mismatch" ELSE "failed"

\* A message that asks for a step: the port calls the session, and the report of
\* its state is sent or not.
StepAsked(tag, raised, sent) ==
  /\ flow.pc = "step" /\ flow.messages < MaxMessages
  /\ tag \in {"initial_state", "next_step"} /\ MayReceive(flow.guard, tag)
  /\ IF tag = "initial_state" THEN Initialize(raised) ELSE Advance(raised)
  /\ flow' = [flow EXCEPT !.guard = AfterReceive(@, tag), !.messages = @ + 1,
                          !.result = IF raised \/ ~sent THEN "failed" ELSE @,
                          !.pc = IF raised \/ ~sent THEN "dispose" ELSE @]
  /\ UNCHANGED replay

\* Any other message: step_ok goes on, everything else ends the loop.
OtherMessage(tag) ==
  LET goes == tag = "step_ok" /\ MayReceive(flow.guard, tag)
  IN /\ flow.pc = "step"
     /\ ~(tag \in {"initial_state", "next_step"} /\ MayReceive(flow.guard, tag))
     /\ goes => flow.messages < MaxMessages
     /\ flow' = [flow EXCEPT !.terminal = NotedTerminal(tag),
                             !.messages = IF goes THEN @ + 1 ELSE @,
                             !.result = IF goes THEN @ ELSE Ended(tag),
                             !.pc = IF goes THEN @ ELSE "dispose"]
     /\ UNCHANGED <<session, execs, records, replay>>

\* The connection fails, or in the loop the codec throws, which the loop's caller
\* catches as it does an error of the adapter.
Disconnected ==
  /\ flow.pc \in {"register", "step"}
  /\ flow' = [flow EXCEPT !.result = "failed", !.pc = IF @ = "register" THEN "judge" ELSE "dispose"]
  /\ UNCHANGED <<session, execs, records, replay>>

\* The codec throws on the registration's reply, where nothing catches it: the
\* exception leaves replay_with_traces before a binding or a result is made.
RegistrationThrows ==
  /\ flow.pc = "register" /\ flow' = [flow EXCEPT !.pc = "idle"]
  /\ UNCHANGED <<session, execs, records, replay>>

\* The client disposes the binding, and with it the session.
BindingDisposed ==
  /\ flow.pc = "dispose" /\ Dispose
  /\ flow' = [flow EXCEPT !.pc = "judge",
                          !.result = IF @ = "ok" /\ ~session'.disposal THEN "dispose_failed" ELSE @]
  /\ UNCHANGED replay

Comparison ==
  IF flow.terminal = "step_mismatch" /\ flow.result = "step_mismatch" THEN "step_mismatch"
  ELSE IF flow.terminal = "all_steps_done" /\ flow.result \in {"ok", "dispose_failed"} THEN "matched"
  ELSE "incomplete"
JudgeReplay ==
  /\ flow.pc = "judge" /\ flow' = [flow EXCEPT !.pc = "idle"]
  /\ replay' = [made |-> TRUE, fresh |-> TRUE, comparison |-> Comparison,
                passed |-> flow.result = "ok" /\ Comparison = "matched" /\ FullyCompleted]
  /\ UNCHANGED <<session, execs, records>>

BindingNext ==
  \/ OwnerCalls \/ Replay \/ Disconnected \/ RegistrationThrows \/ BindingDisposed \/ JudgeReplay
  \/ \E tag \in MirrorMessages :
       \/ OtherMessage(tag)
       \/ \E b, c \in BOOLEAN : Registered(tag, b, c) \/ StepAsked(tag, b, c)

BindingSpec == BindingInit /\ [][BindingNext]_bindingVars

---------------------------------------------------------------------------
(* Properties *)

\* A replay passes only if the mirror compared everything and said so, and every
\* execution that was started ran its whole schedule, was cleaned up, and has its
\* receipt; there was at least one, and the session is disposed.
PassedIsEarned ==
  replay.passed =>
    /\ replay.fresh /\ flow.terminal = "all_steps_done" /\ replay.comparison = "matched"
    /\ session.disposed /\ session.initializations = Len(execs) /\ execs # <<>>
    /\ \A i \in DOMAIN execs : Passed(execs[i])
    /\ [i \in DOMAIN records |-> records[i].execution] = [i \in DOMAIN execs |-> i]
    /\ \A i \in DOMAIN records : records[i].kept

\* Every execution gets its receipt once, in order, and disposal leaves none out.
ReceiptsOnce ==
  /\ \A i \in DOMAIN records : records[i].execution = i
  /\ session.disposed => Len(records) = Len(execs)

\* A receipt never says more than what is true of its execution by now, although
\* cleanup may have been tried again after it was taken.
ReceiptNeverBetter ==
  \A i \in DOMAIN records : records[i].passed => Passed(execs[records[i].execution])

\* No execution is lost: all but the current one passed, and after disposal every
\* one that was built is closed.
NoExecutionLost ==
  /\ \A i \in DOMAIN execs : i # session.live => Passed(execs[i])
  /\ session.disposed => \A i \in DOMAIN execs : execs[i].built => execs[i].closed

\* The session's books are right throughout.
BindingInv == BindingTypeOK /\ ReceiptsOnce /\ ReceiptNeverBetter /\ NoExecutionLost
=============================================================================

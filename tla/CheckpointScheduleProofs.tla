---------------------- MODULE CheckpointScheduleProofs ----------------------
(***************************************************************************)
(* Proofs about CheckpointSchedule, for every number of actors, every set  *)
(* of checkpoints and of candidate schedules.                              *)
(*                                                                         *)
(* TypeOK is not inductive: the actor that advance waits for is read from  *)
(* the schedule, and the index of the join loop from the state, so the     *)
(* type of a step depends on where the controller is.  IInv adds that      *)
(* knowledge (SchedInv).  CleanInv adds what the cleanup path maintains.   *)
(* EInv adds what the report has recorded: that every step it counts was   *)
(* reached, confirmed and observed (ReachInv, ConfirmedInv, ReplayInv).    *)
(***************************************************************************)
EXTENDS CheckpointSchedule, TLAPS

-----------------------------------------------------------------------------
(* Types: what the operators the actions are built from return *)

\* Every name a worker may stand at is a Name.
LEMMA NamesFacts ==
  /\ Completion \in Names /\ StartMark \in Names
  /\ \A c \in Checkpoints : c \in Names
  /\ \A c \in UndeclaredNames : c \in Names
  BY DEF Names, UndeclaredNames

\* Settling an outcome, and checking the limits, yields an outcome.
LEMMA OutcomeFacts ==
  ASSUME TypeOK
  PROVE  /\ \A o, n \in Outcomes : FirstFailure(o, n) \in Outcomes
         /\ \A o \in Outcomes : CheckLimits(o) \in Outcomes
         /\ {"invalid_schedule", "incompatible_identity", "cancelled", "uncontrolled_actor",
             "unexpected_checkpoint", "application_failed", "observation_failed",
             "resource_failed", "completed"} \subseteq Outcomes
  BY DEF FirstFailure, CheckLimits, Outcomes

\* Field types of a report, and the updates the actions make to it.
LEMMA ReportFacts ==
  ASSUME NEW r \in Report
  PROVE  /\ r.outcome \in Outcomes
         /\ r.events \in Seq(Event)
         /\ r.observations \in Seq(Nat)
         /\ r.attempts \in Seq(Cleanups)
         /\ \A o \in Outcomes : [r EXCEPT !.outcome = o] \in Report
         /\ \A e \in Seq(Event) : [r EXCEPT !.events = e] \in Report
         /\ \A o \in Outcomes, e \in Seq(Event) : [r EXCEPT !.outcome = o, !.events = e] \in Report
         /\ \A o \in Outcomes, n \in Seq(Nat), b \in BOOLEAN :
              [r EXCEPT !.outcome = o, !.observations = n, !.schedule_completed = b] \in Report
         /\ \A s \in SUBSET Actors : [r EXCEPT !.remaining = s] \in Report
         /\ \A c \in Cleanups, t \in Seq(Cleanups) :
              [r EXCEPT !.cleanup = c, !.attempts = t] \in Report
  BY DEF Report

\* The same for Execution::Impl ...
LEMMA ImplFacts ==
  ASSUME NEW p \in Impl
  PROVE  /\ p.next_step \in Nat
         /\ \A n \in Nat : [p EXCEPT !.next_step = n] \in Impl
         /\ \A b \in BOOLEAN :
              /\ [p EXCEPT !.constructed = b] \in Impl
              /\ [p EXCEPT !.initialized = b] \in Impl
              /\ [p EXCEPT !.closed = b] \in Impl
              /\ [p EXCEPT !.teardown_attempted = b] \in Impl
              /\ [p EXCEPT !.teardown_failed = b] \in Impl
         /\ \A i \in 0 .. NumActors : [p EXCEPT !.reaping = i] \in Impl
  BY DEF Impl

\* ... and for the table of actors ...
LEMMA ActorFacts ==
  ASSUME NEW f \in [Actors -> ActorState], NEW a \in Actors
  PROVE  /\ f[a] \in ActorState
         /\ \A s \in Stages : [f EXCEPT ![a].stage = s] \in [Actors -> ActorState]
         /\ \A x \in ActorState : [f EXCEPT ![a] = x] \in [Actors -> ActorState]
         /\ [f EXCEPT ![a].stage = "gate", ![a].phase = "parked"] \in [Actors -> ActorState]
  BY DEF ActorState, Stages, Phases

\* Shared::fail keeps the report well formed.
LEMMA FailType == ASSUME TypeOK, NEW n \in Outcomes, Fail(n) PROVE report' \in Report
  BY OutcomeFacts, ReportFacts DEF Fail, TypeOK

\* A worker moving to a stage keeps the table well formed.
LEMMA MoveType ==
  ASSUME TypeOK, NEW a \in Actors, NEW S \in SUBSET Stages, Move(a, S)
  PROVE  actor' \in [Actors -> ActorState]
  BY ActorFacts DEF Move, TypeOK

\* ... and for the clock and the stop token.
LEMMA EnvFacts ==
  ASSUME NEW e \in Env
  PROVE  /\ \A b \in BOOLEAN : [e EXCEPT !.expired = b] \in Env /\ [e EXCEPT !.drained = b] \in Env
         /\ \A s \in {"early", "idle", "stored", "notified"} : [e EXCEPT !.stop = s] \in Env
  BY DEF Env

\* Stopping the actors sets both flags.
LEMMA StopType == ASSUME StopActors PROVE shared' \in Flags
  BY DEF StopActors, Flags

-----------------------------------------------------------------------------
(* Types: one lemma per group of actions *)

\* The steps of start that run no worker.
LEMMA TypeStart == ASSUME TypeOK, Admit \/ Register \/ FactoryThrows \/ SpawnFails PROVE TypeOK'
  <1> USE DEF TypeOK
  <1>1. CASE Admit
    BY <1>1, FailType, OutcomeFacts DEF Admit, Points
  <1>2. CASE Register
    <2>1. CASE env.stop = "early"
      <3>1. Fail("cancelled") BY <1>2, <2>1 DEF Register
      <3>2. report' \in Report BY <3>1, FailType, OutcomeFacts
      <3>3. shared' \in Flags /\ env' \in Env
        BY <1>2, <2>1, EnvFacts DEF Register, Flags
      <3> QED BY <1>2, <2>1, <3>2, <3>3 DEF Register, Points
    <2>2. CASE env.stop # "early"
      BY <1>2, <2>2, EnvFacts DEF Register, Points
    <2> QED BY <2>1, <2>2
  <1>3. CASE FactoryThrows
    BY <1>3, FailType, OutcomeFacts DEF FactoryThrows, Points
  <1>4. CASE SpawnFails
    BY <1>4, FailType, OutcomeFacts DEF SpawnFails, Points, WaitPoints
  <1> QED BY <1>1, <1>2, <1>3, <1>4

\* The factory returned.
LEMMA TypeFactory == ASSUME TypeOK, NEW w \in BOOLEAN, FactoryReturns(w) PROVE TypeOK'
  BY OutcomeFacts, ReportFacts, ImplFacts DEF FactoryReturns, TypeOK, Points

\* A thread was created.
LEMMA TypeSpawn == ASSUME TypeOK, NEW a \in Actors, Spawn(a) PROVE TypeOK'
  BY ActorFacts DEF Spawn, TypeOK, Points, WaitPoints, Stages

\* The condition-variable waits, and the start barrier.
LEMMA TypeWait == ASSUME TypeOK, WaitPrepare \/ WaitSleep \/ WaitWake \/ BarrierExit PROVE TypeOK'
  <1>1. CASE WaitPrepare \/ WaitSleep \/ WaitWake
    BY <1>1 DEF WaitPrepare, WaitSleep, WaitWake, ctlVars, TypeOK
  <1>2. CASE BarrierExit
    BY <1>2, OutcomeFacts, ReportFacts DEF BarrierExit, TypeOK, Points
  <1> QED BY <1>1, <1>2

\* Appending an element of S to a sequence over S.
LEMMA AppendType ==
  ASSUME NEW S, NEW q \in Seq(S), NEW e \in S
  PROVE  Append(q, e) \in Seq(S)
  OBVIOUS

\* Recording an event keeps the event list well formed.
LEMMA RecordType ==
  ASSUME TypeOK, NEW k \in {"permit", "arrival"}, NEW a \in Actors, NEW n \in Names
  PROVE  Record(k, a, n) \in Seq(Event)
  <1>1. [kind |-> k, step |-> impl.next_step, actor |-> a, checkpoint |-> n] \in Event
    BY ImplFacts DEF Event, TypeOK
  <1>2. report.events \in Seq(Event)
    BY ReportFacts DEF TypeOK
  <1> QED BY <1>1, <1>2, AppendType DEF Record

\* advance settles on an outcome.
LEMMA AdvanceVerdictType ==
  ASSUME TypeOK, NEW step PROVE AdvanceVerdict(step) \in Outcomes
  <1>1. CheckLimits(report.outcome) \in Outcomes
    BY OutcomeFacts, ReportFacts DEF TypeOK
  <1> QED BY <1>1, OutcomeFacts DEF AdvanceVerdict

\* A permit granted or refused.
LEMMA TypeAdvance == ASSUME TypeOK, NEW step \in Requests, Advance(step) PROVE TypeOK'
  <1> DEFINE a == step.actor
  <1>0. a \in Actors /\ actor[a] \in ActorState
    BY DEF Requests, TypeOK
  <1>1. CASE AdvanceVerdict(step) = "completed"
    <2>1. Record("permit", a, actor[a].checkpoint) \in Seq(Event)
      BY <1>0, RecordType DEF ActorState
    <2>2. Granted(actor[a]) \in ActorState
      BY <1>0 DEF Granted, ActorState, Phases
    <2>3. /\ report' = [report EXCEPT !.events = Record("permit", a, actor[a].checkpoint)]
          /\ actor' = [actor EXCEPT ![a] = Granted(actor[a])]
      BY <1>1 DEF Advance
    <2>4. report' \in Report
      BY <2>1, <2>3, ReportFacts DEF TypeOK
    <2>5. actor' \in [Actors -> ActorState]
      BY <1>0, <2>2, <2>3 DEF TypeOK
    <2> QED BY <1>1, <2>4, <2>5 DEF Advance, TypeOK, Points, WaitPoints
  <1>2. CASE AdvanceVerdict(step) # "completed"
    <2>1. report' \in Report
      BY <1>2, AdvanceVerdictType, ReportFacts DEF Advance, TypeOK
    <2> QED BY <1>2, <2>1 DEF Advance, TypeOK, Points
  <1> QED BY <1>1, <1>2

\* The arrival wait is over; needs the actor that advance selected.
LEMMA TypeArrivalExit == ASSUME TypeOK, ArrivalExit, Expected.actor \in Actors PROVE TypeOK'
  <1> DEFINE a == Expected.actor
             l == CheckLimits(report.outcome)
             m == l = "completed" /\ actor[a].checkpoint = Expected.checkpoint
             o == IF l = "completed" /\ ~m THEN "unexpected_checkpoint" ELSE l
             e == IF actor[a].arrival = Unset THEN report.events
                  ELSE Record("arrival", a, actor[a].arrival)
  <1>1. o \in Outcomes
    BY OutcomeFacts, ReportFacts DEF TypeOK
  <1>2. actor[a].arrival \in Names \cup {Unset} /\ a \in Actors
    BY DEF TypeOK, ActorState
  <1>3. e \in Seq(Event)
    BY <1>2, RecordType, ReportFacts DEF TypeOK
  <1>4. report' = [report EXCEPT !.outcome = o, !.events = e]
    BY DEF ArrivalExit
  <1>5. report' \in Report
    <2> HIDE DEF o, e
    <2> QED BY <1>1, <1>3, <1>4, ReportFacts DEF TypeOK
  <1>6. impl' \in Impl
    BY ImplFacts DEF ArrivalExit, TypeOK
  <1>7. pc' \in Points
    BY DEF ArrivalExit, AfterMatch, Points
  <1> QED BY <1>5, <1>6, <1>7 DEF ArrivalExit, TypeOK

\* The selected worker is joined.
LEMMA TypeJoinSelected == ASSUME TypeOK, JoinSelected, Expected.actor \in Actors PROVE TypeOK'
  <1>1. actor' \in [Actors -> ActorState]
    BY ActorFacts DEF JoinSelected, TypeOK, Stages
  <1>2. impl' \in Impl
    BY ImplFacts DEF JoinSelected, TypeOK
  <1> QED BY <1>1, <1>2 DEF JoinSelected, TypeOK, Points

\* The observer was called.
LEMMA TypeObserve == ASSUME TypeOK, NEW ok \in BOOLEAN, Observe(ok) PROVE TypeOK'
  <1> DEFINE v == CheckLimits(ObserverVerdict(ok))
             o == IF ok THEN Append(report.observations, impl.next_step) ELSE report.observations
             d == report.schedule_completed \/
                  (v = "completed" /\ impl.initialized /\ impl.next_step = Len(schedule))
  <1>1. v \in Outcomes
    <2>1. report.outcome \in Outcomes BY ReportFacts DEF TypeOK
    <2>2. ObserverVerdict(ok) \in Outcomes
      BY <2>1, OutcomeFacts DEF ObserverVerdict
    <2> QED BY <2>2, OutcomeFacts
  <1>2. o \in Seq(Nat)
    BY ReportFacts, ImplFacts, AppendType DEF TypeOK
  <1>4. report' = [report EXCEPT !.outcome = v, !.observations = o, !.schedule_completed = d]
    BY DEF Observe
  <1>5. report' \in Report
    <2>1. d \in BOOLEAN OBVIOUS
    <2> HIDE DEF v, o, d
    <2> QED BY <1>1, <1>2, <1>4, <2>1, ReportFacts DEF TypeOK
  <1>6. impl' \in Impl
    BY ImplFacts DEF Observe, TypeOK
  <1> QED BY <1>5, <1>6 DEF Observe, TypeOK, Points

\* Returning from a call and making the next.
LEMMA TypeCalls ==
  ASSUME TypeOK,
         AdvanceReturn \/ RunReturns \/ RunThrows \/ Finish \/ CleanupCall \/ Destroy
  PROVE  TypeOK'
  <1> USE DEF TypeOK, Points
  <1>1. CASE AdvanceReturn \/ RunReturns \/ CleanupCall
    BY <1>1 DEF AdvanceReturn, RunReturns, CleanupCall
  <1>2. CASE RunThrows \/ Destroy
    <2>1. shared' \in Flags BY <1>2, StopType DEF RunThrows, Destroy
    <2>2. CASE RunThrows BY <2>1, <2>2 DEF RunThrows
    <2>3. CASE Destroy BY <2>1, <2>3 DEF Destroy
    <2> QED BY <1>2, <2>2, <2>3
  <1>3. CASE Finish
    <2>1. report' \in Report
      BY <1>3, FailType, OutcomeFacts DEF Finish
    <2> QED BY <1>3, <2>1 DEF Finish
  <1> QED BY <1>1, <1>2, <1>3

\* The join loop of cleanup.
LEMMA TypeReapFrom ==
  ASSUME TypeOK, NEW from \in Nat \ {0}, NEW state, ReapFrom(from, state)
  PROVE  report' \in Report /\ impl' \in Impl /\ pc' \in Points
  <1>1. CASE ToReap(from, state) # {}
    BY <1>1, ImplFacts, ScheduleAssumption DEF ReapFrom, TypeOK, Points, ToReap
  <1>2. CASE ToReap(from, state) = {}
    <2> DEFINE left == {a \in Actors : state[a].stage \notin {"none", "joined"}}
    <2>1. /\ report' = [report EXCEPT !.remaining = left]
          /\ impl' = [impl EXCEPT !.teardown_attempted = impl.teardown_attempted \/ left = {}]
          /\ pc' \in {"teardown", "verdict"}
      BY <1>2 DEF ReapFrom
    <2>2. left \in SUBSET Actors OBVIOUS
    <2>3. (impl.teardown_attempted \/ left = {}) \in BOOLEAN OBVIOUS
    <2> HIDE DEF left
    <2> QED BY <2>1, <2>2, <2>3, ReportFacts, ImplFacts DEF TypeOK, Points
  <1> QED BY <1>1, <1>2

\* Cleanup and the destructor; needs the index of the join loop.
LEMMA TypeCleanup ==
  ASSUME TypeOK, CleanupEnter \/ DrainExit \/ ReapJoin \/ CleanupReturn \/ DestroyJoin,
         pc = "reap" => impl.reaping \in Actors
  PROVE  TypeOK'
  <1> USE DEF TypeOK
  <1>1. CASE CleanupEnter
    <2>1. impl' \in Impl BY <1>1, ImplFacts DEF CleanupEnter
    <2>2. shared' \in Flags /\ env' \in Env
      BY <1>1, EnvFacts, StopType DEF CleanupEnter
    <2>3. pc' \in Points BY <1>1 DEF CleanupEnter, Points, WaitPoints
    <2> QED BY <1>1, <2>1, <2>2, <2>3 DEF CleanupEnter
  <1>2. CASE DrainExit
    BY <1>2, TypeReapFrom DEF DrainExit
  <1>3. CASE ReapJoin
    <2>1. impl.reaping \in Actors /\ impl.reaping + 1 \in Nat \ {0}
      BY <1>3, ScheduleAssumption DEF ReapJoin, Actors
    <2>2. actor' \in [Actors -> ActorState]
      BY <1>3, <2>1, ActorFacts DEF ReapJoin, Stages
    <2>3. report' \in Report /\ impl' \in Impl /\ pc' \in Points
      BY <1>3, <2>1, TypeReapFrom DEF ReapJoin
    <2> QED BY <1>3, <2>2, <2>3 DEF ReapJoin
  <1>4. CASE CleanupReturn
    <2>1. CleanupVerdict \in Cleanups
      BY DEF CleanupVerdict, Cleanups
    <2>2. Append(report.attempts, CleanupVerdict) \in Seq(Cleanups)
      BY <2>1, ReportFacts, AppendType
    <2>3. report' \in Report
      BY <1>4, <2>1, <2>2, ReportFacts DEF CleanupReturn
    <2> QED BY <1>4, <2>3 DEF CleanupReturn, Points
  <1>5. CASE DestroyJoin
    <2>1. actor' \in [Actors -> ActorState]
      BY <1>5 DEF DestroyJoin, ActorState, Stages
    <2>2. history' \in History
      BY <1>5 DEF DestroyJoin, History
    <2> QED BY <1>5, <2>1, <2>2 DEF DestroyJoin, Points
  <1> QED BY <1>1, <1>2, <1>3, <1>4, <1>5

\* Program::teardown.
LEMMA TypeTeardown == ASSUME TypeOK, NEW ok \in BOOLEAN, Teardown(ok) PROVE TypeOK'
  <1>1. history' \in History
    BY DEF Teardown, TypeOK, History
  <1>2. impl' \in Impl
    BY ImplFacts DEF Teardown, TypeOK
  <1> QED BY <1>1, <1>2 DEF Teardown, TypeOK, Points

\* Where a worker may be after the stop exception.
LEMMA StopStages == ASSUME NEW a PROVE AfterStop(a) \in SUBSET Stages
  BY DEF AfterStop, Stages

\* A notification leaves the controller in a wait state.
LEMMA NotifyType == ASSUME TypeOK, Notify PROVE sleep' \in {"awake", "prepared", "asleep"}
  BY DEF TypeOK, Notify

\* A worker standing at a checkpoint.
LEMMA AtType ==
  ASSUME TypeOK, NEW a \in Actors, NEW n \in Names, NEW s \in ActorState, At(a, n, s)
  PROVE  actor' \in [Actors -> ActorState] /\ history' \in History
  <1>1. actor' \in [Actors -> ActorState]
    BY ActorFacts DEF At, TypeOK
  <1>2. <<impl.next_step, a, n>> \in Nat \X Actors \X Names
    BY ImplFacts DEF TypeOK
  <1>3. history.reached \cup {<<impl.next_step, a, n>>} \in SUBSET (Nat \X Actors \X Names)
    BY <1>2 DEF TypeOK, History
  <1>4. history' = [history EXCEPT !.reached = history.reached \cup {<<impl.next_step, a, n>>}]
    BY DEF At
  <1>5. history' \in History
    BY <1>3, <1>4 DEF TypeOK, History
  <1> QED BY <1>1, <1>5

\* The thread body of a worker.
LEMMA TypeRuntime == ASSUME TypeOK, NEW a \in Actors, WorkerRuntime(a) PROVE TypeOK'
  <1>1. CASE WorkerPark(a)
    BY <1>1, ActorFacts, NotifyType DEF WorkerPark, ctlVars, TypeOK
  <1>2. CASE WorkerWake(a)
    <2>1. \E S \in SUBSET Stages : Move(a, S)
      BY <1>2, StopStages DEF WorkerWake, Stages
    <2>2. actor' \in [Actors -> ActorState]
      BY <2>1, MoveType
    <2> QED BY <1>2, <2>2 DEF WorkerWake, ctlVars, TypeOK
  <1>3. CASE WorkerReport(a)
    <2>1. actor' \in [Actors -> ActorState]
      BY <1>3, MoveType DEF WorkerReport, Stages
    <2>2. report' \in Report
      BY <1>3, FailType, OutcomeFacts DEF WorkerReport
    <2> QED BY <1>3, <2>1, <2>2, NotifyType DEF WorkerReport, ctlVars, TypeOK
  <1>4. CASE WorkerComplete(a)
    <2> DEFINE s == [stage |-> "exiting", phase |-> "finished", checkpoint |-> Completion,
                arrival |-> IF actor[a].arrival = Unset THEN Completion ELSE actor[a].arrival]
    <2>1. actor[a].arrival \in Names \cup {Unset}
      BY DEF TypeOK, ActorState
    <2>2. s \in ActorState
      BY <2>1, NamesFacts DEF ActorState, Stages, Phases
    <2>3. At(a, Completion, s)
      BY <1>4 DEF WorkerComplete
    <2> HIDE DEF s
    <2>4. actor' \in [Actors -> ActorState] /\ history' \in History
      BY <2>2, <2>3, AtType, NamesFacts
    <2> QED BY <1>4, <2>4, NotifyType DEF WorkerComplete, ctlVars, TypeOK
  <1>5. CASE WorkerExit(a)
    <2>1. actor' \in [Actors -> ActorState]
      BY <1>5, MoveType DEF WorkerExit, Stages
    <2> QED BY <1>5, <2>1 DEF WorkerExit, ctlVars, TypeOK
  <1> QED BY <1>1, <1>2, <1>3, <1>4, <1>5 DEF WorkerRuntime

\* Application code in a worker.
LEMMA TypeApplication == ASSUME TypeOK, NEW a \in Actors, Application(a) PROVE TypeOK'
  <1>1. ASSUME NEW c \in Checkpoints, Arrive(a, c) PROVE TypeOK'
    <2> DEFINE s == [stage |-> "hook", phase |-> "parked", checkpoint |-> c, arrival |-> c]
    <2>1. s \in ActorState
      BY NamesFacts DEF ActorState, Stages, Phases
    <2>2. At(a, c, s) BY <1>1 DEF Arrive
    <2> HIDE DEF s
    <2>3. actor' \in [Actors -> ActorState] /\ history' \in History
      BY <2>1, <2>2, AtType, NamesFacts
    <2> QED BY <1>1, <2>3, NotifyType DEF Arrive, ctlVars, TypeOK
  <1>2. ASSUME NEW c \in UndeclaredNames, ArriveUndeclared(a, c) PROVE TypeOK'
    <2>1. PICK s \in AfterStop(a) :
            At(a, c, [stage |-> s, phase |-> "running", checkpoint |-> c, arrival |-> c])
      BY <1>2 DEF ArriveUndeclared
    <2>2. [stage |-> s, phase |-> "running", checkpoint |-> c, arrival |-> c] \in ActorState
      BY NamesFacts, StopStages DEF ActorState, Phases
    <2>3. actor' \in [Actors -> ActorState] /\ history' \in History
      BY <2>1, <2>2, AtType, NamesFacts
    <2>4. report' \in Report
      BY <1>2, FailType, OutcomeFacts DEF ArriveUndeclared
    <2> QED BY <1>2, <2>3, <2>4, NotifyType DEF ArriveUndeclared, ctlVars, TypeOK
  <1>3. CASE ArriveStopped(a)
    <2>1. actor' \in [Actors -> ActorState]
      BY <1>3, MoveType, StopStages DEF ArriveStopped
    <2>2. report' \in Report /\ sleep' \in {"awake", "prepared", "asleep"}
      BY <1>3, FailType, OutcomeFacts, NotifyType DEF ArriveStopped, TypeOK
    <2> QED BY <1>3, <2>1, <2>2 DEF ArriveStopped, ctlVars, TypeOK
  <1>4. CASE WorkerLeave(a)
    <2>1. actor' \in [Actors -> ActorState]
      BY <1>4, MoveType DEF WorkerLeave, Stages
    <2> QED BY <1>4, <2>1 DEF WorkerLeave, ctlVars, TypeOK
  <1> QED BY <1>1, <1>2, <1>3, <1>4 DEF Application

\* Clock, stop token, foreign callers.
LEMMA TypeEnvironment == ASSUME TypeOK, Environment PROVE TypeOK'
  <1>1. CASE WaitWake
    BY <1>1, TypeWait
  <1>2. CASE DeadlinePasses \/ BudgetPasses
    BY <1>2, EnvFacts DEF DeadlinePasses, BudgetPasses, TypeOK
  <1>3. CASE RequestStop
    <2>1. env' \in Env BY <1>3, EnvFacts DEF RequestStop, TypeOK
    <2>2. shared' \in Flags BY <1>3 DEF RequestStop, TypeOK, Flags
    <2> QED BY <1>3, <2>1, <2>2 DEF RequestStop, TypeOK
  <1>4. CASE StopNotify
    <2>1. env' \in Env BY <1>4, EnvFacts DEF StopNotify, TypeOK
    <2> QED BY <1>4, <2>1, NotifyType DEF StopNotify, TypeOK
  <1>5. ASSUME NEW a \in Actors, ForeignArrive(a) PROVE TypeOK'
    <2>1. report' \in Report
      BY <1>5, FailType, OutcomeFacts DEF ForeignArrive
    <2>2. actor' \in [Actors -> ActorState]
      BY <1>5, MoveType, StopStages DEF ForeignArrive, TypeOK
    <2> QED BY <1>5, <2>1, <2>2, NotifyType DEF ForeignArrive, ctlVars, TypeOK
  <1> QED BY <1>1, <1>2, <1>3, <1>4, <1>5 DEF Environment

\* The initial state.
LEMMA TypeInit == Init => TypeOK
  <1> SUFFICES ASSUME Init PROVE TypeOK OBVIOUS
  <1> USE DEF Init
  <1>1. impl \in Impl BY ScheduleAssumption DEF Impl
  <1>2. report \in Report BY SMTT(30) DEF Report, Outcomes, Cleanups
  <1>3. actor \in [Actors -> ActorState] BY NamesFacts DEF ActorState, Stages, Phases
  <1>4. shared \in Flags /\ env \in Env /\ history \in History BY DEF Flags, Env, History
  <1> QED BY <1>1, <1>2, <1>3, <1>4 DEF TypeOK, Points

-----------------------------------------------------------------------------
(* The scheduling invariant *)

\* The worker neither runs nor may run: not started, parked without a permit, joined.
Quiet(state) ==
  \/ state.stage \in {"none", "spawned"} /\ state.phase = "starting"
  \/ state.stage \in {"gate", "hook"} /\ state.phase = "parked"
  \/ state.stage = "joined" /\ state.phase = "finished"

\* The phase the code keeps agrees with where the thread really is.
Coherent(state) ==
  /\ state.stage \in {"none", "spawned"} => state.phase = "starting"
  /\ state.stage \in {"gate", "hook"} => state.phase \in {"parked", "running"}
  /\ state.stage \in {"app", "threw", "ending"} =>
       state.phase = "running" \/ (shared.stopping /\ state.phase = "parked")
  /\ state.stage \in {"exiting", "exited", "joined"} => state.phase = "finished"
Coherence == \A a \in Actors : Coherent(actor[a])

\* What construction, initialization, closing and stopping say about the controller.
Lifecycle ==
  /\ pc \in {"admit", "register", "construct"} =>
       ~impl.constructed /\ ~impl.closed /\ ~shared.stopping
  /\ pc \in {"spawn", "barrier", "observe", "arrival", "joining", "returned"} =>
       impl.constructed /\ ~impl.closed /\ ~shared.stopping
  /\ pc \in {"spawn", "barrier"} => ~impl.initialized
  /\ pc \in {"arrival", "joining", "returned"} => impl.initialized
  /\ pc \in {"drain", "reap", "teardown", "verdict"} => impl.constructed /\ impl.closed
  /\ pc \in {"drain", "reap", "teardown", "verdict", "destroy", "gone"} => shared.stopping
  /\ shared.stopping => impl.closed \/ pc \in {"destroy", "gone"}
  /\ impl.closed /\ impl.constructed => shared.stopping
  /\ impl.initialized => impl.constructed /\ report.observations # <<>>

\* Threads exist once initialized, and none before the factory returned.
Started ==
  /\ impl.initialized \/ pc = "observe" =>
       \A a \in Actors : actor[a].stage \notin {"none", "spawned"}
  /\ ~impl.constructed => \A a \in Actors : actor[a].stage = "none"

\* The actor advance waits for, and the thread the join loop works on.
Selection ==
  /\ pc \in {"arrival", "joining"} => impl.next_step < Len(schedule) /\ Expected.actor \in Actors
  /\ pc = "joining" => actor[Expected.actor].phase = "finished"
  /\ pc = "reap" => impl.reaping \in Actors /\ actor[impl.reaping].stage \notin {"none", "joined"}

\* Only the selected actor runs, from its permit to the observation after it or,
\* when the execution failed, to the stop.
MayBeBusy(a) ==
  /\ a = Expected.actor /\ impl.initialized
  /\ pc \in {"arrival", "joining"} \/ (Failed /\ pc \in {"returned", "cleanup"})
Quiescence == ~shared.stopping => \A a \in Actors : Quiet(actor[a]) \/ MayBeBusy(a)

SchedInv == Coherence /\ Lifecycle /\ Started /\ Selection /\ Quiescence

-----------------------------------------------------------------------------
(* SchedInv is inductive *)

\* It holds initially: nothing has been built.
LEMMA InitInv == Init => SchedInv
  BY DEF Init, SchedInv, Coherence, Coherent, Lifecycle, Started, Selection, Quiescence, Quiet

\* A step of one worker that keeps the controller where it is.
LEMMA WorkerInv ==
  ASSUME TypeOK, SchedInv, NEW a \in Actors, NEW x,
         actor' = [actor EXCEPT ![a] = x], UNCHANGED ctlVars,
         report'.observations = report.observations, Failed => Failed',
         Coherent(x), x.stage \notin {"none", "spawned", "joined"}, actor[a].stage # "none",
         actor[a].phase = "finished" => x.phase = "finished",
         ~shared.stopping => Quiet(x) \/ ~Quiet(actor[a])
  PROVE  SchedInv'
  <1> USE DEF ctlVars, SchedInv
  <1>0. /\ actor \in [Actors -> ActorState] /\ actor'[a] = x
        /\ \A b \in Actors : b # a => actor'[b] = actor[b]
        /\ Expected' = Expected
    BY DEF TypeOK, Expected
  <1>1. Coherence'
    BY <1>0 DEF Coherence, Coherent
  <1>2. Lifecycle'
    BY DEF Lifecycle
  <1>3. Started'
    BY <1>0 DEF Started
  <1>4. Selection'
    BY <1>0 DEF Selection
  <1>5. Quiescence'
    <2> SUFFICES ASSUME ~shared.stopping, NEW b \in Actors PROVE Quiet(actor'[b]) \/ MayBeBusy(b)'
      BY DEF Quiescence, Quiet
    <2>1. Quiet(actor[b]) \/ MayBeBusy(b) BY DEF Quiescence
    <2>2. MayBeBusy(b) => MayBeBusy(b)' BY <1>0 DEF MayBeBusy
    <2> QED BY <1>0, <2>1, <2>2
  <1> QED BY <1>1, <1>2, <1>3, <1>4, <1>5

\* Shared::fail fails, and touches no observation.
LEMMA FailFacts ==
  ASSUME TypeOK, NEW n, n # "completed", Fail(n)
  PROVE  /\ report'.observations = report.observations
         /\ Failed'
  BY DEF Fail, FirstFailure, Failed, TypeOK, Report

\* A worker that runs, or may run, moves to another running stage.
LEMMA MoveInv ==
  ASSUME TypeOK, SchedInv, NEW a \in Actors,
         NEW s \in {"app", "threw", "ending"},
         actor[a].stage \in {"app", "threw", "ending"} \/
           (actor[a].stage \in {"gate", "hook"} /\ (shared.stopping \/ actor[a].phase = "running")),
         actor' = [actor EXCEPT ![a].stage = s], UNCHANGED ctlVars,
         report'.observations = report.observations, Failed => Failed'
  PROVE  SchedInv'
  <1> DEFINE x == [actor[a] EXCEPT !.stage = s]
  <1>0. actor[a] \in ActorState BY DEF TypeOK
  <1>1. x.stage = s /\ x.phase = actor[a].phase BY <1>0 DEF ActorState
  <1>2. actor' = [actor EXCEPT ![a] = x] OBVIOUS
  <1>3. Coherent(actor[a]) BY DEF SchedInv, Coherence
  <1>4. Coherent(x) BY <1>1, <1>3 DEF Coherent
  <1>5. ~shared.stopping => ~Quiet(actor[a]) BY DEF Quiet
  <1> HIDE DEF x
  <1> QED BY <1>1, <1>2, <1>4, <1>5, WorkerInv

\* The thread body of a worker.
LEMMA RuntimeInv == ASSUME TypeOK, SchedInv, NEW a \in Actors, WorkerRuntime(a) PROVE SchedInv'
  <1>0. actor[a] \in ActorState /\ Coherent(actor[a])
    BY DEF TypeOK, SchedInv, Coherence
  <1>1. CASE WorkerPark(a)
    <2> DEFINE x == [actor[a] EXCEPT !.stage = "gate", !.phase = "parked"]
    <2>1. x.stage = "gate" /\ x.phase = "parked" BY <1>0 DEF ActorState
    <2>2. actor' = [actor EXCEPT ![a] = x] BY <1>1 DEF WorkerPark
    <2>3. Coherent(x) /\ Quiet(x) BY <2>1 DEF Coherent, Quiet
    <2>4. actor[a].stage = "spawned" /\ actor[a].phase # "finished"
      BY <1>0, <1>1 DEF WorkerPark, Stage, Coherent
    <2> HIDE DEF x
    <2> QED BY <1>1, <2>1, <2>2, <2>3, <2>4, WorkerInv DEF WorkerPark, Failed
  <1>2. CASE WorkerWake(a)
    <2>1. PICK s \in {"app", "ending"} : actor' = [actor EXCEPT ![a].stage = s]
      BY <1>2 DEF WorkerWake, Move, AfterStop
    <2> QED BY <1>2, <2>1, MoveInv DEF WorkerWake, Stage, Permitted, Failed
  <1>3. CASE WorkerReport(a)
    BY <1>3, MoveInv, FailFacts DEF WorkerReport, Stage, Move
  <1>4. CASE WorkerComplete(a)
    <2> DEFINE x == [stage |-> "exiting", phase |-> "finished", checkpoint |-> Completion,
                arrival |-> IF actor[a].arrival = Unset THEN Completion ELSE actor[a].arrival]
    <2>1. actor' = [actor EXCEPT ![a] = x] BY <1>4 DEF WorkerComplete, At
    <2>2. x.stage = "exiting" /\ x.phase = "finished" OBVIOUS
    <2> HIDE DEF x
    <2>3. Coherent(x) BY <2>2 DEF Coherent
    <2>4. actor[a].stage = "ending" /\ ~Quiet(actor[a]) BY <1>4 DEF WorkerComplete, Stage, Quiet
    <2> QED BY <1>4, <2>1, <2>2, <2>3, <2>4, WorkerInv DEF WorkerComplete, Failed
  <1>5. CASE WorkerExit(a)
    <2> DEFINE x == [actor[a] EXCEPT !.stage = "exited"]
    <2>1. x.stage = "exited" /\ x.phase = actor[a].phase BY <1>0 DEF ActorState
    <2>2. actor' = [actor EXCEPT ![a] = x] BY <1>5 DEF WorkerExit, Move
    <2>3. actor[a].stage = "exiting" /\ ~Quiet(actor[a]) BY <1>5 DEF WorkerExit, Stage, Quiet
    <2>4. Coherent(x) BY <1>0, <2>1, <2>3 DEF Coherent
    <2> HIDE DEF x
    <2> QED BY <1>5, <2>1, <2>2, <2>3, <2>4, WorkerInv DEF WorkerExit, Failed
  <1> QED BY <1>1, <1>2, <1>3, <1>4, <1>5 DEF WorkerRuntime

\* Application code in a worker.
LEMMA ApplicationInv == ASSUME TypeOK, SchedInv, NEW a \in Actors, Application(a) PROVE SchedInv'
  <1>0. actor[a] \in ActorState /\ Coherent(actor[a])
    BY DEF TypeOK, SchedInv, Coherence
  <1>1. ASSUME NEW c \in Checkpoints, Arrive(a, c) PROVE SchedInv'
    <2> DEFINE x == [stage |-> "hook", phase |-> "parked", checkpoint |-> c, arrival |-> c]
    <2>1. actor' = [actor EXCEPT ![a] = x] BY <1>1 DEF Arrive, At
    <2>2. x.stage = "hook" /\ x.phase = "parked" OBVIOUS
    <2> HIDE DEF x
    <2>3. Coherent(x) /\ Quiet(x) BY <2>2 DEF Coherent, Quiet
    <2>4. actor[a].stage = "app" /\ actor[a].phase # "finished"
      BY <1>1 DEF Arrive, InTurn, Stage
    <2> QED BY <1>1, <2>1, <2>2, <2>3, <2>4, WorkerInv DEF Arrive, Failed
  <1>2. ASSUME NEW c \in UndeclaredNames, ArriveUndeclared(a, c) PROVE SchedInv'
    <2>1. PICK s \in {"app", "ending"} :
            actor' = [actor EXCEPT ![a] =
              [stage |-> s, phase |-> "running", checkpoint |-> c, arrival |-> c]]
      BY <1>2 DEF ArriveUndeclared, At, AfterStop
    <2> DEFINE x == [stage |-> s, phase |-> "running", checkpoint |-> c, arrival |-> c]
    <2>2. x.stage = s /\ x.phase = "running" OBVIOUS
    <2>3. actor' = [actor EXCEPT ![a] = x] BY <2>1
    <2> HIDE DEF x
    <2>4. Coherent(x) BY <2>2 DEF Coherent
    <2>5. actor[a].stage = "app" /\ actor[a].phase = "running" /\ ~Quiet(actor[a])
      BY <1>2 DEF ArriveUndeclared, InTurn, Stage, Quiet
    <2> QED BY <1>2, <2>2, <2>3, <2>4, <2>5, WorkerInv, FailFacts DEF ArriveUndeclared
  <1>3. CASE ArriveStopped(a)
    <2>1. PICK s \in {"app", "ending"} : actor' = [actor EXCEPT ![a].stage = s]
      BY <1>3 DEF ArriveStopped, Move, AfterStop
    <2>2. report'.observations = report.observations /\ (Failed => Failed')
      BY <1>3, FailFacts DEF ArriveStopped, Failed
    <2> QED BY <1>3, <2>1, <2>2, MoveInv DEF ArriveStopped, Stage
  <1>4. CASE WorkerLeave(a)
    BY <1>4, MoveInv DEF WorkerLeave, Stage, Move, Failed
  <1> QED BY <1>1, <1>2, <1>3, <1>4 DEF Application

\* A step that changes no actor, moves the controller nowhere and stops nobody.
LEMMA StillInv ==
  ASSUME SchedInv, UNCHANGED <<schedule, pc, impl, actor>>,
         shared'.stopping = shared.stopping,
         report'.observations = report.observations, Failed => Failed'
  PROVE  SchedInv'
  <1>1. Expected' = Expected BY DEF Expected
  <1>2. Quiescence'
    BY <1>1 DEF SchedInv, Quiescence, Quiet, MayBeBusy
  <1> QED
    BY <1>1, <1>2 DEF SchedInv, Coherence, Coherent, Lifecycle, Started, Selection

\* Clock, stop token, foreign callers.
LEMMA EnvironmentInv == ASSUME TypeOK, SchedInv, Environment PROVE SchedInv'
  <1>1. CASE WaitWake \/ DeadlinePasses \/ BudgetPasses \/ StopNotify
    BY <1>1, StillInv DEF WaitWake, DeadlinePasses, BudgetPasses, StopNotify, ctlVars, Failed
  <1>2. CASE RequestStop
    <2>1. shared'.stopping = shared.stopping BY <1>2 DEF RequestStop, TypeOK, Flags
    <2> QED BY <1>2, <2>1, StillInv DEF RequestStop, Failed
  <1>3. ASSUME NEW a \in Actors, ForeignArrive(a) PROVE SchedInv'
    <2>1. report'.observations = report.observations /\ Failed'
      BY <1>3, FailFacts DEF ForeignArrive
    <2>2. CASE UNCHANGED actor
      BY <1>3, <2>1, <2>2, StillInv DEF ForeignArrive, ctlVars
    <2>3. ASSUME NEW b \in Actors, Stage(b) = "app", Move(b, AfterStop(b)) PROVE SchedInv'
      <3>1. PICK s \in {"app", "ending"} : actor' = [actor EXCEPT ![b].stage = s]
        BY <2>3 DEF Move, AfterStop
      <3> QED BY <1>3, <2>1, <2>3, <3>1, MoveInv DEF ForeignArrive, Stage
    <2> QED BY <1>3, <2>2, <2>3 DEF ForeignArrive
  <1> QED BY <1>1, <1>2, <1>3 DEF Environment

\* A controller step that changes no actor, with every actor quiet before it or
\* the selected one allowed to be busy after it.
LEMMA ControlInv ==
  ASSUME SchedInv, UNCHANGED <<schedule, actor>>, Lifecycle', Started', Selection',
         shared.stopping => shared'.stopping,
         ~shared'.stopping => \A a \in Actors : Quiet(actor[a]) \/ MayBeBusy(a)'
  PROVE  SchedInv'
  <1>1. Coherence' BY DEF SchedInv, Coherence, Coherent
  <1>2. Quiescence' BY DEF Quiescence, Quiet
  <1> QED BY <1>1, <1>2 DEF SchedInv

\* Where the controller is decides whether anybody may be busy.
LEMMA AllQuiet ==
  ASSUME SchedInv, ~shared.stopping,
         pc \notin {"arrival", "joining", "returned", "cleanup"} \/
           (~Failed /\ pc \in {"returned", "cleanup"})
  PROVE  \A a \in Actors : Quiet(actor[a])
  BY DEF SchedInv, Quiescence, MayBeBusy

\* The steps of start that run no worker: everybody is quiet.
LEMMA StartInv ==
  ASSUME TypeOK, SchedInv, Admit \/ Register \/ FactoryThrows \/ SpawnFails
  PROVE  SchedInv'
  <1>1. pc \notin {"arrival", "joining", "returned", "cleanup"}
    BY DEF Admit, Register, FactoryThrows, SpawnFails
  <1>2. UNCHANGED <<schedule, actor, impl>> /\ shared'.stopping = shared.stopping
    BY DEF Admit, Register, FactoryThrows, SpawnFails, TypeOK, Flags
  <1>3. report'.observations = report.observations
    BY FailFacts DEF Admit, Register, FactoryThrows, SpawnFails
  <1>4. \/ pc = "admit" /\ pc' \in {"register", "idle"}
        \/ pc = "register" /\ pc' \in {"construct", "idle"}
        \/ pc = "construct" /\ pc' = "idle"
        \/ pc = "spawn" /\ pc' = "barrier"
    BY DEF Admit, Register, FactoryThrows, SpawnFails
  <1>5. Lifecycle' BY <1>2, <1>3, <1>4 DEF SchedInv, Lifecycle
  <1>6. Started' BY <1>2, <1>4 DEF SchedInv, Started
  <1>7. Selection' BY <1>4 DEF Selection
  <1> QED BY <1>1, <1>2, <1>5, <1>6, <1>7, AllQuiet, ControlInv

\* The factory returned: still nobody was started.
LEMMA FactoryInv == ASSUME TypeOK, SchedInv, NEW w \in BOOLEAN, FactoryReturns(w) PROVE SchedInv'
  <1>1. /\ pc = "construct" /\ pc' \in {"spawn", "cleanup"} /\ UNCHANGED <<schedule, actor, shared>>
        /\ impl' = [impl EXCEPT !.constructed = TRUE]
    BY DEF FactoryReturns
  <1>2. /\ impl'.constructed /\ impl'.initialized = impl.initialized
        /\ impl'.closed = impl.closed
    BY <1>1 DEF TypeOK, Impl
  <1>3. report'.observations = report.observations
    BY DEF FactoryReturns, TypeOK, Report
  <1>4. ~impl.initialized /\ ~impl.closed
    BY <1>1 DEF SchedInv, Lifecycle
  <1>5. Lifecycle' BY <1>1, <1>2, <1>3, <1>4 DEF SchedInv, Lifecycle
  <1>6. Started' BY <1>1, <1>2, <1>4 DEF SchedInv, Started
  <1>7. Selection' BY <1>1 DEF Selection
  <1> QED BY <1>1, <1>5, <1>6, <1>7, AllQuiet, ControlInv

\* A started thread is quiet until it parks.
LEMMA SpawnInv == ASSUME TypeOK, SchedInv, NEW a \in Actors, Spawn(a) PROVE SchedInv'
  <1> USE DEF SchedInv
  <1>1. /\ pc = "spawn" /\ pc' \in {"spawn", "barrier"}
        /\ UNCHANGED <<schedule, shared, impl, report>>
        /\ actor' = [actor EXCEPT ![a].stage = "spawned"] /\ actor[a].stage = "none"
    BY DEF Spawn, Stage
  <1>2. /\ actor'[a].stage = "spawned" /\ actor'[a].phase = actor[a].phase
        /\ \A b \in Actors : b # a => actor'[b] = actor[b]
    BY <1>1 DEF TypeOK, ActorState
  <1>3. Coherent(actor[a]) BY DEF Coherence
  <1>4. actor'[a].phase = "starting" BY <1>1, <1>2, <1>3 DEF Coherent
  <1>5. Coherence' BY <1>1, <1>2, <1>4 DEF Coherence, Coherent
  <1>6. Lifecycle' BY <1>1 DEF Lifecycle
  <1>7. Started' BY <1>1 DEF Started, Lifecycle
  <1>8. Selection' BY <1>1 DEF Selection
  <1>9. Quiescence'
    BY <1>1, <1>2, <1>4, AllQuiet DEF Quiescence, Quiet, Lifecycle
  <1> QED BY <1>5, <1>6, <1>7, <1>8, <1>9

\* Limits let an outcome pass only if nothing failed, stopped or expired.
LEMMA LimitFacts ==
  ASSUME NEW o
  PROVE  /\ CheckLimits(o) = "completed" =>
              o = "completed" /\ ~shared.cancelled /\ ~env.expired
         /\ o # "completed" => CheckLimits(o) = o
  BY DEF CheckLimits

\* The barrier lets the controller observe only with every actor parked.
LEMMA BarrierInv == ASSUME TypeOK, SchedInv, BarrierExit PROVE SchedInv'
  <1>1. /\ pc = "barrier" /\ pc' \in {"observe", "cleanup"}
        /\ UNCHANGED <<schedule, actor, impl, shared>>
        /\ report'.observations = report.observations
    BY DEF BarrierExit, WaitOver, TypeOK, Report
  <1>2. pc' = "observe" => \A a \in Actors : actor[a].phase = "parked"
    BY LimitFacts DEF BarrierExit, WaitOver, TimerFired, WaitPredicate, Failed
  <1>3. pc' = "observe" => \A a \in Actors : actor[a].stage \notin {"none", "spawned"}
    BY <1>2 DEF SchedInv, Coherence, Coherent
  <1>4. Lifecycle' BY <1>1 DEF SchedInv, Lifecycle
  <1>5. Started' BY <1>1, <1>3 DEF SchedInv, Started, Lifecycle
  <1>6. Selection' BY <1>1 DEF Selection
  <1> QED BY <1>1, <1>4, <1>5, <1>6, AllQuiet, ControlInv

\* The permit makes the selected actor, and nobody else, busy.
LEMMA AdvanceInv == ASSUME TypeOK, SchedInv, NEW step \in Requests, Advance(step) PROVE SchedInv'
  <1> DEFINE a == step.actor
  <1>0. /\ a \in Actors /\ actor[a] \in ActorState
        /\ pc = "idle" /\ impl.initialized /\ ~impl.closed
        /\ UNCHANGED <<schedule, impl, shared>>
    BY DEF Requests, Advance, CanAdvance, TypeOK
  <1>1. ~shared.stopping /\ \A b \in Actors : Quiet(actor[b])
    BY <1>0, AllQuiet DEF SchedInv, Lifecycle
  <1>2. CASE AdvanceVerdict(step) # "completed"
    <2>1. /\ pc' = "returned" /\ UNCHANGED actor /\ report'.observations = report.observations
      BY <1>2 DEF Advance, TypeOK, Report
    <2>2. Lifecycle' BY <1>0, <1>1, <2>1 DEF SchedInv, Lifecycle
    <2>3. Started' BY <1>0, <2>1 DEF SchedInv, Started
    <2>4. Selection' BY <2>1 DEF Selection
    <2> QED BY <1>0, <1>1, <2>1, <2>2, <2>3, <2>4, ControlInv
  <1>3. CASE AdvanceVerdict(step) = "completed"
    <2>1. impl.next_step < Len(schedule) /\ step = Expected /\ actor[a].phase = "parked"
      <3>1. schedule \in Seq(Step) BY ScheduleAssumption DEF TypeOK
      <3>2. Len(schedule) \in Nat /\ impl.next_step \in Nat
        BY <3>1, ImplFacts DEF TypeOK
      <3> QED BY <1>3, <3>2 DEF AdvanceVerdict
    <2>2. /\ pc' = "arrival" /\ report'.observations = report.observations
          /\ actor' = [actor EXCEPT ![a] = Granted(actor[a])]
      BY <1>3 DEF Advance, TypeOK, Report
    <2>3. /\ actor'[a].stage = actor[a].stage /\ actor'[a].phase = "running"
          /\ \A b \in Actors : b # a => actor'[b] = actor[b]
      BY <1>0, <2>2 DEF Granted, ActorState, TypeOK
    <2>4. actor[a].stage \in {"gate", "hook"} BY <1>0, <1>1, <2>1 DEF Quiet
    <2>5. Coherence' BY <1>0, <2>3, <2>4 DEF SchedInv, Coherence, Coherent
    <2>6. Lifecycle' BY <1>0, <1>1, <2>2 DEF SchedInv, Lifecycle
    <2>7. Started' BY <1>0, <2>2, <2>3 DEF SchedInv, Started
    <2>8. Expected' = Expected /\ Expected.actor = a BY <1>0, <2>1 DEF Expected
    <2>9. Selection' BY <1>0, <2>1, <2>2, <2>8 DEF Selection
    <2>10. Quiescence'
      BY <1>0, <1>1, <2>2, <2>3, <2>8 DEF Quiescence, Quiet, MayBeBusy
    <2> QED BY <2>5, <2>6, <2>7, <2>9, <2>10 DEF SchedInv
  <1> QED BY <1>2, <1>3

\* A matched arrival leaves the selected actor parked or about to be joined.
LEMMA ArrivalInv == ASSUME TypeOK, SchedInv, ArrivalExit PROVE SchedInv'
  <1> DEFINE a == Expected.actor
             x == actor[a]
  <1>0. /\ pc = "arrival" /\ impl.next_step < Len(schedule) /\ a \in Actors
        /\ impl.initialized /\ impl.constructed /\ ~impl.closed /\ ~shared.stopping
        /\ Coherent(x) /\ x.stage \notin {"none", "spawned"}
    BY DEF ArrivalExit, WaitOver, SchedInv, Selection, Lifecycle, Coherence, Started
  <1>1. \A b \in Actors : b # a => Quiet(actor[b])
    BY <1>0 DEF SchedInv, Quiescence, MayBeBusy
  <1>2. /\ UNCHANGED <<schedule, actor, shared>>
        /\ impl' = [impl EXCEPT !.next_step = IF pc' = "observe" THEN impl.next_step + 1
                                             ELSE impl.next_step]
        /\ pc' \in {"observe", "joining", "returned"}
    BY DEF ArrivalExit, AfterMatch
  <1>3. /\ impl'.initialized = impl.initialized /\ impl'.constructed = impl.constructed
        /\ impl'.closed = impl.closed
        /\ pc' # "observe" => impl'.next_step = impl.next_step
    BY <1>2 DEF TypeOK, Impl
  <1>4. report'.observations = report.observations
    BY DEF ArrivalExit, TypeOK, Report
  <1>5. pc' # "returned" =>
          /\ x.phase # "running"
          /\ pc' = IF x.phase = "finished" THEN "joining" ELSE "observe"
    BY LimitFacts DEF ArrivalExit, AfterMatch, WaitOver, TimerFired, WaitPredicate, Failed
  <1>6. pc' = "returned" => Failed'
    <2> DEFINE l == CheckLimits(report.outcome)
               m == l = "completed" /\ actor[a].checkpoint = Expected.checkpoint
    <2>1. report'.outcome = IF l = "completed" /\ ~m THEN "unexpected_checkpoint" ELSE l
      BY DEF ArrivalExit, TypeOK, Report
    <2>2. pc' = "returned" => ~m
      BY DEF ArrivalExit, AfterMatch
    <2>3. ~m => report'.outcome # "completed"
      BY <2>1
    <2> QED BY <2>2, <2>3 DEF Failed
  <1>7. pc' = "observe" => Quiet(x)
    <2>1. x.stage \in Stages /\ x.phase \in Phases BY <1>0 DEF TypeOK, ActorState
    <2> HIDE DEF x
    <2> QED BY <1>0, <1>5, <2>1 DEF Coherent, Quiet, Stages, Phases
  <1>8. Lifecycle' BY <1>0, <1>2, <1>3, <1>4 DEF SchedInv, Lifecycle
  <1>9. Started' BY <1>0, <1>2, <1>3 DEF SchedInv, Started
  <1>10. pc' # "observe" => Expected' = Expected BY <1>2, <1>3 DEF Expected
  <1>11. Selection' BY <1>0, <1>2, <1>3, <1>5, <1>10 DEF Selection
  <1>12. \A b \in Actors : Quiet(actor[b]) \/ MayBeBusy(b)'
    <2> TAKE b \in Actors
    <2>1. CASE b # a BY <1>1, <2>1
    <2>2. CASE b = a /\ pc' = "observe" BY <1>7, <2>2
    <2>3. CASE b = a /\ pc' # "observe"
      BY <1>0, <1>2, <1>3, <1>6, <1>10, <2>3 DEF MayBeBusy
    <2> QED BY <2>1, <2>2, <2>3
  <1> QED BY <1>0, <1>2, <1>8, <1>9, <1>11, <1>12, ControlInv

\* The join makes the selected actor quiet again.
LEMMA JoinInv == ASSUME TypeOK, SchedInv, JoinSelected PROVE SchedInv'
  <1> DEFINE a == Expected.actor
  <1>0. /\ pc = "joining" /\ a \in Actors /\ actor[a].phase = "finished"
        /\ impl.initialized /\ impl.constructed /\ ~impl.closed /\ ~shared.stopping
    BY DEF JoinSelected, SchedInv, Selection, Lifecycle
  <1>1. \A b \in Actors : b # a => Quiet(actor[b])
    BY <1>0 DEF SchedInv, Quiescence, MayBeBusy
  <1>2. /\ UNCHANGED <<schedule, shared, report>> /\ pc' = "observe"
        /\ actor' = [actor EXCEPT ![a].stage = "joined"]
        /\ impl' = [impl EXCEPT !.next_step = impl.next_step + 1]
    BY DEF JoinSelected
  <1>3. /\ impl'.initialized = impl.initialized /\ impl'.constructed = impl.constructed
        /\ impl'.closed = impl.closed
    BY <1>2 DEF TypeOK, Impl
  <1>4. /\ actor'[a].stage = "joined" /\ actor'[a].phase = "finished"
        /\ \A b \in Actors : b # a => actor'[b] = actor[b]
    BY <1>0, <1>2 DEF TypeOK, ActorState
  <1>5. Coherence' BY <1>2, <1>4 DEF SchedInv, Coherence, Coherent
  <1>6. Lifecycle' BY <1>0, <1>2, <1>3 DEF SchedInv, Lifecycle
  <1>7. Started' BY <1>0, <1>2, <1>3, <1>4 DEF SchedInv, Started
  <1>8. Selection' BY <1>2 DEF Selection
  <1>9. Quiescence' BY <1>1, <1>4 DEF Quiescence, Quiet
  <1> QED BY <1>5, <1>6, <1>7, <1>8, <1>9 DEF SchedInv

\* Observing changes no actor; the first observation initializes.
LEMMA ObserveInv == ASSUME TypeOK, SchedInv, NEW ok \in BOOLEAN, Observe(ok) PROVE SchedInv'
  <1> DEFINE v == CheckLimits(ObserverVerdict(ok))
  <1>0. /\ pc = "observe" /\ impl.constructed /\ ~impl.closed /\ ~shared.stopping
        /\ \A a \in Actors : actor[a].stage \notin {"none", "spawned"}
    BY DEF Observe, SchedInv, Lifecycle, Started
  <1>1. \A a \in Actors : Quiet(actor[a]) BY <1>0, AllQuiet
  <1>2. /\ UNCHANGED <<schedule, actor, shared>>
        /\ pc' = IF impl.initialized THEN "returned"
                 ELSE IF v = "completed" THEN "idle" ELSE "cleanup"
        /\ impl' = [impl EXCEPT !.initialized = impl.initialized \/ v = "completed"]
    BY DEF Observe
  <1>3. /\ impl'.initialized = (impl.initialized \/ v = "completed")
        /\ impl'.constructed = impl.constructed /\ impl'.closed = impl.closed
    BY <1>2 DEF TypeOK, Impl
  <1>4. v = "completed" => ok
    BY LimitFacts DEF ObserverVerdict, FirstFailure
  <1>5. impl'.initialized => report'.observations # <<>>
    <2>1. report.observations \in Seq(Nat) BY ReportFacts DEF TypeOK
    <2>2. report'.observations = IF ok THEN Append(report.observations, impl.next_step)
                                 ELSE report.observations
      BY DEF Observe, TypeOK, Report
    <2>3. Append(report.observations, impl.next_step) # <<>> BY <2>1
    <2>4. impl.initialized => report.observations # <<>> BY DEF SchedInv, Lifecycle
    <2> HIDE DEF v
    <2> QED BY <1>3, <1>4, <2>2, <2>3, <2>4
  <1> HIDE DEF v
  <1>6. Lifecycle' BY <1>0, <1>2, <1>3, <1>5 DEF SchedInv, Lifecycle
  <1>7. Started' BY <1>0, <1>2, <1>3 DEF SchedInv, Started
  <1>8. Selection' BY <1>2 DEF Selection
  <1> QED BY <1>0, <1>1, <1>2, <1>6, <1>7, <1>8, ControlInv

\* Calls return with everybody quiet, or failed and on the way to cleanup.
LEMMA CallsInv ==
  ASSUME TypeOK, SchedInv,
         AdvanceReturn \/ RunReturns \/ RunThrows \/ Finish \/ CleanupCall \/ Destroy
  PROVE  SchedInv'
  <1>0. UNCHANGED <<schedule, actor, impl>> /\ Expected' = Expected
    BY DEF AdvanceReturn, RunReturns, RunThrows, Finish, CleanupCall, Destroy, Expected
  <1>1. report'.observations = report.observations /\ (Failed => Failed')
    BY FailFacts DEF AdvanceReturn, RunReturns, RunThrows, Finish, CleanupCall, Destroy, Failed
  <1>2. Selection'
    BY DEF AdvanceReturn, RunReturns, RunThrows, Finish, CleanupCall, Destroy, Selection
  <1>3. CASE RunThrows \/ Destroy
    <2>1. pc' = "destroy" /\ shared'.stopping BY <1>3 DEF RunThrows, Destroy, StopActors
    <2>2. pc = "idle" BY <1>3 DEF RunThrows, Destroy
    <2>3. Lifecycle' BY <1>0, <1>1, <2>1, <2>2 DEF SchedInv, Lifecycle
    <2>4. Started' BY <1>0, <2>1 DEF SchedInv, Started
    <2> QED BY <1>0, <1>2, <2>1, <2>3, <2>4, ControlInv
  <1>4. CASE AdvanceReturn \/ RunReturns \/ Finish \/ CleanupCall
    <2>1. /\ shared' = shared
          /\ \/ pc = "idle" /\ pc' \in {"idle", "cleanup"}
             \/ pc = "returned" /\ pc' = IF Failed THEN "cleanup" ELSE "idle"
      BY <1>4 DEF AdvanceReturn, RunReturns, Finish, CleanupCall
    <2>2. Lifecycle' BY <1>0, <1>1, <2>1 DEF SchedInv, Lifecycle
    <2>3. Started' BY <1>0, <2>1 DEF SchedInv, Started
    <2>4. ~shared.stopping => \A a \in Actors : Quiet(actor[a]) \/ MayBeBusy(a)'
      BY <1>0, <1>1, <2>1 DEF SchedInv, Quiescence, MayBeBusy
    <2> QED BY <1>0, <1>2, <2>1, <2>2, <2>3, <2>4, ControlInv
  <1> QED BY <1>3, <1>4

\* The join loop names a thread that is still owned.
LEMMA ReapFromInv ==
  ASSUME TypeOK, SchedInv, NEW from \in Nat \ {0}, NEW state \in [Actors -> ActorState],
         ReapFrom(from, state), actor' = state, Coherence',
         pc \in {"drain", "reap"}, UNCHANGED <<schedule, shared>>,
         \A a \in Actors : actor[a].stage \notin {"none", "spawned"} =>
                            state[a].stage \notin {"none", "spawned"}
  PROVE  SchedInv'
  <1>0. impl.constructed /\ impl.closed /\ shared.stopping
    BY DEF SchedInv, Lifecycle
  <1>1. /\ impl'.initialized = impl.initialized /\ impl'.constructed = impl.constructed
        /\ impl'.closed = impl.closed
    BY DEF ReapFrom, TypeOK, Impl
  <1>2. pc' \in {"reap", "teardown", "verdict"} BY DEF ReapFrom
  <1>3. report'.observations = report.observations BY DEF ReapFrom, TypeOK, Report
  <1>4. Lifecycle' BY <1>0, <1>1, <1>2, <1>3 DEF SchedInv, Lifecycle
  <1>5. impl.initialized => \A a \in Actors : state[a].stage \notin {"none", "spawned"}
    BY DEF SchedInv, Started
  <1>6. Started' BY <1>0, <1>1, <1>2, <1>5 DEF Started
  <1>7. Selection'
    <2>1. ASSUME NEW a \in ToReap(from, state), impl' = [impl EXCEPT !.reaping = a]
          PROVE  Selection'
      <3>1. a \in Actors /\ state[a].stage \notin {"none", "joined"}
        BY ScheduleAssumption DEF ToReap, Actors
      <3>2. impl'.reaping = a BY <2>1 DEF TypeOK, Impl
      <3> QED BY <1>2, <3>1, <3>2 DEF Selection
    <2>2. CASE pc' # "reap" BY <1>2, <2>2 DEF Selection
    <2> QED BY <2>1, <2>2 DEF ReapFrom
  <1>8. Quiescence' BY <1>0 DEF Quiescence
  <1> QED BY <1>4, <1>6, <1>7, <1>8 DEF SchedInv

\* Cleanup and the destructor stop the actors before anything else.
LEMMA CleanupInv ==
  ASSUME TypeOK, SchedInv,
         CleanupEnter \/ DrainExit \/ ReapJoin \/ CleanupReturn \/ DestroyJoin
  PROVE  SchedInv'
  <1> USE DEF SchedInv
  <1>1. CASE CleanupEnter
    <2>1. /\ pc = "cleanup" /\ UNCHANGED <<schedule, actor, report>>
          /\ impl'.constructed = impl.constructed /\ impl'.initialized = impl.initialized
          /\ impl'.closed
          /\ shared.stopping => shared'.stopping
          /\ IF impl.constructed THEN pc' = "drain" /\ shared'.stopping
             ELSE pc' = "idle" /\ shared' = shared
      BY <1>1 DEF CleanupEnter, StopActors, TypeOK, Impl
    <2>2. Lifecycle' BY <2>1 DEF Lifecycle
    <2>3. Started' BY <2>1 DEF Started
    <2>4. Selection' BY <2>1 DEF Selection
    <2>5. ~shared'.stopping => \A a \in Actors : Quiet(actor[a])
      BY <2>1 DEF Started, Coherence, Coherent, Quiet
    <2> QED BY <2>1, <2>2, <2>3, <2>4, <2>5, ControlInv
  <1>2. CASE DrainExit
    <2>1. pc = "drain" BY <1>2 DEF DrainExit, WaitOver
    <2>2. Coherence' BY <1>2 DEF DrainExit, Coherence, Coherent
    <2> QED BY <1>2, <2>1, <2>2, ReapFromInv DEF DrainExit, TypeOK
  <1>3. CASE ReapJoin
    <2> DEFINE a == impl.reaping
               state == [actor EXCEPT ![a].stage = "joined"]
    <2>0. /\ pc = "reap" /\ a \in Actors /\ actor[a].stage = "exited" /\ a + 1 \in Nat \ {0}
      BY <1>3, ScheduleAssumption DEF ReapJoin, Selection, Stage, Actors
    <2>1. actor' = state /\ ReapFrom(a + 1, state) /\ UNCHANGED <<schedule, shared>>
      BY <1>3 DEF ReapJoin
    <2>2. /\ state[a].stage = "joined" /\ state[a].phase = actor[a].phase
          /\ \A b \in Actors : b # a => state[b] = actor[b]
      BY <2>0 DEF TypeOK, ActorState
    <2>3. state \in [Actors -> ActorState] BY <2>0, ActorFacts DEF TypeOK, Stages
    <2> HIDE DEF state, a
    <2>4. Coherence' BY <2>0, <2>1, <2>2 DEF Coherence, Coherent
    <2>5. \A b \in Actors : actor[b].stage \notin {"none", "spawned"} =>
                            state[b].stage \notin {"none", "spawned"}
      BY <2>2
    <2> QED BY <2>0, <2>1, <2>3, <2>4, <2>5, ReapFromInv
  <1>4. CASE CleanupReturn
    <2>1. /\ pc = "verdict" /\ pc' = "idle" /\ UNCHANGED <<schedule, actor, impl, shared>>
          /\ report'.observations = report.observations
      BY <1>4 DEF CleanupReturn, TypeOK, Report
    <2>2. Lifecycle' BY <2>1 DEF Lifecycle
    <2>3. Started' BY <2>1 DEF Started
    <2>4. Selection' BY <2>1 DEF Selection
    <2> QED BY <2>1, <2>2, <2>3, <2>4, ControlInv DEF Lifecycle
  <1>5. CASE DestroyJoin
    <2>1. /\ pc = "destroy" /\ pc' = "gone" /\ UNCHANGED <<schedule, impl, shared, report>>
          /\ shared.stopping
      BY <1>5 DEF DestroyJoin, Lifecycle
    <2>2. \A a \in Actors :
            /\ actor'[a].phase = actor[a].phase
            /\ actor'[a].stage = IF actor[a].stage = "none" THEN "none" ELSE "joined"
      BY <1>5 DEF DestroyJoin, TypeOK, ActorState
    <2>3. \A a \in Actors : actor[a].stage \in {"none", "exited", "joined"}
      BY <1>5 DEF DestroyJoin, Joinable, Stage
    <2>4. Coherence' BY <2>2, <2>3 DEF Coherence, Coherent
    <2>5. Lifecycle' BY <2>1 DEF Lifecycle
    <2>6. Started' BY <2>1, <2>2 DEF Started
    <2>7. Selection' BY <2>1 DEF Selection
    <2>8. Quiescence' BY <2>1 DEF Quiescence
    <2> QED BY <2>4, <2>5, <2>6, <2>7, <2>8
  <1> QED BY <1>1, <1>2, <1>3, <1>4, <1>5

\* Program::teardown.
LEMMA TeardownInv == ASSUME TypeOK, SchedInv, NEW ok \in BOOLEAN, Teardown(ok) PROVE SchedInv'
  <1> USE DEF SchedInv
  <1>1. /\ pc = "teardown" /\ pc' = "verdict" /\ UNCHANGED <<schedule, actor, shared, report>>
        /\ impl'.constructed = impl.constructed /\ impl'.initialized = impl.initialized
        /\ impl'.closed = impl.closed
    BY DEF Teardown, TypeOK, Impl
  <1>2. Lifecycle' BY <1>1 DEF Lifecycle
  <1>3. Started' BY <1>1 DEF Started
  <1>4. Selection' BY <1>1 DEF Selection
  <1> QED BY <1>1, <1>2, <1>3, <1>4, ControlInv DEF Lifecycle

IInv == TypeOK /\ SchedInv

\* Every step keeps the type and the scheduling invariant.
LEMMA StepInv == IInv /\ [Next]_vars => IInv'
  <1> SUFFICES ASSUME TypeOK, SchedInv, [Next]_vars PROVE TypeOK' /\ SchedInv'
    BY DEF IInv
  <1>0. /\ pc \in {"arrival", "joining"} => Expected.actor \in Actors
        /\ pc = "reap" => impl.reaping \in Actors
    BY DEF SchedInv, Selection
  <1>1. CASE Admit \/ Register \/ FactoryThrows \/ SpawnFails
    BY <1>1, TypeStart, StartInv
  <1>2. ASSUME NEW ok \in BOOLEAN, FactoryReturns(ok) \/ Observe(ok) \/ Teardown(ok)
        PROVE  TypeOK' /\ SchedInv'
    BY <1>2, TypeFactory, FactoryInv, TypeObserve, ObserveInv, TypeTeardown, TeardownInv
  <1>3. ASSUME NEW a \in Actors, Spawn(a) PROVE TypeOK' /\ SchedInv'
    BY <1>3, TypeSpawn, SpawnInv
  <1>4. CASE WaitPrepare \/ WaitSleep
    <2>1. SchedInv' BY <1>4, StillInv DEF WaitPrepare, WaitSleep, ctlVars, Failed
    <2> QED BY <1>4, <2>1, TypeWait
  <1>5. CASE BarrierExit BY <1>5, TypeWait, BarrierInv
  <1>6. CASE ArrivalExit
    <2>1. Expected.actor \in Actors BY <1>0, <1>6 DEF ArrivalExit, WaitOver
    <2> QED BY <1>6, <2>1, TypeArrivalExit, ArrivalInv
  <1>7. CASE JoinSelected
    <2>1. Expected.actor \in Actors BY <1>0, <1>7 DEF JoinSelected
    <2> QED BY <1>7, <2>1, TypeJoinSelected, JoinInv
  <1>8. CASE AdvanceReturn \/ RunReturns \/ RunThrows \/ Finish \/ CleanupCall \/ Destroy
    BY <1>8, TypeCalls, CallsInv
  <1>9. CASE CleanupEnter \/ DrainExit \/ ReapJoin \/ CleanupReturn \/ DestroyJoin
    BY <1>0, <1>9, TypeCleanup, CleanupInv
  <1>10. ASSUME NEW step \in Requests, Advance(step) PROVE TypeOK' /\ SchedInv'
    BY <1>10, TypeAdvance, AdvanceInv
  <1>11. CASE Environment BY <1>11, TypeEnvironment, EnvironmentInv
  <1>12. ASSUME NEW a \in Actors, WorkerRuntime(a) \/ Application(a) PROVE TypeOK' /\ SchedInv'
    BY <1>12, TypeRuntime, RuntimeInv, TypeApplication, ApplicationInv
  <1>13. CASE UNCHANGED vars
    <2>1. SchedInv' BY <1>13, StillInv DEF vars, ctlVars, Failed
    <2>2. TypeOK' BY <1>13 DEF vars, ctlVars, TypeOK
    <2> QED BY <2>1, <2>2
  <1> QED
    BY <1>1, <1>2, <1>3, <1>4, <1>5, <1>6, <1>7, <1>8, <1>9, <1>10, <1>11, <1>12, <1>13
    DEF Next, ControllerStep, OwnerCall, Terminated

-----------------------------------------------------------------------------
(* Theorems about the schedule *)

\* The structures of schedule.cpp keep their types in every execution.
THEOREM TypeCorrect == Spec => []TypeOK
  <1>1. Init => IInv BY TypeInit, InitInv DEF IInv
  <1>2. IInv => TypeOK BY DEF IInv
  <1> QED BY <1>1, <1>2, StepInv, PTL DEF Spec

\* Until the execution stops at most one actor executes application code, and
\* none before the initial observation (the permit protocol of advance); and
\* Program::observe runs only while every actor is parked or joined.
THEOREM OneAtATime == Spec => []Isolation
  <1>1. Init => IInv BY TypeInit, InitInv DEF IInv
  <1>2. IInv => SingleRunner
    <2> SUFFICES ASSUME IInv, ~shared.stopping
                 PROVE  /\ \A a, b \in Executing : a = b
                        /\ Executing # {} => report.observations # <<>>
      BY DEF SingleRunner
    <2>1. \A a \in Executing : a \in Actors /\ ~Quiet(actor[a])
      BY DEF Executing, Stage, Quiet
    <2>2. \A a \in Executing : MayBeBusy(a)
      BY <2>1 DEF IInv, SchedInv, Quiescence
    <2> QED BY <2>2 DEF MayBeBusy, IInv, SchedInv, Lifecycle
  <1>3. IInv => ObserverQuiescence
    <2> SUFFICES ASSUME IInv, pc = "observe", NEW a \in Actors
                 PROVE  \/ Stage(a) \in {"gate", "hook"} /\ actor[a].phase = "parked"
                        \/ Stage(a) = "joined" /\ actor[a].phase = "finished"
      BY DEF ObserverQuiescence
    <2>1. ~shared.stopping /\ actor[a].stage \notin {"none", "spawned"}
      BY DEF IInv, SchedInv, Lifecycle, Started
    <2>2. Quiet(actor[a]) BY <2>1, AllQuiet DEF IInv
    <2> QED BY <2>1, <2>2 DEF Quiet, Stage
  <1>4. IInv => Isolation BY <1>2, <1>3 DEF Isolation
  <1> QED BY <1>1, <1>4, StepInv, PTL DEF Spec

\* Every write of the outcome goes through "only if nothing failed before".
LEMMA Sticky ==
  ASSUME TypeOK, Failed, [Next]_vars
  PROVE  report'.outcome = report.outcome
  <1>0. /\ \A n : FirstFailure(report.outcome, n) = report.outcome
        /\ CheckLimits(report.outcome) = report.outcome
        /\ \A n : Fail(n) => report'.outcome = report.outcome
    BY LimitFacts DEF FirstFailure, Fail, Failed, TypeOK, Report
  <1>1. CASE Admit \/ Register \/ FactoryThrows \/ SpawnFails
    BY <1>0, <1>1 DEF Admit, Register, FactoryThrows, SpawnFails
  <1>2. ASSUME NEW ok \in BOOLEAN, FactoryReturns(ok) \/ Observe(ok) \/ Teardown(ok)
        PROVE  report'.outcome = report.outcome
    <2>1. CASE FactoryReturns(ok)
      BY <1>0, <2>1 DEF FactoryReturns, TypeOK, Report
    <2>2. CASE Observe(ok)
      <3>1. CheckLimits(ObserverVerdict(ok)) = report.outcome BY <1>0 DEF ObserverVerdict
      <3> QED BY <2>2, <3>1 DEF Observe, TypeOK, Report
    <2> QED BY <1>2, <2>1, <2>2 DEF Teardown
  <1>3. CASE BarrierExit
    BY <1>0, <1>3 DEF BarrierExit, TypeOK, Report
  <1>4. CASE ArrivalExit
    BY <1>0, <1>4 DEF ArrivalExit, TypeOK, Report, Failed
  <1>5. ASSUME NEW step \in Requests, Advance(step) PROVE report'.outcome = report.outcome
    BY <1>5 DEF Advance, CanAdvance
  <1>6. CASE DrainExit \/ ReapJoin
    BY <1>6 DEF DrainExit, ReapJoin, ReapFrom, TypeOK, Report
  <1>7. CASE CleanupReturn
    BY <1>7 DEF CleanupReturn, TypeOK, Report
  <1>8. CASE Finish
    BY <1>0, <1>8 DEF Finish
  <1>9. ASSUME NEW a \in Actors,
               WorkerRuntime(a) \/ Application(a) \/ ForeignArrive(a)
        PROVE  report'.outcome = report.outcome
    BY <1>0, <1>9 DEF WorkerRuntime, Application, ForeignArrive, WorkerPark, WorkerWake,
       WorkerReport, WorkerComplete, WorkerExit, Arrive, ArriveUndeclared, ArriveStopped,
       WorkerLeave
  <1>10. CASE UNCHANGED report
    BY <1>10
  <1>11. \/ UNCHANGED report \/ Admit \/ Register \/ FactoryThrows \/ SpawnFails
         \/ \E ok \in BOOLEAN : FactoryReturns(ok) \/ Observe(ok)
         \/ \E step \in Requests : Advance(step)
         \/ BarrierExit \/ ArrivalExit \/ DrainExit \/ ReapJoin \/ CleanupReturn \/ Finish
         \/ \E a \in Actors : WorkerRuntime(a) \/ Application(a) \/ ForeignArrive(a)
    <2>1. CASE UNCHANGED vars \/ Terminated BY <2>1 DEF vars, Terminated
    <2>2. CASE ControllerStep
      BY <2>2 DEF ControllerStep, Teardown, Spawn, WaitPrepare, WaitSleep, JoinSelected,
         AdvanceReturn, RunReturns, RunThrows, CleanupEnter, DestroyJoin
    <2>3. CASE OwnerCall BY <2>3 DEF OwnerCall, CleanupCall, Destroy
    <2>4. CASE Environment
      BY <2>4 DEF Environment, WaitWake, DeadlinePasses, BudgetPasses, RequestStop, StopNotify
    <2> QED BY <2>1, <2>2, <2>3, <2>4 DEF Next
  <1> QED BY <1>1, <1>2, <1>3, <1>4, <1>5, <1>6, <1>7, <1>8, <1>9, <1>10, <1>11

\* The first failure that Shared::fail records is the one reported for ever,
\* through cleanup, its retries and late calls of the hook.
THEOREM FirstFailureStays == Spec => PrimaryFailureSticky
  <1>1. TypeOK /\ [Next]_vars => [Failed => report'.outcome = report.outcome]_vars
    BY Sticky
  <1> QED BY <1>1, TypeCorrect, PTL DEF Spec, PrimaryFailureSticky

-----------------------------------------------------------------------------
(* The cleanup path *)

\* How often teardown ran follows from teardown_attempted and the controller.
TearInv ==
  /\ impl.teardown_attempted => impl.constructed /\ impl.closed /\ Joinable = {}
  /\ pc = "teardown" => impl.teardown_attempted
  /\ pc # "gone" =>
       history.teardowns = IF impl.teardown_attempted /\ pc # "teardown" THEN 1 ELSE 0
  /\ pc = "gone" => Joinable = {} /\ history.teardowns = IF impl.constructed THEN 1 ELSE 0

\* The cleanup part of the report against the threads really owned.
StatusInv ==
  /\ pc \in {"teardown", "verdict"} => report.remaining = Joinable
  /\ pc = "verdict" /\ Joinable = {} => impl.teardown_attempted
  /\ report.cleanup # "not_started" => impl.closed /\ impl.constructed
  /\ report.cleanup # "not_started" /\ pc \in {"idle", "cleanup", "drain"} =>
       /\ report.remaining = Joinable
       /\ report.cleanup = "incomplete" <=> Joinable # {}
       /\ report.cleanup = "confirmed" => impl.teardown_attempted

CleanInv == TearInv /\ StatusInv

\* It holds initially: nothing is owned, nothing was torn down.
LEMMA CleanInit == Init => CleanInv
  BY DEF Init, CleanInv, TearInv, StatusInv

\* Steps of an execution that no cleanup has closed.
LEMMA CleanOpen ==
  ASSUME CleanInv, ~impl.closed, pc # "gone",
         impl'.teardown_attempted = impl.teardown_attempted,
         report'.cleanup = report.cleanup, UNCHANGED history,
         pc' \notin {"teardown", "verdict", "gone"}
  PROVE  CleanInv'
  <1>1. ~impl.teardown_attempted /\ history.teardowns = 0 /\ report.cleanup = "not_started"
    BY DEF CleanInv, TearInv, StatusInv
  <1> QED BY <1>1 DEF CleanInv, TearInv, StatusInv

\* Steps that leave the set of owned threads, the report's cleanup part and
\* the teardown alone.
LEMMA CleanStill ==
  ASSUME CleanInv, Joinable' = Joinable,
         impl'.constructed = impl.constructed, impl.closed => impl'.closed,
         impl'.teardown_attempted = impl.teardown_attempted,
         report'.cleanup = report.cleanup, report'.remaining = report.remaining,
         history'.teardowns = history.teardowns,
         pc' = pc \/ (pc \in {"idle", "cleanup"} /\ pc' \in {"idle", "cleanup", "drain", "destroy"})
  PROVE  CleanInv'
  BY DEF CleanInv, TearInv, StatusInv

\* Shared::fail touches no cleanup field.
LEMMA FailKeeps ==
  ASSUME TypeOK, NEW n, Fail(n)
  PROVE  report'.cleanup = report.cleanup /\ report'.remaining = report.remaining
  BY DEF Fail, TypeOK, Report

\* A worker's own steps neither start nor join a thread.
LEMMA WorkerKeeps ==
  ASSUME TypeOK, NEW a \in Actors, NEW s, NEW x,
         s \notin {"none", "joined"}, actor[a].stage \notin {"none", "joined"},
         actor' = [actor EXCEPT ![a] = x], x.stage = s
  PROVE  Joinable' = Joinable
  <1>1. actor'[a].stage = s /\ \A b \in Actors : b # a => actor'[b] = actor[b]
    BY DEF TypeOK
  <1> QED BY <1>1 DEF Joinable, Stage

\* The same for a move ...
LEMMA MoveKeeps ==
  ASSUME TypeOK, NEW a \in Actors, NEW S, Move(a, S), S \cap {"none", "joined"} = {},
         actor[a].stage \notin {"none", "joined"}
  PROVE  Joinable' = Joinable
  <1>1. PICK s \in S : actor' = [actor EXCEPT ![a].stage = s] BY DEF Move
  <1>2. [actor[a] EXCEPT !.stage = s].stage = s BY DEF TypeOK, ActorState
  <1>3. actor' = [actor EXCEPT ![a] = [actor[a] EXCEPT !.stage = s]] BY <1>1
  <1> QED BY <1>2, <1>3, WorkerKeeps

\* ... for the stop exception ...
LEMMA AfterStopKeeps == ASSUME NEW a PROVE AfterStop(a) \cap {"none", "joined"} = {}
  BY DEF AfterStop

\* ... and for standing at a checkpoint.
LEMMA AtKeeps ==
  ASSUME TypeOK, NEW a \in Actors, NEW n, NEW x, At(a, n, x),
         x.stage \notin {"none", "joined"}, actor[a].stage \notin {"none", "joined"}
  PROVE  Joinable' = Joinable /\ history'.teardowns = history.teardowns
  BY WorkerKeeps DEF At, TypeOK, History

\* The thread body of a worker.
LEMMA CleanRuntime == ASSUME TypeOK, CleanInv, NEW a \in Actors, WorkerRuntime(a) PROVE CleanInv'
  <1>1. UNCHANGED <<pc, impl>>
    BY DEF WorkerRuntime, WorkerPark, WorkerWake, WorkerReport, WorkerComplete, WorkerExit, ctlVars
  <1>2. report'.cleanup = report.cleanup /\ report'.remaining = report.remaining
    BY FailKeeps
    DEF WorkerRuntime, WorkerPark, WorkerWake, WorkerReport, WorkerComplete, WorkerExit
  <1>3. Joinable' = Joinable /\ history'.teardowns = history.teardowns
    <2>1. CASE WorkerPark(a)
      <3>1. actor' = [actor EXCEPT ![a] = [actor[a] EXCEPT !.stage = "gate", !.phase = "parked"]]
        BY <2>1 DEF WorkerPark
      <3>2. [actor[a] EXCEPT !.stage = "gate", !.phase = "parked"].stage = "gate"
        BY DEF TypeOK, ActorState
      <3> QED BY <2>1, <3>1, <3>2, WorkerKeeps DEF WorkerPark, Stage
    <2>2. CASE WorkerWake(a)
      <3>1. \E S : Move(a, S) /\ S \cap {"none", "joined"} = {}
        BY <2>2, AfterStopKeeps DEF WorkerWake
      <3> QED BY <2>2, <3>1, MoveKeeps DEF WorkerWake, Stage
    <2>3. CASE WorkerReport(a)
      BY <2>3, MoveKeeps DEF WorkerReport, Stage
    <2>4. CASE WorkerComplete(a)
      BY <2>4, AtKeeps DEF WorkerComplete, Stage
    <2>5. CASE WorkerExit(a)
      BY <2>5, MoveKeeps DEF WorkerExit, Stage
    <2> QED BY <2>1, <2>2, <2>3, <2>4, <2>5 DEF WorkerRuntime
  <1> QED BY <1>1, <1>2, <1>3, CleanStill

\* Application code in a worker.
LEMMA CleanApplication ==
  ASSUME TypeOK, CleanInv, NEW a \in Actors, Application(a) PROVE CleanInv'
  <1>1. UNCHANGED <<pc, impl>>
    BY DEF Application, Arrive, ArriveUndeclared, ArriveStopped, WorkerLeave, ctlVars
  <1>2. report'.cleanup = report.cleanup /\ report'.remaining = report.remaining
    BY FailKeeps DEF Application, Arrive, ArriveUndeclared, ArriveStopped, WorkerLeave
  <1>3. actor[a].stage = "app"
    BY DEF Application, Arrive, ArriveUndeclared, ArriveStopped, WorkerLeave, InTurn, Stage
  <1>4. Joinable' = Joinable /\ history'.teardowns = history.teardowns
    <2>1. ASSUME NEW c \in Checkpoints, Arrive(a, c)
          PROVE  Joinable' = Joinable /\ history'.teardowns = history.teardowns
      BY <1>3, <2>1, AtKeeps DEF Arrive
    <2>2. ASSUME NEW c \in UndeclaredNames, ArriveUndeclared(a, c)
          PROVE  Joinable' = Joinable /\ history'.teardowns = history.teardowns
      BY <1>3, <2>2, AtKeeps, AfterStopKeeps DEF ArriveUndeclared
    <2>3. CASE ArriveStopped(a)
      BY <1>3, <2>3, MoveKeeps, AfterStopKeeps DEF ArriveStopped
    <2>4. CASE WorkerLeave(a)
      BY <1>3, <2>4, MoveKeeps DEF WorkerLeave
    <2> QED BY <2>1, <2>2, <2>3, <2>4 DEF Application
  <1> QED BY <1>1, <1>2, <1>4, CleanStill

\* Clock, stop token, foreign callers.
LEMMA CleanEnvironment == ASSUME TypeOK, CleanInv, Environment PROVE CleanInv'
  <1>1. CASE WaitWake \/ DeadlinePasses \/ BudgetPasses \/ RequestStop \/ StopNotify
    BY <1>1, CleanStill
    DEF WaitWake, DeadlinePasses, BudgetPasses, RequestStop, StopNotify, ctlVars, Joinable, Stage
  <1>2. ASSUME NEW a \in Actors, ForeignArrive(a) PROVE CleanInv'
    <2>1. /\ UNCHANGED <<pc, impl, history>>
          /\ report'.cleanup = report.cleanup /\ report'.remaining = report.remaining
      BY <1>2, FailKeeps DEF ForeignArrive, ctlVars
    <2>2. Joinable' = Joinable
      BY <1>2, MoveKeeps, AfterStopKeeps DEF ForeignArrive, Stage, Joinable
    <2> QED BY <2>1, <2>2, CleanStill
  <1> QED BY <1>1, <1>2 DEF Environment

\* start and advance work on an execution that is not closed.
LEMMA CleanDriving ==
  ASSUME TypeOK, SchedInv, CleanInv,
         \/ Admit \/ Register \/ FactoryThrows \/ SpawnFails
         \/ \E ok \in BOOLEAN : FactoryReturns(ok) \/ Observe(ok)
         \/ \E a \in Actors : Spawn(a)
         \/ \E step \in Requests : Advance(step)
         \/ BarrierExit \/ ArrivalExit \/ JoinSelected \/ AdvanceReturn \/ RunThrows \/ Finish
  PROVE  CleanInv'
  <1>1. ~impl.closed /\ pc # "gone"
    BY DEF SchedInv, Lifecycle, Admit, Register, FactoryThrows, SpawnFails, FactoryReturns,
       Observe, Spawn, Advance, CanAdvance, BarrierExit, ArrivalExit, WaitOver, JoinSelected,
       AdvanceReturn, RunThrows, Finish
  <1>2. impl'.teardown_attempted = impl.teardown_attempted
    BY DEF TypeOK, Impl, Admit, Register, FactoryThrows, SpawnFails, FactoryReturns,
       Observe, Spawn, Advance, BarrierExit, ArrivalExit, JoinSelected,
       AdvanceReturn, RunThrows, Finish
  <1>3. report'.cleanup = report.cleanup
    <2>1. CASE Admit \/ Register \/ FactoryThrows \/ SpawnFails \/ Finish
      BY <2>1, FailKeeps DEF Admit, Register, FactoryThrows, SpawnFails, Finish
    <2>2. CASE \/ \E a \in Actors : Spawn(a)
               \/ JoinSelected \/ AdvanceReturn \/ RunThrows
      BY <2>2 DEF Spawn, JoinSelected, AdvanceReturn, RunThrows
    <2>3. CASE \/ \E ok \in BOOLEAN : FactoryReturns(ok) \/ Observe(ok)
               \/ BarrierExit \/ ArrivalExit
      BY <2>3 DEF TypeOK, Report, FactoryReturns, Observe, BarrierExit, ArrivalExit
    <2>4. CASE \E step \in Requests : Advance(step)
      BY <2>4 DEF TypeOK, Report, Advance
    <2> QED BY <2>1, <2>2, <2>3, <2>4
  <1>4. UNCHANGED history /\ pc' \notin {"teardown", "verdict", "gone"}
    BY DEF Admit, Register, FactoryThrows, SpawnFails, FactoryReturns, AfterMatch,
       Observe, Spawn, Advance, BarrierExit, ArrivalExit, JoinSelected,
       AdvanceReturn, RunThrows, Finish
  <1> QED BY <1>1, <1>2, <1>3, <1>4, CleanOpen

\* Calls that begin, and waits.
LEMMA CleanCalls ==
  ASSUME TypeOK, CleanInv,
         WaitPrepare \/ WaitSleep \/ RunReturns \/ CleanupCall \/ Destroy \/ CleanupEnter
  PROVE  CleanInv'
  <1>1. UNCHANGED <<actor, report, history>>
    BY DEF WaitPrepare, WaitSleep, RunReturns, CleanupCall, Destroy, CleanupEnter
  <1>2. /\ impl'.constructed = impl.constructed
        /\ impl'.teardown_attempted = impl.teardown_attempted
        /\ impl.closed => impl'.closed
    BY DEF WaitPrepare, WaitSleep, RunReturns, CleanupCall, Destroy, CleanupEnter, ctlVars,
       TypeOK, Impl
  <1>3. pc' = pc \/ (pc \in {"idle", "cleanup"} /\ pc' \in {"idle", "cleanup", "drain", "destroy"})
    BY DEF WaitPrepare, WaitSleep, RunReturns, CleanupCall, Destroy, CleanupEnter, ctlVars
  <1>4. Joinable' = Joinable BY <1>1 DEF Joinable, Stage
  <1> QED BY <1>1, <1>2, <1>3, <1>4, CleanStill

\* The end of the join loop: the teardown is due exactly when nothing is left.
LEMMA CleanReapFrom ==
  ASSUME TypeOK, SchedInv, CleanInv, NEW from, NEW state, ReapFrom(from, state), actor' = state,
         pc \in {"drain", "reap"}, UNCHANGED history,
         impl.teardown_attempted => Joinable' = {}
  PROVE  CleanInv'
  <1> DEFINE left == {a \in Actors : state[a].stage \notin {"none", "joined"}}
  <1>0. impl.constructed /\ impl.closed BY DEF SchedInv, Lifecycle
  <1>1. Joinable' = left BY DEF Joinable, Stage
  <1>2. history.teardowns = IF impl.teardown_attempted THEN 1 ELSE 0
    BY DEF CleanInv, TearInv
  <1> HIDE DEF left
  <1>3. CASE /\ pc' = "reap" /\ UNCHANGED report
             /\ impl'.constructed = impl.constructed /\ impl'.closed = impl.closed
             /\ impl'.teardown_attempted = impl.teardown_attempted
    BY <1>0, <1>1, <1>2, <1>3 DEF CleanInv, TearInv, StatusInv
  <1>4. CASE /\ report' = [report EXCEPT !.remaining = left]
             /\ impl' = [impl EXCEPT !.teardown_attempted = impl.teardown_attempted \/ left = {}]
             /\ pc' = IF TeardownDue(left) THEN "teardown" ELSE "verdict"
    <2>1. /\ report'.remaining = left /\ report'.cleanup = report.cleanup
          /\ impl'.constructed = impl.constructed /\ impl'.closed = impl.closed
          /\ impl'.teardown_attempted = (impl.teardown_attempted \/ left = {})
      BY <1>4 DEF TypeOK, Report, Impl
    <2>2. TearInv'
      BY <1>0, <1>1, <1>2, <1>4, <2>1 DEF TearInv, TeardownDue
    <2>3. StatusInv'
      BY <1>0, <1>1, <1>4, <2>1 DEF CleanInv, StatusInv, TeardownDue
    <2> QED BY <2>2, <2>3 DEF CleanInv
  <1> QED BY <1>3, <1>4 DEF ReapFrom, left, TypeOK, Impl

\* The drain and the joins lead to the end of the loop.
LEMMA CleanReap == ASSUME TypeOK, SchedInv, CleanInv, DrainExit \/ ReapJoin PROVE CleanInv'
  <1>1. CASE DrainExit
    <2>1. pc = "drain" /\ Joinable' = Joinable
      BY <1>1 DEF DrainExit, WaitOver, Joinable, Stage
    <2> QED BY <1>1, <2>1, CleanReapFrom DEF DrainExit, CleanInv, TearInv
  <1>2. CASE ReapJoin
    <2>1. pc = "reap" /\ ~impl.teardown_attempted
      BY <1>2 DEF ReapJoin, SchedInv, Selection, CleanInv, TearInv, Joinable, Stage
    <2> QED BY <1>2, <2>1, CleanReapFrom DEF ReapJoin
  <1> QED BY <1>1, <1>2

\* The one teardown of a cleanup.
LEMMA CleanTeardown == ASSUME TypeOK, CleanInv, NEW ok \in BOOLEAN, Teardown(ok) PROVE CleanInv'
  <1>1. /\ pc = "teardown" /\ pc' = "verdict" /\ UNCHANGED <<actor, report>>
        /\ impl'.constructed = impl.constructed /\ impl'.closed = impl.closed
        /\ impl'.teardown_attempted = impl.teardown_attempted
        /\ history'.teardowns = history.teardowns + 1
    BY DEF Teardown, TypeOK, Impl, History
  <1>2. Joinable' = Joinable BY <1>1 DEF Joinable, Stage
  <1> QED BY <1>1, <1>2 DEF CleanInv, TearInv, StatusInv

\* The verdict reports what is left.
LEMMA CleanReturn == ASSUME TypeOK, SchedInv, CleanInv, CleanupReturn PROVE CleanInv'
  <1>1. /\ pc = "verdict" /\ pc' = "idle" /\ UNCHANGED <<actor, impl, history>>
        /\ report'.cleanup = CleanupVerdict /\ report'.remaining = report.remaining
    BY DEF CleanupReturn, TypeOK, Report
  <1>2. Joinable' = Joinable BY <1>1 DEF Joinable, Stage
  <1>3. impl.constructed /\ impl.closed BY <1>1 DEF SchedInv, Lifecycle
  <1>4. /\ CleanupVerdict = "incomplete" <=> report.remaining # {}
        /\ CleanupVerdict = "confirmed" => report.remaining = {}
    BY DEF CleanupVerdict
  <1> QED BY <1>1, <1>2, <1>3, <1>4 DEF CleanInv, TearInv, StatusInv

\* The destructor joins everything and tears down what no cleanup did.
LEMMA CleanDestroy == ASSUME TypeOK, CleanInv, DestroyJoin PROVE CleanInv'
  <1>1. /\ pc = "destroy" /\ pc' = "gone" /\ UNCHANGED <<impl, report>>
        /\ history'.teardowns = IF impl.constructed /\ ~impl.teardown_attempted
                                THEN history.teardowns + 1 ELSE history.teardowns
    BY DEF DestroyJoin, TypeOK, History
  <1>2. \A a \in Actors : actor'[a].stage \in {"none", "joined"}
    BY DEF DestroyJoin, TypeOK, ActorState
  <1>3. Joinable' = {} BY <1>2 DEF Joinable, Stage
  <1>4. history.teardowns = IF impl.teardown_attempted THEN 1 ELSE 0
    BY <1>1 DEF CleanInv, TearInv
  <1>5. impl.teardown_attempted => impl.constructed BY DEF CleanInv, TearInv
  <1> QED BY <1>1, <1>3, <1>4, <1>5 DEF CleanInv, TearInv, StatusInv

\* Every step keeps the cleanup invariant.
LEMMA CleanStep == IInv /\ CleanInv /\ [Next]_vars => CleanInv'
  <1> SUFFICES ASSUME TypeOK, SchedInv, CleanInv, [Next]_vars PROVE CleanInv'
    BY DEF IInv
  <1>1. CASE ControllerStep
    BY <1>1, CleanDriving, CleanCalls, CleanReap, CleanTeardown, CleanReturn, CleanDestroy
    DEF ControllerStep
  <1>2. CASE OwnerCall BY <1>2, CleanDriving, CleanCalls DEF OwnerCall
  <1>3. CASE Environment BY <1>3, CleanEnvironment
  <1>4. ASSUME NEW a \in Actors, WorkerRuntime(a) \/ Application(a) PROVE CleanInv'
    BY <1>4, CleanRuntime, CleanApplication
  <1>5. CASE UNCHANGED vars
    BY <1>5, CleanStill DEF vars, ctlVars, Joinable, Stage
  <1> QED BY <1>1, <1>2, <1>3, <1>4, <1>5 DEF Next, Terminated

\* The cleanup invariant holds in every execution.
LEMMA CleanInduction == Spec => [](IInv /\ CleanInv)
  <1>1. Init => IInv /\ CleanInv BY TypeInit, InitInv, CleanInit DEF IInv
  <1>2. IInv /\ CleanInv /\ [Next]_vars => (IInv /\ CleanInv)' BY StepInv, CleanStep
  <1> QED BY <1>1, <1>2, PTL DEF Spec

\* Teardown runs at most once, after every thread was joined, and exactly once
\* by the end of a handle that built a program (cleanup and ~Execution).
THEOREM TeardownTruth == Spec => []TeardownOnceAfterJoin
  <1>1. IInv /\ CleanInv => TeardownOnceAfterJoin
    <2>1. IInv => history.teardowns \in Nat BY DEF IInv, TypeOK, History
    <2> QED BY <2>1 DEF CleanInv, TearInv, TeardownOnceAfterJoin
  <1> QED BY <1>1, CleanInduction, PTL

\* Between calls the cleanup status and the remaining actors are the truth about
\* the threads still owned, and a confirmed cleanup tore down (cleanup).
THEOREM StatusIsTrue == Spec => []CleanupTruthful
  <1>1. IInv /\ CleanInv => CleanupTruthful
    BY DEF CleanInv, TearInv, StatusInv, CleanupTruthful
  <1> QED BY <1>1, CleanInduction, PTL

-----------------------------------------------------------------------------
(* What each step may do to the evidence *)

\* Nothing is recorded and no step of the schedule is taken; only the barrier
\* leads to an observation.
Still ==
  /\ UNCHANGED schedule /\ impl'.next_step = impl.next_step
  /\ impl'.initialized = impl.initialized
  /\ report'.events = report.events /\ report'.observations = report.observations
  /\ report'.schedule_completed = report.schedule_completed
  /\ pc' = pc \/ {pc, pc'} \cap {"arrival", "joining"} = {}
  /\ (pc' = "observe" <=> pc = "observe") \/ ~impl.initialized

\* Shared::fail touches none of it.
LEMMA FailStill ==
  ASSUME TypeOK, NEW n, Fail(n)
  PROVE  /\ report'.events = report.events /\ report'.observations = report.observations
         /\ report'.schedule_completed = report.schedule_completed
  BY DEF Fail, TypeOK, Report

\* The steps of start.
LEMMA StartStill ==
  ASSUME TypeOK, SchedInv,
         \/ Admit \/ Register \/ FactoryThrows \/ SpawnFails \/ BarrierExit
         \/ \E ok \in BOOLEAN : FactoryReturns(ok)
         \/ \E a \in Actors : Spawn(a)
  PROVE  Still
  <1>1. /\ report'.events = report.events /\ report'.observations = report.observations
        /\ report'.schedule_completed = report.schedule_completed
    <2>1. CASE Admit \/ Register \/ FactoryThrows \/ SpawnFails
      BY <2>1, FailStill DEF Admit, Register, FactoryThrows, SpawnFails
    <2>2. CASE BarrierExit \/ \E ok \in BOOLEAN : FactoryReturns(ok)
      BY <2>2 DEF BarrierExit, FactoryReturns, TypeOK, Report
    <2> QED BY <2>1, <2>2 DEF Spawn
  <1>2. impl'.next_step = impl.next_step /\ impl'.initialized = impl.initialized
    BY DEF Admit, Register, FactoryThrows, SpawnFails, BarrierExit, FactoryReturns, Spawn, TypeOK,
       Impl
  <1>3. /\ UNCHANGED schedule /\ {pc, pc'} \cap {"arrival", "joining"} = {}
        /\ (pc' = "observe" <=> pc = "observe") \/ pc = "barrier"
    BY DEF Admit, Register, FactoryThrows, SpawnFails, BarrierExit, FactoryReturns, Spawn, WaitOver
  <1>4. pc = "barrier" => ~impl.initialized BY DEF SchedInv, Lifecycle
  <1> QED BY <1>1, <1>2, <1>3, <1>4 DEF Still

\* The calls after it, other than advance.
LEMMA CallsStill ==
  ASSUME TypeOK,
         \/ WaitPrepare \/ WaitSleep \/ AdvanceReturn \/ RunReturns \/ RunThrows \/ Finish
         \/ CleanupCall \/ Destroy \/ CleanupEnter \/ DrainExit \/ ReapJoin \/ CleanupReturn
         \/ DestroyJoin \/ \E ok \in BOOLEAN : Teardown(ok)
  PROVE  Still
  <1>1. CASE WaitPrepare \/ WaitSleep \/ AdvanceReturn \/ RunReturns \/ RunThrows \/ CleanupCall
              \/ Destroy \/ DestroyJoin
    BY <1>1 DEF WaitPrepare, WaitSleep, AdvanceReturn, RunReturns, RunThrows, CleanupCall, Destroy,
       DestroyJoin, ctlVars, Still
  <1>2. CASE Finish
    BY <1>2, FailStill DEF Finish, Still
  <1>3. CASE CleanupEnter \/ \E ok \in BOOLEAN : Teardown(ok)
    BY <1>3 DEF CleanupEnter, Teardown, TypeOK, Impl, Still
  <1>4. CASE CleanupReturn
    BY <1>4 DEF CleanupReturn, TypeOK, Report, Still
  <1>5. ASSUME NEW from, NEW state, ReapFrom(from, state), UNCHANGED schedule, pc \in {"drain", "reap"}
        PROVE  Still
    <2>1. /\ report'.events = report.events /\ report'.observations = report.observations
          /\ report'.schedule_completed = report.schedule_completed
      BY <1>5 DEF ReapFrom, TypeOK, Report
    <2>2. impl'.next_step = impl.next_step /\ impl'.initialized = impl.initialized
      BY <1>5 DEF ReapFrom, TypeOK, Impl
    <2>3. pc' \in {"reap", "teardown", "verdict"} BY <1>5 DEF ReapFrom
    <2> QED BY <1>5, <2>1, <2>2, <2>3 DEF Still
  <1>6. CASE DrainExit BY <1>5, <1>6 DEF DrainExit, WaitOver
  <1>7. CASE ReapJoin BY <1>5, <1>7 DEF ReapJoin
  <1> QED BY <1>1, <1>2, <1>3, <1>4, <1>6, <1>7

\* Workers and the environment.
LEMMA OthersStill ==
  ASSUME TypeOK, Environment \/ \E a \in Actors : WorkerRuntime(a) \/ Application(a)
  PROVE  Still /\ UNCHANGED <<pc, impl>>
  <1>1. UNCHANGED <<schedule, pc, impl>>
    BY DEF Environment, WorkerRuntime, Application, WaitWake, DeadlinePasses, BudgetPasses,
       RequestStop, StopNotify, ForeignArrive, WorkerPark, WorkerWake, WorkerReport,
       WorkerComplete, WorkerExit, Arrive, ArriveUndeclared, ArriveStopped, WorkerLeave, ctlVars
  <1>2. UNCHANGED report \/ \E n : Fail(n)
    BY DEF Environment, WorkerRuntime, Application, WaitWake, DeadlinePasses, BudgetPasses,
       RequestStop, StopNotify, ForeignArrive, WorkerPark, WorkerWake, WorkerReport,
       WorkerComplete, WorkerExit, Arrive, ArriveUndeclared, ArriveStopped, WorkerLeave
  <1> QED BY <1>1, <1>2, FailStill DEF Still

\* Every step of an execution.
LEMMA StepKinds ==
  ASSUME TypeOK, SchedInv, [Next]_vars
  PROVE  \/ Still \/ ArrivalExit \/ JoinSelected
         \/ \E step \in Requests : Advance(step)
         \/ \E ok \in BOOLEAN : Observe(ok)
  <1>1. CASE UNCHANGED vars BY <1>1 DEF vars, ctlVars, Still
  <1> QED BY <1>1, StartStill, CallsStill, OthersStill DEF Next, ControllerStep, OwnerCall, Terminated

\* A stop request or a deadline that comes before completion wins over it: the
\* schedule completes only in an observation that checks both (CheckLimits).
THEOREM LimitsWin == Spec => LimitsBeatCompletion
  <1>1. IInv /\ [Next]_vars =>
          [(shared.cancelled \/ env.expired) /\ ~report.schedule_completed =>
             ~report'.schedule_completed]_vars
    <2> SUFFICES ASSUME TypeOK, SchedInv, [Next]_vars, shared.cancelled \/ env.expired,
                        ~report.schedule_completed
                 PROVE  ~report'.schedule_completed
      BY DEF IInv
    <2>1. CASE Still BY <2>1 DEF Still
    <2>2. CASE ArrivalExit \/ JoinSelected BY <2>2 DEF ArrivalExit, JoinSelected, TypeOK, Report
    <2>3. CASE \E step \in Requests : Advance(step) BY <2>3 DEF Advance, TypeOK, Report
    <2>4. ASSUME NEW ok \in BOOLEAN, Observe(ok) PROVE ~report'.schedule_completed
      <3>1. CheckLimits(ObserverVerdict(ok)) # "completed" BY DEF CheckLimits
      <3> QED BY <2>4, <3>1 DEF Observe, TypeOK, Report
    <2> QED BY <2>1, <2>2, <2>3, <2>4, StepKinds
  <1> QED BY <1>1, CleanInduction, PTL DEF Spec, LimitsBeatCompletion

-----------------------------------------------------------------------------
(* No arrival is made up *)

\* The arrival that advance waits for was reached in its interval.
ReachInv ==
  /\ NoFabricatedArrival
  /\ pc = "arrival" /\ actor[Expected.actor].arrival # Unset =>
       <<impl.next_step, Expected.actor, actor[Expected.actor].arrival>> \in history.reached

\* What was reached stays reached, and an actor's arrival is replaced where it stands.
Reaches ==
  /\ history.reached \subseteq history'.reached
  /\ \A b \in Actors : \/ actor'[b].arrival = actor[b].arrival
                       \/ <<impl.next_step, b, actor'[b].arrival>> \in history'.reached

\* Workers standing at a checkpoint ...
LEMMA AtReaches ==
  ASSUME TypeOK, NEW a \in Actors, NEW n, NEW x, At(a, n, x), x.arrival \in {n, actor[a].arrival}
  PROVE  Reaches
  <1>1. /\ history'.reached = history.reached \cup {<<impl.next_step, a, n>>}
        /\ actor'[a] = x /\ \A b \in Actors : b # a => actor'[b] = actor[b]
    BY DEF At, TypeOK, History
  <1> QED BY <1>1 DEF Reaches

\* ... and moving ...
LEMMA MoveReaches ==
  ASSUME TypeOK, NEW a \in Actors, NEW S, Move(a, S), UNCHANGED history
  PROVE  Reaches
  BY DEF Move, Reaches, TypeOK, ActorState

\* ... and every other step but a permit.
LEMMA StepReaches ==
  ASSUME TypeOK, SchedInv, [Next]_vars, \A step \in Requests : ~Advance(step)
  PROVE  Reaches
  <1>1. CASE UNCHANGED <<actor, history>> BY <1>1 DEF Reaches
  <1>2. ASSUME NEW a \in Actors, WorkerRuntime(a) PROVE Reaches
    <2>1. CASE WorkerPark(a)
      BY <2>1 DEF WorkerPark, Reaches, TypeOK, ActorState
    <2>2. CASE WorkerWake(a) \/ WorkerReport(a) \/ WorkerExit(a)
      BY <2>2, MoveReaches DEF WorkerWake, WorkerReport, WorkerExit
    <2>3. CASE WorkerComplete(a)
      BY <2>3, AtReaches DEF WorkerComplete
    <2> QED BY <1>2, <2>1, <2>2, <2>3 DEF WorkerRuntime
  <1>3. ASSUME NEW a \in Actors, Application(a) PROVE Reaches
    <2>1. CASE ArriveStopped(a) \/ WorkerLeave(a)
      BY <2>1, MoveReaches DEF ArriveStopped, WorkerLeave
    <2>2. CASE \E c \in Checkpoints : Arrive(a, c)
      BY <2>2, AtReaches DEF Arrive
    <2>3. CASE \E c \in UndeclaredNames : ArriveUndeclared(a, c)
      BY <2>3, AtReaches DEF ArriveUndeclared
    <2> QED BY <1>3, <2>1, <2>2, <2>3 DEF Application
  <1>4. CASE Environment
    BY <1>1, <1>4, MoveReaches DEF Environment, WaitWake, DeadlinePasses, BudgetPasses, RequestStop,
       StopNotify, ForeignArrive
  <1>5. CASE \/ \E a \in Actors : Spawn(a)
             \/ JoinSelected \/ ReapJoin \/ DestroyJoin
    <2>1. CASE \E a \in Actors : Spawn(a)
      BY <2>1 DEF Spawn, Reaches, TypeOK, ActorState
    <2>2. CASE JoinSelected
      BY <2>2 DEF JoinSelected, Reaches, TypeOK, ActorState, SchedInv, Selection
    <2>3. CASE ReapJoin
      BY <2>3 DEF ReapJoin, Reaches, TypeOK, ActorState, SchedInv, Selection
    <2>4. CASE DestroyJoin
      BY <2>4 DEF DestroyJoin, Reaches, TypeOK, ActorState, History
    <2> QED BY <1>5, <2>1, <2>2, <2>3, <2>4
  <1>6. CASE \E ok \in BOOLEAN : Teardown(ok)
    BY <1>6 DEF Teardown, Reaches, TypeOK, History
  <1>7. CASE OwnerCall
    BY <1>1, <1>7 DEF OwnerCall, Finish, CleanupCall, Destroy
  <1>8. CASE ControllerStep
    <2>1. CASE \/ Admit \/ Register \/ FactoryThrows \/ SpawnFails
               \/ \E ok \in BOOLEAN : FactoryReturns(ok) \/ Observe(ok)
               \/ WaitPrepare \/ WaitSleep \/ BarrierExit \/ ArrivalExit \/ AdvanceReturn
               \/ RunReturns \/ RunThrows \/ CleanupEnter \/ DrainExit \/ CleanupReturn
      BY <1>1, <2>1 DEF Admit, Register, FactoryThrows, SpawnFails, FactoryReturns, Observe,
         WaitPrepare, WaitSleep, BarrierExit, ArrivalExit, AdvanceReturn, RunReturns, RunThrows,
         CleanupEnter, DrainExit, CleanupReturn
    <2> QED BY <1>5, <1>6, <1>8, <2>1 DEF ControllerStep
  <1>9. CASE UNCHANGED vars BY <1>1, <1>9 DEF vars
  <1> QED BY <1>2, <1>3, <1>4, <1>7, <1>8, <1>9 DEF Next, Terminated

\* A row is added to the events.
LEMMA AddedRow ==
  ASSUME NEW ev \in Seq(Event), NEW e \in Event
  PROVE  /\ Len(ev) \in Nat /\ Len(Append(ev, e)) = Len(ev) + 1
         /\ Append(ev, e)[Len(ev) + 1] = e
         /\ \A i \in 1 .. Len(ev) : Append(ev, e)[i] = ev[i]
         /\ Append(ev, e) \in Seq(Event)
  OBVIOUS

\* Rows that are there stay true as more is reached.
LEMMA FabricatedStays ==
  ASSUME NoFabricatedArrival, history.reached \subseteq history'.reached,
         report'.events = report.events
  PROVE  NoFabricatedArrival'
  BY DEF NoFabricatedArrival

\* A row that is added.
LEMMA FabricatedAdds ==
  ASSUME TypeOK, NoFabricatedArrival, history.reached \subseteq history'.reached,
         NEW e \in Event, report'.events = Append(report.events, e),
         e.kind = "arrival" => <<e.step, e.actor, e.checkpoint>> \in history'.reached
  PROVE  NoFabricatedArrival'
  <1> DEFINE ev == report.events
  <1>1. /\ ev \in Seq(Event) /\ Len(ev) \in Nat /\ Len(report'.events) = Len(ev) + 1
        /\ report'.events[Len(ev) + 1] = e
        /\ \A i \in 1 .. Len(ev) : report'.events[i] = ev[i]
        /\ report'.events \in Seq(Event)
    <2>1. ev \in Seq(Event) BY ReportFacts DEF TypeOK
    <2>2. report'.events = Append(ev, e) OBVIOUS
    <2> HIDE DEF ev
    <2> QED BY <2>1, <2>2, AddedRow
  <1>2. DOMAIN report'.events = 1 .. Len(ev) + 1 /\ DOMAIN ev = 1 .. Len(ev)
    BY <1>1
  <1> SUFFICES ASSUME NEW i \in 1 .. Len(ev) + 1, report'.events[i].kind = "arrival"
               PROVE  <<report'.events[i].step, report'.events[i].actor, report'.events[i].checkpoint>>
                        \in history'.reached
    BY <1>2 DEF NoFabricatedArrival
  <1>3. CASE i = Len(ev) + 1 BY <1>1, <1>3
  <1>4. CASE i # Len(ev) + 1
    <2>1. i \in 1 .. Len(ev) /\ report'.events[i] = ev[i] BY <1>1, <1>4
    <2> QED BY <1>2, <2>1 DEF NoFabricatedArrival
  <1> QED BY <1>3, <1>4

\* A permit, when it is granted.
LEMMA GrantFacts ==
  ASSUME TypeOK, NEW step \in Requests, Advance(step), AdvanceVerdict(step) = "completed"
  PROVE  LET e == [kind |-> "permit", step |-> impl.next_step, actor |-> step.actor,
                   checkpoint |-> actor[step.actor].checkpoint]
         IN /\ e \in Event /\ report'.events = Append(report.events, e)
            /\ step = Expected /\ step.actor \in Actors /\ pc = "idle" /\ pc' = "arrival"
            /\ impl.next_step < Len(schedule) /\ ~report.schedule_completed
            /\ report'.observations = report.observations
            /\ report'.schedule_completed = report.schedule_completed
            /\ impl.initialized /\ ~Failed /\ UNCHANGED <<schedule, impl, history>>
            /\ actor'[step.actor].arrival = Unset /\ actor'[step.actor].phase = "running"
            /\ \A b \in Actors : b # step.actor => actor'[b] = actor[b]
  <1> DEFINE a == step.actor
             e == [kind |-> "permit", step |-> impl.next_step, actor |-> a,
                   checkpoint |-> actor[a].checkpoint]
  <1>1. a \in Actors /\ actor[a] \in ActorState BY DEF Requests, TypeOK
  <1>2. e \in Event BY <1>1, ImplFacts DEF Event, ActorState, TypeOK
  <1>3. /\ report' = [report EXCEPT !.events = Append(report.events, e)]
        /\ actor' = [actor EXCEPT ![a] = Granted(actor[a])]
        /\ pc = "idle" /\ pc' = "arrival" /\ CanAdvance /\ UNCHANGED <<schedule, impl, history>>
    BY DEF Advance, Record
  <1>4. ~(impl.next_step >= Len(schedule)) /\ step = Expected BY DEF AdvanceVerdict
  <1>5. schedule \in Seq(Step) /\ impl.next_step \in Nat
    BY ScheduleAssumption, ImplFacts DEF TypeOK
  <1>6. impl.next_step < Len(schedule) BY <1>4, <1>5
  <1>7. Granted(actor[a]).arrival = Unset /\ Granted(actor[a]).phase = "running"
    BY <1>1 DEF Granted, ActorState
  <1>8. actor'[a] = Granted(actor[a]) /\ \A b \in Actors : b # a => actor'[b] = actor[b]
    BY <1>1, <1>3 DEF TypeOK
  <1> HIDE DEF e
  <1>9. /\ report'.events = Append(report.events, e) /\ report'.observations = report.observations
        /\ report'.schedule_completed = report.schedule_completed
    BY <1>3 DEF TypeOK, Report
  <1> QED BY <1>1, <1>2, <1>3, <1>4, <1>6, <1>7, <1>8, <1>9 DEF CanAdvance, e

\* A permit, when it is refused.
LEMMA RefusalFacts ==
  ASSUME TypeOK, NEW step \in Requests, Advance(step), AdvanceVerdict(step) # "completed"
  PROVE  /\ Failed' /\ pc' = "returned" /\ report'.events = report.events
         /\ UNCHANGED <<actor, history>>
  BY DEF Advance, TypeOK, Report, Failed

\* The end of a wait for an arrival.
LEMMA ArrivalFacts ==
  ASSUME TypeOK, SchedInv, ArrivalExit
  PROVE  LET a == Expected.actor
             e == [kind |-> "arrival", step |-> impl.next_step, actor |-> a,
                   checkpoint |-> actor[a].arrival]
         IN /\ a \in Actors /\ pc = "arrival" /\ impl.next_step \in Nat
            /\ report'.events = IF actor[a].arrival = Unset THEN report.events
                                ELSE Append(report.events, e)
            /\ actor[a].arrival # Unset => e \in Event
            /\ report'.observations = report.observations
            /\ report'.schedule_completed = report.schedule_completed
            /\ UNCHANGED <<schedule, actor, history>> /\ impl'.initialized = impl.initialized
            /\ ~Failed' => /\ ~Failed /\ actor[a].checkpoint = Expected.checkpoint
                           /\ actor[a].phase # "running"
            /\ pc' \in {"joining", "observe", "returned"}
            /\ impl'.next_step = IF pc' = "observe" THEN impl.next_step + 1 ELSE impl.next_step
            /\ pc' = "returned" => Failed'
  <1> DEFINE a == Expected.actor
             e == [kind |-> "arrival", step |-> impl.next_step, actor |-> a,
                   checkpoint |-> actor[a].arrival]
             l == CheckLimits(report.outcome)
             m == l = "completed" /\ actor[a].checkpoint = Expected.checkpoint
             v == IF actor[a].arrival = Unset THEN report.events ELSE Append(report.events, e)
             o == IF l = "completed" /\ ~m THEN "unexpected_checkpoint" ELSE l
  <1>1. /\ pc = "arrival" /\ UNCHANGED <<schedule, actor, history>>
        /\ report' = [report EXCEPT !.outcome = o, !.events = v]
        /\ pc' = (IF m THEN AfterMatch(actor[a]) ELSE "returned")
        /\ impl' = [impl EXCEPT !.next_step = IF pc' = "observe" THEN impl.next_step + 1
                                              ELSE impl.next_step]
        /\ WaitPredicate \/ TimerFired
    BY DEF ArrivalExit, WaitOver, Record
  <1>2. a \in Actors /\ impl.next_step \in Nat /\ actor[a] \in ActorState
    BY <1>1, ImplFacts DEF SchedInv, Selection, TypeOK
  <1>3. actor[a].arrival # Unset => e \in Event
    BY <1>2 DEF Event, ActorState
  <1>4. /\ l = "completed" => ~Failed /\ ~shared.cancelled /\ ~env.expired
        /\ o = "completed" <=> m
    BY DEF CheckLimits, Failed
  <1>5. l = "completed" => actor[a].phase # "running"
    BY <1>1, <1>4 DEF WaitPredicate, TimerFired
  <1>6. AfterMatch(actor[a]) \in {"joining", "observe"} BY DEF AfterMatch
  <1>7. m => l = "completed" /\ actor[a].checkpoint = Expected.checkpoint OBVIOUS
  <1> HIDE DEF o, m, v, l
  <1>8. /\ report'.outcome = o /\ report'.events = v /\ report'.observations = report.observations
        /\ report'.schedule_completed = report.schedule_completed
    BY <1>1 DEF TypeOK, Report
  <1>9. /\ impl'.initialized = impl.initialized
        /\ impl'.next_step = IF pc' = "observe" THEN impl.next_step + 1 ELSE impl.next_step
    BY <1>1 DEF TypeOK, Impl
  <1>10. /\ ~Failed' <=> m
         /\ pc' = "returned" => ~m
    BY <1>1, <1>4, <1>6, <1>8 DEF Failed
  <1>11. ~Failed' => /\ ~Failed /\ actor[a].checkpoint = Expected.checkpoint
                     /\ actor[a].phase # "running"
    BY <1>4, <1>5, <1>7, <1>10
  <1> QED BY <1>1, <1>2, <1>3, <1>6, <1>8, <1>9, <1>10, <1>11 DEF v

\* Every step keeps it.
LEMMA ReachStep ==
  ASSUME TypeOK, SchedInv, ReachInv, [Next]_vars PROVE ReachInv'
  <1>1. CASE Still /\ \A step \in Requests : ~Advance(step)
    <2>1. Reaches BY <1>1, StepReaches
    <2>2. NoFabricatedArrival' BY <1>1, <2>1, FabricatedStays DEF ReachInv, Still, Reaches
    <2>3. ASSUME pc' = "arrival", actor'[Expected'.actor].arrival # Unset
          PROVE  <<impl'.next_step, Expected'.actor, actor'[Expected'.actor].arrival>>
                   \in history'.reached
      <3>1. pc = "arrival" /\ Expected' = Expected /\ impl'.next_step = impl.next_step
        BY <1>1, <2>3 DEF Still, Expected
      <3>2. Expected.actor \in Actors BY <3>1 DEF SchedInv, Selection
      <3> QED BY <2>1, <2>3, <3>1, <3>2 DEF Reaches, ReachInv
    <2> QED BY <2>2, <2>3 DEF ReachInv
  <1>2. ASSUME NEW step \in Requests, Advance(step) PROVE ReachInv'
    <2>1. CASE AdvanceVerdict(step) = "completed"
      <3> DEFINE e == [kind |-> "permit", step |-> impl.next_step, actor |-> step.actor,
                       checkpoint |-> actor[step.actor].checkpoint]
      <3>1. /\ e \in Event /\ report'.events = Append(report.events, e) /\ step = Expected
            /\ UNCHANGED <<schedule, impl, history>> /\ actor'[step.actor].arrival = Unset
        BY <1>2, <2>1, GrantFacts
      <3>2. e.kind = "permit" OBVIOUS
      <3> HIDE DEF e
      <3>3. NoFabricatedArrival' BY <3>1, <3>2, FabricatedAdds DEF ReachInv
      <3>4. Expected' = Expected BY <3>1 DEF Expected
      <3> QED BY <3>1, <3>3, <3>4 DEF ReachInv
    <2>2. CASE AdvanceVerdict(step) # "completed"
      <3>1. pc' = "returned" /\ report'.events = report.events /\ history' = history
        BY <1>2, <2>2, RefusalFacts
      <3> QED BY <3>1, FabricatedStays DEF ReachInv
    <2> QED BY <2>1, <2>2
  <1>3. CASE ArrivalExit
    <2> DEFINE a == Expected.actor
               e == [kind |-> "arrival", step |-> impl.next_step, actor |-> a,
                     checkpoint |-> actor[a].arrival]
    <2>1. /\ pc = "arrival" /\ pc' # "arrival" /\ history' = history
          /\ report'.events = IF actor[a].arrival = Unset THEN report.events
                              ELSE Append(report.events, e)
          /\ actor[a].arrival # Unset => e \in Event
      BY <1>3, ArrivalFacts
    <2>2. CASE actor[a].arrival = Unset
      BY <2>1, <2>2, FabricatedStays DEF ReachInv
    <2>3. CASE actor[a].arrival # Unset
      <3>1. e \in Event /\ report'.events = Append(report.events, e) BY <2>1, <2>3
      <3>2. <<e.step, e.actor, e.checkpoint>> \in history'.reached
        BY <2>1, <2>3 DEF ReachInv
      <3> HIDE DEF e
      <3>3. NoFabricatedArrival' BY <2>1, <3>1, <3>2, FabricatedAdds DEF ReachInv
      <3> QED BY <2>1, <3>3 DEF ReachInv
    <2> QED BY <2>2, <2>3
  <1>4. CASE JoinSelected
    BY <1>4, FabricatedStays DEF JoinSelected, ReachInv
  <1>5. ASSUME NEW ok \in BOOLEAN, Observe(ok) PROVE ReachInv'
    <2>1. report'.events = report.events /\ history' = history /\ pc' # "arrival"
      BY <1>5 DEF Observe, TypeOK, Report
    <2> QED BY <2>1, FabricatedStays DEF ReachInv
  <1> QED BY <1>1, <1>2, <1>3, <1>4, <1>5, StepKinds

-----------------------------------------------------------------------------
(* The replay of an execution in which nothing failed *)

\* The rows that step k of the schedule s leaves in the report.
PermitRow(e, s, k) == e.kind = "permit" /\ e.step = k - 1 /\ e.actor = s[k].actor
ArrivalRow(e, s, k) == /\ e.kind = "arrival" /\ e.step = k - 1 /\ e.actor = s[k].actor
                       /\ e.checkpoint = s[k].checkpoint
Rows(ev, s) ==
  \A k \in 1 .. Len(ev) : /\ 2 * k - 1 <= Len(ev) => PermitRow(ev[2 * k - 1], s, k)
                          /\ 2 * k <= Len(ev) => ArrivalRow(ev[2 * k], s, k)

\* Rows of the step under way, and the observation that a step still lacks.
Pending == IF pc = "arrival" THEN 1 ELSE IF pc = "joining" THEN 2 ELSE 0
Seen == IF pc = "observe" \/ ~impl.initialized THEN 0 ELSE 1
Replayed ==
  /\ Rows(report.events, schedule) /\ Len(report.events) = 2 * impl.next_step + Pending
  /\ Len(report.observations) = impl.next_step + Seen
  /\ \A i \in 1 .. Len(report.observations) : report.observations[i] = i - 1
  /\ report.schedule_completed =>
       /\ impl.next_step = Len(schedule) /\ impl.initialized
       /\ pc \notin {"observe", "arrival", "joining"}

\* The selected actor's arrival was forgotten with its permit; it has a new one
\* exactly when it no longer runs.
Answer(state) == IF state.phase = "running" THEN state.arrival = Unset
                 ELSE state.arrival = state.checkpoint

ReplayInv == ~Failed => Replayed /\ (pc = "arrival" => Answer(actor[Expected.actor]))

\* The row of a permit ...
LEMMA RowsPermit ==
  ASSUME NEW ev \in Seq(Event), NEW e \in Event, NEW s, NEW d \in Nat, Rows(ev, s),
         Len(ev) = 2 * d, PermitRow(e, s, d + 1)
  PROVE  Rows(Append(ev, e), s)
  <1> DEFINE fv == Append(ev, e)
  <1>1. /\ Len(fv) = 2 * d + 1 /\ fv[2 * d + 1] = e
        /\ \A i \in 1 .. 2 * d : fv[i] = ev[i]
    BY AddedRow
  <1> HIDE DEF fv
  <1> SUFFICES ASSUME NEW k \in 1 .. 2 * d + 1
               PROVE  /\ 2 * k - 1 <= 2 * d + 1 => PermitRow(fv[2 * k - 1], s, k)
                      /\ 2 * k <= 2 * d + 1 => ArrivalRow(fv[2 * k], s, k)
    BY <1>1 DEF Rows, fv
  <1>2. CASE k <= d
    <2>1. /\ k \in 1 .. 2 * d /\ 2 * k - 1 \in 1 .. 2 * d /\ 2 * k \in 1 .. 2 * d
          /\ 2 * k - 1 <= 2 * d /\ 2 * k <= 2 * d
      BY <1>2
    <2>2. PermitRow(ev[2 * k - 1], s, k) /\ ArrivalRow(ev[2 * k], s, k)
      BY <2>1 DEF Rows
    <2> QED BY <1>1, <2>1, <2>2
  <1>3. CASE k = d + 1
    <2>1. 2 * k - 1 = 2 * d + 1 /\ ~(2 * k <= 2 * d + 1) BY <1>3
    <2> QED BY <1>1, <1>3, <2>1
  <1>4. CASE k > d + 1
    <2>1. ~(2 * k - 1 <= 2 * d + 1) /\ ~(2 * k <= 2 * d + 1) BY <1>4
    <2> QED BY <2>1
  <1> QED BY <1>2, <1>3, <1>4

\* ... and of the arrival after it.
LEMMA RowsArrival ==
  ASSUME NEW ev \in Seq(Event), NEW e \in Event, NEW s, NEW d \in Nat, Rows(ev, s),
         Len(ev) = 2 * d + 1, ArrivalRow(e, s, d + 1)
  PROVE  Rows(Append(ev, e), s)
  <1> DEFINE fv == Append(ev, e)
  <1>1. /\ Len(fv) = 2 * d + 2 /\ fv[2 * d + 2] = e
        /\ \A i \in 1 .. 2 * d + 1 : fv[i] = ev[i]
    BY AddedRow
  <1> HIDE DEF fv
  <1> SUFFICES ASSUME NEW k \in 1 .. 2 * d + 2
               PROVE  /\ 2 * k - 1 <= 2 * d + 2 => PermitRow(fv[2 * k - 1], s, k)
                      /\ 2 * k <= 2 * d + 2 => ArrivalRow(fv[2 * k], s, k)
    BY <1>1 DEF Rows, fv
  <1>2. CASE k <= d
    <2>1. /\ k \in 1 .. 2 * d + 1 /\ 2 * k - 1 \in 1 .. 2 * d + 1 /\ 2 * k \in 1 .. 2 * d + 1
          /\ 2 * k - 1 <= 2 * d + 1 /\ 2 * k <= 2 * d + 1
      BY <1>2
    <2>2. PermitRow(ev[2 * k - 1], s, k) /\ ArrivalRow(ev[2 * k], s, k)
      BY <2>1 DEF Rows
    <2> QED BY <1>1, <2>1, <2>2
  <1>3. CASE k = d + 1
    <2>1. /\ 2 * k - 1 = 2 * d + 1 /\ 2 * k = 2 * d + 2 /\ k \in 1 .. 2 * d + 1
          /\ 2 * d + 1 \in 1 .. 2 * d + 1
      BY <1>3
    <2>2. PermitRow(ev[2 * d + 1], s, k) BY <2>1 DEF Rows
    <2> QED BY <1>1, <1>3, <2>1, <2>2
  <1>4. CASE k > d + 1
    <2>1. ~(2 * k - 1 <= 2 * d + 2) /\ ~(2 * k <= 2 * d + 2) BY <1>4
    <2> QED BY <2>1
  <1> QED BY <1>2, <1>3, <1>4

\* While advance waits, only the selected actor moves, and answers once.
LEMMA AnswerStep ==
  ASSUME TypeOK, SchedInv, pc = "arrival", ~Failed', Answer(actor[Expected.actor]),
         Environment \/ \E a \in Actors : WorkerRuntime(a) \/ Application(a)
  PROVE  Answer(actor'[Expected.actor])
  <1> DEFINE x == Expected.actor
  <1>1. /\ x \in Actors /\ ~shared.stopping /\ impl.initialized /\ actor[x] \in ActorState
        /\ actor[x].stage \notin {"none", "spawned"} /\ Coherent(actor[x])
    BY DEF SchedInv, Selection, Lifecycle, Started, Coherence, TypeOK
  <1>2. \A n \in Outcomes \ {"completed"} : ~Fail(n)
    BY DEF Fail, FirstFailure, Failed, TypeOK, Report
  <1>3. ASSUME NEW a \in Actors, NEW S, Move(a, S) PROVE Answer(actor'[x])
    BY <1>1, <1>3 DEF Move, Answer, TypeOK, ActorState
  <1>4. CASE actor' = actor BY <1>4
  <1>5. CASE Environment
    BY <1>2, <1>4, <1>5 DEF Environment, WaitWake, DeadlinePasses, BudgetPasses, RequestStop,
       StopNotify, ForeignArrive, Outcomes
  <1>6. ASSUME NEW a \in Actors, WorkerRuntime(a) PROVE Answer(actor'[x])
    <2>1. CASE WorkerWake(a) \/ WorkerReport(a) \/ WorkerExit(a)
      BY <1>3, <2>1 DEF WorkerWake, WorkerReport, WorkerExit
    <2>2. CASE WorkerPark(a)
      BY <1>1, <2>2 DEF WorkerPark, Stage, TypeOK
    <2>3. CASE WorkerComplete(a)
      <3>1. CASE a = x
        <4>1. actor[x].phase = "running" BY <1>1, <2>3, <3>1 DEF WorkerComplete, Coherent, Stage
        <4>2. actor[x].arrival = Unset BY <4>1 DEF Answer
        <4>3. actor'[x] = [stage |-> "exiting", phase |-> "finished", checkpoint |-> Completion,
                           arrival |-> Completion]
          BY <1>1, <2>3, <3>1, <4>2 DEF WorkerComplete, At, TypeOK
        <4> QED BY <4>3 DEF Answer
      <3>2. CASE a # x
        BY <1>1, <2>3, <3>2 DEF WorkerComplete, At, TypeOK
      <3> QED BY <3>1, <3>2
    <2> QED BY <1>6, <2>1, <2>2, <2>3 DEF WorkerRuntime
  <1>7. ASSUME NEW a \in Actors, Application(a) PROVE Answer(actor'[x])
    <2>1. CASE ArriveStopped(a) \/ WorkerLeave(a)
      BY <1>3, <2>1 DEF ArriveStopped, WorkerLeave
    <2>2. ASSUME NEW c \in Checkpoints, Arrive(a, c) PROVE Answer(actor'[x])
      <3>1. actor' = [actor EXCEPT ![a] = [stage |-> "hook", phase |-> "parked",
                                           checkpoint |-> c, arrival |-> c]]
        BY <2>2 DEF Arrive, At
      <3> QED BY <1>1, <3>1 DEF Answer, TypeOK
    <2>3. ASSUME NEW c \in UndeclaredNames, ArriveUndeclared(a, c) PROVE FALSE
      BY <1>2, <2>3 DEF ArriveUndeclared, Outcomes
    <2> QED BY <1>7, <2>1, <2>2, <2>3 DEF Application
  <1> QED BY <1>5, <1>6, <1>7

\* What can happen while advance waits.
LEMMA WaitingSteps ==
  ASSUME [Next]_vars, pc = "arrival", ~ArrivalExit
  PROVE  actor' = actor \/ Environment \/ \E a \in Actors : WorkerRuntime(a) \/ Application(a)
  <1>1. CASE ControllerStep
    BY <1>1 DEF ControllerStep, Admit, Register, FactoryThrows, SpawnFails, FactoryReturns, Observe,
       Teardown, Spawn, WaitPrepare, WaitSleep, BarrierExit, WaitOver, JoinSelected, AdvanceReturn,
       RunReturns, RunThrows, CleanupEnter, DrainExit, ReapJoin, CleanupReturn, DestroyJoin
  <1>2. CASE OwnerCall BY <1>2 DEF OwnerCall, Finish, CleanupCall, Destroy, Advance
  <1>3. CASE UNCHANGED vars BY <1>3 DEF vars
  <1> QED BY <1>1, <1>2, <1>3 DEF Next, Terminated

\* Types of what the replay reads.
LEMMA ReplayTypes ==
  ASSUME TypeOK
  PROVE  /\ impl.next_step \in Nat /\ report.events \in Seq(Event)
         /\ report.observations \in Seq(Nat) /\ schedule \in Seq(Step) /\ Len(schedule) \in Nat
         /\ impl.initialized \in BOOLEAN /\ report.schedule_completed \in BOOLEAN
  <1>1. schedule \in Seq(Step) BY ScheduleAssumption DEF TypeOK
  <1>2. impl.initialized \in BOOLEAN /\ report.schedule_completed \in BOOLEAN
    BY DEF TypeOK, Impl, Report
  <1>3. impl.next_step \in Nat BY ImplFacts DEF TypeOK
  <1>4. report.events \in Seq(Event) /\ report.observations \in Seq(Nat) BY ReportFacts DEF TypeOK
  <1>5. Len(schedule) \in Nat BY <1>1
  <1> QED BY <1>1, <1>2, <1>3, <1>4, <1>5

\* A step that records nothing.
LEMMA ReplayStill ==
  ASSUME TypeOK, SchedInv, ReplayInv, [Next]_vars, Still, ~ArrivalExit, ~Failed'
  PROVE  Replayed' /\ (pc' = "arrival" => Answer(actor'[Expected'.actor]))
  <1>1. ~Failed /\ Replayed BY Sticky DEF ReplayInv, Failed
  <1>2. Pending' = Pending BY DEF Still, Pending
  <1>3. Seen' = Seen BY DEF Still, Seen
  <1>4. Replayed'
    <2>1. /\ Rows(report'.events, schedule') /\ Len(report'.events) = 2 * impl'.next_step + Pending'
          /\ Len(report'.observations) = impl'.next_step + Seen'
          /\ \A i \in 1 .. Len(report'.observations) : report'.observations[i] = i - 1
      BY <1>1, <1>2, <1>3 DEF Still, Replayed
    <2>2. report'.schedule_completed =>
            /\ impl'.next_step = Len(schedule') /\ impl'.initialized
            /\ pc' \notin {"observe", "arrival", "joining"}
      BY <1>1 DEF Still, Replayed
    <2> QED BY <2>1, <2>2 DEF Replayed
  <1>5. ASSUME pc' = "arrival" PROVE Answer(actor'[Expected'.actor])
    <2>1. pc = "arrival" /\ Expected' = Expected BY <1>5 DEF Still, Expected
    <2>2. Answer(actor[Expected.actor]) BY <1>1, <2>1 DEF ReplayInv
    <2>3. CASE actor' = actor BY <2>1, <2>2, <2>3
    <2>4. CASE Environment \/ \E a \in Actors : WorkerRuntime(a) \/ Application(a)
      BY <2>1, <2>2, <2>4, AnswerStep
    <2> QED BY <2>1, <2>3, <2>4, WaitingSteps
  <1> QED BY <1>4, <1>5

\* A permit is recorded.
LEMMA ReplayAdvance ==
  ASSUME TypeOK, SchedInv, ReplayInv, NEW step \in Requests, Advance(step), ~Failed'
  PROVE  Replayed' /\ (pc' = "arrival" => Answer(actor'[Expected'.actor]))
  <1> DEFINE e == [kind |-> "permit", step |-> impl.next_step, actor |-> step.actor,
                   checkpoint |-> actor[step.actor].checkpoint]
             d == impl.next_step
  <1>1. /\ e \in Event /\ report'.events = Append(report.events, e) /\ step = Expected
        /\ pc = "idle" /\ pc' = "arrival" /\ ~report.schedule_completed
        /\ report'.observations = report.observations
        /\ report'.schedule_completed = report.schedule_completed
        /\ impl.initialized /\ ~Failed /\ UNCHANGED <<schedule, impl>>
        /\ actor'[step.actor].arrival = Unset /\ actor'[step.actor].phase = "running"
    BY GrantFacts, RefusalFacts
  <1>2. Replayed /\ d \in Nat /\ report.events \in Seq(Event)
    BY <1>1, ReplayTypes DEF ReplayInv
  <1>3. Pending = 0 /\ Seen = 1 /\ Pending' = 1 /\ Seen' = 1
    BY <1>1 DEF Pending, Seen
  <1>4. (d + 1) - 1 = d /\ schedule[d + 1] = step BY <1>1, <1>2 DEF Expected
  <1>5. PermitRow(e, schedule, d + 1)
    BY <1>4 DEF PermitRow
  <1> HIDE DEF e
  <1>6. Len(report.events) = 2 * d BY <1>2, <1>3 DEF Replayed
  <1>7. Rows(report'.events, schedule) BY <1>1, <1>2, <1>5, <1>6, RowsPermit DEF Replayed
  <1>8. Len(report'.events) = 2 * d + 1 BY <1>1, <1>2, <1>6, AddedRow
  <1>9. Replayed'
    BY <1>1, <1>2, <1>3, <1>7, <1>8 DEF Replayed
  <1>10. Answer(actor'[Expected'.actor])
    <2>1. Expected' = step BY <1>1 DEF Expected
    <2> QED BY <1>1, <2>1 DEF Answer
  <1> QED BY <1>9, <1>10

\* An arrival is recorded.
LEMMA ReplayArrival ==
  ASSUME TypeOK, SchedInv, ReplayInv, ArrivalExit, ~Failed'
  PROVE  Replayed' /\ pc' # "arrival"
  <1> DEFINE a == Expected.actor
             e == [kind |-> "arrival", step |-> impl.next_step, actor |-> a,
                   checkpoint |-> actor[a].arrival]
             d == impl.next_step
  <1>1. /\ pc = "arrival" /\ d \in Nat /\ a \in Actors
        /\ report'.events = (IF actor[a].arrival = Unset THEN report.events
                             ELSE Append(report.events, e))
        /\ actor[a].arrival # Unset => e \in Event
        /\ report'.observations = report.observations
        /\ report'.schedule_completed = report.schedule_completed
        /\ UNCHANGED schedule /\ impl'.initialized = impl.initialized
        /\ ~Failed /\ actor[a].checkpoint = Expected.checkpoint /\ actor[a].phase # "running"
        /\ pc' \in {"joining", "observe"}
        /\ impl'.next_step = IF pc' = "observe" THEN d + 1 ELSE d
    BY ArrivalFacts
  <1>2. Replayed /\ Answer(actor[a]) /\ report.events \in Seq(Event)
    BY <1>1, ReplayTypes DEF ReplayInv
  <1>3. actor[a].arrival = Expected.checkpoint /\ actor[a].arrival # Unset
    <2>1. actor[a].arrival = actor[a].checkpoint BY <1>1, <1>2 DEF Answer
    <2>2. actor[a].checkpoint \in Names BY <1>1 DEF TypeOK, ActorState
    <2>3. Unset \notin Names
      BY ScheduleAssumption DEF Names, UndeclaredNames, Completion, StartMark, Unset
    <2> QED BY <1>1, <2>1, <2>2, <2>3
  <1>4. e \in Event /\ report'.events = Append(report.events, e) BY <1>1, <1>3
  <1>5. ArrivalRow(e, schedule, d + 1)
    <2>1. (d + 1) - 1 = d /\ schedule[d + 1] = Expected BY <1>1 DEF Expected
    <2> QED BY <1>3, <2>1 DEF ArrivalRow
  <1> HIDE DEF e
  <1>6. Pending = 1 /\ Seen = 1 /\ impl.initialized
    BY <1>1 DEF Pending, Seen, SchedInv, Lifecycle
  <1>7. Len(report.events) = 2 * d + 1 BY <1>2, <1>6 DEF Replayed
  <1>8. Rows(report'.events, schedule) BY <1>1, <1>2, <1>4, <1>5, <1>7, RowsArrival DEF Replayed
  <1>9. Len(report'.events) = 2 * d + 2 BY <1>1, <1>2, <1>4, <1>7, AddedRow
  <1>10. ~report.schedule_completed BY <1>1, <1>2 DEF Replayed
  <1>11. Len(report.observations) = d + 1 BY <1>2, <1>6 DEF Replayed
  <1>12. CASE pc' = "joining"
    <2>1. Pending' = 2 /\ Seen' = 1 /\ impl'.next_step = d
      BY <1>1, <1>6, <1>12 DEF Pending, Seen
    <2> QED BY <1>1, <1>2, <1>8, <1>9, <1>10, <1>11, <1>12, <2>1 DEF Replayed
  <1>13. CASE pc' = "observe"
    <2>1. Pending' = 0 /\ Seen' = 0 /\ impl'.next_step = d + 1
      BY <1>1, <1>13 DEF Pending, Seen
    <2>2. Len(report'.events) = 2 * (d + 1) BY <1>1, <1>9
    <2> QED BY <1>1, <1>2, <1>8, <1>10, <1>11, <1>13, <2>1, <2>2 DEF Replayed
  <1> QED BY <1>1, <1>12, <1>13

\* A finished actor is joined.
LEMMA ReplayJoin ==
  ASSUME TypeOK, SchedInv, ReplayInv, JoinSelected, ~Failed'
  PROVE  Replayed' /\ pc' # "arrival"
  <1> DEFINE d == impl.next_step
  <1>1. /\ pc = "joining" /\ pc' = "observe" /\ UNCHANGED <<schedule, report>> /\ ~Failed
        /\ impl'.next_step = d + 1 /\ impl'.initialized = impl.initialized /\ d \in Nat
    BY ReplayTypes DEF JoinSelected, TypeOK, Impl, Failed
  <1>2. Replayed BY <1>1 DEF ReplayInv
  <1>3. /\ Pending = 2 /\ Seen = 1 /\ Pending' = 0 /\ Seen' = 0
    BY <1>1 DEF Pending, Seen, SchedInv, Lifecycle
  <1>4. ~report.schedule_completed BY <1>1, <1>2 DEF Replayed
  <1>5. Len(report.events) = 2 * (d + 1) /\ Len(report.observations) = d + 1
    BY <1>1, <1>2, <1>3 DEF Replayed
  <1> QED BY <1>1, <1>2, <1>3, <1>4, <1>5 DEF Replayed

\* An observation is recorded.
LEMMA ReplayObserve ==
  ASSUME TypeOK, SchedInv, ReplayInv, NEW ok \in BOOLEAN, Observe(ok), ~Failed'
  PROVE  Replayed' /\ pc' # "arrival"
  <1> DEFINE d == impl.next_step
             v == CheckLimits(ObserverVerdict(ok))
  <1>1. v = "completed"
    BY DEF Observe, TypeOK, Report, Failed
  <1>2. ~Failed /\ ok
    BY <1>1 DEF CheckLimits, ObserverVerdict, FirstFailure, Failed
  <1>3. /\ pc = "observe" /\ pc' \in {"returned", "idle"} /\ UNCHANGED schedule
        /\ impl'.next_step = d /\ impl'.initialized /\ report'.events = report.events
        /\ report'.observations = Append(report.observations, d)
        /\ report'.schedule_completed = (report.schedule_completed \/ (impl.initialized /\ d = Len(schedule)))
    BY <1>1, <1>2 DEF Observe, TypeOK, Report, Impl
  <1>4. Replayed /\ d \in Nat /\ report.observations \in Seq(Nat)
    BY <1>2, ReplayTypes DEF ReplayInv
  <1>5. Pending = 0 /\ Seen = 0 /\ Pending' = 0 /\ Seen' = 1
    BY <1>3 DEF Pending, Seen
  <1>6. Len(report.observations) = d BY <1>4, <1>5 DEF Replayed
  <1>7. /\ Len(report'.observations) = d + 1 /\ report'.observations[d + 1] = d
        /\ \A i \in 1 .. d : report'.observations[i] = report.observations[i]
    BY <1>3, <1>4, <1>6
  <1>8. \A i \in 1 .. d + 1 : report'.observations[i] = i - 1
    <2> TAKE i \in 1 .. d + 1
    <2>1. CASE i = d + 1 BY <1>4, <1>7, <2>1
    <2>2. CASE i # d + 1
      <3>1. i \in 1 .. d BY <1>4, <2>2
      <3> QED BY <1>4, <1>6, <1>7, <3>1 DEF Replayed
    <2> QED BY <2>1, <2>2
  <1>9. Len(report.events) = 2 * d + 0 /\ Rows(report.events, schedule)
    BY <1>4, <1>5 DEF Replayed
  <1>10. report'.schedule_completed => d = Len(schedule)
    BY <1>3, <1>4 DEF Replayed
  <1>11. Replayed'
    BY <1>3, <1>5, <1>7, <1>8, <1>9, <1>10 DEF Replayed
  <1> QED BY <1>3, <1>11

\* Every step keeps the replay.
LEMMA ReplayStep == ASSUME TypeOK, SchedInv, ReplayInv, [Next]_vars PROVE ReplayInv'
  <1> SUFFICES ASSUME ~Failed'
               PROVE  Replayed' /\ (pc' = "arrival" => Answer(actor'[Expected'.actor]))
    BY DEF ReplayInv
  <1> QED BY StepKinds, ReplayStill, ReplayAdvance, ReplayArrival, ReplayJoin, ReplayObserve

\* A confirmed cleanup tore down, and no later one does.
ConfirmedInv == report.cleanup = "confirmed" => impl.teardown_attempted /\ pc # "teardown"

\* Every step keeps that.
LEMMA ConfirmedStep ==
  ASSUME TypeOK, SchedInv, CleanInv, ConfirmedInv, [Next]_vars PROVE ConfirmedInv'
  <1>1. ASSUME report'.cleanup = report.cleanup,
               impl'.teardown_attempted = impl.teardown_attempted, pc' = pc \/ pc' # "teardown"
        PROVE  ConfirmedInv'
    BY <1>1 DEF ConfirmedInv
  <1>2. ASSUME NEW from, NEW state, ReapFrom(from, state) PROVE ConfirmedInv'
    <2>1. report'.cleanup = report.cleanup BY <1>2 DEF ReapFrom, TypeOK, Report
    <2>2. impl.teardown_attempted => impl'.teardown_attempted BY <1>2 DEF ReapFrom, TypeOK, Impl
    <2>3. pc' = "teardown" => ~impl.teardown_attempted BY <1>2 DEF ReapFrom, TeardownDue
    <2> QED BY <2>1, <2>2, <2>3 DEF ConfirmedInv
  <1>3. CASE DrainExit \/ ReapJoin BY <1>2, <1>3 DEF DrainExit, ReapJoin
  <1>4. CASE CleanupReturn
    <2>1. pc = "verdict" /\ pc' = "idle" /\ impl' = impl /\ report'.cleanup = CleanupVerdict
      BY <1>4 DEF CleanupReturn, TypeOK, Report
    <2>2. CleanupVerdict = "confirmed" => report.remaining = {} BY DEF CleanupVerdict
    <2> QED BY <2>1, <2>2 DEF CleanInv, StatusInv, ConfirmedInv
  <1>5. CASE \/ Admit \/ Register \/ FactoryThrows \/ SpawnFails \/ Finish
             \/ WaitPrepare \/ WaitSleep \/ JoinSelected \/ AdvanceReturn \/ RunReturns \/ RunThrows
             \/ CleanupCall \/ Destroy \/ DestroyJoin \/ CleanupEnter
             \/ \E a \in Actors : Spawn(a)
    <2>1. UNCHANGED report \/ \E n : Fail(n)
      BY <1>5 DEF Admit, Register, FactoryThrows, SpawnFails, Finish, WaitPrepare, WaitSleep,
         JoinSelected, AdvanceReturn, RunReturns, RunThrows, CleanupCall, Destroy, DestroyJoin,
         CleanupEnter, Spawn
    <2>2. impl'.teardown_attempted = impl.teardown_attempted /\ (pc' = pc \/ pc' # "teardown")
      BY <1>5 DEF Admit, Register, FactoryThrows, SpawnFails, Finish, WaitPrepare, WaitSleep,
         JoinSelected, AdvanceReturn, RunReturns, RunThrows, CleanupCall, Destroy, DestroyJoin,
         CleanupEnter, Spawn, ctlVars, TypeOK, Impl
    <2> QED BY <1>1, <2>1, <2>2, FailKeeps
  <1>6. CASE \/ BarrierExit \/ ArrivalExit
             \/ \E ok \in BOOLEAN : FactoryReturns(ok) \/ Observe(ok) \/ Teardown(ok)
    <2>1. report'.cleanup = report.cleanup
      BY <1>6 DEF BarrierExit, ArrivalExit, FactoryReturns, Observe, Teardown, TypeOK, Report
    <2>2. impl'.teardown_attempted = impl.teardown_attempted /\ pc' # "teardown"
      BY <1>6 DEF BarrierExit, ArrivalExit, FactoryReturns, Observe, Teardown, AfterMatch, TypeOK, Impl
    <2> QED BY <1>1, <2>1, <2>2
  <1>7. ASSUME NEW step \in Requests, Advance(step) PROVE ConfirmedInv'
    <2>1. report'.cleanup = report.cleanup /\ impl' = impl /\ pc' # "teardown"
      BY <1>7 DEF Advance, TypeOK, Report
    <2> QED BY <1>1, <2>1
  <1>8. CASE Environment \/ \E a \in Actors : WorkerRuntime(a) \/ Application(a)
    <2>1. UNCHANGED <<pc, impl>> BY <1>8, OthersStill
    <2>2. UNCHANGED report \/ \E n : Fail(n)
      BY <1>8 DEF Environment, WorkerRuntime, Application, WaitWake, DeadlinePasses, BudgetPasses,
         RequestStop, StopNotify, ForeignArrive, WorkerPark, WorkerWake, WorkerReport,
         WorkerComplete, WorkerExit, Arrive, ArriveUndeclared, ArriveStopped, WorkerLeave
    <2> QED BY <1>1, <2>1, <2>2, FailKeeps
  <1>9. CASE UNCHANGED vars BY <1>1, <1>9 DEF vars, ctlVars
  <1> QED BY <1>3, <1>4, <1>5, <1>6, <1>7, <1>8, <1>9 DEF Next, ControllerStep, OwnerCall, Terminated

\* What the report says, with what makes it inductive.
EInv == IInv /\ CleanInv /\ ReachInv /\ ReplayInv /\ ConfirmedInv

\* At the start nothing is recorded.
LEMMA EvidenceInit == Init => EInv
  <1> SUFFICES ASSUME Init PROVE EInv OBVIOUS
  <1>1. /\ report.events = <<>> /\ report.observations = <<>> /\ ~report.schedule_completed
        /\ report.cleanup = "not_started" /\ pc = "admit" /\ impl.next_step = 0 /\ ~impl.initialized
    BY DEF Init
  <1>2. IInv /\ CleanInv BY TypeInit, InitInv, CleanInit DEF IInv
  <1>3. ReachInv BY <1>1 DEF ReachInv, NoFabricatedArrival
  <1>4. Pending = 0 /\ Seen = 0 BY <1>1 DEF Pending, Seen
  <1>5. Replayed BY <1>1, <1>4 DEF Replayed, Rows
  <1>6. ReplayInv BY <1>1, <1>5 DEF ReplayInv
  <1>7. ConfirmedInv BY <1>1 DEF ConfirmedInv
  <1> QED BY <1>2, <1>3, <1>6, <1>7 DEF EInv

\* A passed report is a full replay.
LEMMA ReplayPassed == ASSUME EInv, passed PROVE PassedIsFullReplay
  <1> DEFINE N == Len(schedule)
  <1>1. /\ TypeOK /\ SchedInv /\ CleanInv /\ ~Failed /\ report.schedule_completed
        /\ report.cleanup = "confirmed" /\ ConfirmedInv
    BY DEF EInv, IInv, passed, Failed
  <1>2. Replayed BY <1>1 DEF EInv, ReplayInv
  <1>3. /\ impl.next_step = N /\ impl.initialized /\ pc \notin {"observe", "arrival", "joining"}
        /\ N \in Nat /\ report.observations \in Seq(Nat)
    BY <1>1, <1>2, ReplayTypes DEF Replayed
  <1>4. Pending = 0 /\ Seen = 1 BY <1>3 DEF Pending, Seen
  <1>5. Len(report.events) = 2 * N /\ Len(report.observations) = N + 1
    <2>1. Len(report.events) = 2 * N + 0 /\ Len(report.observations) = N + 1
      BY <1>2, <1>3, <1>4 DEF Replayed
    <2> QED BY <1>3, <2>1
  <1>6. ASSUME NEW k \in 1 .. N
        PROVE  /\ report.events[2 * k - 1].kind = "permit" /\ report.events[2 * k].kind = "arrival"
               /\ \A i \in {2 * k - 1, 2 * k} : /\ report.events[i].step = k - 1
                                                /\ report.events[i].actor = schedule[k].actor
               /\ report.events[2 * k].checkpoint = schedule[k].checkpoint
    <2>1. k \in 1 .. Len(report.events) /\ 2 * k - 1 <= Len(report.events) /\ 2 * k <= Len(report.events)
      BY <1>3, <1>5
    <2>2. /\ PermitRow(report.events[2 * k - 1], schedule, k)
          /\ ArrivalRow(report.events[2 * k], schedule, k)
      BY <1>2, <2>1 DEF Replayed, Rows
    <2> QED BY <2>2 DEF PermitRow, ArrivalRow
  <1>7. report.observations = [k \in 1 .. N + 1 |-> k - 1]
    <2>1. report.observations = [k \in 1 .. Len(report.observations) |-> report.observations[k]]
      BY <1>3
    <2>2. \A k \in 1 .. N + 1 : report.observations[k] = k - 1 BY <1>2, <1>5 DEF Replayed
    <2> QED BY <1>5, <2>1, <2>2
  <1>8. impl.teardown_attempted /\ pc # "teardown" BY <1>1 DEF ConfirmedInv
  <1>9. history.teardowns = 1 /\ Joinable = {}
    BY <1>1, <1>8 DEF CleanInv, TearInv
  <1>10. \A a \in Actors : Stage(a) = "joined"
    BY <1>1, <1>3, <1>9 DEF SchedInv, Started, Joinable, Stage
  <1> HIDE DEF N
  <1> QED BY <1>5, <1>6, <1>7, <1>9, <1>10 DEF PassedIsFullReplay, N

\* The report says what happened: an arrival in it was reached in that very interval,
\* and a passed one replays the whole schedule, observed around every step, with every
\* thread joined and the program torn down (advance, wait_for_arrival, finish).
THEOREM ReportIsTrue == Spec => []EvidenceTrue
  <1>1. EInv /\ [Next]_vars => EInv'
    BY StepInv, CleanStep, ReachStep, ReplayStep, ConfirmedStep DEF EInv, IInv
  <1>2. EInv => EvidenceTrue
    <2>1. EInv /\ passed => PassedIsFullReplay BY ReplayPassed
    <2>2. ~passed => PassedIsFullReplay BY DEF PassedIsFullReplay
    <2> QED BY <2>1, <2>2 DEF EInv, ReachInv, EvidenceTrue
  <1> QED BY <1>1, <1>2, EvidenceInit, PTL DEF Spec

=============================================================================

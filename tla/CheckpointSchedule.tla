------------------------ MODULE CheckpointSchedule ------------------------
(***************************************************************************)
(* The cooperative checkpoint scheduler (src/schedule.cpp).                *)
(*                                                                         *)
(* A controller thread admits a schedule, builds the application, starts   *)
(* one worker thread per declared actor and grants one permit at a time:   *)
(* the selected actor runs to its next checkpoint or to completion, the    *)
(* others stay parked, and the application is observed between permits.    *)
(*                                                                         *)
(* Critical sections of Shared::mutex are atomic actions, except where the *)
(* controller keeps the mutex across steps (MutexFree).  The stop callback *)
(* takes no mutex and may run between any two steps.                       *)
(***************************************************************************)
EXTENDS Integers, Sequences, FiniteSets

CONSTANTS
  NumActors,     \* number of declared actors; an actor is its index
  Checkpoints,   \* checkpoint names the adapter declares
  Schedules,     \* candidate schedules: sequences of Step
  Suppressors,   \* actors whose code swallows the hook's stop exception
  MaxAttempts    \* bound on the cleanup attempts of one handle

Completion == "$done"
StartMark == "$start"
Unset == "$unset"                          \* std::nullopt
UndeclaredNames == {Completion, "$other"}  \* names no adapter can declare
Actors == 1 .. NumActors
Names == Checkpoints \cup UndeclaredNames \cup {StartMark}
Step == [actor : Nat, checkpoint : Names]

ASSUME ScheduleAssumption ==
  /\ NumActors \in Nat \ {0} /\ MaxAttempts \in Nat \ {0}
  /\ Suppressors \subseteq Actors
  /\ Checkpoints \cap (UndeclaredNames \cup {StartMark, Unset}) = {}
  /\ \A s \in Schedules : s \in Seq(Step)

VARIABLES
  schedule,  \* the schedule under execution
  mode,      \* "run" inside run_schedule, "handle" when a caller owns the handle, "threw"
  pc,        \* where the controller is
  sleep,     \* its condition-variable wait: "awake", "prepared" to sleep, "asleep"
  impl,      \* Execution::Impl, and the index its join loop works on
  shared,    \* Shared: the flags
  report,    \* Shared::report
  actor,     \* Shared::actors, and the stage of each std::thread
  env,       \* the execution deadline, the cleanup budget, the stop token
  history    \* what the workers really reached, and how often teardown ran

ctlVars == <<schedule, mode, pc, impl, shared, env>>
vars == <<ctlVars, sleep, report, actor, history>>

Outcomes == {"completed", "invalid_schedule", "incompatible_identity", "cancelled",
             "timed_out", "unexpected_checkpoint", "uncontrolled_actor",
             "application_failed", "observation_failed", "resource_failed"}
Cleanups == {"not_started", "confirmed", "incomplete", "teardown_failed"}
Phases == {"starting", "parked", "running", "finished"}
Stages == {"none", "spawned", "gate", "app", "hook", "threw", "ending",
           "exiting", "exited", "joined"}
WaitPoints == {"barrier", "arrival", "drain"}
Points == WaitPoints \cup
  {"admit", "register", "construct", "spawn", "observe", "idle", "joining",
   "returned", "cleanup", "reap", "teardown", "verdict", "destroy", "gone"}

Impl == [next_step : Nat, constructed : BOOLEAN, initialized : BOOLEAN, closed : BOOLEAN,
         teardown_attempted : BOOLEAN, teardown_failed : BOOLEAN, reaping : 0 .. NumActors]
Event == [kind : {"permit", "arrival"}, step : Nat, actor : Actors, checkpoint : Names]
Report == [outcome : Outcomes, schedule_completed : BOOLEAN, cleanup : Cleanups,
           remaining : SUBSET Actors, attempts : Seq(Cleanups),
           events : Seq(Event), observations : Seq(Nat)]
ActorState == [stage : Stages, phase : Phases, checkpoint : Names,
               arrival : Names \cup {Unset}]
Flags == [cancelled : BOOLEAN, stopping : BOOLEAN]
Env == [expired : BOOLEAN, drained : BOOLEAN,
        stop : {"unregistered", "early", "idle", "stored", "notified"}]
History == [reached : SUBSET (Nat \X Actors \X Names), teardowns : Nat]

\* The state of the program's structures; fields have the code's names.
TypeOK ==
  /\ schedule \in Schedules /\ mode \in {"run", "handle", "threw"} /\ pc \in Points
  /\ sleep \in {"awake", "prepared", "asleep"}
  /\ impl \in Impl /\ report \in Report /\ actor \in [Actors -> ActorState]
  /\ shared \in Flags /\ env \in Env /\ history \in History

Init ==
  /\ schedule \in Schedules /\ mode \in {"run", "handle"}
  /\ pc = "admit" /\ sleep = "awake"
  /\ impl = [next_step |-> 0, constructed |-> FALSE, initialized |-> FALSE, closed |-> FALSE,
             teardown_attempted |-> FALSE, teardown_failed |-> FALSE, reaping |-> 0]
  /\ shared = [cancelled |-> FALSE, stopping |-> FALSE]
  /\ report = [outcome |-> "completed", schedule_completed |-> FALSE,
               cleanup |-> "not_started", remaining |-> {}, attempts |-> <<>>,
               events |-> <<>>, observations |-> <<>>]
  /\ actor = [a \in Actors |-> [stage |-> "none", phase |-> "starting",
                                checkpoint |-> StartMark, arrival |-> Unset]]
  /\ env = [expired |-> FALSE, drained |-> FALSE, stop |-> "unregistered"]
  /\ history = [reached |-> {}, teardowns |-> 0]

---------------------------------------------------------------------------
(* Shared state *)

Failed == report.outcome # "completed"

\* Shared::fail keeps the first failure ...
LastFailure(o, new) == new   \* mutant: a later failure replaces the first
FirstFailure(o, new) == IF o = "completed" THEN new ELSE o
Fail(new) == report' = [report EXCEPT !.outcome = FirstFailure(@, new)]

\* ... and notify_all wakes the controller only if it really sleeps.
Notify == sleep' = IF sleep = "asleep" THEN "awake" ELSE sleep

\* The controller keeps the mutex while it observes, before it sleeps and
\* from its list of remaining actors to its cleanup verdict.
MutexFree == pc \notin {"observe", "verdict"} /\ sleep # "prepared"

\* A stop request, then the deadline, each only if nothing failed before.
DeadlineOnly(o) ==   \* mutant: the stop request is not looked at again
  IF o = "completed" /\ env.expired THEN "timed_out" ELSE o
CheckLimits(o) ==
  IF o # "completed" THEN o
  ELSE IF shared.cancelled THEN "cancelled"
  ELSE IF env.expired THEN "timed_out" ELSE "completed"

\* Parked actors unwind, and stop_requested answers yes.
CancelOnly == shared' = [shared EXCEPT !.cancelled = TRUE]   \* mutant: nobody unwinds
StopActors == shared' = [cancelled |-> TRUE, stopping |-> TRUE]

Stage(a) == actor[a].stage
Joinable == {a \in Actors : Stage(a) \notin {"none", "joined"}}
Expected == schedule[impl.next_step + 1]
passed == report.outcome = "completed" /\ report.schedule_completed /\ report.cleanup = "confirmed"

---------------------------------------------------------------------------
(* Execution::start *)

\* Known actors, declared checkpoints, one terminal step per actor, none after it.
Admissible(s) ==
  /\ \A i \in 1 .. Len(s) :
       /\ s[i].actor \in Actors
       /\ s[i].checkpoint \in Checkpoints \cup {Completion}
       /\ \A j \in 1 .. i - 1 : s[j].actor = s[i].actor => s[j].checkpoint # Completion
  /\ \A a \in Actors : \E i \in 1 .. Len(s) : s[i] = [actor |-> a, checkpoint |-> Completion]

\* Admission may also reject for a static reason that is no part of the model:
\* policy bounds, profile, duplicate declarations, byte bounds, identity.
Admit ==
  /\ pc = "admit"
  /\ \/ Admissible(schedule) /\ pc' = "register" /\ UNCHANGED report
     \/ \E o \in {"invalid_schedule", "incompatible_identity"} : Fail(o) /\ pc' = "idle"
  /\ UNCHANGED <<schedule, mode, sleep, impl, shared, actor, env, history>>

\* Registering a callback on a token that already stopped runs it at once.
Register ==
  /\ pc = "register"
  /\ IF env.stop = "early"
     THEN /\ shared' = [shared EXCEPT !.cancelled = TRUE]
          /\ env' = [env EXCEPT !.stop = "notified"]
          /\ Fail("cancelled") /\ pc' = "idle"
     ELSE /\ env' = [env EXCEPT !.stop = "idle"]
          /\ pc' = "construct" /\ UNCHANGED <<shared, report>>
  /\ UNCHANGED <<schedule, mode, sleep, impl, actor, history>>

FactoryThrows ==
  /\ pc = "construct"
  /\ Fail("application_failed") /\ pc' = "idle"
  /\ UNCHANGED <<schedule, mode, sleep, impl, shared, actor, env, history>>

\* wellFormed: one function per declared actor, an observer and a teardown.
FactoryReturns(wellFormed) ==
  LET verdict == CheckLimits(IF wellFormed THEN report.outcome
                             ELSE FirstFailure(report.outcome, "application_failed"))
  IN /\ pc = "construct"
     /\ impl' = [impl EXCEPT !.constructed = TRUE]
     /\ report' = [report EXCEPT !.outcome = verdict]
     /\ pc' = IF verdict = "completed" THEN "spawn" ELSE "cleanup"
     /\ UNCHANGED <<schedule, mode, sleep, shared, actor, env, history>>

\* std::thread for each actor, in declaration order.
Spawn(a) ==
  /\ pc = "spawn"
  /\ Stage(a) = "none" /\ \A b \in 1 .. a - 1 : Stage(b) # "none"
  /\ actor' = [actor EXCEPT ![a].stage = "spawned"]
  /\ pc' = IF a = NumActors THEN "barrier" ELSE "spawn"
  /\ UNCHANGED <<schedule, mode, sleep, impl, shared, report, env, history>>

SpawnFails ==
  /\ pc = "spawn"
  /\ Fail("resource_failed") /\ pc' = "barrier"
  /\ UNCHANGED <<schedule, mode, sleep, impl, shared, actor, env, history>>

---------------------------------------------------------------------------
(* Coordinator waits: condition_variable::wait_until with a predicate *)

WaitPredicate ==
  CASE pc = "barrier" -> \/ Failed \/ shared.cancelled
                         \/ \A a \in Actors : actor[a].phase = "parked"
    [] pc = "arrival" -> \/ Failed \/ shared.cancelled
                         \/ actor[Expected.actor].phase # "running"
    [] OTHER -> \A a \in Actors : Stage(a) # "none" => actor[a].phase = "finished"

ExecutionTimer == pc # "drain" /\ env.expired   \* mutant: the cleanup wait has no budget
TimerFired == IF pc = "drain" THEN env.drained ELSE env.expired

\* The predicate is false: about to sleep, still holding the mutex.  With the
\* time already over the wait returns at once (WaitOver).
WaitPrepare ==
  /\ pc \in WaitPoints /\ sleep = "awake" /\ ~WaitPredicate /\ ~TimerFired
  /\ sleep' = "prepared"
  /\ UNCHANGED <<ctlVars, report, actor, history>>

\* The mutex is released and the thread blocks, atomically.
WaitSleep ==
  /\ sleep = "prepared" /\ sleep' = "asleep"
  /\ UNCHANGED <<ctlVars, report, actor, history>>

\* A wakeup that nobody notified: the timer, or a spurious one.
WaitWake ==
  /\ sleep = "asleep" /\ sleep' = "awake"
  /\ UNCHANGED <<ctlVars, report, actor, history>>

WaitOver(point) == pc = point /\ sleep = "awake" /\ (WaitPredicate \/ TimerFired)

BarrierExit ==
  /\ WaitOver("barrier")
  /\ report' = [report EXCEPT !.outcome = CheckLimits(@)]
  /\ pc' = IF CheckLimits(report.outcome) = "completed" THEN "observe" ELSE "cleanup"
  /\ UNCHANGED <<schedule, mode, sleep, impl, shared, actor, env, history>>

---------------------------------------------------------------------------
(* Execution::advance *)

RecordPrevious(kind, a, name) ==   \* mutant: the step index is off by one
  Append(report.events, [kind |-> kind, step |-> impl.next_step - 1, actor |-> a, checkpoint |-> name])
Record(kind, a, name) ==
  Append(report.events, [kind |-> kind, step |-> impl.next_step, actor |-> a, checkpoint |-> name])

CanAdvance == impl.initialized /\ ~impl.closed /\ ~Failed /\ ~report.schedule_completed

\* run_schedule asks for the admitted step; a handle's owner may ask for any.
Requests == [actor : Actors, checkpoint : Checkpoints \cup {Completion}]
MayRequest(step) ==
  mode = "run" => ~impl.closed /\ impl.next_step < Len(schedule) /\ step = Expected

\* The outcome advance settles on before it grants a permit.
AdvanceVerdict(step) ==
  LET limits == CheckLimits(report.outcome)
  IN IF limits # "completed" THEN limits
     ELSE IF impl.next_step >= Len(schedule) \/ step # Expected THEN "invalid_schedule"
     ELSE IF actor[step.actor].phase # "parked" THEN "unexpected_checkpoint"
     ELSE "completed"

\* The permit: the previous arrival is forgotten before the actor may run.
KeptArrival(state) == [state EXCEPT !.phase = "running"]   \* mutant: no reset
Granted(state) == [state EXCEPT !.arrival = Unset, !.phase = "running"]

Advance(step) ==
  LET a == step.actor
      verdict == AdvanceVerdict(step)
  IN /\ pc = "idle" /\ CanAdvance /\ MayRequest(step)
     /\ IF verdict = "completed"
        THEN /\ report' = [report EXCEPT !.events = Record("permit", a, actor[a].checkpoint)]
             /\ actor' = [actor EXCEPT ![a] = Granted(@)]
             /\ pc' = "arrival"
        ELSE /\ report' = [report EXCEPT !.outcome = verdict]
             /\ pc' = "returned" /\ UNCHANGED actor
     /\ UNCHANGED <<schedule, mode, sleep, impl, shared, env, history>>

\* A matched arrival: a finished worker is joined before anything is observed.
NeverJoin(state) == "observe"   \* mutant: observe a finished worker before its join
AfterMatch(state) == IF state.phase = "finished" THEN "joining" ELSE "observe"

\* An arrival is recorded even when the wait failed; only a wait that
\* succeeded is compared with the schedule.
ArrivalExit ==
  LET a == Expected.actor
      limits == CheckLimits(report.outcome)
      matched == limits = "completed" /\ actor[a].checkpoint = Expected.checkpoint
  IN /\ WaitOver("arrival")
     /\ report' = [report EXCEPT
          !.outcome = IF limits = "completed" /\ ~matched THEN "unexpected_checkpoint" ELSE limits,
          !.events = IF actor[a].arrival = Unset THEN @ ELSE Record("arrival", a, actor[a].arrival)]
     /\ pc' = IF matched THEN AfterMatch(actor[a]) ELSE "returned"
     /\ impl' = [impl EXCEPT !.next_step = IF pc' = "observe" THEN @ + 1 ELSE @]
     /\ UNCHANGED <<schedule, mode, sleep, shared, actor, env, history>>

\* The join runs without the mutex.
JoinSelected ==
  /\ pc = "joining" /\ Stage(Expected.actor) = "exited"
  /\ actor' = [actor EXCEPT ![Expected.actor].stage = "joined"]
  /\ impl' = [impl EXCEPT !.next_step = @ + 1]
  /\ pc' = "observe"
  /\ UNCHANGED <<schedule, mode, sleep, shared, report, env, history>>

\* An observer that throws, or returns a value out of bounds, fails the run.
ObserverIgnored(ok) == report.outcome   \* mutant: the exception is swallowed
ObserverVerdict(ok) ==
  IF ok THEN report.outcome ELSE FirstFailure(report.outcome, "observation_failed")

\* Impl::observe, and what start and advance check after it.
Observe(ok) ==
  LET verdict == CheckLimits(ObserverVerdict(ok))
      done == verdict = "completed" /\ impl.initialized /\ impl.next_step = Len(schedule)
  IN /\ pc = "observe"
     /\ report' = [report EXCEPT
          !.outcome = verdict,
          !.observations = IF ok THEN Append(@, impl.next_step) ELSE @,
          !.schedule_completed = @ \/ done]
     /\ impl' = [impl EXCEPT !.initialized = @ \/ verdict = "completed"]
     /\ pc' = IF impl.initialized THEN "returned"
              ELSE IF verdict = "completed" THEN "idle" ELSE "cleanup"
     /\ UNCHANGED <<schedule, mode, sleep, shared, actor, env, history>>

\* The last lines of advance read the failure flag without the mutex.
AdvanceReturn ==
  /\ pc = "returned"
  /\ pc' = IF Failed THEN "cleanup" ELSE "idle"
  /\ UNCHANGED <<schedule, mode, sleep, impl, shared, report, actor, env, history>>

---------------------------------------------------------------------------
(* run_schedule and the owner of a handle *)

\* run_schedule returns its handle without a program or once it is closed ...
RunReturns ==
  /\ pc = "idle" /\ mode = "run"
  /\ ~impl.initialized \/ impl.closed
  /\ mode' = "handle"
  /\ UNCHANGED <<schedule, pc, sleep, impl, shared, report, actor, env, history>>

\* ... and destroys it when advance throws logic_error.
RunThrows ==
  /\ pc = "idle" /\ mode = "run"
  /\ impl.initialized /\ ~impl.closed /\ impl.next_step < Len(schedule) /\ ~CanAdvance
  /\ mode' = "threw" /\ pc' = "destroy"
  /\ StopActors
  /\ UNCHANGED <<schedule, sleep, impl, report, actor, env, history>>

Finish ==
  /\ pc = "idle" /\ impl.constructed /\ ~impl.closed
  /\ mode = "run" => impl.initialized /\ impl.next_step = Len(schedule)
  /\ IF impl.initialized /\ report.schedule_completed
     THEN UNCHANGED report ELSE Fail("invalid_schedule")
  /\ pc' = "cleanup"
  /\ UNCHANGED <<schedule, mode, sleep, impl, shared, actor, env, history>>

CleanupCall ==
  /\ pc = "idle" /\ mode = "handle" /\ Len(report.attempts) < MaxAttempts
  /\ pc' = "cleanup"
  /\ UNCHANGED <<schedule, mode, sleep, impl, shared, report, actor, env, history>>

---------------------------------------------------------------------------
(* Execution::cleanup and ~Execution *)

CleanupEnter ==
  /\ pc = "cleanup"
  /\ impl' = [impl EXCEPT !.closed = TRUE]
  /\ IF impl.constructed
     THEN /\ StopActors
          /\ env' = [env EXCEPT !.drained = FALSE]
          /\ pc' = "drain"
     ELSE pc' = "idle" /\ UNCHANGED <<shared, env>>
  /\ UNCHANGED <<schedule, mode, sleep, report, actor, history>>

\* The join loop from an index on: the next finished thread to join or, at its
\* end, the threads still owned and, when there are none, the teardown.
ToReap(from, state) ==
  {a \in from .. NumActors : state[a].stage \notin {"none", "joined"} /\ state[a].phase = "finished"}
AlwaysDue(left) == left = {}   \* mutant: every complete cleanup tears down
TeardownDue(left) == left = {} /\ ~impl.teardown_attempted
ReapFrom(from, state) ==
  LET left == {a \in Actors : state[a].stage \notin {"none", "joined"}}
  IN \/ \E a \in ToReap(from, state) :
          /\ \A b \in ToReap(from, state) : a <= b
          /\ impl' = [impl EXCEPT !.reaping = a]
          /\ pc' = "reap" /\ UNCHANGED report
     \/ /\ ToReap(from, state) = {}
        /\ report' = [report EXCEPT !.remaining = left]
        /\ impl' = [impl EXCEPT !.teardown_attempted = @ \/ left = {}]
        /\ pc' = IF TeardownDue(left) THEN "teardown" ELSE "verdict"

DrainExit ==
  /\ WaitOver("drain")
  /\ ReapFrom(1, actor)
  /\ UNCHANGED <<schedule, mode, sleep, shared, actor, env, history>>

\* thread::join, without the mutex, returns once the thread has exited.
ReapJoin ==
  /\ pc = "reap" /\ Stage(impl.reaping) = "exited"
  /\ actor' = [actor EXCEPT ![impl.reaping].stage = "joined"]
  /\ ReapFrom(impl.reaping + 1, actor')
  /\ UNCHANGED <<schedule, mode, sleep, shared, env, history>>

\* Program::teardown, without the mutex; a missing one counts as a failed call.
Teardown(ok) ==
  /\ pc = "teardown"
  /\ history' = [history EXCEPT !.teardowns = @ + 1]
  /\ impl' = [impl EXCEPT !.teardown_failed = @ \/ ~ok]
  /\ pc' = "verdict"
  /\ UNCHANGED <<schedule, mode, sleep, shared, report, actor, env>>

TeardownVerdict ==   \* mutant: the remaining threads do not count
  IF impl.teardown_failed THEN "teardown_failed" ELSE "confirmed"
CleanupVerdict ==
  IF report.remaining # {} THEN "incomplete"
  ELSE IF impl.teardown_failed THEN "teardown_failed" ELSE "confirmed"

CleanupReturn ==
  /\ pc = "verdict"
  /\ report' = [report EXCEPT !.cleanup = CleanupVerdict,
                              !.attempts = Append(@, CleanupVerdict)]
  /\ pc' = "idle"
  /\ UNCHANGED <<schedule, mode, sleep, impl, shared, actor, env, history>>

Destroy ==
  /\ pc = "idle" /\ mode = "handle"
  /\ StopActors
  /\ pc' = "destroy"
  /\ UNCHANGED <<schedule, mode, sleep, impl, report, actor, env, history>>

\* The destructor joins every thread, then tears down what no cleanup did.
DestroyJoin ==
  /\ pc = "destroy" /\ \A a \in Joinable : Stage(a) = "exited"
  /\ actor' = [a \in Actors |-> [actor[a] EXCEPT !.stage = IF @ = "none" THEN @ ELSE "joined"]]
  /\ history' = [history EXCEPT
       !.teardowns = IF impl.constructed /\ ~impl.teardown_attempted THEN @ + 1 ELSE @]
  /\ pc' = "gone"
  /\ UNCHANGED <<schedule, mode, sleep, impl, shared, report, env>>

---------------------------------------------------------------------------
(* Workers: the thread body of start, and Checkpoint::arrive *)

\* Worker a takes a step to a stage it may be in after it.
Move(a, stages) == \E s \in stages : actor' = [actor EXCEPT ![a].stage = s]

\* StopActor leaves application code, unless that code swallows it.
AfterStop(a) == IF a \in Suppressors THEN {"ending", "app"} ELSE {"ending"}

\* Worker a stands at a checkpoint of this name.
At(a, name, state) ==
  /\ actor' = [actor EXCEPT ![a] = state]
  /\ history' = [history EXCEPT !.reached = @ \cup {<<impl.next_step, a, name>>}]

\* The thread parks before any application code.
WorkerPark(a) ==
  /\ Stage(a) = "spawned" /\ MutexFree
  /\ actor' = [actor EXCEPT ![a].stage = "gate", ![a].phase = "parked"]
  /\ Notify
  /\ UNCHANGED <<ctlVars, report, history>>

\* A parked thread wakes: stopping is looked at first.
AnyWakeup(a) == report.events # <<>>   \* mutant: a wakeup is taken for a permit
Permitted(a) == actor[a].phase = "running"
WorkerWake(a) ==
  /\ Stage(a) \in {"gate", "hook"} /\ MutexFree
  /\ \/ shared.stopping /\ Move(a, IF Stage(a) = "gate" THEN {"ending"} ELSE AfterStop(a))
     \/ ~shared.stopping /\ Permitted(a) /\ Move(a, {"app"})
  /\ UNCHANGED <<ctlVars, sleep, report, history>>

InTurn(a) == Stage(a) = "app" /\ MutexFree /\ actor[a].phase = "running" /\ ~shared.stopping

\* arrive at a declared checkpoint: park until the next permit.
Arrive(a, c) ==
  /\ InTurn(a)
  /\ At(a, c, [stage |-> "hook", phase |-> "parked", checkpoint |-> c, arrival |-> c])
  /\ Notify
  /\ UNCHANGED <<ctlVars, report>>

\* A name nobody declared is kept as evidence; the actor is told to stop.
ArriveUndeclared(a, c) ==
  /\ InTurn(a)
  /\ \E s \in AfterStop(a) :
       At(a, c, [stage |-> s, phase |-> "running", checkpoint |-> c, arrival |-> c])
  /\ Fail("unexpected_checkpoint") /\ Notify
  /\ UNCHANGED ctlVars

\* arrive once the execution stops: unwind, or report a call out of turn.
ArriveStopped(a) ==
  /\ Stage(a) = "app" /\ MutexFree /\ shared.stopping
  /\ IF actor[a].phase = "running" THEN UNCHANGED <<report, sleep>>
     ELSE Fail("uncontrolled_actor") /\ Notify
  /\ Move(a, AfterStop(a))
  /\ UNCHANGED <<ctlVars, history>>

\* Somebody else calls a's hook: a thread that is no actor, or actor b.
HookAlive(a) == Stage(a) \in {"app", "hook", "threw", "ending"}
ForeignArrive(a) ==
  /\ HookAlive(a) /\ MutexFree
  /\ Fail("uncontrolled_actor") /\ Notify
  /\ \/ UNCHANGED actor
     \/ \E b \in Actors \ {a} : Stage(b) = "app" /\ Move(b, AfterStop(b))
  /\ UNCHANGED <<ctlVars, history>>

\* The worker function returns or throws.
WorkerLeave(a) ==
  /\ Stage(a) = "app" /\ Move(a, {"ending", "threw"})
  /\ UNCHANGED <<ctlVars, sleep, report, history>>

\* The exception is reported in a critical section of its own ...
WorkerReport(a) ==
  /\ Stage(a) = "threw" /\ MutexFree
  /\ Fail("application_failed") /\ Notify
  /\ Move(a, {"ending"})
  /\ UNCHANGED <<ctlVars, history>>

\* ... and completion in the next one.  An arrival already kept stays.
WorkerComplete(a) ==
  /\ Stage(a) = "ending" /\ MutexFree
  /\ At(a, Completion, [stage |-> "exiting", phase |-> "finished", checkpoint |-> Completion,
       arrival |-> IF actor[a].arrival = Unset THEN Completion ELSE actor[a].arrival])
  /\ Notify
  /\ UNCHANGED <<ctlVars, report>>

\* Thread-local destructors run, then the thread is over.
WorkerExit(a) ==
  /\ Stage(a) = "exiting" /\ Move(a, {"exited"})
  /\ UNCHANGED <<ctlVars, sleep, report, history>>

---------------------------------------------------------------------------
(* Environment: the clock and the stop token *)

DeadlinePasses ==
  /\ pc \notin {"admit", "register", "gone"} /\ ~env.expired
  /\ env' = [env EXCEPT !.expired = TRUE]
  /\ UNCHANGED <<schedule, mode, pc, sleep, impl, shared, report, actor, history>>

BudgetPasses ==
  /\ pc = "drain" /\ ~env.drained
  /\ env' = [env EXCEPT !.drained = TRUE]
  /\ UNCHANGED <<schedule, mode, pc, sleep, impl, shared, report, actor, history>>

\* The stop callback stores the flag and then notifies; it takes no mutex.
RequestStop ==
  /\ \/ /\ env.stop = "unregistered" /\ pc \in {"admit", "register"}
        /\ env' = [env EXCEPT !.stop = "early"] /\ UNCHANGED shared
     \/ /\ env.stop = "idle" /\ pc # "gone"
        /\ env' = [env EXCEPT !.stop = "stored"]
        /\ shared' = [shared EXCEPT !.cancelled = TRUE]
  /\ UNCHANGED <<schedule, mode, pc, sleep, impl, report, actor, history>>

StopNotify ==
  /\ env.stop = "stored"
  /\ env' = [env EXCEPT !.stop = "notified"]
  /\ Notify
  /\ UNCHANGED <<schedule, mode, pc, impl, shared, report, actor, history>>

---------------------------------------------------------------------------

\* Steps of the controller inside a call, and of run_schedule between calls.
ControllerStep ==
  \/ Admit \/ Register \/ FactoryThrows \/ SpawnFails
  \/ \E ok \in BOOLEAN : FactoryReturns(ok) \/ Observe(ok) \/ Teardown(ok)
  \/ \E a \in Actors : Spawn(a)
  \/ WaitPrepare \/ WaitSleep \/ BarrierExit \/ ArrivalExit \/ JoinSelected \/ AdvanceReturn
  \/ RunReturns \/ RunThrows
  \/ CleanupEnter \/ DrainExit \/ ReapJoin \/ CleanupReturn \/ DestroyJoin

\* Calls on the handle; while run_schedule drives, its own loop.
OwnerCall == Finish \/ CleanupCall \/ Destroy \/ \E step \in Requests : Advance(step)

\* What the runtime does for a worker whatever the application does.
WorkerRuntime(a) ==
  WorkerPark(a) \/ WorkerWake(a) \/ WorkerReport(a) \/ WorkerComplete(a) \/ WorkerExit(a)

\* What the application may do in a worker.
Application(a) ==
  \/ \E c \in Checkpoints : Arrive(a, c)
  \/ \E c \in UndeclaredNames : ArriveUndeclared(a, c)
  \/ ArriveStopped(a) \/ WorkerLeave(a)

Environment ==
  \/ WaitWake \/ DeadlinePasses \/ BudgetPasses \/ RequestStop \/ StopNotify
  \/ \E a \in Actors : ForeignArrive(a)

Terminated == pc = "gone" /\ UNCHANGED vars

Next ==
  \/ ControllerStep \/ OwnerCall \/ Environment \/ Terminated
  \/ \E a \in Actors : WorkerRuntime(a) \/ Application(a)

Spec == Init /\ [][Next]_vars

---------------------------------------------------------------------------
(* Safety *)

\* Stages in which a worker executes application code or its destructors.
Executing == {a \in Actors : Stage(a) \in {"app", "threw", "ending", "exiting"}}

\* Until the execution stops at most one actor executes, and none before the
\* initial state was observed ("other actors remain parked").
SingleRunner ==
  ~shared.stopping =>
    /\ \A a, b \in Executing : a = b
    /\ Executing # {} => report.observations # <<>>

\* Program::observe is called only while every actor is parked, or has
\* finished and been joined with its thread-local destructors over.
ObserverQuiescence ==
  pc = "observe" =>
    \A a \in Actors :
      \/ Stage(a) \in {"gate", "hook"} /\ actor[a].phase = "parked"
      \/ Stage(a) = "joined" /\ actor[a].phase = "finished"

\* An interval belongs to the selected actor alone, and what is observed after it
\* is nobody's intermediate state (advance, arrive, observe_state).
Isolation == SingleRunner /\ ObserverQuiescence

\* A passed report replays the whole schedule, step by step: a permit and a
\* matching arrival per step, an observation around each, nothing left owned.
PassedIsFullReplay ==
  LET ev(k) == report.events[k]
  IN passed =>
    /\ Len(report.events) = 2 * Len(schedule)
    /\ \A k \in 1 .. Len(schedule) :
         /\ ev(2 * k - 1).kind = "permit" /\ ev(2 * k).kind = "arrival"
         /\ \A i \in {2 * k - 1, 2 * k} : ev(i).step = k - 1 /\ ev(i).actor = schedule[k].actor
         /\ ev(2 * k).checkpoint = schedule[k].checkpoint
    /\ report.observations = [k \in 1 .. Len(schedule) + 1 |-> k - 1]
    /\ \A a \in Actors : Stage(a) = "joined"
    /\ history.teardowns = 1

\* An arrival in the report happened in that very interval: a wait that timed
\* out or was cancelled is never completed with an older arrival.
NoFabricatedArrival ==
  \A i \in DOMAIN report.events :
    LET e == report.events[i]
    IN e.kind = "arrival" => <<e.step, e.actor, e.checkpoint>> \in history.reached

\* The report says what happened: no arrival in it is made up, and a passed one is
\* the whole replay (advance, wait_for_arrival, finish).
EvidenceTrue == PassedIsFullReplay /\ NoFabricatedArrival

\* Teardown runs at most once, only when no started thread is left, and no
\* program that was constructed escapes it when the handle ends.
TeardownOnceAfterJoin ==
  /\ history.teardowns <= 1
  /\ history.teardowns = 1 \/ pc = "teardown" => impl.constructed /\ Joinable = {}
  /\ pc = "gone" => Joinable = {} /\ (impl.constructed => history.teardowns = 1)

\* Between calls the cleanup status and the remaining actors are the truth
\* about the threads the handle owns.
CleanupTruthful ==
  pc = "idle" /\ report.cleanup # "not_started" =>
    /\ report.remaining = Joinable
    /\ report.cleanup = "incomplete" <=> Joinable # {}
    /\ report.cleanup = "confirmed" => history.teardowns = 1

\* The first failure stays the reported one, through cleanup and its retries.
PrimaryFailureSticky == [][Failed => report'.outcome = report.outcome]_vars

\* A stop request or deadline that comes before completion wins over it.
LimitsBeatCompletion ==
  [][(shared.cancelled \/ env.expired) /\ ~report.schedule_completed =>
       ~report'.schedule_completed]_vars

\* "A stop token interrupts coordinator waits": once the stop callback has
\* returned, the controller no longer sleeps waiting for an actor.
StopInterruptsWait ==
  env.stop = "notified" => ~(pc \in {"barrier", "arrival"} /\ sleep = "asleep")

\* "The returned handle owns incomplete executions as well as successful
\* ones": run_schedule does not end without returning its handle.
RunScheduleReturnsHandle == mode # "threw"

---------------------------------------------------------------------------
(* Liveness *)

\* Threads are scheduled, the clock advances, trusted callbacks return.
TimedWake == TimerFired /\ WaitWake
RuntimeFairness ==
  /\ WF_vars(ControllerStep) /\ WF_vars(TimedWake)
  /\ WF_vars(DeadlinePasses) /\ WF_vars(BudgetPasses)
  /\ \A a \in Actors : WF_vars(WorkerRuntime(a))
FairSpec == Spec /\ RuntimeFairness

\* Every call on the handle returns, whatever the application does.
CallsReturn == pc \notin {"idle", "destroy", "gone"} ~> pc \in {"idle", "destroy", "gone"}

\* The destructor joins without a budget: it ends, and with it every thread, provided
\* that the application is cooperative, that is, its code always returns, throws or
\* reaches a hook.
Cooperative == \A a \in Actors : WF_vars(Application(a))
DestructorEnds == Cooperative => (pc = "destroy" ~> pc = "gone")
====

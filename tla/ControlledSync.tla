-------------------------- MODULE ControlledSync --------------------------
(***************************************************************************)
(* Controlled synchronization (src/schedule_sync.cpp): actors run real     *)
(* threads but every lock, unlock, send and receive is a request that      *)
(* parks the actor until the controller grants it.                         *)
(*                                                                         *)
(* Every write of State, and every notification, happens under its mutex,  *)
(* so a critical section is an action and a condition-variable wait is the *)
(* guard of the action that follows it.                                    *)
(***************************************************************************)
EXTENDS Integers, Sequences, FiniteSets

CONSTANTS
  NumActors,     \* declared actors, by index in sorted order
  Mutexes, Queues,
  Capacity,      \* capacity of every queue
  Values,        \* values applications send
  Unwinders,     \* actors whose code lets an exception pass a MutexGuard and handles it
  Programs       \* what is executed, with its bounds:
  \* [code : what each worker requests, max_decisions (of the policy),
  \*  max_evidence (max_evidence_bytes of the policy, a row counting one),
  \*  max_attempts (bound on cleanup calls) : Nat]

Actors == 1 .. NumActors
Nobody == 0
Op == [op : {"lock", "unlock", "send", "receive", "checkpoint", "start", "$done"},
       res : Mutexes \cup Queues \cup {"$none"}, value : Values \cup {0}]
Internal(name) == [op |-> name, res |-> "$none", value |-> 0]
Requestable == {o \in Op : o.op \notin {"start", "$done"}}   \* the public calls of a Hook

ASSUME SyncAssumption ==
  /\ NumActors \in Nat \ {0} /\ Capacity \in Nat \ {0}
  /\ Unwinders \subseteq Actors /\ Mutexes \cap Queues = {} /\ "$none" \notin Mutexes \cup Queues
  /\ \A p \in Programs : /\ p.code \in [Actors -> Seq(Requestable)]
                         /\ {p.max_decisions, p.max_evidence, p.max_attempts} \subseteq Nat

VARIABLES
  program,   \* what each worker will request, and the bounds
  ctl,       \* the controller: where it is, the actor it selected, what it owns
  state,     \* State: report, cancelled, execution_ended, failure_graph
  actor,     \* State::actors, and the stage of each std::thread
  resource,  \* State::resources
  log,       \* State::events, State::observations
  env,       \* the execution deadline and the cleanup budget
  history    \* teardown calls, cleanup attempts, a worker ran while observed, a
             \* cleanup attempt overran its budget

vars == <<program, ctl, state, actor, resource, log, env, history>>

Outcomes == {"completed", "invalid_profile", "timed_out", "application_failed", "resource_misuse",
             "observation_failed", "evidence_exhausted", "disabled_choice", "decision_exhausted",
             "controlled_deadlock", "cancelled"}
Stages == {"none", "spawned", "parked", "running", "threw", "ending", "exiting", "exited", "joined"}
Points == {"start", "spawn", "barrier", "observe", "observing", "idle", "boundary", "joining",
           "drain", "reap", "reaping", "teardown", "destroy", "gone"}
Resources == [owner : [Mutexes -> Actors \cup {Nobody}], queue : [Queues -> Seq(Values \cup {0})]]
Graph == [waits : SUBSET (Actors \X Op), resource : Resources]

TypeOK ==
  /\ program \in Programs
  /\ ctl \in [pc : Points, selected : Actors, acquired : BOOLEAN, teardown_attempted : BOOLEAN]
  /\ state \in [outcome : Outcomes, finished : BOOLEAN, decisions : 0 .. program.max_decisions,
                cleanup : {"not_started", "confirmed", "incomplete", "teardown_failed"},
                execution_exceeded : BOOLEAN, cleanup_exceeded : BOOLEAN,
                cancelled : BOOLEAN, ended : BOOLEAN, graph : Graph]
  /\ actor \in [Actors -> [stage : Stages, pending : Op, next : Nat, grant : BOOLEAN,
                           arrived : BOOLEAN]]
  /\ resource \in Resources
  /\ log \in [events : Seq([kind : {"grant", "result"}, actor : Actors, pending : Op]),
              observations : Seq(0 .. program.max_decisions)]
  /\ env \in [expired : BOOLEAN, drained : BOOLEAN]
  /\ history \in [teardowns : Nat, attempts : 0 .. program.max_attempts, disturbed : BOOLEAN,
                  overran : BOOLEAN]

NoResources == [owner |-> [m \in Mutexes |-> Nobody], queue |-> [q \in Queues |-> <<>>]]

Init ==
  /\ program \in Programs
  /\ ctl = [pc |-> "start", selected |-> 1, acquired |-> FALSE, teardown_attempted |-> FALSE]
  /\ state = [outcome |-> "completed", finished |-> FALSE, decisions |-> 0,
              cleanup |-> "not_started", execution_exceeded |-> FALSE,
              cleanup_exceeded |-> FALSE, cancelled |-> FALSE, ended |-> FALSE,
              graph |-> [waits |-> {}, resource |-> NoResources]]
  /\ actor = [a \in Actors |-> [stage |-> "none", pending |-> Internal("start"), next |-> 1,
                                grant |-> FALSE, arrived |-> FALSE]]
  /\ resource = NoResources
  /\ log = [events |-> <<>>, observations |-> <<>>]
  /\ env = [expired |-> FALSE, drained |-> FALSE]
  /\ history = [teardowns |-> 0, attempts |-> 0, disturbed |-> FALSE, overran |-> FALSE]

---------------------------------------------------------------------------
(* State *)

Stage(a) == actor[a].stage
Finished(a) == Stage(a) \in {"exiting", "exited", "joined"}
Started == {a \in Actors : Stage(a) # "none"}
Joinable == {a \in Actors : Stage(a) \notin {"none", "joined"}}
AllFinished == \A a \in Actors : Finished(a)
AllParked == \A a \in Actors : Stage(a) = "parked" \/ Finished(a)

\* State::fail: the first finding stays, with the wait graph of its moment.
GraphOf(act, res) ==
  [waits |-> {<<a, act[a].pending>> : a \in {b \in Actors : act[b].stage = "parked"}},
   resource |-> res]
FailAnew(s, outcome, act, res) ==   \* mutant: every failure takes a new graph
  [s EXCEPT !.cancelled = TRUE, !.outcome = IF @ = "completed" THEN outcome ELSE @,
            !.graph = GraphOf(act, res)]
FailIn(s, outcome, act, res) ==
  IF s.outcome # "completed" THEN [s EXCEPT !.cancelled = TRUE]
  ELSE [s EXCEPT !.cancelled = TRUE, !.outcome = outcome, !.graph = GraphOf(act, res)]
Fail(s, outcome) == FailIn(s, outcome, actor, resource)

\* State::execution_expired and cleanup_expired: sticky facts, and a failure.
ExpiryIgnored(s) == s   \* mutant: the deadline is not looked at
CheckDeadline(s) ==
  IF s.ended \/ ~env.expired THEN s
  ELSE Fail([s EXCEPT !.execution_exceeded = TRUE], "timed_out")
CheckBudget(s) ==
  IF env.drained THEN Fail([s EXCEPT !.cleanup_exceeded = TRUE], "timed_out") ELSE s

\* State::enabled
OpPossible(a, o, res) ==
  \/ o.op \in {"start", "checkpoint", "$done"}
  \/ o.op = "lock" /\ res.owner[o.res] = Nobody
  \/ o.op = "unlock" /\ res.owner[o.res] = a
  \/ o.op = "send" /\ Len(res.queue[o.res]) < Capacity
  \/ o.op = "receive" /\ res.queue[o.res] # <<>>
ParkedOnly(a) == Stage(a) = "parked"   \* mutant: the resource is not looked at
Enabled(a) == Stage(a) = "parked" /\ OpPossible(a, actor[a].pending, resource)

\* State::event: a row is kept if it fits.
Fits == Len(log.events) + Len(log.observations) < program.max_evidence
Row(kind, a, o) == [kind |-> kind, actor |-> a, pending |-> o]
AddEvent(row) == log' = [log EXCEPT !.events = IF Fits THEN Append(@, row) ELSE @]

passed == /\ state.outcome = "completed" /\ state.finished /\ state.cleanup = "confirmed"
          /\ ~state.execution_exceeded /\ ~state.cleanup_exceeded

At(point) == ctl.pc = point
Goto(point) == ctl' = [ctl EXCEPT !.pc = point]

---------------------------------------------------------------------------
(* Execution::Execution *)

\* Static admission refuses, or the deadline passes before the factory.
Refuse ==
  /\ At("start") /\ Goto("idle")
  /\ state' \in {Fail(state, "invalid_profile"), CheckDeadline(state)}
  /\ state' # state
  /\ UNCHANGED <<program, actor, resource, log, env, history>>

\* The factory throws, or returns a program: in time or late, well formed or not.
Factory(result) ==
  LET s == IF result = "threw" THEN Fail(state, "application_failed") ELSE state
      t == CheckDeadline(s)
      u == IF ~t.cancelled /\ result = "invalid" THEN Fail(t, "application_failed") ELSE t
  IN /\ At("start")
     /\ state' = u
     /\ ctl' = [ctl EXCEPT !.acquired = result # "threw",
                           !.pc = IF u.cancelled THEN "idle" ELSE "spawn"]
     /\ UNCHANGED <<program, actor, resource, log, env, history>>

Spawn(a) ==
  /\ At("spawn") /\ Stage(a) = "none" /\ \A b \in 1 .. a - 1 : Stage(b) # "none"
  /\ actor' = [actor EXCEPT ![a].stage = "spawned"]
  /\ Goto(IF a = NumActors THEN "barrier" ELSE "spawn")
  /\ UNCHANGED <<program, state, resource, log, env, history>>

SpawnFails ==
  /\ At("spawn") /\ Goto("barrier")
  /\ state' = Fail(state, "application_failed")
  /\ UNCHANGED <<program, actor, resource, log, env, history>>

Barrier ==
  LET s == CheckDeadline(state)
  IN /\ At("barrier") /\ (state.cancelled \/ AllParked \/ env.expired)
     /\ state' = s
     /\ Goto(IF s.cancelled THEN "idle" ELSE "observe")
     /\ UNCHANGED <<program, actor, resource, log, env, history>>

---------------------------------------------------------------------------
(* Impl::observe: the observer runs without the mutex *)

ObserveBegin ==
  LET s == CheckDeadline(state)
  IN /\ At("observe")
     /\ state' = s
     /\ Goto(IF s.cancelled THEN "idle" ELSE "observing")
     /\ history' = [history EXCEPT !.disturbed = FALSE]
     /\ UNCHANGED <<program, actor, resource, log, env>>

\* Whether a value is kept is decided after the call, under the mutex.
KeepUnlessLate(s) == ~s.execution_exceeded   \* mutant: cancellation is not looked at again
Keep(s) == ~s.cancelled
ObserveEnd(result) ==
  LET s == CheckDeadline(IF result = "threw" THEN Fail(state, "observation_failed") ELSE state)
      keep == Keep(s) /\ result = "value" /\ Fits
  IN /\ At("observing") /\ Goto("idle")
     /\ log' = IF keep THEN [log EXCEPT !.observations = Append(@, state.decisions)] ELSE log
     /\ state' = IF keep THEN [s EXCEPT !.ended = @ \/ s.finished]
                 ELSE IF s.cancelled THEN s ELSE Fail(s, "evidence_exhausted")
     /\ UNCHANGED <<program, actor, resource, env, history>>

---------------------------------------------------------------------------
(* Execution::enabled and Execution::advance *)

QueryEnabled ==
  LET s == CheckDeadline(state)
      stuck == ~s.cancelled /\ (\A a \in Actors : ~Enabled(a)) /\ ~AllFinished /\ AllParked
  IN /\ At("idle")
     /\ state' = IF stuck THEN Fail(s, "controlled_deadlock") ELSE s
     /\ UNCHANGED <<program, ctl, actor, resource, log, env, history>>

DecisionsLeft == state.decisions < program.max_decisions

\* A choice that advance refuses.
AdvanceRefused(a) ==
  LET s == CheckDeadline(state)
  IN /\ At("idle") /\ ~state.cancelled
     /\ \/ s.cancelled /\ state' = s
        \/ ~s.cancelled /\ ~Enabled(a) /\ state' = Fail(s, "disabled_choice")
        \/ /\ ~s.cancelled /\ Enabled(a) /\ ~DecisionsLeft
           /\ state' = Fail(s, "decision_exhausted")
        \/ /\ ~s.cancelled /\ Enabled(a) /\ DecisionsLeft /\ ~Fits
           /\ state' = Fail(s, "evidence_exhausted")
     /\ UNCHANGED <<program, ctl, actor, resource, log, env, history>>

AdvanceGrants(a) ==
  /\ At("idle") /\ ~CheckDeadline(state).cancelled
  /\ Enabled(a) /\ DecisionsLeft /\ Fits
  /\ AddEvent(Row("grant", a, actor[a].pending))
  /\ state' = [state EXCEPT !.decisions = @ + 1]
  /\ actor' = [actor EXCEPT ![a].grant = TRUE, ![a].arrived = FALSE]
  /\ ctl' = [ctl EXCEPT !.pc = "boundary", !.selected = a]
  /\ UNCHANGED <<program, resource, env, history>>

\* The actor requested again or finished, the execution failed, or time is up.
BoundaryReached == state.cancelled \/ actor[ctl.selected].arrived \/ env.expired
Boundary ==
  LET a == ctl.selected
      s == CheckDeadline(IF state.cancelled \/ actor[a].arrived THEN state
                         ELSE Fail(state, "timed_out"))
  IN /\ At("boundary") /\ BoundaryReached
     /\ state' = s
     /\ Goto(IF s.cancelled THEN "idle" ELSE IF Finished(a) THEN "joining" ELSE "observe")
     /\ UNCHANGED <<program, actor, resource, log, env, history>>

SomeFinished == \E a \in Actors : Finished(a)   \* mutant: the first completion counts
ExecutionFinished == AllFinished

\* A finished actor is joined, without the mutex, before it is observed.
JoinSelected ==
  LET s == CheckDeadline([state EXCEPT !.finished = ExecutionFinished])
  IN /\ At("joining") /\ Stage(ctl.selected) = "exited"
     /\ actor' = [actor EXCEPT ![ctl.selected].stage = "joined"]
     /\ state' = s
     /\ Goto(IF s.cancelled THEN "idle" ELSE "observe")
     /\ UNCHANGED <<program, resource, log, env, history>>

---------------------------------------------------------------------------
(* Execution::cleanup and ~Execution *)

CleanupEnter ==
  LET late == CheckDeadline(state)
      s == IF state.outcome = "completed" /\ ~state.finished THEN Fail(late, "cancelled") ELSE state
  IN /\ At("idle") /\ history.attempts < program.max_attempts
     /\ state.cleanup \notin {"confirmed", "teardown_failed"}
     /\ state' = [s EXCEPT !.cancelled = TRUE]
     /\ env' = [env EXCEPT !.drained = FALSE]
     /\ history' = [history EXCEPT !.attempts = @ + 1]
     /\ Goto("drain")
     /\ UNCHANGED <<program, actor, resource, log>>

Incomplete == state' = [CheckBudget(state) EXCEPT !.cleanup = "incomplete"]

Drain ==
  /\ At("drain")
  /\ IF \A a \in Started : Finished(a) THEN Goto("reap") /\ UNCHANGED state
     ELSE env.drained /\ Incomplete /\ Goto("idle")
  /\ UNCHANGED <<program, actor, resource, log, env, history>>

\* The budget is looked at before each join ...
ReapNext(a) ==
  /\ At("reap") /\ a \in Joinable /\ \A b \in Joinable : a <= b
  /\ IF env.drained THEN Incomplete /\ Goto("idle")
     ELSE ctl' = [ctl EXCEPT !.pc = "reaping", !.selected = a] /\ UNCHANGED state
  /\ UNCHANGED <<program, actor, resource, log, env, history>>

\* ... and again after it: a join cannot be interrupted.
ReapJoin ==
  /\ At("reaping") /\ Stage(ctl.selected) = "exited" /\ Goto("reap")
  /\ actor' = [actor EXCEPT ![ctl.selected].stage = "joined"]
  /\ state' = CheckBudget(state)
  /\ UNCHANGED <<program, resource, log, env, history>>

\* Nothing is left to join: tear down what was acquired, once.
TornDownAgain == ctl.acquired   \* mutant: the attempt is not remembered
TeardownDue == ctl.acquired /\ ~ctl.teardown_attempted
TeardownNext ==
  /\ At("reap") /\ Joinable = {}
  /\ \/ /\ TeardownDue /\ env.drained /\ Incomplete /\ Goto("idle")
     \/ /\ TeardownDue /\ ~env.drained /\ UNCHANGED state
        /\ ctl' = [ctl EXCEPT !.pc = "teardown", !.teardown_attempted = TRUE]
     \/ /\ ~TeardownDue /\ Goto("idle")
        /\ state' = [state EXCEPT !.cleanup = IF ctl.acquired THEN "confirmed" ELSE "not_started"]
  /\ UNCHANGED <<program, actor, resource, log, env, history>>

\* A failed or late teardown stays attempted.
Teardown(ok) ==
  /\ At("teardown") /\ Goto("idle")
  /\ state' = [CheckBudget(state) EXCEPT !.cleanup = IF ok THEN "confirmed" ELSE "teardown_failed"]
  /\ history' = [history EXCEPT !.teardowns = @ + 1]
  /\ UNCHANGED <<program, actor, resource, log, env>>

Destroy ==
  /\ At("idle") /\ Goto("destroy")
  /\ state' = [state EXCEPT !.cancelled = TRUE]
  /\ UNCHANGED <<program, actor, resource, log, env, history>>

DestroyJoin ==
  /\ At("destroy") /\ \A a \in Joinable : Stage(a) = "exited"
  /\ actor' = [a \in Actors |-> [actor[a] EXCEPT !.stage = IF @ = "none" THEN @ ELSE "joined"]]
  /\ history' = [history EXCEPT !.teardowns = IF TeardownDue THEN @ + 1 ELSE @]
  /\ ctl' = [ctl EXCEPT !.pc = "gone", !.teardown_attempted = @ \/ TeardownDue]
  /\ UNCHANGED <<program, state, resource, log, env>>

---------------------------------------------------------------------------
(* Workers: the thread body, and Hook::request *)

\* A step in which worker a runs outside the hook's wait.
Runs == history' = [history EXCEPT !.disturbed = @ \/ At("observing")]

\* The exception leaves the worker function, or its code handles it.
Thrown(a) == \E s \in {"threw", "running"} : actor' = [actor EXCEPT ![a].stage = s]

\* Park with a pending operation; the controller sees a new version.
Park(a, o) ==
  actor' = [actor EXCEPT ![a].stage = "parked", ![a].pending = o, ![a].grant = FALSE,
                         ![a].arrived = TRUE]

WorkerStart(a) ==
  /\ Stage(a) = "spawned"
  /\ IF state.cancelled THEN actor' = [actor EXCEPT ![a].stage = "threw"]
     ELSE Park(a, Internal("start"))
  /\ Runs
  /\ UNCHANGED <<program, ctl, state, resource, log, env>>

\* What the worker asks for next: its program's operation, or completion.
NextOp(a) == IF actor[a].next <= Len(program.code[a]) THEN program.code[a][actor[a].next] ELSE Internal("$done")

\* Wrong kind, unknown resource, recursive acquire, or release by another.
Misuse(a, o) ==
  \/ o.op \in {"lock", "unlock"} /\ o.res \notin Mutexes
  \/ o.op \in {"send", "receive"} /\ o.res \notin Queues
  \/ o.op = "lock" /\ o.res \in Mutexes /\ resource.owner[o.res] = a
  \/ o.op = "unlock" /\ o.res \in Mutexes /\ resource.owner[o.res] # a

Request(a) ==
  LET o == NextOp(a)
  IN /\ Stage(a) = "running" /\ ~state.cancelled
     /\ IF Misuse(a, o) THEN state' = Fail(state, "resource_misuse") /\ Thrown(a)
        ELSE Park(a, o) /\ UNCHANGED state
     /\ Runs
     /\ UNCHANGED <<program, ctl, resource, log, env>>

RequestCancelled(a) ==
  /\ Stage(a) = "running" /\ state.cancelled
  /\ IF NextOp(a).op = "$done" THEN actor' = [actor EXCEPT ![a].stage = "threw"] ELSE Thrown(a)
  /\ Runs
  /\ UNCHANGED <<program, ctl, state, resource, log, env>>

\* What a granted operation does to its resource, and the value it yields.
Applied(a, o) ==
  IF o.op = "lock" THEN [resource EXCEPT !.owner[o.res] = a]
  ELSE IF o.op = "unlock" THEN [resource EXCEPT !.owner[o.res] = Nobody]
  ELSE IF o.op = "send" THEN [resource EXCEPT !.queue[o.res] = Append(@, o.value)]
  ELSE IF o.op = "receive" THEN [resource EXCEPT !.queue[o.res] = Tail(@)]
  ELSE resource
PeekOnly(a, o) ==   \* mutant: receive leaves the value in the queue
  IF o.op = "receive" THEN resource ELSE Applied(a, o)
Apply(a, o) == Applied(a, o)
Yield(o) == IF o.op = "receive" THEN [o EXCEPT !.value = Head(resource.queue[o.res])] ELSE o

WorkerResumes(a) ==
  LET o == actor[a].pending
  IN /\ Stage(a) = "parked" /\ actor[a].grant /\ ~state.cancelled
     /\ resource' = Apply(a, o)
     /\ AddEvent(Row("result", a, Yield(o)))
     /\ actor' = [actor EXCEPT ![a].stage = IF o.op = "$done" THEN "ending" ELSE "running",
                               ![a].next = IF o.op \in {"start", "$done"} THEN @ ELSE @ + 1,
                               ![a].grant = FALSE]
     /\ state' = IF Fits THEN state ELSE FailIn(state, "evidence_exhausted", actor', resource')
     /\ Runs
     /\ UNCHANGED <<program, ctl, env>>

WorkerCancelled(a) ==
  /\ Stage(a) = "parked" /\ state.cancelled
  /\ IF actor[a].pending.op \in {"start", "$done"}
     THEN actor' = [actor EXCEPT ![a].stage = "threw"] ELSE Thrown(a)
  /\ Runs
  /\ UNCHANGED <<program, ctl, state, resource, log, env>>

\* Application code throws.
WorkerThrows(a) ==
  /\ Stage(a) = "running" /\ actor' = [actor EXCEPT ![a].stage = "threw"]
  /\ Runs
  /\ UNCHANGED <<program, ctl, state, resource, log, env>>

\* ~MutexGuard while an exception passes: released without request or event.
UnwindRelease(a, m) ==
  /\ resource.owner[m] = a
  /\ Stage(a) = "threw" \/ (Stage(a) = "running" /\ (state.cancelled \/ a \in Unwinders))
  /\ resource' = [resource EXCEPT !.owner[m] = Nobody]
  /\ Runs
  /\ UNCHANGED <<program, ctl, state, actor, log, env>>

\* The catch of the thread body, in a critical section of its own ...
WorkerReport(a) ==
  /\ Stage(a) = "threw"
  /\ actor' = [actor EXCEPT ![a].stage = "ending"]
  /\ state' = IF state.cancelled THEN state ELSE Fail(state, "application_failed")
  /\ Runs
  /\ UNCHANGED <<program, ctl, resource, log, env>>

\* ... and its end, which leaves no mutex behind.
Held(a) == {m \in Mutexes : resource.owner[m] = a}
WorkerFinish(a) ==
  /\ Stage(a) = "ending"
  /\ state' = IF state.cancelled \/ Held(a) = {} THEN state ELSE Fail(state, "resource_misuse")
  /\ resource' = [resource EXCEPT !.owner = [m \in Mutexes |-> IF m \in Held(a) THEN Nobody ELSE @[m]]]
  /\ actor' = [actor EXCEPT ![a].stage = "exiting", ![a].arrived = TRUE]
  /\ Runs
  /\ UNCHANGED <<program, ctl, log, env>>

WorkerExit(a) ==
  /\ Stage(a) = "exiting" /\ actor' = [actor EXCEPT ![a].stage = "exited"]
  /\ Runs
  /\ UNCHANGED <<program, ctl, state, resource, log, env>>

\* A thread that does not own the hook calls it.
ForeignRequest(a) ==
  /\ \/ Stage(a) = "running"
     \/ Stage(a) \in {"parked", "threw", "ending"} /\ actor[a].pending.op # "start"
  /\ state' = Fail(state, "resource_misuse")
  /\ UNCHANGED <<program, ctl, actor, resource, log, env, history>>

DeadlinePasses ==
  /\ ~env.expired /\ ~At("gone") /\ env' = [env EXCEPT !.expired = TRUE]
  /\ UNCHANGED <<program, ctl, state, actor, resource, log, history>>
BudgetPasses ==
  /\ ~env.drained /\ ctl.pc \in {"drain", "reap", "reaping", "teardown"}
  /\ env' = [env EXCEPT !.drained = TRUE]
  /\ history' = [history EXCEPT !.overran = TRUE]
  /\ UNCHANGED <<program, ctl, state, actor, resource, log>>

---------------------------------------------------------------------------

ControllerStep ==
  \/ Refuse \/ SpawnFails \/ Barrier \/ ObserveBegin \/ Boundary \/ JoinSelected
  \/ \E r \in {"threw", "invalid", "program"} : Factory(r)
  \/ \E r \in {"threw", "invalid", "value"} : ObserveEnd(r)
  \/ \E a \in Actors : Spawn(a) \/ ReapNext(a)
  \/ Drain \/ ReapJoin \/ TeardownNext \/ DestroyJoin
  \/ \E ok \in BOOLEAN : Teardown(ok)
OwnerCall ==
  \/ QueryEnabled \/ CleanupEnter \/ Destroy
  \/ \E a \in Actors : AdvanceRefused(a) \/ AdvanceGrants(a)
WorkerRuntime(a) ==
  \/ WorkerStart(a) \/ WorkerResumes(a) \/ WorkerCancelled(a) \/ WorkerReport(a)
  \/ WorkerFinish(a) \/ WorkerExit(a)
Application(a) ==
  \/ Request(a) \/ RequestCancelled(a) \/ WorkerThrows(a)
  \/ \E m \in Mutexes : UnwindRelease(a, m)
Environment == DeadlinePasses \/ BudgetPasses \/ \E a \in Actors : ForeignRequest(a)
Terminated == At("gone") /\ UNCHANGED vars

Next ==
  \/ ControllerStep \/ OwnerCall \/ Environment \/ Terminated
  \/ \E a \in Actors : WorkerRuntime(a) \/ Application(a)
Spec == Init /\ [][Next]_vars

---------------------------------------------------------------------------
(* Safety *)

\* An operation granted to a parked actor is still possible when the actor
\* wakes to apply it: request never pops an empty deque, overfills a queue or
\* takes a mutex from its owner.
GrantStillPossible ==
  \A a \in Actors : Stage(a) = "parked" /\ actor[a].grant /\ ~state.cancelled =>
    OpPossible(a, actor[a].pending, resource)

\* Positions of the receipt's result rows, and what these rows say of a resource:
\* who holds a mutex, and which of a queue's transfers a row is.
Results == {i \in 1 .. Len(log.events) : log.events[i].kind = "result"}
On(ops, r) == {i \in Results : log.events[i].pending.op \in ops /\ log.events[i].pending.res = r}
Holds(a, m) == \E i \in On({"lock"}, m) :
                 log.events[i].actor = a /\ \A j \in On({"lock", "unlock"}, m) : j <= i
Rank(S, i) == Cardinality({j \in S : j <= i})

\* Between calls on a live execution the receipt alone explains who owns each
\* mutex and what each queue holds: every value received once, in the order sent.
ReceiptExplainsResources ==
  At("idle") /\ ~state.cancelled =>
    /\ \A m \in Mutexes, a \in Actors : resource.owner[m] = a <=> Holds(a, m)
    /\ \A q \in Queues :
         LET sent == On({"send"}, q)
             got == On({"receive"}, q)
             left(i) == Rank(sent, i) - Cardinality(got)
             value(i) == log.events[i].pending.value
         IN /\ Len(resource.queue[q]) = Cardinality(sent) - Cardinality(got)
            /\ \A i \in sent :
                 IF left(i) > 0 THEN resource.queue[q][left(i)] = value(i)
                 ELSE \A j \in got : Rank(got, j) = Rank(sent, i) => value(j) = value(i)

\* A deadlock finding keeps the graph that proves it: somebody waits, and nobody
\* who waits could have gone on, whatever cancellation released later.
DeadlockEvidence ==
  state.outcome = "controlled_deadlock" =>
    /\ state.graph.waits # {}
    /\ \A w \in state.graph.waits : ~OpPossible(w[1], w[2], state.graph.resource)

\* What was retained stays worth something: an observation that is kept was made
\* while no actor ran at all, and the first finding stays, with its graph, through
\* cleanup and its retries (observe_state, fail, cleanup).
EvidenceKept ==
  [][/\ log'.observations # log.observations => ~history.disturbed
     /\ state.outcome # "completed" =>
          state'.outcome = state.outcome /\ state'.graph = state.graph]_vars

\* Work that ends after the deadline never ends the execution in time, and only
\* an execution that ended in time passes.
LateNeverEnds ==
  [][/\ env.expired /\ ~state.ended => ~state'.ended
     /\ passed' => state'.ended]_vars

\* A passed execution ran every program to its end, one granted operation after
\* the other, each observed, and released and tore down everything; no cleanup
\* attempt overran its budget, although a later one may have succeeded.
PassedIsComplete ==
  LET ran(a) == Cardinality({i \in Results : log.events[i].actor = a})
  IN passed =>
    /\ Len(log.events) = 2 * state.decisions
    /\ \A i \in 1 .. state.decisions :
         /\ log.events[2 * i - 1].kind = "grant" /\ log.events[2 * i].kind = "result"
         /\ log.events[2 * i - 1].actor = log.events[2 * i].actor
    /\ log.observations = [i \in 1 .. state.decisions + 1 |-> i - 1]
    /\ \A a \in Actors : Stage(a) = "joined" /\ ran(a) = Len(program.code[a]) + 2
    /\ \A m \in Mutexes : resource.owner[m] = Nobody
    /\ history.teardowns = 1 /\ ~history.overran

\* Teardown runs at most once, after every started thread was joined, and every
\* program acquired is torn down when the handle ends.
TeardownOnce ==
  /\ history.teardowns <= 1
  /\ history.teardowns = 1 \/ At("teardown") => ctl.acquired /\ Joinable = {}
  /\ At("gone") => Joinable = {} /\ (ctl.acquired => history.teardowns = 1)

\* A grant is still possible when it is used, and every program that was acquired is
\* cleaned up, once (request, Execution::cleanup).
SyncInv == TypeOK /\ GrantStillPossible /\ TeardownOnce
=============================================================================

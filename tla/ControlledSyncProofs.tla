------------------------ MODULE ControlledSyncProofs ------------------------
(***************************************************************************)
(* Proofs about ControlledSync, for every number of actors, every set of   *)
(* mutexes and queues, every capacity and every program.                   *)
(*                                                                         *)
(* Quiet is the invariant everything rests on: while the execution is      *)
(* alive nobody moves but the actor that was granted, so what was possible *)
(* at the grant is possible at the wakeup, what is observed stands still   *)
(* and the rows of the receipt come in pairs.  Verdicts and Cleaned follow *)
(* the report and the program through cleanup and its retries.             *)
(***************************************************************************)
EXTENDS ControlledSync, SequenceTheorems, FiniteSetTheorems, TLAPS

-----------------------------------------------------------------------------
(* Types *)

ActorState == [stage : Stages, pending : Op, next : Nat, grant : BOOLEAN, arrived : BOOLEAN]
Control == [pc : Points, selected : Actors, acquired : BOOLEAN, teardown_attempted : BOOLEAN]
StateOf(n) == [outcome : Outcomes, finished : BOOLEAN, decisions : 0 .. n,
               cleanup : {"not_started", "confirmed", "incomplete", "teardown_failed"},
               execution_exceeded : BOOLEAN, cleanup_exceeded : BOOLEAN,
               cancelled : BOOLEAN, ended : BOOLEAN, graph : Graph]
Event == [kind : {"grant", "result"}, actor : Actors, pending : Op]
LogOf(n) == [events : Seq(Event), observations : Seq(0 .. n)]
Env == [expired : BOOLEAN, drained : BOOLEAN]
HistoryOf(n) == [teardowns : Nat, attempts : 0 .. n, disturbed : BOOLEAN, overran : BOOLEAN]

Typed ==
  /\ program \in Programs /\ ctl \in Control
  /\ state \in StateOf(program.max_decisions)
  /\ actor \in [Actors -> ActorState]
  /\ resource \in Resources /\ log \in LogOf(program.max_decisions)
  /\ env \in Env /\ history \in HistoryOf(program.max_attempts)

\* Typed names the parts of TypeOK.
LEMMA TypedIsTypeOK == Typed <=> TypeOK
  BY DEF Typed, TypeOK, ActorState, Control, StateOf, Event, LogOf, Env, HistoryOf

\* What the assumption says of one program.
LEMMA ProgramFacts ==
  ASSUME NEW p \in Programs
  PROVE  /\ p.code \in [Actors -> Seq(Requestable)]
         /\ p.max_decisions \in Nat /\ p.max_evidence \in Nat /\ p.max_attempts \in Nat
  BY SyncAssumption

\* Actors are positive numbers; Nobody is none of them.
LEMMA ActorsFacts == Actors \subseteq Nat /\ Nobody \notin Actors /\ 1 \in Actors /\ NumActors \in Actors
  BY SyncAssumption DEF Actors, Nobody

\* The operations the runtime asks for itself.
LEMMA InternalFacts == Internal("start") \in Op /\ Internal("$done") \in Op
  BY DEF Internal, Op

\* Fields of the state, and the updates the actions make to it.
LEMMA StateFacts ==
  ASSUME NEW n \in Nat, NEW s \in StateOf(n)
  PROVE  /\ s.outcome \in Outcomes /\ s.finished \in BOOLEAN /\ s.decisions \in 0 .. n
         /\ s.execution_exceeded \in BOOLEAN /\ s.cleanup_exceeded \in BOOLEAN
         /\ s.cancelled \in BOOLEAN /\ s.ended \in BOOLEAN /\ s.graph \in Graph
         /\ s.cleanup \in {"not_started", "confirmed", "incomplete", "teardown_failed"}
  BY DEF StateOf

\* t is s after the failures of one critical section, if there were any.
Judged(n, s, t) ==
  /\ t \in StateOf(n)
  /\ t.finished = s.finished /\ t.decisions = s.decisions
  /\ t.cleanup = s.cleanup /\ t.ended = s.ended
  /\ s.cancelled => t.cancelled
  /\ ~t.cancelled => t = s
  /\ s.outcome # "completed" => t.outcome = s.outcome /\ t.graph = s.graph
  /\ t.cancelled /\ ~s.cancelled => t.outcome # "completed"
  /\ s.cleanup_exceeded => t.cleanup_exceeded

\* Nothing failed.
LEMMA JudgedSame == ASSUME NEW n \in Nat, NEW s \in StateOf(n) PROVE Judged(n, s, s)
  BY DEF Judged

\* Critical sections in sequence.
LEMMA JudgedThen ==
  ASSUME NEW n \in Nat, NEW s \in StateOf(n), NEW t, NEW u, Judged(n, s, t), Judged(n, t, u)
  PROVE  Judged(n, s, u)
  <1>1. s.cancelled \in BOOLEAN /\ t.cancelled \in BOOLEAN /\ t \in StateOf(n)
    BY StateFacts DEF Judged
  <1> QED BY <1>1 DEF Judged

\* The wait graph of a moment.
LEMMA GraphType ==
  ASSUME NEW act \in [Actors -> ActorState], NEW res \in Resources
  PROVE  GraphOf(act, res) \in Graph
  <1>1. \A a \in Actors : act[a].pending \in Op
    BY DEF ActorState
  <1>2. {<<a, act[a].pending>> : a \in {b \in Actors : act[b].stage = "parked"}}
          \in SUBSET (Actors \X Op)
    BY <1>1
  <1> QED BY <1>2 DEF GraphOf, Graph

\* State::fail.
LEMMA FailFacts ==
  ASSUME NEW n \in Nat, NEW s \in StateOf(n), NEW o \in Outcomes \ {"completed"},
         NEW act \in [Actors -> ActorState], NEW res \in Resources
  PROVE  /\ Judged(n, s, FailIn(s, o, act, res))
         /\ FailIn(s, o, act, res).cancelled
         /\ FailIn(s, o, act, res).outcome # "completed"
         /\ FailIn(s, o, act, res).execution_exceeded = s.execution_exceeded
         /\ s.outcome = "completed" => /\ FailIn(s, o, act, res).outcome = o
                                       /\ FailIn(s, o, act, res).graph = GraphOf(act, res)
  <1> DEFINE g == GraphOf(act, res)
  <1>1. g \in Graph BY GraphType
  <1> HIDE DEF g
  <1>2. CASE s.outcome # "completed"
    BY <1>2 DEF FailIn, Judged, StateOf
  <1>3. CASE s.outcome = "completed"
    <2>1. FailIn(s, o, act, res) = [s EXCEPT !.cancelled = TRUE, !.outcome = o, !.graph = g]
      BY <1>3 DEF FailIn, g
    <2> QED BY <1>1, <1>3, <2>1 DEF Judged, StateOf, g
  <1> QED BY <1>2, <1>3

\* State::execution_expired: late work is cancelled unless the execution ended.
LEMMA DeadlineFacts ==
  ASSUME Typed, NEW s \in StateOf(program.max_decisions)
  PROVE  /\ Judged(program.max_decisions, s, CheckDeadline(s))
         /\ env.expired /\ ~s.ended => CheckDeadline(s).cancelled
         /\ CheckDeadline(s).outcome = "controlled_deadlock" =>
              s.outcome = "controlled_deadlock" /\ CheckDeadline(s).graph = s.graph
  <1> DEFINE n == program.max_decisions
             x == [s EXCEPT !.execution_exceeded = TRUE]
  <1>0. n \in Nat BY ProgramFacts DEF Typed
  <1>1. CASE s.ended \/ ~env.expired
    BY <1>0, <1>1, JudgedSame DEF CheckDeadline
  <1>2. CASE ~(s.ended \/ ~env.expired)
    <2>1. CheckDeadline(s) = FailIn(x, "timed_out", actor, resource)
      BY <1>2 DEF CheckDeadline, Fail
    <2>2. /\ x \in StateOf(n) /\ x.outcome = s.outcome /\ x.graph = s.graph
          /\ x.finished = s.finished /\ x.decisions = s.decisions /\ x.cleanup = s.cleanup
          /\ x.ended = s.ended /\ x.cancelled = s.cancelled
          /\ x.cleanup_exceeded = s.cleanup_exceeded
      BY DEF StateOf
    <2>3. "timed_out" \in Outcomes \ {"completed"} BY DEF Outcomes
    <2> HIDE DEF x
    <2>4. /\ Judged(n, x, CheckDeadline(s)) /\ CheckDeadline(s).cancelled
          /\ CheckDeadline(s).outcome # "completed"
          /\ x.outcome = "completed" => CheckDeadline(s).outcome = "timed_out"
      BY <1>0, <2>1, <2>2, <2>3, FailFacts DEF Typed
    <2>5. Judged(n, s, CheckDeadline(s))
      BY <2>2, <2>4 DEF Judged
    <2> QED BY <2>2, <2>4, <2>5 DEF Judged
  <1> QED BY <1>1, <1>2

\* State::fail at the present moment.
LEMMA FailNow ==
  ASSUME Typed, NEW s \in StateOf(program.max_decisions), NEW o \in Outcomes \ {"completed"}
  PROVE  /\ Judged(program.max_decisions, s, Fail(s, o))
         /\ Fail(s, o).cancelled /\ Fail(s, o).outcome # "completed"
         /\ s.outcome = "completed" => /\ Fail(s, o).outcome = o
                                       /\ Fail(s, o).graph = GraphOf(actor, resource)
  <1>1. program.max_decisions \in Nat BY ProgramFacts DEF Typed
  <1> QED BY <1>1, FailFacts DEF Fail, Typed

\* State::cleanup_expired: a budget that was overrun is remembered.
LEMMA BudgetFacts ==
  ASSUME Typed, NEW s \in StateOf(program.max_decisions)
  PROVE  /\ Judged(program.max_decisions, s, CheckBudget(s))
         /\ env.drained => CheckBudget(s).cleanup_exceeded
         /\ CheckBudget(s).outcome = "controlled_deadlock" =>
              s.outcome = "controlled_deadlock" /\ CheckBudget(s).graph = s.graph
  <1> DEFINE n == program.max_decisions
             x == [s EXCEPT !.cleanup_exceeded = TRUE]
  <1>0. n \in Nat BY ProgramFacts DEF Typed
  <1>1. CASE ~env.drained
    BY <1>0, <1>1, JudgedSame DEF CheckBudget
  <1>2. CASE env.drained
    <2>1. CheckBudget(s) = Fail(x, "timed_out")
      BY <1>2 DEF CheckBudget
    <2>2. /\ x \in StateOf(n) /\ x.outcome = s.outcome /\ x.graph = s.graph
          /\ x.finished = s.finished /\ x.decisions = s.decisions /\ x.cleanup = s.cleanup
          /\ x.ended = s.ended /\ x.cancelled = s.cancelled
          /\ x.cleanup_exceeded
      BY DEF StateOf
    <2>3. "timed_out" \in Outcomes \ {"completed"} BY DEF Outcomes
    <2> HIDE DEF x
    <2>4. /\ Judged(n, x, CheckBudget(s)) /\ CheckBudget(s).cancelled
          /\ CheckBudget(s).outcome # "completed"
          /\ x.outcome = "completed" => CheckBudget(s).outcome = "timed_out"
      BY <1>0, <2>1, <2>2, <2>3, FailNow
    <2>5. Judged(n, s, CheckBudget(s))
      BY <2>2, <2>4 DEF Judged
    <2> QED BY <2>2, <2>4, <2>5 DEF Judged
  <1> QED BY <1>1, <1>2

\* Moving the controller, and nothing else of it.
LEMMA GotoFacts ==
  ASSUME Typed, NEW p \in Points, Goto(p)
  PROVE  /\ ctl' \in Control /\ ctl'.pc = p /\ ctl'.selected = ctl.selected
         /\ ctl'.acquired = ctl.acquired /\ ctl'.teardown_attempted = ctl.teardown_attempted
  BY DEF Goto, Control, Typed

\* An actor's record, and one actor moving.
LEMMA ActorFacts ==
  ASSUME Typed, NEW a \in Actors, NEW x \in ActorState, actor' = [actor EXCEPT ![a] = x]
  PROVE  /\ actor' \in [Actors -> ActorState] /\ actor'[a] = x
         /\ \A b \in Actors \ {a} : actor'[b] = actor[b]
  BY DEF Typed

-----------------------------------------------------------------------------
(* The inductive invariant *)

\* The calls of the execution, and the points outside them.
Early == {"start", "spawn", "barrier", "observe", "observing", "boundary", "joining"}
Cleaning == {"drain", "reap", "reaping", "teardown"}
Late == Cleaning \cup {"idle", "destroy", "gone"}

\* An operation is requested of a resource of its kind; programs are read from 1.
WellFormed(o) == /\ o.op \in {"lock", "unlock"} => o.res \in Mutexes
                 /\ o.op \in {"send", "receive"} => o.res \in Queues
Requests == \A a \in Actors : WellFormed(actor[a].pending) /\ actor[a].next # 0

\* A mutex is owned by an actor that can still release it.
Owners == \A m \in Mutexes, a \in Actors :
            resource.owner[m] = a => Stage(a) \in {"parked", "running", "threw", "ending"}

\* Actors that stand still while the execution is alive, before and after the
\* barrier, and the one that was granted, before and after its boundary.
Waiting(a) == Stage(a) \in {"none", "spawned"} \/ (Stage(a) = "parked" /\ ~actor[a].grant)
Resting(a) == Stage(a) = "joined" \/ (Stage(a) = "parked" /\ ~actor[a].grant)
Moving(a) == \/ Stage(a) = "parked" /\ actor[a].grant /\ OpPossible(a, actor[a].pending, resource)
             \/ Stage(a) \in {"running", "threw", "ending"}
Returned(a) == Stage(a) \in {"exiting", "exited"} \/ (Stage(a) = "parked" /\ ~actor[a].grant)
Selected(a) == IF actor[a].arrived THEN Returned(a) ELSE Moving(a)

Quiet ==
  ~state.cancelled =>
    /\ state.outcome = "completed" /\ ctl.pc \in Early \cup {"idle"}
    /\ At("start") => \A a \in Actors : Stage(a) = "none"
    /\ ctl.pc \in {"spawn", "barrier"} => \A a \in Actors : Waiting(a)
    /\ ctl.pc \in {"observe", "observing", "idle"} => \A a \in Actors : Resting(a)
    /\ ctl.pc \in {"boundary", "joining"} => \A a \in Actors \ {ctl.selected} : Resting(a)
    /\ At("boundary") => Selected(ctl.selected)
    /\ At("joining") => Stage(ctl.selected) \in {"exiting", "exited"}
    /\ At("observing") => ~history.disturbed

\* Inside a call only a finding cancels; an execution ends when all have been joined.
AllJoined == \A a \in Actors : Stage(a) = "joined"
Verdicts ==
  /\ ctl.pc \in Early /\ state.cancelled => state.outcome # "completed"
  /\ state.ended => state.finished /\ ctl.pc \in Late /\ AllJoined
  /\ ctl.pc \in Late /\ state.outcome = "completed" /\ state.finished => state.ended
  /\ state.finished => ctl.pc \in Late \cup {"observe", "observing"}
  /\ ctl.pc \in {"observe", "observing"} /\ state.finished => AllJoined

\* Teardown is attempted once, after the last join, and decides the cleanup verdict.
Cleaned ==
  /\ state.cleanup # "not_started" \/ history.overran => state.cancelled /\ ctl.pc \in Late
  /\ state.cleanup = "confirmed" => ctl.teardown_attempted
  /\ ctl.teardown_attempted =>
       /\ ctl.acquired /\ Joinable = {} /\ ctl.pc \in {"teardown", "idle", "destroy", "gone"}
       /\ ctl.pc \in {"idle", "destroy"} => state.cleanup \in {"confirmed", "teardown_failed"}
  /\ At("teardown") => ctl.teardown_attempted /\ state.cleanup # "confirmed"
  /\ At("gone") => Joinable = {} /\ (ctl.acquired => ctl.teardown_attempted)
  /\ history.teardowns = IF ctl.teardown_attempted /\ ~At("teardown") THEN 1 ELSE 0
  /\ ctl.acquired /\ history.overran =>
       state.cleanup_exceeded \/ (env.drained /\ ctl.pc \in Cleaning)

IInv == Typed /\ Requests /\ Owners /\ Quiet /\ Verdicts /\ Cleaned

-----------------------------------------------------------------------------
(* The calls of the controller that run no worker *)

\* What a step that only judges and moves the controller leaves alone.
Steady ==
  /\ UNCHANGED <<program, actor, resource, log, env>>
  /\ history' \in HistoryOf(program.max_attempts)
  /\ history'.teardowns = history.teardowns /\ history'.overran = history.overran

\* Points, by group.
LEMMA PointsFacts ==
  /\ Early \subseteq Points /\ Late \subseteq Points /\ Early \cap Late = {}
  /\ Cleaning \subseteq Late /\ "idle" \in Late \ Cleaning
  /\ {"start", "spawn", "barrier", "observe", "observing", "boundary", "joining"} \subseteq Early
  BY DEF Early, Late, Cleaning, Points

\* The invariant's parts that speak of actors and resources alone.
LEMMA SteadyTable ==
  ASSUME Requests, Owners, Steady
  PROVE  /\ Requests' /\ Owners'
         /\ \A a \in Actors : /\ Stage(a)' = Stage(a)
                              /\ Waiting(a)' = Waiting(a) /\ Resting(a)' = Resting(a)
                              /\ Moving(a)' = Moving(a) /\ Returned(a)' = Returned(a)
                              /\ Selected(a)' = Selected(a)
         /\ Joinable' = Joinable /\ AllJoined' = AllJoined
  BY DEF Steady, Requests, Owners, Stage, Waiting, Resting, Moving, Returned, Selected, Joinable,
         AllJoined

\* A call of the execution is left with a finding.
LEMMA LeaveStep ==
  ASSUME IInv, Steady, NEW p \in {"idle", "barrier"}, Goto(p), ctl.pc \in Early,
         Judged(program.max_decisions, state, state'), state'.cancelled, p = "barrier" => At("spawn")
  PROVE  IInv'
  <1>1. /\ ctl' \in Control /\ ctl'.pc = p
        /\ ctl'.acquired = ctl.acquired /\ ctl'.teardown_attempted = ctl.teardown_attempted
    BY GotoFacts, PointsFacts DEF IInv
  <1>2. /\ state' \in StateOf(program.max_decisions) /\ state'.cleanup = state.cleanup
        /\ state'.finished = state.finished /\ state'.ended = state.ended
        /\ state'.outcome # "completed" /\ (state.cleanup_exceeded => state'.cleanup_exceeded)
    BY DEF Judged, IInv, Verdicts
  <1>3. ~state.ended /\ state.cleanup = "not_started" /\ ~ctl.teardown_attempted
        /\ ctl.pc \notin Late /\ ~history.overran
    BY PointsFacts DEF IInv, Verdicts, Cleaned, Early, Late, Cleaning
  <1>4. Typed'
    BY <1>1, <1>2 DEF IInv, Typed, Steady
  <1>5. Requests' /\ Owners'
    BY SteadyTable DEF IInv
  <1>6. Quiet'
    BY DEF Quiet
  <1>7. Verdicts'
    BY <1>1, <1>2, <1>3, PointsFacts DEF IInv, Verdicts, At
  <1>8. Cleaned'
    BY <1>1, <1>2, <1>3, PointsFacts DEF IInv, Cleaned, At, Steady
  <1> QED BY <1>4, <1>5, <1>6, <1>7, <1>8 DEF IInv

\* A call of the execution goes on, with nothing found.
LEMMA ForwardStep ==
  ASSUME IInv, Steady, NEW p \in Early, Goto(p), ctl.pc \in Early, state' = state,
         ~state.cancelled, Quiet', state.finished => p = "observing" /\ AllJoined
  PROVE  IInv'
  <1>1. /\ ctl' \in Control /\ ctl'.pc = p
        /\ ctl'.acquired = ctl.acquired /\ ctl'.teardown_attempted = ctl.teardown_attempted
    BY GotoFacts, PointsFacts DEF IInv
  <1>2. ~state.ended /\ state.cleanup = "not_started" /\ ~ctl.teardown_attempted
        /\ ctl.pc \notin Late /\ ~history.overran
    BY PointsFacts DEF IInv, Verdicts, Cleaned, Early, Late, Cleaning
  <1>3. Typed'
    BY <1>1 DEF IInv, Typed, Steady
  <1>4. Requests' /\ Owners' /\ AllJoined' = AllJoined
    BY SteadyTable DEF IInv
  <1>5. Verdicts'
    BY <1>1, <1>2, <1>4, PointsFacts DEF IInv, Verdicts
  <1>6. Cleaned'
    BY <1>1, <1>2, PointsFacts DEF IInv, Cleaned, At, Steady, Early, Cleaning
  <1> QED BY <1>3, <1>4, <1>5, <1>6 DEF IInv

\* Nothing but the state is judged.
LEMMA SteadyHistory ==
  ASSUME Typed, UNCHANGED <<program, actor, resource, log, env, history>>
  PROVE  Steady
  BY DEF Typed, Steady

\* Outcomes a call may fail with.
LEMMA OutcomeFacts ==
  {"invalid_profile", "timed_out", "application_failed", "resource_misuse", "observation_failed",
   "evidence_exhausted", "disabled_choice", "decision_exhausted", "controlled_deadlock",
   "cancelled"} \subseteq Outcomes \ {"completed"}
  BY DEF Outcomes

\* The state is a state.
LEMMA StateTyped ==
  ASSUME Typed
  PROVE  /\ program.max_decisions \in Nat /\ state \in StateOf(program.max_decisions)
         /\ Judged(program.max_decisions, state, state)
  BY ProgramFacts, JudgedSame DEF Typed

\* Static admission refuses.
LEMMA RefuseStep == ASSUME IInv, Refuse PROVE IInv'
  <1>1. Typed /\ Steady /\ Goto("idle") /\ At("start")
    BY SteadyHistory DEF IInv, Refuse
  <1>2. /\ Judged(program.max_decisions, state, Fail(state, "invalid_profile"))
        /\ Fail(state, "invalid_profile").cancelled
        /\ Judged(program.max_decisions, state, CheckDeadline(state))
    BY <1>1, FailNow, DeadlineFacts, StateTyped, OutcomeFacts
  <1>3. Judged(program.max_decisions, state, state') /\ state'.cancelled
    BY <1>2 DEF Refuse, Judged
  <1> QED BY <1>1, <1>3, LeaveStep, PointsFacts DEF At

\* The factory was called: the program is acquired unless it threw.
LEMMA FactoryStep == ASSUME IInv, NEW r \in {"threw", "invalid", "program"}, Factory(r) PROVE IInv'
  <1> DEFINE n == program.max_decisions
             s == IF r = "threw" THEN Fail(state, "application_failed") ELSE state
             t == CheckDeadline(s)
             u == IF ~t.cancelled /\ r = "invalid" THEN Fail(t, "application_failed") ELSE t
  <1>1. Typed /\ Steady /\ At("start") /\ n \in Nat
    BY SteadyHistory, StateTyped DEF IInv, Factory
  <1>2. Judged(n, state, s) /\ s \in StateOf(n)
    BY <1>1, FailNow, StateTyped, OutcomeFacts DEF Judged
  <1>3. Judged(n, s, t) /\ t \in StateOf(n)
    BY <1>1, <1>2, DeadlineFacts DEF Judged
  <1>4. Judged(n, t, u)
    BY <1>1, <1>3, FailNow, JudgedSame, OutcomeFacts
  <1>5. Judged(n, state, u)
    BY <1>1, <1>2, <1>3, <1>4, JudgedThen, StateTyped
  <1>6. /\ state' = u
        /\ ctl' = [ctl EXCEPT !.acquired = (r # "threw"),
                              !.pc = IF u.cancelled THEN "idle" ELSE "spawn"]
    BY DEF Factory
  <1> HIDE DEF u
  <1>7. /\ ctl' \in Control /\ ctl'.pc = (IF u.cancelled THEN "idle" ELSE "spawn")
        /\ ctl'.teardown_attempted = ctl.teardown_attempted
    BY <1>1, <1>6, PointsFacts DEF Typed, Control
  <1>8. /\ ~ctl.teardown_attempted /\ ~state.ended /\ ~state.finished
        /\ state.cleanup = "not_started" /\ (state.cancelled => state.outcome # "completed")
    BY <1>1, PointsFacts DEF IInv, Verdicts, Cleaned, At
  <1>9. /\ state' \in StateOf(n) /\ state'.cleanup = "not_started" /\ ~state'.finished
        /\ ~state'.ended /\ (~state'.cancelled => state' = state /\ ~state.cancelled)
        /\ (state'.cancelled => state'.outcome # "completed")
    BY <1>5, <1>6, <1>8 DEF Judged
  <1>10. Typed'
    BY <1>1, <1>7, <1>9 DEF Typed, Steady
  <1>11. Requests' /\ Owners'
    BY <1>1, SteadyTable DEF IInv
  <1>12. Quiet'
    BY <1>1, <1>6, <1>7, <1>9, PointsFacts, SteadyTable DEF IInv, Quiet, At, Waiting
  <1>13. Verdicts'
    BY <1>7, <1>9, PointsFacts DEF Verdicts
  <1>14. Cleaned'
    <2>1. ~history.overran
      BY <1>1, PointsFacts DEF IInv, Cleaned, At
    <2>2. history.teardowns = 0
      BY <1>8 DEF IInv, Cleaned
    <2> QED BY <1>1, <1>7, <1>8, <1>9, <2>1, <2>2, PointsFacts DEF Cleaned, At, Steady
  <1> QED BY <1>10, <1>11, <1>12, <1>13, <1>14 DEF IInv

\* A critical section that only judges.
LEMMA JudgeStep ==
  ASSUME IInv, UNCHANGED <<program, ctl, actor, resource, log, env, history>>,
         Judged(program.max_decisions, state, state')
  PROVE  IInv'
  <1>1. /\ state' \in StateOf(program.max_decisions) /\ state'.cleanup = state.cleanup
        /\ state'.finished = state.finished /\ state'.ended = state.ended
        /\ (state.cancelled => state'.cancelled) /\ (~state'.cancelled => state' = state)
        /\ (state'.outcome = "completed" => state.outcome = "completed")
        /\ (state'.cancelled /\ ~state.cancelled => state'.outcome # "completed")
        /\ (state.outcome # "completed" => state'.outcome # "completed")
        /\ (state.cleanup_exceeded => state'.cleanup_exceeded)
    BY DEF Judged
  <1>2. Typed' BY <1>1 DEF IInv, Typed
  <1>3. Steady BY SteadyHistory DEF IInv
  <1>4. /\ Requests' /\ Owners' /\ Joinable' = Joinable /\ AllJoined' = AllJoined
        /\ \A a \in Actors : /\ Stage(a)' = Stage(a)
                             /\ Waiting(a)' = Waiting(a) /\ Resting(a)' = Resting(a)
                             /\ Selected(a)' = Selected(a)
    BY <1>3, SteadyTable DEF IInv
  <1>5. Quiet'
    <2>1. CASE state'.cancelled BY <2>1 DEF Quiet
    <2>2. CASE ~state'.cancelled
      BY <1>1, <1>4, <2>2 DEF IInv, Quiet, At, Typed, Control
    <2> QED BY <2>1, <2>2
  <1>6. Verdicts' BY <1>1, <1>4 DEF IInv, Verdicts
  <1>7. Cleaned' BY <1>1, <1>4 DEF IInv, Cleaned, At
  <1> QED BY <1>2, <1>4, <1>5, <1>6, <1>7 DEF IInv

\* A thread is created.
LEMMA SpawnStep == ASSUME IInv, NEW a \in Actors, Spawn(a) PROVE IInv'
  <1>1. /\ Typed /\ At("spawn") /\ Stage(a) = "none"
        /\ UNCHANGED <<program, state, resource, log, env, history>>
    BY DEF IInv, Spawn
  <1>2. /\ actor' \in [Actors -> ActorState] /\ actor'[a].stage = "spawned"
        /\ actor'[a].pending = actor[a].pending /\ actor'[a].next = actor[a].next
        /\ \A b \in Actors \ {a} : actor'[b] = actor[b]
    BY <1>1 DEF Spawn, Typed, ActorState, Stages
  <1>3. \E p \in {"barrier", "spawn"} : Goto(p)
    BY DEF Spawn
  <1>4. /\ ctl' \in Control /\ ctl'.pc \in {"barrier", "spawn"}
        /\ ctl'.acquired = ctl.acquired /\ ctl'.teardown_attempted = ctl.teardown_attempted
    BY <1>1, <1>3, GotoFacts, PointsFacts
  <1>5. /\ ~ctl.teardown_attempted /\ ~state.ended /\ ~state.finished
        /\ state.cleanup = "not_started" /\ ~history.overran /\ history.teardowns = 0
        /\ (state.cancelled => state.outcome # "completed")
    BY <1>1, PointsFacts DEF IInv, Verdicts, Cleaned, At
  <1>6. Typed' BY <1>1, <1>2, <1>4 DEF Typed
  <1>7. Requests' BY <1>2 DEF IInv, Requests
  <1>8. Owners' BY <1>1, <1>2 DEF IInv, Owners, Stage
  <1>9. Quiet'
    <2>1. CASE state'.cancelled BY <2>1 DEF Quiet
    <2>2. CASE ~state'.cancelled
      <3>1. /\ state.outcome = "completed" /\ \A b \in Actors : Waiting(b)
        BY <1>1, <2>2 DEF IInv, Quiet, At
      <3>2. \A b \in Actors : Waiting(b)'
        BY <1>2, <3>1 DEF Waiting, Stage
      <3> QED BY <1>1, <1>4, <3>1, <3>2, PointsFacts DEF Quiet, At
    <2> QED BY <2>1, <2>2
  <1>10. Verdicts' BY <1>1, <1>4, <1>5, PointsFacts DEF Verdicts
  <1>11. Cleaned' BY <1>1, <1>4, <1>5 DEF Cleaned, At
  <1> QED BY <1>6, <1>7, <1>8, <1>9, <1>10, <1>11 DEF IInv

\* A thread could not be created.
LEMMA SpawnFailsStep == ASSUME IInv, SpawnFails PROVE IInv'
  <1>1. Typed /\ Steady /\ Goto("barrier") /\ At("spawn")
    BY SteadyHistory DEF IInv, SpawnFails
  <1>2. Judged(program.max_decisions, state, state') /\ state'.cancelled
    BY <1>1, FailNow, StateTyped, OutcomeFacts DEF SpawnFails
  <1> QED BY <1>1, <1>2, LeaveStep, PointsFacts DEF At

\* The start barrier.
LEMMA BarrierStep == ASSUME IInv, Barrier PROVE IInv'
  <1>1. /\ Typed /\ Steady /\ At("barrier") /\ ctl.pc \in Early
        /\ state' = CheckDeadline(state)
        /\ Goto(IF state'.cancelled THEN "idle" ELSE "observe")
    BY SteadyHistory, PointsFacts DEF IInv, Barrier, At
  <1>2. /\ Judged(program.max_decisions, state, state')
        /\ (env.expired /\ ~state.ended => state'.cancelled)
    BY <1>1, DeadlineFacts, StateTyped
  <1>3. CASE state'.cancelled
    BY <1>1, <1>2, <1>3, LeaveStep
  <1>4. CASE ~state'.cancelled
    <2>1. /\ state' = state /\ ~state.cancelled /\ ~state.ended /\ ~state.finished
          /\ ctl'.pc = "observe"
      BY <1>1, <1>2, <1>4, GotoFacts, PointsFacts DEF Judged, IInv, Verdicts, At
    <2>2. AllParked
      BY <1>1, <1>2, <1>4, <2>1 DEF Barrier
    <2>3. /\ state.outcome = "completed" /\ \A a \in Actors : Waiting(a)
      BY <1>1, <2>1 DEF IInv, Quiet, At
    <2>4. \A a \in Actors : Resting(a)
      BY <2>2, <2>3 DEF AllParked, Waiting, Resting, Finished
    <2>5. Quiet'
      BY <1>1, <2>1, <2>3, <2>4, SteadyTable, PointsFacts DEF IInv, Quiet, At
    <2> QED BY <1>1, <1>4, <2>1, <2>5, ForwardStep, PointsFacts
  <1> QED BY <1>3, <1>4

\* The observer is about to be called.
LEMMA ObserveBeginStep == ASSUME IInv, ObserveBegin PROVE IInv'
  <1>1. /\ Typed /\ At("observe") /\ ctl.pc \in Early
        /\ state' = CheckDeadline(state)
        /\ Goto(IF state'.cancelled THEN "idle" ELSE "observing")
    BY PointsFacts DEF IInv, ObserveBegin, At
  <1>2. Steady /\ ~history'.disturbed
    BY <1>1 DEF ObserveBegin, Steady, Typed, HistoryOf
  <1>3. Judged(program.max_decisions, state, state')
    BY <1>1, DeadlineFacts, StateTyped
  <1>4. CASE state'.cancelled
    BY <1>1, <1>2, <1>3, <1>4, LeaveStep
  <1>5. CASE ~state'.cancelled
    <2>1. /\ state' = state /\ ~state.cancelled /\ ctl'.pc = "observing"
          /\ (state.finished => AllJoined)
      BY <1>1, <1>3, <1>5, GotoFacts, PointsFacts DEF Judged, IInv, Verdicts, At
    <2>2. state.outcome = "completed" /\ \A a \in Actors : Resting(a)
      BY <1>1, <2>1 DEF IInv, Quiet, At
    <2>3. Quiet'
      BY <1>1, <1>2, <2>1, <2>2, SteadyTable, PointsFacts DEF IInv, Quiet, At
    <2> QED BY <1>1, <1>2, <1>5, <2>1, <2>3, ForwardStep, PointsFacts
  <1> QED BY <1>4, <1>5

\* The granted actor came to its boundary, or not in time.
LEMMA BoundaryStep == ASSUME IInv, Boundary PROVE IInv'
  <1> DEFINE a == ctl.selected
             x == IF state.cancelled \/ actor[a].arrived THEN state ELSE Fail(state, "timed_out")
  <1>1. /\ Typed /\ Steady /\ At("boundary") /\ ctl.pc \in Early
        /\ state' = CheckDeadline(x)
        /\ Goto(IF state'.cancelled THEN "idle" ELSE IF Finished(a) THEN "joining" ELSE "observe")
    BY SteadyHistory, PointsFacts DEF IInv, Boundary, At
  <1>2. Judged(program.max_decisions, state, x) /\ x \in StateOf(program.max_decisions)
    BY <1>1, FailNow, StateTyped, OutcomeFacts DEF Judged
  <1>3. Judged(program.max_decisions, x, state')
    BY <1>1, <1>2, DeadlineFacts
  <1>4. Judged(program.max_decisions, state, state')
    BY <1>1, <1>2, <1>3, JudgedThen, StateTyped
  <1>5. CASE state'.cancelled
    BY <1>1, <1>4, <1>5, LeaveStep
  <1>6. CASE ~state'.cancelled
    <2>1. /\ state' = state /\ ~state.cancelled /\ ~state.finished
          /\ ctl'.pc = (IF Finished(a) THEN "joining" ELSE "observe") /\ ctl'.selected = a
      BY <1>1, <1>4, <1>6, GotoFacts, PointsFacts DEF Judged, IInv, Verdicts, At
    <2>2. actor[a].arrived
      <3>1. ~x.cancelled BY <1>3, <1>6 DEF Judged
      <3> QED BY <1>1, <2>1, <3>1, FailNow, StateTyped, OutcomeFacts
    <2>3. /\ state.outcome = "completed" /\ \A b \in Actors \ {a} : Resting(b)
          /\ Returned(a) /\ a \in Actors
      BY <1>1, <2>1, <2>2 DEF IInv, Quiet, At, Selected, Typed, Control
    <2>4. CASE Finished(a)
      <3>1. Stage(a) \in {"exiting", "exited"}
        BY <2>3, <2>4 DEF Returned, Finished
      <3>2. Quiet'
        BY <1>1, <2>1, <2>3, <2>4, <3>1, SteadyTable, PointsFacts DEF IInv, Quiet, At
      <3> QED BY <1>1, <1>6, <2>1, <2>4, <3>2, ForwardStep, PointsFacts
    <2>5. CASE ~Finished(a)
      <3>1. Resting(a)
        BY <2>3, <2>5 DEF Returned, Finished, Resting
      <3>2. Quiet'
        BY <1>1, <2>1, <2>3, <2>5, <3>1, SteadyTable, PointsFacts DEF IInv, Quiet, At
      <3> QED BY <1>1, <1>6, <2>1, <2>5, <3>2, ForwardStep, PointsFacts
    <2> QED BY <2>4, <2>5
  <1> QED BY <1>5, <1>6

\* The log takes what the actions append to it.
LEMMA LogFacts ==
  ASSUME Typed
  PROVE  /\ log.events \in Seq(Event) /\ log.observations \in Seq(0 .. program.max_decisions)
         /\ \A e \in Event : [log EXCEPT !.events = Append(@, e)] \in LogOf(program.max_decisions)
         /\ \A d \in 0 .. program.max_decisions :
              [log EXCEPT !.observations = Append(@, d)] \in LogOf(program.max_decisions)
  <1> DEFINE N == 0 .. program.max_decisions
  <1>1. log \in [events : Seq(Event), observations : Seq(N)]
    BY DEF Typed, LogOf
  <1>2. log.events \in Seq(Event) /\ log.observations \in Seq(N)
    BY <1>1
  <1> HIDE DEF N
  <1>3. ASSUME NEW e \in Event
        PROVE  [log EXCEPT !.events = Append(@, e)] \in [events : Seq(Event), observations : Seq(N)]
    <2>1. Append(log.events, e) \in Seq(Event) BY <1>2, AppendProperties
    <2> QED BY <1>1, <2>1
  <1>4. ASSUME NEW d \in N
        PROVE  [log EXCEPT !.observations = Append(@, d)]
                 \in [events : Seq(Event), observations : Seq(N)]
    <2>1. Append(log.observations, d) \in Seq(N) BY <1>2, AppendProperties
    <2> QED BY <1>1, <2>1
  <1> QED BY <1>2, <1>3, <1>4 DEF LogOf, N

\* The observer returned: its value is kept, or the call is left with a finding.
LEMMA ObserveEndStep == ASSUME IInv, NEW r \in {"threw", "invalid", "value"}, ObserveEnd(r) PROVE IInv'
  <1> DEFINE n == program.max_decisions
             x == IF r = "threw" THEN Fail(state, "observation_failed") ELSE state
             s == CheckDeadline(x)
             keep == Keep(s) /\ r = "value" /\ Fits
  <1>1. /\ Typed /\ At("observing") /\ ctl.pc \in Early /\ Goto("idle") /\ n \in Nat
        /\ UNCHANGED <<program, actor, resource, env, history>>
    BY StateTyped, PointsFacts DEF IInv, ObserveEnd, At
  <1>2. Judged(n, state, x) /\ x \in StateOf(n)
    BY <1>1, FailNow, StateTyped, OutcomeFacts DEF Judged
  <1>3. Judged(n, x, s)
    BY <1>1, <1>2, DeadlineFacts
  <1>4. Judged(n, state, s) /\ s \in StateOf(n)
    BY <1>1, <1>2, <1>3, JudgedThen, StateTyped DEF Judged
  <1>5. CASE ~keep
    <2>1. log' = log /\ state' = IF s.cancelled THEN s ELSE Fail(s, "evidence_exhausted")
      BY <1>5 DEF ObserveEnd
    <2> HIDE DEF s
    <2>2. Judged(n, s, state') /\ state'.cancelled
      BY <1>1, <1>4, <2>1, FailNow, JudgedSame, OutcomeFacts
    <2>3. Judged(n, state, state') /\ Steady
      BY <1>1, <1>4, <2>1, <2>2, JudgedThen, StateTyped, SteadyHistory
    <2> QED BY <1>1, <2>2, <2>3, LeaveStep
  <1>6. CASE keep
    <2>1. /\ log' = [log EXCEPT !.observations = Append(@, state.decisions)]
          /\ state' = [s EXCEPT !.ended = @ \/ s.finished] /\ ~s.cancelled
      BY <1>6 DEF ObserveEnd, Keep
    <2>2. s = state /\ ~state.cancelled
      BY <1>4, <2>1 DEF Judged
    <2> HIDE DEF s
    <2>3. /\ state' \in StateOf(n) /\ state'.finished = state.finished /\ ~state'.cancelled
          /\ state'.cleanup = state.cleanup /\ state'.outcome = state.outcome
          /\ state'.ended = (state.ended \/ state.finished)
          /\ state'.cleanup_exceeded = state.cleanup_exceeded
      BY <1>4, <2>1, <2>2 DEF StateOf
    <2>4. log' \in LogOf(n)
      BY <1>1, <2>1, LogFacts, StateTyped, StateFacts
    <2>5. /\ ctl' \in Control /\ ctl'.pc = "idle"
          /\ ctl'.acquired = ctl.acquired /\ ctl'.teardown_attempted = ctl.teardown_attempted
      BY <1>1, GotoFacts, PointsFacts
    <2>6. /\ ~ctl.teardown_attempted /\ ~state.ended /\ (state.finished => AllJoined)
          /\ state.cleanup = "not_started" /\ ~history.overran /\ history.teardowns = 0
      BY <1>1, PointsFacts DEF IInv, Verdicts, Cleaned, At
    <2>7. state.outcome = "completed" /\ \A a \in Actors : Resting(a)
      BY <1>1, <2>2 DEF IInv, Quiet, At
    <2>8. Typed' BY <1>1, <2>3, <2>4, <2>5 DEF Typed
    <2>9. Requests' /\ Owners' BY <1>1 DEF IInv, Requests, Owners, Stage
    <2>10. Quiet'
      BY <1>1, <2>3, <2>5, <2>7 DEF Quiet, At, Resting, Stage
    <2>11. Verdicts'
      BY <1>1, <2>3, <2>5, <2>6, PointsFacts DEF Verdicts, AllJoined, Stage
    <2>12. Cleaned' BY <1>1, <2>3, <2>5, <2>6 DEF Cleaned, At
    <2> QED BY <2>8, <2>9, <2>10, <2>11, <2>12 DEF IInv
  <1> QED BY <1>5, <1>6

\* Who can go on is asked for; a deadlock is found.
LEMMA QueryEnabledStep == ASSUME IInv, QueryEnabled PROVE IInv'
  <1> DEFINE n == program.max_decisions
             s == CheckDeadline(state)
  <1>1. Typed /\ n \in Nat BY StateTyped DEF IInv
  <1>2. Judged(n, state, s) /\ s \in StateOf(n)
    BY <1>1, DeadlineFacts, StateTyped DEF Judged
  <1>3. state' \in {s, Fail(s, "controlled_deadlock")}
    BY DEF QueryEnabled
  <1> HIDE DEF s
  <1>4. Judged(n, s, state')
    BY <1>1, <1>2, <1>3, FailNow, JudgedSame, OutcomeFacts
  <1>5. Judged(n, state, state')
    BY <1>1, <1>2, <1>4, JudgedThen, StateTyped
  <1> QED BY <1>5, JudgeStep DEF QueryEnabled

\* advance refuses a choice.
LEMMA AdvanceRefusedStep == ASSUME IInv, NEW a \in Actors, AdvanceRefused(a) PROVE IInv'
  <1> DEFINE n == program.max_decisions
             s == CheckDeadline(state)
  <1>1. Typed /\ n \in Nat BY StateTyped DEF IInv
  <1>2. Judged(n, state, s) /\ s \in StateOf(n)
    BY <1>1, DeadlineFacts, StateTyped DEF Judged
  <1>3. state' \in {s, Fail(s, "disabled_choice"), Fail(s, "decision_exhausted"),
                    Fail(s, "evidence_exhausted")}
    BY DEF AdvanceRefused
  <1> HIDE DEF s
  <1>4. Judged(n, s, state')
    BY <1>1, <1>2, <1>3, FailNow, JudgedSame, OutcomeFacts
  <1>5. Judged(n, state, state')
    BY <1>1, <1>2, <1>4, JudgedThen, StateTyped
  <1> QED BY <1>5, JudgeStep DEF AdvanceRefused

\* A thread that does not own the hook calls it.
LEMMA ForeignStep == ASSUME IInv, NEW a \in Actors, ForeignRequest(a) PROVE IInv'
  <1>1. Judged(program.max_decisions, state, state')
    BY FailNow, StateTyped, OutcomeFacts DEF ForeignRequest, IInv
  <1> QED BY <1>1, JudgeStep DEF ForeignRequest

\* A row of the receipt.
LEMMA RowType ==
  ASSUME NEW k \in {"grant", "result"}, NEW a \in Actors, NEW o \in Op
  PROVE  Row(k, a, o) \in Event
  BY DEF Row, Event

\* advance grants what is possible.
LEMMA AdvanceGrantsStep == ASSUME IInv, NEW a \in Actors, AdvanceGrants(a) PROVE IInv'
  <1> DEFINE n == program.max_decisions
  <1>1. /\ Typed /\ At("idle") /\ n \in Nat /\ state \in StateOf(n)
        /\ UNCHANGED <<program, resource, env, history>>
        /\ Stage(a) = "parked" /\ OpPossible(a, actor[a].pending, resource)
        /\ state.decisions < n
    BY StateTyped DEF IInv, AdvanceGrants, Enabled, DecisionsLeft
  <1>2. ~state.cancelled
    BY <1>1, DeadlineFacts DEF AdvanceGrants, Judged
  <1>3. /\ state' \in StateOf(n) /\ state'.finished = state.finished /\ ~state'.cancelled
        /\ state'.cleanup = state.cleanup /\ state'.outcome = state.outcome
        /\ state'.ended = state.ended /\ state'.cleanup_exceeded = state.cleanup_exceeded
    BY <1>1, <1>2 DEF AdvanceGrants, StateOf
  <1>4. /\ actor' \in [Actors -> ActorState] /\ actor'[a].stage = "parked" /\ actor'[a].grant
        /\ ~actor'[a].arrived /\ actor'[a].pending = actor[a].pending
        /\ actor'[a].next = actor[a].next
        /\ \A b \in Actors \ {a} : actor'[b] = actor[b]
    BY <1>1 DEF AdvanceGrants, Typed, ActorState, Stage
  <1>5. /\ ctl' \in Control /\ ctl'.pc = "boundary" /\ ctl'.selected = a
        /\ ctl'.acquired = ctl.acquired /\ ctl'.teardown_attempted = ctl.teardown_attempted
    BY <1>1, PointsFacts DEF AdvanceGrants, Typed, Control
  <1>6. log' \in LogOf(n)
    <2>1. Row("grant", a, actor[a].pending) \in Event
      BY <1>1, RowType DEF Typed, ActorState
    <2> QED BY <1>1, <2>1, LogFacts DEF AdvanceGrants, AddEvent, Typed, LogOf
  <1>7. state.outcome = "completed" /\ \A b \in Actors : Resting(b)
    BY <1>1, <1>2 DEF IInv, Quiet, At
  <1>8. ~state.ended /\ ~state.finished
    BY <1>1, <1>7, PointsFacts DEF IInv, Verdicts, At, AllJoined
  <1>9. state.cleanup = "not_started" /\ ~history.overran /\ ~ctl.teardown_attempted
        /\ history.teardowns = 0
    BY <1>1, <1>2 DEF IInv, Cleaned, At
  <1>10. Typed' BY <1>1, <1>3, <1>4, <1>5, <1>6 DEF Typed
  <1>11. Requests' BY <1>4 DEF IInv, Requests
  <1>12. Owners' BY <1>1, <1>4 DEF IInv, Owners, Stage
  <1>13. Quiet'
    <2>1. \A b \in Actors \ {a} : Resting(b)'
      BY <1>4, <1>7 DEF Resting, Stage
    <2>2. Selected(a)'
      BY <1>1, <1>4 DEF Selected, Moving, Stage
    <2>3. Selected(ctl.selected)'
      BY <2>2, <1>5
    <2> QED BY <1>3, <1>5, <1>7, <2>1, <2>3, PointsFacts DEF Quiet, At
  <1>14. Verdicts' BY <1>3, <1>5, <1>8, PointsFacts DEF Verdicts
  <1>15. Cleaned' BY <1>1, <1>3, <1>5, <1>9 DEF Cleaned, At
  <1> QED BY <1>10, <1>11, <1>12, <1>13, <1>14, <1>15 DEF IInv

-----------------------------------------------------------------------------
(* Joins, cleanup and the destructor *)

\* Some threads that had exited are joined; nothing else happens to an actor.
Joins ==
  /\ actor' \in [Actors -> ActorState]
  /\ \A a \in Actors :
       \/ actor'[a] = actor[a]
       \/ /\ Stage(a) = "exited" /\ actor'[a].stage = "joined"
          /\ actor'[a].pending = actor[a].pending /\ actor'[a].next = actor[a].next
  /\ resource' = resource

\* Joining one thread.
LEMMA JoinOne ==
  ASSUME Typed, NEW a \in Actors, Stage(a) = "exited",
         actor' = [actor EXCEPT ![a].stage = "joined"], resource' = resource
  PROVE  Joins /\ actor'[a].stage = "joined" /\ \A b \in Actors \ {a} : actor'[b] = actor[b]
  BY DEF Typed, Joins, ActorState, Stages, Stage

\* Joining none.
LEMMA JoinNone ==
  ASSUME Typed, UNCHANGED <<actor, resource>> PROVE Joins
  BY DEF Typed, Joins

\* What joins preserve.
LEMMA JoinsTable ==
  ASSUME Requests, Owners, Joins
  PROVE  /\ Requests' /\ Owners'
         /\ AllJoined => AllJoined'
         /\ Joinable = {} => Joinable' = {}
  <1>1. Requests' BY DEF Requests, Joins
  <1>2. Owners' BY DEF Owners, Joins, Stage
  <1>3. AllJoined => AllJoined' BY DEF AllJoined, Joins, Stage
  <1>4. Joinable = {} => Joinable' = {} BY DEF Joinable, Joins, Stage
  <1> QED BY <1>1, <1>2, <1>3, <1>4

\* The selected worker is joined; the execution may be finished.
LEMMA JoinSelectedStep == ASSUME IInv, JoinSelected PROVE IInv'
  <1> DEFINE n == program.max_decisions
             a == ctl.selected
             y == [state EXCEPT !.finished = ExecutionFinished]
  <1>1. /\ Typed /\ At("joining") /\ n \in Nat /\ state \in StateOf(n) /\ a \in Actors
        /\ UNCHANGED <<program, resource, log, env, history>> /\ Stage(a) = "exited"
        /\ state' = CheckDeadline(y) /\ Goto(IF state'.cancelled THEN "idle" ELSE "observe")
    BY StateTyped DEF IInv, JoinSelected, Typed, Control
  <1>2. Joins /\ actor'[a].stage = "joined" /\ \A b \in Actors \ {a} : actor'[b] = actor[b]
    BY <1>1, JoinOne DEF JoinSelected
  <1>3. Requests' /\ Owners'
    BY <1>2, JoinsTable DEF IInv
  <1>4. /\ y \in StateOf(n) /\ y.finished = AllFinished /\ y.cleanup = state.cleanup
        /\ y.ended = state.ended /\ y.cancelled = state.cancelled /\ y.outcome = state.outcome
        /\ y.cleanup_exceeded = state.cleanup_exceeded
    <2>1. ExecutionFinished \in BOOLEAN BY DEF ExecutionFinished, AllFinished
    <2> QED BY <1>1, <2>1 DEF StateOf, ExecutionFinished
  <1> HIDE DEF y
  <1>5. Judged(n, y, state') BY <1>1, <1>4, DeadlineFacts
  <1>6. /\ state' \in StateOf(n) /\ state'.finished = AllFinished
        /\ state'.cleanup = state.cleanup /\ state'.ended = state.ended
        /\ (~state'.cancelled => state' = y)
        /\ (~state'.cancelled => ~state.cancelled)
        /\ (state'.cancelled /\ ~state.cancelled => state'.outcome # "completed")
        /\ (state.outcome # "completed" => state'.outcome # "completed")
    BY <1>4, <1>5 DEF Judged
  <1>7. /\ ctl' \in Control /\ ctl'.pc = (IF state'.cancelled THEN "idle" ELSE "observe")
        /\ ctl'.acquired = ctl.acquired /\ ctl'.teardown_attempted = ctl.teardown_attempted
    BY <1>1, GotoFacts, PointsFacts
  <1>8. /\ ~ctl.teardown_attempted /\ ~state.ended /\ state.cleanup = "not_started"
        /\ ~history.overran /\ history.teardowns = 0
        /\ (state.cancelled => state.outcome # "completed")
    BY <1>1, PointsFacts DEF IInv, Verdicts, Cleaned, At
  <1>9. Typed' BY <1>1, <1>2, <1>6, <1>7 DEF Typed, Joins
  <1>10. Cleaned' BY <1>1, <1>6, <1>7, <1>8 DEF Cleaned, At
  <1>11. CASE state'.cancelled
    <2>1. Quiet' BY <1>11 DEF Quiet
    <2>2. Verdicts' BY <1>6, <1>7, <1>8, <1>11, PointsFacts DEF Verdicts
    <2> QED BY <1>3, <1>9, <1>10, <2>1, <2>2 DEF IInv
  <1>12. CASE ~state'.cancelled
    <2>1. /\ state.outcome = "completed" /\ state'.outcome = "completed"
          /\ \A b \in Actors \ {a} : Resting(b)
      BY <1>1, <1>4, <1>6, <1>12 DEF IInv, Quiet, At
    <2>2. \A b \in Actors : Resting(b)'
      BY <1>2, <2>1 DEF Resting, Stage
    <2>3. AllFinished => AllJoined'
      BY <1>2, <2>1 DEF AllFinished, Finished, AllJoined, Resting, Stage
    <2>4. Quiet' BY <1>7, <1>12, <2>1, <2>2, PointsFacts DEF Quiet, At
    <2>5. Verdicts' BY <1>6, <1>7, <1>8, <1>12, <2>3, PointsFacts DEF Verdicts
    <2> QED BY <1>3, <1>9, <1>10, <2>4, <2>5 DEF IInv
  <1> QED BY <1>11, <1>12

\* A step outside the execution's calls: Cleaned is what is left to show.
LEMMA LateStep ==
  ASSUME IInv, Joins, UNCHANGED <<program, log>>, ctl.pc \in Late, ctl'.pc \in Late,
         ctl' \in Control, env' \in Env, history' \in HistoryOf(program.max_attempts),
         state' \in StateOf(program.max_decisions), state'.cancelled,
         state'.finished = state.finished, state'.ended = state.ended,
         state'.outcome = "completed" => state.outcome = "completed",
         Cleaned'
  PROVE  IInv'
  <1>1. Typed' BY DEF IInv, Typed, Joins
  <1>2. Requests' /\ Owners' /\ (AllJoined => AllJoined') BY JoinsTable DEF IInv
  <1>3. Quiet' BY DEF Quiet
  <1>4. Verdicts' BY <1>2, PointsFacts DEF IInv, Verdicts, Early, Late, Cleaning
  <1> QED BY <1>1, <1>2, <1>3, <1>4 DEF IInv

\* Outside the calls everything is cancelled, once cleanup or the destructor began.
LEMMA LateCancelled == ASSUME IInv, ctl.pc \in Late \ {"idle"} PROVE state.cancelled
  BY PointsFacts DEF IInv, Quiet

\* cleanup begins.
LEMMA CleanupEnterStep == ASSUME IInv, CleanupEnter PROVE IInv'
  <1> DEFINE n == program.max_decisions
             late == CheckDeadline(state)
             s == IF state.outcome = "completed" /\ ~state.finished
                  THEN Fail(late, "cancelled") ELSE state
  <1>1. /\ Typed /\ At("idle") /\ n \in Nat /\ state \in StateOf(n) /\ Goto("drain")
        /\ UNCHANGED <<program, actor, resource, log>> /\ ctl.pc \in Late
        /\ state.cleanup \notin {"confirmed", "teardown_failed"}
        /\ state' = [s EXCEPT !.cancelled = TRUE]
    BY StateTyped, PointsFacts DEF IInv, CleanupEnter, At
  <1>2. Judged(n, state, late) /\ late \in StateOf(n)
    BY <1>1, DeadlineFacts DEF Judged
  <1>3. Judged(n, late, Fail(late, "cancelled"))
    BY <1>1, <1>2, FailNow, OutcomeFacts
  <1>4. Judged(n, state, s) /\ s \in StateOf(n)
    BY <1>1, <1>2, <1>3, JudgedThen, JudgedSame DEF Judged
  <1> HIDE DEF s
  <1>5. /\ state' \in StateOf(n) /\ state'.cancelled /\ state'.finished = state.finished
        /\ state'.ended = state.ended /\ state'.cleanup = state.cleanup
        /\ (state'.outcome = "completed" => state.outcome = "completed")
        /\ (state.cleanup_exceeded => state'.cleanup_exceeded)
    BY <1>1, <1>4 DEF Judged, StateOf
  <1>6. /\ env' \in Env /\ history' \in HistoryOf(program.max_attempts)
        /\ history'.teardowns = history.teardowns /\ history'.overran = history.overran
    <2>1. env' \in Env BY <1>1 DEF CleanupEnter, Typed, Env
    <2>2. /\ program.max_attempts \in Nat /\ history \in HistoryOf(program.max_attempts)
          /\ history.attempts < program.max_attempts
          /\ history' = [history EXCEPT !.attempts = history.attempts + 1]
      BY <1>1, ProgramFacts DEF CleanupEnter, Typed
    <2>3. history.attempts + 1 \in 0 .. program.max_attempts
      BY <2>2 DEF HistoryOf
    <2> QED BY <2>1, <2>2, <2>3 DEF HistoryOf
  <1>7. /\ ctl' \in Control /\ ctl'.pc = "drain"
        /\ ctl'.acquired = ctl.acquired /\ ctl'.teardown_attempted = ctl.teardown_attempted
    BY <1>1, GotoFacts, PointsFacts DEF Late, Cleaning
  <1>8. ~ctl.teardown_attempted
    BY <1>1 DEF IInv, Cleaned, At
  <1>9. Cleaned'
    BY <1>1, <1>5, <1>6, <1>7, <1>8 DEF IInv, Cleaned, At, Late, Cleaning
  <1> QED BY <1>1, <1>5, <1>6, <1>7, <1>9, LateStep, JoinNone DEF Late, Cleaning

\* A cleanup attempt that ran out of budget.
LEMMA IncompleteStep ==
  ASSUME IInv, UNCHANGED <<program, actor, resource, log, env, history>>,
         ctl.pc \in {"drain", "reap"}, Incomplete, env.drained, Goto("idle")
  PROVE  IInv'
  <1> DEFINE n == program.max_decisions
             b == CheckBudget(state)
  <1>1. Typed /\ n \in Nat /\ state \in StateOf(n) /\ ctl.pc \in Late
    BY StateTyped DEF IInv, Late, Cleaning
  <1>2. Judged(n, state, b) /\ b.cleanup_exceeded
    BY <1>1, BudgetFacts
  <1>3. state' = [b EXCEPT !.cleanup = "incomplete"]
    BY DEF Incomplete
  <1> HIDE DEF b
  <1>4. /\ state' \in StateOf(n) /\ state'.cancelled = b.cancelled
        /\ state'.finished = state.finished /\ state'.ended = state.ended
        /\ state'.outcome = b.outcome /\ state'.cleanup = "incomplete"
        /\ state'.cleanup_exceeded
        /\ (state'.outcome = "completed" => state.outcome = "completed")
    BY <1>2, <1>3 DEF Judged, StateOf
  <1>5. state'.cancelled
    BY <1>2, <1>4, LateCancelled, PointsFacts DEF Judged, Late, Cleaning
  <1>6. /\ ctl' \in Control /\ ctl'.pc = "idle"
        /\ ctl'.acquired = ctl.acquired /\ ctl'.teardown_attempted = ctl.teardown_attempted
    BY <1>1, GotoFacts, PointsFacts
  <1>7. ~ctl.teardown_attempted /\ history.teardowns = 0
    BY DEF IInv, Cleaned
  <1>8. Cleaned'
    BY <1>4, <1>5, <1>6, <1>7, PointsFacts DEF Cleaned, At
  <1> QED BY <1>1, <1>4, <1>5, <1>6, <1>8, LateStep, JoinNone, PointsFacts DEF Typed

\* A step of cleanup that leaves the report as it is.
LEMMA CleanupMoves ==
  ASSUME IInv, UNCHANGED <<program, state, actor, resource, log, env, history>>,
         ctl.pc \in Cleaning, ctl' \in Control, ctl'.pc \in Cleaning,
         ctl'.acquired = ctl.acquired,
         IF ctl'.pc = "teardown"
         THEN ctl'.teardown_attempted /\ ~ctl.teardown_attempted /\ ctl.acquired /\ Joinable = {}
         ELSE ctl'.teardown_attempted = ctl.teardown_attempted /\ ~At("teardown")
  PROVE  IInv'
  <1>1. /\ ctl.pc \in Late \ {"idle"} /\ ctl'.pc \in Late
        /\ ctl'.pc \notin {"idle", "destroy", "gone"} /\ ctl.pc \notin {"idle", "destroy", "gone"}
    BY DEF Late, Cleaning
  <1>2. state.cancelled BY <1>1, LateCancelled
  <1>3. Joinable' = Joinable BY DEF Joinable, Stage
  <1>4. Typed BY DEF IInv
  <1>5. ctl.teardown_attempted => At("teardown")
    BY <1>1 DEF IInv, Cleaned, At
  <1>6. Cleaned'
    BY <1>1, <1>2, <1>3, <1>5 DEF IInv, Cleaned, At
  <1> QED BY <1>1, <1>2, <1>4, <1>6, LateStep, JoinNone DEF Typed

\* cleanup waits for the started threads.
LEMMA DrainStep == ASSUME IInv, Drain PROVE IInv'
  <1>1. Typed /\ At("drain") /\ UNCHANGED <<program, actor, resource, log, env, history>>
    BY DEF IInv, Drain
  <1>2. CASE \A a \in Started : Finished(a)
    <2>1. Goto("reap") /\ UNCHANGED state BY <1>2 DEF Drain
    <2>2. /\ ctl' \in Control /\ ctl'.pc = "reap" /\ ctl'.acquired = ctl.acquired
          /\ ctl'.teardown_attempted = ctl.teardown_attempted
      BY <1>1, <2>1, GotoFacts, PointsFacts DEF Late, Cleaning
    <2> QED BY <1>1, <2>1, <2>2, CleanupMoves DEF At, Cleaning
  <1>3. CASE ~ \A a \in Started : Finished(a)
    BY <1>1, <1>3, IncompleteStep DEF Drain, At
  <1> QED BY <1>2, <1>3

\* The budget is looked at before a join.
LEMMA ReapNextStep == ASSUME IInv, NEW a \in Actors, ReapNext(a) PROVE IInv'
  <1>1. Typed /\ At("reap") /\ UNCHANGED <<program, actor, resource, log, env, history>>
    BY DEF IInv, ReapNext
  <1>2. CASE env.drained
    BY <1>1, <1>2, IncompleteStep DEF ReapNext, At
  <1>3. CASE ~env.drained
    <2>1. ctl' = [ctl EXCEPT !.pc = "reaping", !.selected = a] /\ UNCHANGED state
      BY <1>3 DEF ReapNext
    <2>2. /\ ctl' \in Control /\ ctl'.pc = "reaping" /\ ctl'.acquired = ctl.acquired
          /\ ctl'.teardown_attempted = ctl.teardown_attempted
      BY <1>1, <2>1, PointsFacts DEF Typed, Control, Points
    <2> QED BY <1>1, <2>1, <2>2, CleanupMoves DEF At, Cleaning
  <1> QED BY <1>2, <1>3

\* A join cannot be interrupted: the budget is looked at again after it.
LEMMA ReapJoinStep == ASSUME IInv, ReapJoin PROVE IInv'
  <1> DEFINE n == program.max_decisions
  <1>1. /\ Typed /\ At("reaping") /\ n \in Nat /\ state \in StateOf(n)
        /\ UNCHANGED <<program, resource, log, env, history>> /\ Goto("reap")
        /\ ctl.selected \in Actors /\ ctl.pc \in Late \ {"idle"} /\ ctl.pc \in Cleaning
    BY StateTyped DEF IInv, ReapJoin, Typed, Control, At, Late, Cleaning
  <1>2. Joins BY <1>1, JoinOne DEF ReapJoin
  <1>3. Judged(n, state, state') /\ (env.drained => state'.cleanup_exceeded)
    BY <1>1, BudgetFacts DEF ReapJoin
  <1>4. /\ state' \in StateOf(n) /\ state'.cancelled /\ state'.cleanup = state.cleanup
        /\ state'.finished = state.finished /\ state'.ended = state.ended
        /\ (state'.outcome = "completed" => state.outcome = "completed")
        /\ (state.cleanup_exceeded => state'.cleanup_exceeded)
    BY <1>1, <1>3, LateCancelled DEF Judged
  <1>5. /\ ctl' \in Control /\ ctl'.pc = "reap" /\ ctl'.acquired = ctl.acquired
        /\ ctl'.teardown_attempted = ctl.teardown_attempted /\ ctl'.pc \in Cleaning
    BY <1>1, GotoFacts, PointsFacts DEF Late, Cleaning
  <1>6. Joinable = {} => Joinable' = {} BY <1>2, JoinsTable DEF IInv
  <1>7. ~ctl.teardown_attempted BY <1>1 DEF IInv, Cleaned, At
  <1>8. Cleaned' BY <1>1, <1>4, <1>5, <1>6, <1>7, PointsFacts DEF IInv, Cleaned, At
  <1> QED BY <1>1, <1>2, <1>4, <1>5, <1>8, LateStep, PointsFacts DEF Typed

\* Everything has been joined.
LEMMA TeardownNextStep == ASSUME IInv, TeardownNext PROVE IInv'
  <1>1. /\ Typed /\ At("reap") /\ UNCHANGED <<program, actor, resource, log, env, history>>
        /\ ctl.pc \in Cleaning /\ ctl.pc \in Late \ {"idle"} /\ Joinable = {}
        /\ program.max_decisions \in Nat /\ state \in StateOf(program.max_decisions)
    BY StateTyped DEF IInv, TeardownNext, At, Cleaning, Late
  <1>2. CASE TeardownDue /\ env.drained
    BY <1>1, <1>2, IncompleteStep DEF TeardownNext, At
  <1>3. CASE TeardownDue /\ ~env.drained
    <2>1. ctl' = [ctl EXCEPT !.pc = "teardown", !.teardown_attempted = TRUE] /\ UNCHANGED state
      BY <1>3 DEF TeardownNext
    <2>2. /\ ctl' \in Control /\ ctl'.pc = "teardown" /\ ctl'.acquired = ctl.acquired
          /\ ctl'.teardown_attempted
      BY <1>1, <2>1 DEF Typed, Control, Points
    <2> QED BY <1>1, <1>3, <2>1, <2>2, CleanupMoves DEF TeardownDue, Cleaning
  <1>4. CASE ~TeardownDue
    <2>1. ~ctl.teardown_attempted /\ history.teardowns = 0 BY <1>1 DEF IInv, Cleaned, At
    <2>2. ~ctl.acquired BY <1>4, <2>1 DEF TeardownDue
    <2>3. Goto("idle") /\ state' = [state EXCEPT !.cleanup = "not_started"]
      BY <1>4, <2>2 DEF TeardownNext
    <2>4. /\ state' \in StateOf(program.max_decisions) /\ state'.cleanup = "not_started"
          /\ state'.finished = state.finished /\ state'.ended = state.ended
          /\ state'.outcome = state.outcome /\ state'.cancelled
      BY <1>1, <2>3, LateCancelled DEF StateOf
    <2>5. /\ ctl' \in Control /\ ctl'.pc = "idle" /\ ctl'.acquired = ctl.acquired
          /\ ctl'.teardown_attempted = ctl.teardown_attempted
      BY <1>1, <2>3, GotoFacts, PointsFacts
    <2>6. Cleaned' BY <1>1, <2>1, <2>2, <2>4, <2>5, PointsFacts DEF Cleaned, At
    <2> QED BY <1>1, <2>4, <2>5, <2>6, LateStep, JoinNone, PointsFacts DEF Typed
  <1> QED BY <1>2, <1>3, <1>4

\* Program::teardown.
LEMMA TeardownStep == ASSUME IInv, NEW ok \in BOOLEAN, Teardown(ok) PROVE IInv'
  <1> DEFINE n == program.max_decisions
             b == CheckBudget(state)
  <1>1. /\ Typed /\ At("teardown") /\ UNCHANGED <<program, actor, resource, log, env>>
        /\ ctl.pc \in Late \ {"idle"} /\ n \in Nat /\ state \in StateOf(n) /\ Goto("idle")
    BY StateTyped DEF IInv, Teardown, At, Cleaning, Late
  <1>2. Judged(n, state, b) /\ (env.drained => b.cleanup_exceeded)
    BY <1>1, BudgetFacts
  <1>3. state' = [b EXCEPT !.cleanup = IF ok THEN "confirmed" ELSE "teardown_failed"]
    BY DEF Teardown
  <1> HIDE DEF b
  <1>4. /\ state' \in StateOf(n) /\ state'.cancelled
        /\ state'.finished = state.finished /\ state'.ended = state.ended
        /\ state'.cleanup \in {"confirmed", "teardown_failed"}
        /\ (env.drained \/ state.cleanup_exceeded => state'.cleanup_exceeded)
        /\ (state'.outcome = "completed" => state.outcome = "completed")
    BY <1>1, <1>2, <1>3, LateCancelled DEF Judged, StateOf
  <1>5. /\ ctl' \in Control /\ ctl'.pc = "idle" /\ ctl'.acquired = ctl.acquired
        /\ ctl'.teardown_attempted = ctl.teardown_attempted
    BY <1>1, GotoFacts, PointsFacts
  <1>6. /\ ctl.teardown_attempted /\ ctl.acquired /\ Joinable = {} /\ history.teardowns = 0
    BY <1>1 DEF IInv, Cleaned, At
  <1>7. /\ history' \in HistoryOf(program.max_attempts) /\ history'.teardowns = 1
        /\ history'.overran = history.overran
    BY <1>1, <1>6 DEF Teardown, Typed, HistoryOf
  <1>8. Joinable' = Joinable BY <1>1 DEF Joinable, Stage
  <1>9. Cleaned'
    BY <1>1, <1>4, <1>5, <1>6, <1>7, <1>8, PointsFacts DEF IInv, Cleaned, At
  <1> QED BY <1>1, <1>4, <1>5, <1>7, <1>9, LateStep, JoinNone, PointsFacts DEF Typed

\* ~Execution: nothing goes on, everything is joined, and what is due is torn down.
LEMMA DestroyStep == ASSUME IInv, Destroy \/ DestroyJoin PROVE IInv'
  <1>0. Typed /\ program.max_decisions \in Nat /\ state \in StateOf(program.max_decisions)
    BY StateTyped DEF IInv
  <1>1. CASE Destroy
    <2>1. /\ At("idle") /\ Goto("destroy") /\ state' = [state EXCEPT !.cancelled = TRUE]
          /\ UNCHANGED <<program, actor, resource, log, env, history>>
      BY <1>1 DEF Destroy
    <2>2. /\ state' \in StateOf(program.max_decisions) /\ state'.cleanup = state.cleanup
          /\ state'.finished = state.finished /\ state'.ended = state.ended
          /\ state'.outcome = state.outcome /\ state'.cancelled
          /\ state'.cleanup_exceeded = state.cleanup_exceeded
      BY <1>0, <2>1 DEF StateOf
    <2>3. /\ ctl' \in Control /\ ctl'.pc = "destroy" /\ ctl'.acquired = ctl.acquired
          /\ ctl'.teardown_attempted = ctl.teardown_attempted
      BY <1>0, <2>1, GotoFacts, PointsFacts DEF Late
    <2>4. Joinable' = Joinable BY <2>1 DEF Joinable, Stage
    <2>5. Cleaned'
      BY <2>1, <2>2, <2>3, <2>4, PointsFacts DEF IInv, Cleaned, At, Late
    <2>6. ctl.pc \in Late /\ ctl'.pc \in Late BY <2>1, <2>3 DEF At, Late
    <2> QED BY <1>0, <2>1, <2>2, <2>3, <2>5, <2>6, LateStep, JoinNone DEF Typed
  <1>2. CASE DestroyJoin
    <2>1. /\ At("destroy") /\ \A a \in Joinable : Stage(a) = "exited"
          /\ UNCHANGED <<program, state, resource, log, env>>
          /\ ctl.pc \in Late \ {"idle"} /\ state.cancelled
      BY <1>2, LateCancelled DEF DestroyJoin, At, Late
    <2>2. actor' \in [Actors -> ActorState]
      BY <1>0, <1>2 DEF DestroyJoin, Typed, ActorState, Stages
    <2>3. \A a \in Actors : /\ Stage(a) = "none" => actor'[a] = actor[a]
                            /\ Stage(a) # "none" => actor'[a].stage = "joined"
                            /\ actor'[a].pending = actor[a].pending
                            /\ actor'[a].next = actor[a].next
                            /\ Stage(a) = "joined" => actor'[a] = actor[a]
      BY <1>0, <1>2 DEF DestroyJoin, Typed, ActorState, Stage
    <2>4. Joins
      BY <2>1, <2>2, <2>3 DEF Joins, Joinable
    <2>5. Joinable' = {}
      BY <2>3 DEF Joinable, Stage
    <2>6. /\ ctl' \in Control /\ ctl'.pc = "gone" /\ ctl'.acquired = ctl.acquired
          /\ ctl'.teardown_attempted = (ctl.teardown_attempted \/ TeardownDue)
      BY <1>0, <1>2 DEF DestroyJoin, Typed, Control, Points, TeardownDue
    <2>7. /\ history' \in HistoryOf(program.max_attempts) /\ history'.overran = history.overran
          /\ history'.teardowns = IF TeardownDue THEN history.teardowns + 1 ELSE history.teardowns
      BY <1>0, <1>2 DEF DestroyJoin, Typed, HistoryOf
    <2>8. history.teardowns = IF ctl.teardown_attempted THEN 1 ELSE 0
      BY <2>1 DEF IInv, Cleaned, At
    <2>9. ctl.acquired /\ history.overran => state.cleanup_exceeded
      BY <2>1 DEF IInv, Cleaned, At, Cleaning
    <2>10. Cleaned'
      <3>1. /\ ctl'.pc \in Late /\ ctl'.pc \notin Cleaning /\ (ctl.teardown_attempted => ctl.acquired)
            /\ (state.cleanup = "confirmed" => ctl.teardown_attempted)
        BY <2>6 DEF IInv, Cleaned, Late, Cleaning
      <3>2. history'.teardowns = IF ctl'.teardown_attempted THEN 1 ELSE 0
        <4>1. CASE TeardownDue
          <5>1. ctl'.teardown_attempted BY <2>6, <4>1
          <5>2. history.teardowns = 0 BY <2>8, <4>1 DEF TeardownDue
          <5>3. history'.teardowns = 1 BY <2>7, <4>1, <5>2
          <5> QED BY <5>1, <5>3
        <4>2. CASE ~TeardownDue BY <2>6, <2>7, <2>8, <4>2
        <4> QED BY <4>1, <4>2
      <3>3. ctl'.teardown_attempted <=> ctl.acquired
        BY <2>6, <3>1 DEF TeardownDue
      <3> QED BY <2>1, <2>5, <2>6, <2>7, <2>9, <3>1, <3>2, <3>3 DEF Cleaned, At
    <2>11. ctl'.pc \in Late BY <2>6 DEF Late
    <2> QED BY <1>0, <2>1, <2>4, <2>6, <2>7, <2>10, <2>11, LateStep DEF Typed
  <1> QED BY <1>1, <1>2

-----------------------------------------------------------------------------
(* Workers *)

\* Actor a moves and no other; neither is it created nor joined.
Acts(a) ==
  /\ UNCHANGED <<program, ctl, env>> /\ Runs
  /\ actor' \in [Actors -> ActorState] /\ \A b \in Actors \ {a} : actor'[b] = actor[b]
  /\ Stage(a) \notin {"none", "joined"} /\ actor'[a].stage \notin {"none", "joined"}

\* One field, or the whole record, of actor a.
LEMMA ActsStage ==
  ASSUME Typed, NEW a \in Actors, NEW s \in Stages, actor' = [actor EXCEPT ![a].stage = s]
  PROVE  /\ actor' \in [Actors -> ActorState] /\ \A b \in Actors \ {a} : actor'[b] = actor[b]
         /\ actor'[a].stage = s /\ actor'[a].pending = actor[a].pending
         /\ actor'[a].arrived = actor[a].arrived /\ actor'[a].grant = actor[a].grant
         /\ actor'[a].next = actor[a].next
  BY DEF Typed, ActorState

\* Hook::request parks the actor.
LEMMA ActsPark ==
  ASSUME Typed, NEW a \in Actors, NEW o \in Op, Park(a, o)
  PROVE  /\ actor' \in [Actors -> ActorState] /\ \A b \in Actors \ {a} : actor'[b] = actor[b]
         /\ actor'[a].stage = "parked" /\ actor'[a].pending = o
         /\ actor'[a].arrived /\ ~actor'[a].grant /\ actor'[a].next = actor[a].next
  BY DEF Park, Typed, ActorState, Stages

\* While the execution is alive only the selected actor is on the move.
LEMMA OnlySelected ==
  ASSUME IInv, ~state.cancelled, NEW a \in Actors
  PROVE  /\ (Stage(a) \in {"running", "threw", "ending"} \/ (Stage(a) = "parked" /\ actor[a].grant))
              => a = ctl.selected /\ At("boundary") /\ ~actor[a].arrived /\ Moving(a)
         /\ Stage(a) = "spawned" => ctl.pc \in {"spawn", "barrier"}
         /\ Stage(a) = "exiting" => a = ctl.selected /\ ctl.pc \in {"boundary", "joining"}
         /\ Stage(a) = "exiting" /\ At("boundary") => actor[a].arrived
  BY DEF IInv, Quiet, At, Early, Waiting, Resting, Selected, Moving, Returned

\* A worker's step: its requests, the owners and Quiet are what is left to show.
LEMMA WorkerFrame ==
  ASSUME IInv, NEW a \in Actors, Acts(a), Judged(program.max_decisions, state, state'),
         resource' \in Resources, log' \in LogOf(program.max_decisions),
         WellFormed(actor'[a].pending), actor'[a].next # 0, Owners', Quiet'
  PROVE  IInv'
  <1>1. /\ state' \in StateOf(program.max_decisions) /\ state'.cleanup = state.cleanup
        /\ state'.finished = state.finished /\ state'.ended = state.ended
        /\ (state.cancelled => state'.cancelled)
        /\ (state'.cancelled /\ ~state.cancelled => state'.outcome # "completed")
        /\ (state.outcome # "completed" => state'.outcome # "completed")
        /\ (state.cleanup_exceeded => state'.cleanup_exceeded)
    BY DEF Judged
  <1>2. /\ history' \in HistoryOf(program.max_attempts)
        /\ history'.teardowns = history.teardowns /\ history'.overran = history.overran
    BY DEF IInv, Typed, HistoryOf, Acts, Runs, At
  <1>3. Typed' BY <1>1, <1>2 DEF IInv, Typed, Acts
  <1>4. Requests' BY DEF IInv, Requests, Acts
  <1>5. ~AllJoined /\ a \in Joinable
    BY DEF AllJoined, Joinable, Acts
  <1>6. Verdicts'
    BY <1>1, <1>5 DEF IInv, Verdicts, Acts
  <1>7. ~ctl.teardown_attempted /\ ~At("gone") /\ ~At("teardown")
    BY <1>5 DEF IInv, Cleaned
  <1>8. Cleaned'
    BY <1>1, <1>2, <1>7 DEF IInv, Cleaned, Acts, At
  <1> QED BY <1>3, <1>4, <1>6, <1>8 DEF IInv

\* A cancelled execution has nothing to keep quiet.
LEMMA QuietCancelled == ASSUME state'.cancelled PROVE Quiet'
  BY DEF Quiet

\* The selected actor moves inside its advance.
LEMMA QuietSelected ==
  ASSUME IInv, ~state.cancelled, state' = state, NEW a \in Actors, Acts(a), a = ctl.selected,
         At("boundary"), Selected(a)'
  PROVE  Quiet'
  <1>1. /\ state.outcome = "completed" /\ \A b \in Actors \ {a} : Resting(b)
    BY DEF IInv, Quiet, At
  <1>2. \A b \in Actors \ {a} : Resting(b)'
    BY <1>1 DEF Resting, Stage, Acts
  <1>3. ctl' = ctl /\ Selected(ctl.selected)'
    BY DEF Acts
  <1> QED BY <1>1, <1>2, <1>3, PointsFacts DEF Quiet, At

\* Owners survive a step in which a keeps what it may keep and nobody gains.
LEMMA OwnersKept ==
  ASSUME Owners, NEW a \in Actors, Acts(a), resource' = resource,
         actor'[a].stage \in {"parked", "running", "threw", "ending"}
           \/ Stage(a) \notin {"parked", "running", "threw", "ending"}
  PROVE  Owners'
  BY DEF Owners, Acts, Stage

\* The thread body begins.
LEMMA WorkerStartStep == ASSUME IInv, NEW a \in Actors, WorkerStart(a) PROVE IInv'
  <1>1. /\ Typed /\ Stage(a) = "spawned" /\ Runs /\ UNCHANGED <<program, ctl, state, resource, log, env>>
        /\ Judged(program.max_decisions, state, state')
    BY StateTyped DEF IInv, WorkerStart
  <1>2. CASE state.cancelled
    <2>1. actor' = [actor EXCEPT ![a].stage = "threw"] BY <1>2 DEF WorkerStart
    <2>2. /\ Acts(a) /\ actor'[a].pending = actor[a].pending /\ actor'[a].stage = "threw"
          /\ actor'[a].next = actor[a].next
      BY <1>1, <2>1, ActsStage DEF Acts, Stages
    <2>3. WellFormed(actor'[a].pending) /\ actor'[a].next # 0 BY <2>2 DEF IInv, Requests
    <2>4. Owners' BY <1>1, <2>2, OwnersKept DEF IInv
    <2> QED BY <1>1, <1>2, <2>2, <2>3, <2>4, QuietCancelled, WorkerFrame DEF Typed
  <1>3. CASE ~state.cancelled
    <2>1. Park(a, Internal("start")) BY <1>3 DEF WorkerStart
    <2>2. /\ Acts(a) /\ actor'[a].pending = Internal("start") /\ actor'[a].stage = "parked"
          /\ ~actor'[a].grant /\ actor'[a].next = actor[a].next
      BY <1>1, <2>1, ActsPark, InternalFacts DEF Acts
    <2>3. WellFormed(actor'[a].pending) /\ actor'[a].next # 0
      BY <2>2 DEF IInv, Requests, WellFormed, Internal
    <2>4. Owners' BY <1>1, <2>2, OwnersKept DEF IInv
    <2>5. ctl.pc \in {"spawn", "barrier"} BY <1>1, <1>3, OnlySelected
    <2>6. \A b \in Actors : Waiting(b)'
      BY <1>3, <2>2, <2>5 DEF IInv, Quiet, Waiting, Stage, Acts
    <2>7. Quiet'
      BY <1>1, <1>3, <2>5, <2>6 DEF IInv, Quiet, At
    <2> QED BY <1>1, <2>2, <2>3, <2>4, <2>7, WorkerFrame DEF Typed
  <1> QED BY <1>2, <1>3

\* What a worker asks for next is an operation.
LEMMA NextOpType ==
  ASSUME Typed, NEW a \in Actors, actor[a].next # 0
  PROVE  NextOp(a) \in Op /\ (NextOp(a).op = "$done" <=> actor[a].next > Len(program.code[a]))
  <1>1. program.code[a] \in Seq(Requestable) /\ actor[a].next \in Nat
    BY ProgramFacts DEF Typed, ActorState
  <1>2. CASE actor[a].next <= Len(program.code[a])
    <2>1. NextOp(a) \in Requestable
      BY <1>1, <1>2 DEF NextOp
    <2> QED BY <1>1, <1>2, <2>1 DEF Requestable
  <1>3. CASE ~(actor[a].next <= Len(program.code[a]))
    BY <1>1, <1>3, InternalFacts DEF NextOp, Internal
  <1> QED BY <1>2, <1>3

\* Steps in which only the stage of a changes; a alive one only within its advance.
LEMMA StageStep ==
  ASSUME IInv, NEW a \in Actors, NEW s \in {"running", "threw", "ending", "exited"}, Runs,
         UNCHANGED <<program, ctl, env, resource, log>>,
         actor' = [actor EXCEPT ![a].stage = s], Stage(a) \notin {"none", "joined"},
         Judged(program.max_decisions, state, state'),
         s = "exited" => Stage(a) = "exiting",
         ~state'.cancelled => \/ Stage(a) \in {"running", "threw", "ending"} /\ s # "exited"
                              \/ Stage(a) = "exiting" /\ s = "exited"
  PROVE  IInv'
  <1>1. Typed /\ s \in Stages BY DEF IInv, Stages
  <1>2. /\ Acts(a) /\ actor'[a].stage = s /\ actor'[a].pending = actor[a].pending
        /\ actor'[a].next = actor[a].next /\ actor'[a].arrived = actor[a].arrived
    BY <1>1, ActsStage DEF Acts
  <1>3. WellFormed(actor'[a].pending) /\ actor'[a].next # 0
    BY <1>2 DEF IInv, Requests
  <1>4. Owners'
    BY <1>2, OwnersKept DEF IInv
  <1>5. Quiet'
    <2>1. CASE state'.cancelled BY <2>1, QuietCancelled
    <2>2. CASE ~state'.cancelled /\ s # "exited"
      <3>1. state' = state /\ ~state.cancelled BY <2>2 DEF Judged
      <3>2. a = ctl.selected /\ At("boundary") /\ ~actor[a].arrived
        BY <2>2, <3>1, OnlySelected
      <3>3. Selected(a)' BY <1>2, <2>2, <3>2 DEF Selected, Moving, Stage
      <3> QED BY <1>2, <3>1, <3>2, <3>3, QuietSelected
    <2>3. CASE ~state'.cancelled /\ s = "exited"
      <3>1. state' = state /\ ~state.cancelled BY <2>3 DEF Judged
      <3>2. /\ a = ctl.selected /\ ctl.pc \in {"boundary", "joining"}
            /\ (At("boundary") => actor[a].arrived)
        BY <2>3, <3>1, OnlySelected
      <3>3. CASE At("boundary")
        <4>1. Selected(a)' BY <1>2, <2>3, <3>2, <3>3 DEF Selected, Returned, Stage
        <4> QED BY <1>2, <3>1, <3>2, <3>3, <4>1, QuietSelected
      <3>4. CASE At("joining")
        <4>1. state.outcome = "completed" /\ \A b \in Actors \ {a} : Resting(b)
          BY <3>1, <3>2 DEF IInv, Quiet
        <4>2. \A b \in Actors \ {a} : Resting(b)'
          BY <1>2, <4>1 DEF Resting, Stage, Acts
        <4>3. Stage(ctl.selected)' = "exited"
          BY <1>2, <2>3, <3>2 DEF Stage
        <4> QED BY <3>1, <3>2, <3>4, <4>1, <4>2, <4>3, PointsFacts DEF Quiet, At
      <3> QED BY <3>2, <3>3, <3>4 DEF At
    <2> QED BY <2>1, <2>2, <2>3
  <1> QED BY <1>1, <1>2, <1>3, <1>4, <1>5, WorkerFrame DEF Typed

\* The exception of a cancelled execution, or of the application.
LEMMA ThrowStep ==
  ASSUME IInv, NEW a \in Actors, RequestCancelled(a) \/ WorkerCancelled(a) \/ WorkerThrows(a)
  PROVE  IInv'
  <1>1. Judged(program.max_decisions, state, state)
    BY StateTyped DEF IInv
  <1>2. CASE RequestCancelled(a) \/ WorkerCancelled(a)
    <2>1. /\ state.cancelled /\ state' = state /\ Runs
          /\ UNCHANGED <<program, ctl, resource, log, env>> /\ Stage(a) \notin {"none", "joined"}
      BY <1>2 DEF RequestCancelled, WorkerCancelled
    <2>2. \E s \in {"threw", "running"} : actor' = [actor EXCEPT ![a].stage = s]
      BY <1>2 DEF RequestCancelled, WorkerCancelled, Thrown
    <2> QED BY <1>1, <2>1, <2>2, StageStep
  <1>3. CASE WorkerThrows(a)
    <2>1. /\ state' = state /\ Runs /\ UNCHANGED <<program, ctl, resource, log, env>>
          /\ Stage(a) = "running" /\ actor' = [actor EXCEPT ![a].stage = "threw"]
      BY <1>3 DEF WorkerThrows
    <2>2. Judged(program.max_decisions, state, state') BY <1>1, <2>1
    <2> QED BY <2>1, <2>2, StageStep
  <1> QED BY <1>2, <1>3

\* The catch of the thread body reports what reached it.
LEMMA WorkerReportStep == ASSUME IInv, NEW a \in Actors, WorkerReport(a) PROVE IInv'
  <1>1. Judged(program.max_decisions, state, state') /\ state'.cancelled
    BY StateTyped, FailNow, OutcomeFacts DEF WorkerReport, IInv
  <1> QED BY <1>1, StageStep DEF WorkerReport

\* The thread's function returns.
LEMMA WorkerExitStep == ASSUME IInv, NEW a \in Actors, WorkerExit(a) PROVE IInv'
  <1>1. Judged(program.max_decisions, state, state)
    BY StateTyped DEF IInv
  <1> QED BY <1>1, StageStep DEF WorkerExit

\* Hook::request: a misuse is found, or the actor parks.
LEMMA RequestStep == ASSUME IInv, NEW a \in Actors, Request(a) PROVE IInv'
  <1> DEFINE o == NextOp(a)
  <1>1. /\ Typed /\ Stage(a) = "running" /\ ~state.cancelled /\ Runs /\ o \in Op
        /\ UNCHANGED <<program, ctl, resource, log, env>>
    BY NextOpType DEF IInv, Request, Requests
  <1>2. CASE Misuse(a, o)
    <2>1. state' = Fail(state, "resource_misuse") /\ Thrown(a) BY <1>2 DEF Request
    <2>2. Judged(program.max_decisions, state, state') /\ state'.cancelled
      BY <1>1, <2>1, StateTyped, FailNow, OutcomeFacts
    <2>3. \E s \in {"threw", "running"} : actor' = [actor EXCEPT ![a].stage = s]
      BY <2>1 DEF Thrown
    <2> QED BY <1>1, <2>2, <2>3, StageStep
  <1>3. CASE ~Misuse(a, o)
    <2>1. Park(a, o) /\ state' = state BY <1>3 DEF Request
    <2>2. /\ Acts(a) /\ actor'[a].pending = o /\ actor'[a].stage = "parked"
          /\ ~actor'[a].grant /\ actor'[a].next = actor[a].next /\ actor'[a].arrived
      BY <1>1, <2>1, ActsPark DEF Acts
    <2>3. WellFormed(actor'[a].pending) /\ actor'[a].next # 0
      BY <1>3, <2>2 DEF IInv, Requests, WellFormed, Misuse
    <2>4. Owners' BY <1>1, <2>2, OwnersKept DEF IInv
    <2>5. a = ctl.selected /\ At("boundary") BY <1>1, OnlySelected
    <2>6. Selected(a)' BY <2>2 DEF Selected, Returned, Stage
    <2>7. Quiet' BY <1>1, <2>1, <2>2, <2>5, <2>6, QuietSelected
    <2> QED BY <1>1, <2>1, <2>2, <2>3, <2>4, <2>7, StateTyped, WorkerFrame DEF Typed
  <1> QED BY <1>2, <1>3

\* The fields of the resources.
LEMMA ResourceFacts ==
  ASSUME NEW r \in Resources
  PROVE  /\ r.owner \in [Mutexes -> Actors \cup {Nobody}]
         /\ r.queue \in [Queues -> Seq(Values \cup {0})]
         /\ \A f \in [Mutexes -> Actors \cup {Nobody}] : [r EXCEPT !.owner = f] \in Resources
         /\ \A f \in [Queues -> Seq(Values \cup {0})] : [r EXCEPT !.queue = f] \in Resources
  BY DEF Resources

\* ~MutexGuard while an exception passes.
LEMMA UnwindStep == ASSUME IInv, NEW a \in Actors, NEW m \in Mutexes, UnwindRelease(a, m) PROVE IInv'
  <1>1. /\ Typed /\ UNCHANGED <<program, ctl, state, actor, log, env>> /\ Runs
        /\ Stage(a) \in {"threw", "running"}
        /\ resource' = [resource EXCEPT !.owner[m] = Nobody]
    BY DEF IInv, UnwindRelease
  <1>2. Acts(a) BY <1>1 DEF Acts, Typed, Stage
  <1>3. resource' \in Resources /\ \A x \in Mutexes \ {m} : resource'.owner[x] = resource.owner[x]
    BY <1>1, ActorsFacts DEF Typed, Resources
  <1>4. resource'.owner[m] = Nobody BY <1>1 DEF Typed, Resources
  <1>5. Owners' BY <1>1, <1>3, <1>4, ActorsFacts DEF IInv, Owners, Stage
  <1>6. WellFormed(actor'[a].pending) /\ actor'[a].next # 0 BY <1>1 DEF IInv, Requests
  <1>7. Quiet'
    <2>1. CASE state.cancelled BY <1>1, <2>1, QuietCancelled
    <2>2. CASE ~state.cancelled
      <3>1. a = ctl.selected /\ At("boundary") /\ ~actor[a].arrived
        BY <1>1, <2>2, OnlySelected
      <3>2. Selected(a)' BY <1>1, <3>1 DEF Selected, Moving, Stage
      <3> QED BY <1>1, <1>2, <2>2, <3>1, <3>2, QuietSelected
    <2> QED BY <2>1, <2>2
  <1> QED BY <1>1, <1>2, <1>3, <1>5, <1>6, <1>7, StateTyped, WorkerFrame DEF Typed

\* The thread body leaves no mutex behind.
LEMMA WorkerFinishStep == ASSUME IInv, NEW a \in Actors, WorkerFinish(a) PROVE IInv'
  <1> DEFINE f == [m \in Mutexes |-> IF m \in Held(a) THEN Nobody ELSE resource.owner[m]]
  <1>1. /\ Typed /\ UNCHANGED <<program, ctl, log, env>> /\ Runs /\ Stage(a) = "ending"
        /\ resource' = [resource EXCEPT !.owner = f]
        /\ actor' = [actor EXCEPT ![a].stage = "exiting", ![a].arrived = TRUE]
    BY DEF IInv, WorkerFinish
  <1>2. f \in [Mutexes -> Actors \cup {Nobody}]
    BY <1>1, ResourceFacts DEF Typed
  <1>3. resource' \in Resources /\ \A m \in Mutexes : resource'.owner[m] = f[m]
    BY <1>1, <1>2, ResourceFacts DEF Typed, Resources
  <1>4. /\ Acts(a) /\ actor'[a].pending = actor[a].pending /\ actor'[a].stage = "exiting"
        /\ actor'[a].next = actor[a].next /\ actor'[a].arrived
    BY <1>1 DEF Acts, Typed, ActorState, Stages
  <1>5. Owners'
    <2>1. \A m \in Mutexes : resource'.owner[m] # a /\ resource'.owner[m] \in {resource.owner[m], Nobody}
      BY <1>3, ActorsFacts DEF Held
    <2> QED BY <1>4, <2>1, ActorsFacts DEF IInv, Owners, Acts, Stage
  <1>6. WellFormed(actor'[a].pending) /\ actor'[a].next # 0 BY <1>4 DEF IInv, Requests
  <1>7. Judged(program.max_decisions, state, state')
    BY <1>1, StateTyped, FailNow, OutcomeFacts DEF WorkerFinish
  <1>8. Quiet'
    <2>1. CASE state'.cancelled BY <2>1, QuietCancelled
    <2>2. CASE ~state'.cancelled
      <3>1. state' = state /\ ~state.cancelled BY <1>7, <2>2 DEF Judged
      <3>2. a = ctl.selected /\ At("boundary") BY <1>1, <3>1, OnlySelected
      <3>3. Selected(a)' BY <1>4 DEF Selected, Returned, Stage
      <3> QED BY <1>4, <3>1, <3>2, <3>3, QuietSelected
    <2> QED BY <2>1, <2>2
  <1> QED BY <1>1, <1>3, <1>4, <1>5, <1>6, <1>7, <1>8, WorkerFrame DEF Typed

\* A possible operation keeps the resources well formed and yields an operation;
\* only a lock gives a mutex to somebody, and it gives it to the actor.
LEMMA ApplyFacts ==
  ASSUME Typed, NEW a \in Actors, NEW o \in Op, WellFormed(o), OpPossible(a, o, resource)
  PROVE  /\ Apply(a, o) \in Resources /\ Yield(o) \in Op
         /\ \A m \in Mutexes : \/ Apply(a, o).owner[m] \in {resource.owner[m], Nobody}
                               \/ o.op = "lock" /\ Apply(a, o).owner[m] = a
         /\ Yield(o).op = o.op /\ Yield(o).res = o.res
  <1>1. /\ resource \in Resources /\ resource.owner \in [Mutexes -> Actors \cup {Nobody}]
        /\ resource.queue \in [Queues -> Seq(Values \cup {0})]
    BY ResourceFacts DEF Typed
  <1>2. CASE o.op = "lock"
    <2>1. Apply(a, o) = [resource EXCEPT !.owner[o.res] = a] /\ Yield(o) = o
      BY <1>2 DEF Apply, Applied, Yield
    <2> QED BY <1>1, <1>2, <2>1 DEF Resources
  <1>3. CASE o.op = "unlock"
    <2>1. Apply(a, o) = [resource EXCEPT !.owner[o.res] = Nobody] /\ Yield(o) = o
      BY <1>3 DEF Apply, Applied, Yield
    <2> QED BY <1>1, <1>3, <2>1 DEF Resources
  <1>4. CASE o.op = "send"
    <2>1. Apply(a, o) = [resource EXCEPT !.queue[o.res] = Append(resource.queue[o.res], o.value)] /\ Yield(o) = o
      BY <1>4 DEF Apply, Applied, Yield
    <2>2. o.res \in Queues /\ o.value \in Values \cup {0}
      BY <1>4 DEF WellFormed, Op
    <2>3. Append(resource.queue[o.res], o.value) \in Seq(Values \cup {0})
      BY <1>1, <2>2, AppendProperties
    <2> QED BY <1>1, <2>1, <2>2, <2>3 DEF Resources
  <1>5. CASE o.op = "receive"
    <2>1. /\ Apply(a, o) = [resource EXCEPT !.queue[o.res] = Tail(resource.queue[o.res])]
          /\ Yield(o) = [o EXCEPT !.value = Head(resource.queue[o.res])]
      BY <1>5 DEF Apply, Applied, Yield
    <2>2. o.res \in Queues /\ resource.queue[o.res] # <<>>
      BY <1>5 DEF WellFormed, OpPossible
    <2>3. resource.queue[o.res] \in Seq(Values \cup {0}) BY <1>1, <2>2
    <2>4. /\ Tail(resource.queue[o.res]) \in Seq(Values \cup {0})
          /\ Head(resource.queue[o.res]) \in Values \cup {0}
      BY <2>2, <2>3, HeadTailProperties
    <2>5. Apply(a, o) \in Resources /\ Apply(a, o).owner = resource.owner
      <3> DEFINE t == Tail(resource.queue[o.res])
                 f == [resource.queue EXCEPT ![o.res] = t]
      <3>1. t \in Seq(Values \cup {0}) BY <2>4
      <3>2. Apply(a, o) = [resource EXCEPT !.queue = f] BY <2>1
      <3> HIDE DEF t
      <3>3. f \in [Queues -> Seq(Values \cup {0})] BY <1>1, <2>2, <3>1
      <3> HIDE DEF f
      <3> QED BY <1>1, <3>2, <3>3 DEF Resources
    <2>6. Yield(o) \in Op /\ Yield(o).op = o.op /\ Yield(o).res = o.res
      BY <2>1, <2>4 DEF Op
    <2> QED BY <2>5, <2>6
  <1>6. CASE o.op \notin {"lock", "unlock", "send", "receive"}
    BY <1>1, <1>6 DEF Apply, Applied, Yield
  <1> QED BY <1>2, <1>3, <1>4, <1>5, <1>6

\* What a granted actor finds when it wakes, and what it does then.
LEMMA ResumeFacts ==
  ASSUME IInv, NEW a \in Actors, WorkerResumes(a)
  PROVE  /\ Typed /\ ~state.cancelled /\ UNCHANGED <<program, ctl, env>> /\ Runs
         /\ a = ctl.selected /\ At("boundary") /\ ~actor[a].arrived
         /\ Stage(a) = "parked" /\ actor[a].grant
         /\ actor[a].pending \in Op /\ WellFormed(actor[a].pending)
         /\ OpPossible(a, actor[a].pending, resource)
         /\ resource' = Apply(a, actor[a].pending) /\ resource' \in Resources
         /\ Row("result", a, Yield(actor[a].pending)) \in Event
         /\ log' = [log EXCEPT !.events = IF Fits
                      THEN Append(@, Row("result", a, Yield(actor[a].pending))) ELSE @]
         /\ actor' \in [Actors -> ActorState] /\ \A b \in Actors \ {a} : actor'[b] = actor[b]
         /\ actor'[a].stage = (IF actor[a].pending.op = "$done" THEN "ending" ELSE "running")
         /\ actor'[a].next = (IF actor[a].pending.op \in {"start", "$done"} THEN actor[a].next
                              ELSE actor[a].next + 1)
         /\ actor'[a].pending = actor[a].pending /\ ~actor'[a].grant /\ ~actor'[a].arrived
         /\ Judged(program.max_decisions, state, state')
         /\ (~state'.cancelled => Fits /\ state' = state)
  <1> DEFINE o == actor[a].pending
  <1>1. /\ Typed /\ ~state.cancelled /\ UNCHANGED <<program, ctl, env>> /\ Runs
        /\ Stage(a) = "parked" /\ actor[a].grant /\ o \in Op /\ WellFormed(o)
        /\ resource' = Apply(a, o)
        /\ log' = [log EXCEPT !.events = IF Fits THEN Append(@, Row("result", a, Yield(o))) ELSE @]
    BY DEF IInv, WorkerResumes, Requests, AddEvent, Typed, ActorState
  <1>2. a = ctl.selected /\ At("boundary") /\ ~actor[a].arrived /\ OpPossible(a, o, resource)
    BY <1>1, OnlySelected DEF Moving
  <1>3. resource' \in Resources /\ Yield(o) \in Op
    BY <1>1, <1>2, ApplyFacts
  <1>4. Row("result", a, Yield(o)) \in Event BY <1>3, RowType
  <1>5. /\ actor' \in [Actors -> ActorState] /\ \A b \in Actors \ {a} : actor'[b] = actor[b]
        /\ actor'[a].stage = (IF o.op = "$done" THEN "ending" ELSE "running")
        /\ actor'[a].next = (IF o.op \in {"start", "$done"} THEN actor[a].next ELSE actor[a].next + 1)
        /\ actor'[a].pending = o /\ ~actor'[a].grant /\ ~actor'[a].arrived
    <2> DEFINE s == IF o.op = "$done" THEN "ending" ELSE "running"
               x == IF o.op \in {"start", "$done"} THEN actor[a].next ELSE actor[a].next + 1
    <2>1. actor' = [actor EXCEPT ![a].stage = s, ![a].next = x, ![a].grant = FALSE]
      BY DEF WorkerResumes
    <2>2. /\ actor \in [Actors -> ActorState] /\ actor[a].next \in Nat /\ s \in Stages
      BY <1>1 DEF Typed, ActorState, Stages
    <2>3. x \in Nat BY <2>2
    <2> HIDE DEF s, x
    <2>4. /\ actor' \in [Actors -> ActorState] /\ \A b \in Actors \ {a} : actor'[b] = actor[b]
          /\ actor'[a].stage = s /\ actor'[a].next = x
          /\ actor'[a].pending = o /\ ~actor'[a].grant /\ actor'[a].arrived = actor[a].arrived
      BY <2>1, <2>2, <2>3 DEF ActorState
    <2> QED BY <1>2, <2>4 DEF s, x
  <1>6. state' = IF Fits THEN state ELSE FailIn(state, "evidence_exhausted", actor', resource')
    BY DEF WorkerResumes
  <1>7. Judged(program.max_decisions, state, state') /\ (~state'.cancelled => Fits /\ state' = state)
    <2>1. CASE Fits BY <1>1, <1>6, <2>1, StateTyped
    <2>2. CASE ~Fits
      BY <1>1, <1>3, <1>5, <1>6, <2>2, StateTyped, FailFacts, OutcomeFacts
    <2> QED BY <2>1, <2>2
  <1> QED BY <1>1, <1>2, <1>3, <1>4, <1>5, <1>7

\* The granted operation is applied.
LEMMA WorkerResumesStep == ASSUME IInv, NEW a \in Actors, WorkerResumes(a) PROVE IInv'
  <1> DEFINE o == actor[a].pending
  <1>1. /\ Typed /\ Stage(a) = "parked" /\ ~state.cancelled /\ UNCHANGED <<program, ctl, env>> /\ Runs
        /\ a = ctl.selected /\ At("boundary") /\ o \in Op /\ WellFormed(o)
        /\ OpPossible(a, o, resource)
        /\ resource' = Apply(a, o) /\ resource' \in Resources
        /\ actor' \in [Actors -> ActorState] /\ \A b \in Actors \ {a} : actor'[b] = actor[b]
        /\ actor'[a].stage \in {"ending", "running"} /\ actor'[a].pending = o /\ ~actor'[a].arrived
        /\ Judged(program.max_decisions, state, state')
        /\ (~state'.cancelled => state' = state)
    BY ResumeFacts
  <1>2. actor'[a].next # 0
    BY ResumeFacts DEF IInv, Requests, Typed, ActorState
  <1>3. Acts(a) BY <1>1 DEF Acts
  <1>4. log' \in LogOf(program.max_decisions)
    <2>1. /\ log' = [log EXCEPT !.events = IF Fits THEN Append(@, Row("result", a, Yield(o))) ELSE @]
          /\ Row("result", a, Yield(o)) \in Event
      BY ResumeFacts
    <2>2. CASE Fits BY <1>1, <2>1, <2>2, LogFacts
    <2>3. CASE ~Fits BY <1>1, <2>1, <2>3 DEF Typed, LogOf
    <2> QED BY <2>2, <2>3
  <1>5. Owners'
    <2>1. \A m \in Mutexes : resource'.owner[m] \in {resource.owner[m], Nobody, a}
      BY <1>1, ApplyFacts
    <2> QED BY <1>1, <2>1, ActorsFacts DEF IInv, Owners, Stage
  <1>6. Quiet'
    <2>1. CASE state'.cancelled BY <2>1, QuietCancelled
    <2>2. CASE ~state'.cancelled
      <3>1. Selected(a)' BY <1>1 DEF Selected, Moving, Stage
      <3> QED BY <1>1, <1>3, <2>2, <3>1, QuietSelected
    <2> QED BY <2>1, <2>2
  <1> QED BY <1>1, <1>2, <1>3, <1>4, <1>5, <1>6, WorkerFrame

\* Time passes.
LEMMA TimeStep == ASSUME IInv, DeadlinePasses \/ BudgetPasses PROVE IInv'
  <1>1. /\ Typed /\ UNCHANGED <<program, ctl, state, actor, resource, log>>
        /\ env' \in Env /\ history' \in HistoryOf(program.max_attempts)
        /\ history'.teardowns = history.teardowns /\ history'.disturbed = history.disturbed
        /\ (history'.overran => history.overran \/ (env'.drained /\ ctl.pc \in Cleaning))
        /\ (env.drained => env'.drained)
    BY DEF IInv, DeadlinePasses, BudgetPasses, Typed, Env, HistoryOf, Cleaning
  <1>2. Typed' BY <1>1 DEF Typed
  <1>3. Requests' /\ Owners' BY <1>1 DEF IInv, Requests, Owners, Stage
  <1>4. Quiet'
    BY <1>1 DEF IInv, Quiet, At, Waiting, Resting, Selected, Moving, Returned, Stage
  <1>5. Verdicts' BY <1>1 DEF IInv, Verdicts, AllJoined, Stage
  <1>6. ctl.pc \in Cleaning => state.cancelled /\ ctl.pc \in Late
    BY LateCancelled DEF Late, Cleaning
  <1>7. Cleaned'
    <2>1. Joinable' = Joinable BY <1>1 DEF Joinable, Stage
    <2> QED BY <1>1, <1>6, <2>1 DEF IInv, Cleaned, At
  <1> QED BY <1>2, <1>3, <1>4, <1>5, <1>7 DEF IInv

\* Nothing happens.
LEMMA StutterStep == ASSUME IInv, UNCHANGED vars PROVE IInv'
  <1>1. Judged(program.max_decisions, state, state') BY StateTyped DEF IInv, vars
  <1> QED BY <1>1, JudgeStep DEF vars

-----------------------------------------------------------------------------
(* The induction *)

\* Before any execution there are no requests, owners, verdicts or programs.
LEMMA InitIInv == Init => IInv
  <1> SUFFICES ASSUME Init PROVE IInv OBVIOUS
  <1>1. Typed
    <2>1. NoResources \in Resources
      BY DEF NoResources, Resources
    <2>2. program.max_decisions \in Nat /\ program.max_attempts \in Nat /\ program \in Programs
      BY ProgramFacts DEF Init
    <2>3. state \in StateOf(program.max_decisions)
      BY <2>1, <2>2 DEF Init, StateOf, Outcomes, Graph
    <2>4. actor \in [Actors -> ActorState]
      BY InternalFacts DEF Init, ActorState, Stages
    <2>5. ctl \in Control BY ActorsFacts DEF Init, Control, Points
    <2>6. log \in LogOf(program.max_decisions) BY DEF Init, LogOf
    <2>7. env \in Env /\ history \in HistoryOf(program.max_attempts) /\ resource \in Resources
      BY <2>1, <2>2 DEF Init, Env, HistoryOf
    <2> QED BY <2>2, <2>3, <2>4, <2>5, <2>6, <2>7 DEF Typed
  <1>2. Requests BY DEF Init, Requests, WellFormed, Internal
  <1>3. Owners BY ActorsFacts DEF Init, Owners, NoResources
  <1>4. Quiet BY PointsFacts DEF Init, Quiet, At, Stage
  <1>5. Verdicts BY DEF Init, Verdicts
  <1>6. Cleaned BY DEF Init, Cleaned, At
  <1> QED BY <1>1, <1>2, <1>3, <1>4, <1>5, <1>6 DEF IInv

\* Every step preserves the invariant.
LEMMA StepIInv == IInv /\ [Next]_vars => IInv'
  <1> SUFFICES ASSUME IInv, [Next]_vars PROVE IInv' OBVIOUS
  <1>1. CASE ControllerStep
    BY <1>1, RefuseStep, SpawnFailsStep, BarrierStep, ObserveBeginStep, BoundaryStep,
       JoinSelectedStep, FactoryStep, ObserveEndStep, SpawnStep, ReapNextStep, DrainStep,
       ReapJoinStep, TeardownNextStep, DestroyStep, TeardownStep
    DEF ControllerStep
  <1>2. CASE OwnerCall
    BY <1>2, QueryEnabledStep, CleanupEnterStep, DestroyStep, AdvanceRefusedStep,
       AdvanceGrantsStep DEF OwnerCall
  <1>3. CASE Environment
    BY <1>3, TimeStep, ForeignStep DEF Environment
  <1>4. CASE Terminated \/ UNCHANGED vars
    BY <1>4, StutterStep DEF Terminated
  <1>5. ASSUME NEW a \in Actors, WorkerRuntime(a) PROVE IInv'
    BY <1>5, WorkerStartStep, WorkerResumesStep, ThrowStep, WorkerReportStep, WorkerFinishStep,
       WorkerExitStep DEF WorkerRuntime
  <1>6. ASSUME NEW a \in Actors, Application(a) PROVE IInv'
    BY <1>6, RequestStep, ThrowStep, UnwindStep DEF Application
  <1> QED BY <1>1, <1>2, <1>3, <1>4, <1>5, <1>6 DEF Next

\* The invariant holds throughout.
LEMMA SyncInduction == Spec => []IInv
  BY InitIInv, StepIInv, PTL DEF Spec

-----------------------------------------------------------------------------
(* Grants and teardown *)

\* The invariant implies what a grant and the teardown promise.
LEMMA IInvImplies == IInv => SyncInv
  <1> SUFFICES ASSUME IInv PROVE SyncInv OBVIOUS
  <1>1. TypeOK BY TypedIsTypeOK DEF IInv
  <1>2. GrantStillPossible
    BY OnlySelected DEF GrantStillPossible, Moving
  <1>3. TeardownOnce
    BY DEF IInv, Cleaned, TeardownOnce, At
  <1> QED BY <1>1, <1>2, <1>3 DEF SyncInv

\* Whatever the actors and the owner do and however cleanup is retried: an operation
\* that advance granted is possible when the worker wakes to apply it, and every
\* acquired program is torn down exactly once, after the last join (Hook::request,
\* Execution::cleanup, ~Execution).
THEOREM GrantsAndTeardown == Spec => []SyncInv
  BY SyncInduction, IInvImplies, PTL

-----------------------------------------------------------------------------
(* Findings *)

\* A finding stays with its graph, no new deadlock is found, and nothing is granted
\* or ends.
Kept(s, t) == s.outcome # "completed" => t.outcome = s.outcome /\ t.graph = s.graph
Mild(s, t) == /\ Kept(s, t) /\ t.ended = s.ended /\ t.decisions = s.decisions
              /\ s.cancelled => t.cancelled
              /\ t.outcome = "controlled_deadlock" => s.outcome = "controlled_deadlock"

\* One after the other.
LEMMA MildThen == ASSUME NEW s, NEW t, NEW u, Mild(s, t), Mild(t, u) PROVE Mild(s, u)
  BY DEF Mild, Kept

\* A failure other than a deadlock.
LEMMA FailMild ==
  ASSUME Typed, NEW s \in StateOf(program.max_decisions),
         NEW o \in Outcomes \ {"completed", "controlled_deadlock"}
  PROVE  Mild(s, Fail(s, o)) /\ Fail(s, o) \in StateOf(program.max_decisions)
  BY FailNow DEF Mild, Kept, Judged

\* The deadline and the budget.
LEMMA ExpiryMild ==
  ASSUME Typed, NEW s \in StateOf(program.max_decisions)
  PROVE  /\ Mild(s, CheckDeadline(s)) /\ CheckDeadline(s) \in StateOf(program.max_decisions)
         /\ Mild(s, CheckBudget(s)) /\ CheckBudget(s) \in StateOf(program.max_decisions)
  BY DeadlineFacts, BudgetFacts DEF Mild, Kept, Judged

\* Updates that do not touch the finding.
LEMMA UpdateMild ==
  ASSUME NEW n \in Nat, NEW s \in StateOf(n)
  PROVE  /\ \A c : Mild(s, [s EXCEPT !.cleanup = c])
         /\ \A d : Mild(s, [s EXCEPT !.finished = d])
         /\ Mild(s, [s EXCEPT !.cancelled = TRUE])
         /\ Mild(s, s)
  BY DEF Mild, Kept, StateOf

\* The outcomes of failures that are no deadlock.
LEMMA OtherOutcomes ==
  {"invalid_profile", "timed_out", "application_failed", "resource_misuse", "observation_failed",
   "evidence_exhausted", "disabled_choice", "decision_exhausted", "cancelled"}
    \subseteq Outcomes \ {"completed", "controlled_deadlock"}
  BY DEF Outcomes

\* The controller's steps, other than the two that find a deadlock or end an execution.
LEMMA ControllerMild ==
  ASSUME IInv, ControllerStep, \A r \in {"threw", "invalid", "value"} : ~ObserveEnd(r)
  PROVE  Mild(state, state') /\ log' = log
  <1>1. Typed /\ program.max_decisions \in Nat /\ state \in StateOf(program.max_decisions)
    BY StateTyped DEF IInv
  <1>2. Mild(state, state) BY <1>1, UpdateMild
  <1>3. CASE Refuse
    BY <1>1, <1>3, FailMild, ExpiryMild, OtherOutcomes DEF Refuse
  <1>4. CASE SpawnFails
    BY <1>1, <1>4, FailMild, OtherOutcomes DEF SpawnFails
  <1>5. CASE Barrier \/ ObserveBegin
    BY <1>1, <1>5, ExpiryMild DEF Barrier, ObserveBegin
  <1>6. CASE Boundary
    <2> DEFINE x == IF state.cancelled \/ actor[ctl.selected].arrived THEN state
                    ELSE Fail(state, "timed_out")
    <2>1. Mild(state, x) /\ x \in StateOf(program.max_decisions)
      BY <1>1, <1>2, FailMild, OtherOutcomes
    <2>2. state' = CheckDeadline(x) /\ log' = log BY <1>6 DEF Boundary
    <2> HIDE DEF x
    <2> QED BY <1>1, <2>1, <2>2, ExpiryMild, MildThen
  <1>7. CASE JoinSelected
    <2> DEFINE y == [state EXCEPT !.finished = ExecutionFinished]
    <2>1. Mild(state, y) BY <1>1, UpdateMild
    <2>2. y \in StateOf(program.max_decisions)
      <3>1. ExecutionFinished \in BOOLEAN BY DEF ExecutionFinished, AllFinished
      <3> QED BY <1>1, <3>1 DEF StateOf
    <2>3. state' = CheckDeadline(y) /\ log' = log BY <1>7 DEF JoinSelected
    <2> HIDE DEF y
    <2> QED BY <1>1, <2>1, <2>2, <2>3, ExpiryMild, MildThen
  <1>8. ASSUME NEW r \in {"threw", "invalid", "program"}, Factory(r)
        PROVE  Mild(state, state') /\ log' = log
    <2> DEFINE s == IF r = "threw" THEN Fail(state, "application_failed") ELSE state
               t == CheckDeadline(s)
    <2>1. Mild(state, s) /\ s \in StateOf(program.max_decisions)
      BY <1>1, <1>2, FailMild, OtherOutcomes
    <2> HIDE DEF s
    <2>2. Mild(s, t) /\ t \in StateOf(program.max_decisions)
      BY <1>1, <2>1, ExpiryMild
    <2>3. state' \in {t, Fail(t, "application_failed")} /\ log' = log
      BY <1>8 DEF Factory, s
    <2> HIDE DEF t
    <2>4. Mild(t, state')
      BY <1>1, <2>2, <2>3, FailMild, UpdateMild, OtherOutcomes
    <2> QED BY <2>1, <2>2, <2>3, <2>4, MildThen
  <1>9. ASSUME NEW a \in Actors, Spawn(a) PROVE Mild(state, state') /\ log' = log
    BY <1>2, <1>9 DEF Spawn
  <1>10. ASSUME Incomplete PROVE Mild(state, state')
    <2>1. Mild(state, CheckBudget(state)) /\ CheckBudget(state) \in StateOf(program.max_decisions)
      BY <1>1, ExpiryMild
    <2>2. Mild(CheckBudget(state), state')
      BY <1>1, <1>10, <2>1, UpdateMild DEF Incomplete
    <2> QED BY <2>1, <2>2, MildThen
  <1>11. ASSUME NEW a \in Actors, ReapNext(a) PROVE Mild(state, state') /\ log' = log
    BY <1>2, <1>10, <1>11 DEF ReapNext
  <1>12. CASE Drain
    BY <1>2, <1>10, <1>12 DEF Drain
  <1>13. CASE ReapJoin
    BY <1>1, <1>13, ExpiryMild DEF ReapJoin
  <1>14. CASE TeardownNext
    <2>1. log' = log /\ (\/ Incomplete \/ state' = state
                         \/ \E c : state' = [state EXCEPT !.cleanup = c])
      BY <1>14 DEF TeardownNext
    <2>2. \A c : Mild(state, [state EXCEPT !.cleanup = c]) BY <1>1, UpdateMild
    <2> QED BY <1>2, <1>10, <2>1, <2>2
  <1>15. CASE DestroyJoin
    BY <1>2, <1>15 DEF DestroyJoin
  <1>16. ASSUME NEW ok \in BOOLEAN, Teardown(ok) PROVE Mild(state, state') /\ log' = log
    <2>1. Mild(state, CheckBudget(state)) /\ CheckBudget(state) \in StateOf(program.max_decisions)
      BY <1>1, ExpiryMild
    <2>2. Mild(CheckBudget(state), state') /\ log' = log
      BY <1>1, <1>16, <2>1, UpdateMild DEF Teardown
    <2> QED BY <2>1, <2>2, MildThen
  <1> QED BY <1>3, <1>4, <1>5, <1>6, <1>7, <1>8, <1>9, <1>11, <1>12, <1>13, <1>14, <1>15, <1>16
          DEF ControllerStep

\* The owner's calls, other than those that find a deadlock or grant.
LEMMA OwnerMild ==
  ASSUME IInv, OwnerCall, ~QueryEnabled, \A a \in Actors : ~AdvanceGrants(a)
  PROVE  Mild(state, state') /\ log'.observations = log.observations
  <1>1. Typed /\ program.max_decisions \in Nat /\ state \in StateOf(program.max_decisions)
    BY StateTyped DEF IInv
  <1>2. CASE CleanupEnter
    <2> DEFINE late == CheckDeadline(state)
               s == IF state.outcome = "completed" /\ ~state.finished
                    THEN Fail(late, "cancelled") ELSE state
    <2>1. Mild(state, late) /\ late \in StateOf(program.max_decisions) BY <1>1, ExpiryMild
    <2>2. Mild(state, s) /\ s \in StateOf(program.max_decisions)
      <3> HIDE DEF late
      <3> QED BY <1>1, <2>1, FailMild, UpdateMild, MildThen, OtherOutcomes
    <2>3. state' = [s EXCEPT !.cancelled = TRUE] /\ log' = log BY <1>2 DEF CleanupEnter
    <2> HIDE DEF s
    <2> QED BY <1>1, <2>2, <2>3, UpdateMild, MildThen
  <1>3. CASE Destroy
    BY <1>1, <1>3, UpdateMild DEF Destroy
  <1>4. ASSUME NEW a \in Actors, AdvanceRefused(a)
        PROVE  Mild(state, state') /\ log'.observations = log.observations
    <2> DEFINE s == CheckDeadline(state)
    <2>1. Mild(state, s) /\ s \in StateOf(program.max_decisions) BY <1>1, ExpiryMild
    <2>2. /\ state' \in {s, Fail(s, "disabled_choice"), Fail(s, "decision_exhausted"),
                         Fail(s, "evidence_exhausted")}
          /\ log' = log
      BY <1>4 DEF AdvanceRefused
    <2> HIDE DEF s
    <2>3. Mild(s, state')
      BY <1>1, <2>1, <2>2, FailMild, UpdateMild, OtherOutcomes
    <2> QED BY <2>1, <2>2, <2>3, MildThen
  <1> QED BY <1>2, <1>3, <1>4 DEF OwnerCall

\* Workers and the environment.
LEMMA WorkerMild ==
  ASSUME IInv, Environment \/ \E a \in Actors : WorkerRuntime(a) \/ Application(a)
  PROVE  Mild(state, state') /\ log'.observations = log.observations
  <1>1. Typed /\ program.max_decisions \in Nat /\ state \in StateOf(program.max_decisions)
    BY StateTyped DEF IInv
  <1>2. Mild(state, state) BY <1>1, UpdateMild
  <1>3. CASE Environment
    BY <1>1, <1>2, <1>3, FailMild, OtherOutcomes
    DEF Environment, DeadlinePasses, BudgetPasses, ForeignRequest
  <1>4. ASSUME NEW a \in Actors, WorkerRuntime(a) \/ Application(a), ~WorkerResumes(a)
        PROVE  Mild(state, state') /\ log' = log
    BY <1>1, <1>2, <1>4, FailMild, OtherOutcomes
    DEF WorkerRuntime, Application, WorkerStart, WorkerCancelled, WorkerReport, WorkerFinish,
        WorkerExit, Request, RequestCancelled, WorkerThrows, UnwindRelease
  <1>5. ASSUME NEW a \in Actors, WorkerResumes(a)
        PROVE  Mild(state, state') /\ log'.observations = log.observations
    <2>1. /\ actor' \in [Actors -> ActorState] /\ resource' \in Resources
          /\ log' = [log EXCEPT !.events = IF Fits
                       THEN Append(@, Row("result", a, Yield(actor[a].pending))) ELSE @]
      BY <1>5, ResumeFacts
    <2>2. log'.observations = log.observations BY <1>1, <2>1 DEF Typed, LogOf
    <2>3. state' \in {state, FailIn(state, "evidence_exhausted", actor', resource')}
      BY <1>5 DEF WorkerResumes
    <2>4. Mild(state, FailIn(state, "evidence_exhausted", actor', resource'))
      BY <1>1, <2>1, FailFacts, OutcomeFacts DEF Mild, Kept, Judged
    <2> QED BY <1>2, <2>2, <2>3, <2>4
  <1> QED BY <1>3, <1>4, <1>5

\* A grant is no verdict.
LEMMA GrantKeeps ==
  ASSUME IInv, NEW a \in Actors, AdvanceGrants(a)
  PROVE  /\ Kept(state, state') /\ state'.ended = state.ended /\ state'.outcome = state.outcome
         /\ log'.observations = log.observations
  <1>1. Typed /\ program.max_decisions \in Nat /\ state \in StateOf(program.max_decisions)
    BY StateTyped DEF IInv
  <1>2. state' = [state EXCEPT !.decisions = @ + 1] BY DEF AdvanceGrants
  <1>3. log'.observations = log.observations
    BY <1>1 DEF AdvanceGrants, AddEvent, Typed, LogOf
  <1> QED BY <1>1, <1>2, <1>3 DEF StateOf, Kept

\* The query for enabled actors: a deadlock is found with the graph that proves it.
LEMMA QueryFinds ==
  ASSUME IInv, QueryEnabled
  PROVE  /\ Kept(state, state') /\ state'.ended = state.ended /\ log' = log
         /\ state'.outcome = "controlled_deadlock" /\ state.outcome # "controlled_deadlock" =>
              /\ state'.graph.waits # {}
              /\ \A w \in state'.graph.waits : ~OpPossible(w[1], w[2], state'.graph.resource)
  <1> DEFINE s == CheckDeadline(state)
             stuck == ~s.cancelled /\ (\A a \in Actors : ~Enabled(a)) /\ ~AllFinished /\ AllParked
  <1>1. Typed /\ program.max_decisions \in Nat /\ state \in StateOf(program.max_decisions)
    BY StateTyped DEF IInv
  <1>2. Mild(state, s) /\ s \in StateOf(program.max_decisions) BY <1>1, ExpiryMild
  <1>3. log' = log /\ state' = IF stuck THEN Fail(s, "controlled_deadlock") ELSE s
    BY DEF QueryEnabled
  <1> HIDE DEF s
  <1>4. CASE ~stuck
    BY <1>2, <1>3, <1>4 DEF Mild
  <1>5. CASE stuck
    <2>1. /\ Judged(program.max_decisions, s, state')
          /\ s.outcome = "completed" => state'.graph = GraphOf(actor, resource)
      BY <1>1, <1>2, <1>3, <1>5, FailNow, OutcomeFacts
    <2>2. Kept(state, state') /\ state'.ended = state.ended
      BY <1>2, <2>1 DEF Mild, Kept, Judged
    <2>3. state'.outcome = "controlled_deadlock" /\ state.outcome # "controlled_deadlock"
            => s.outcome = "completed"
      BY <1>2, <2>1 DEF Mild, Kept, Judged
    <2>4. \E a \in Actors : Stage(a) = "parked"
      BY <1>5 DEF AllFinished, AllParked
    <2>5. \A a \in Actors : Stage(a) = "parked" => ~OpPossible(a, actor[a].pending, resource)
      BY <1>5 DEF Enabled
    <2>6. /\ GraphOf(actor, resource).resource = resource
          /\ GraphOf(actor, resource).waits =
               {<<a, actor[a].pending>> : a \in {b \in Actors : Stage(b) = "parked"}}
      BY DEF GraphOf, Stage
    <2>7. GraphOf(actor, resource).waits # {} BY <2>4, <2>6
    <2>8. ASSUME NEW w \in GraphOf(actor, resource).waits
          PROVE  ~OpPossible(w[1], w[2], GraphOf(actor, resource).resource)
      <3>1. PICK a \in Actors : Stage(a) = "parked" /\ w = <<a, actor[a].pending>>
        BY <2>6
      <3> QED BY <2>5, <2>6, <3>1
    <2> QED BY <1>3, <2>1, <2>2, <2>3, <2>7, <2>8
  <1> QED BY <1>4, <1>5

\* The observer's value is kept only of actors that stood still, and in time.
LEMMA ObserveKeeps ==
  ASSUME IInv, NEW r \in {"threw", "invalid", "value"}, ObserveEnd(r)
  PROVE  /\ Kept(state, state')
         /\ state'.outcome = "controlled_deadlock" => state.outcome = "controlled_deadlock"
         /\ log'.observations # log.observations => ~history.disturbed
         /\ env.expired /\ ~state.ended => ~state'.ended
  <1> DEFINE x == IF r = "threw" THEN Fail(state, "observation_failed") ELSE state
             s == CheckDeadline(x)
             keep == Keep(s) /\ r = "value" /\ Fits
  <1>1. /\ Typed /\ program.max_decisions \in Nat /\ state \in StateOf(program.max_decisions)
        /\ At("observing")
    BY StateTyped DEF IInv, ObserveEnd
  <1>2. Mild(state, x) /\ x \in StateOf(program.max_decisions)
    BY <1>1, FailMild, UpdateMild, OtherOutcomes
  <1>3. Mild(x, s) /\ s \in StateOf(program.max_decisions)
    BY <1>1, <1>2, ExpiryMild
  <1>4. Mild(state, s) BY <1>2, <1>3, MildThen
  <1>5. (env.expired /\ ~x.ended => s.cancelled) /\ (x.cancelled => s.cancelled)
    BY <1>1, <1>2, DeadlineFacts DEF Judged
  <1>6. CASE ~keep
    <2>1. log' = log /\ state' \in {s, Fail(s, "evidence_exhausted")}
      BY <1>6 DEF ObserveEnd
    <2> HIDE DEF s
    <2>2. Mild(s, state')
      BY <1>1, <1>3, <2>1, FailMild, UpdateMild, OtherOutcomes
    <2>3. Mild(state, state') BY <1>4, <2>2, MildThen
    <2> QED BY <2>1, <2>3 DEF Mild
  <1>7. CASE keep
    <2>1. ~s.cancelled /\ r = "value" /\ state' = [s EXCEPT !.ended = @ \/ s.finished]
      BY <1>7 DEF ObserveEnd, Keep
    <2>2. x = state BY <2>1
    <2> HIDE DEF x, s
    <2>3. state'.outcome = s.outcome /\ state'.graph = s.graph
      BY <1>3, <2>1 DEF StateOf
    <2>4. ~state.cancelled BY <1>5, <2>1, <2>2
    <2>5. ~history.disturbed BY <1>1, <2>4 DEF IInv, Quiet
    <2>6. ~(env.expired /\ ~state.ended) BY <1>5, <2>1, <2>2
    <2> QED BY <1>4, <2>3, <2>5, <2>6 DEF Mild, Kept
  <1> QED BY <1>6, <1>7

\* A step finds no deadlock, or is the query.
LEMMA StepKinds ==
  ASSUME IInv, [Next]_vars
  PROVE  \/ Mild(state, state') /\ log'.observations = log.observations
         \/ QueryEnabled \/ \E a \in Actors : AdvanceGrants(a)
         \/ \E r \in {"threw", "invalid", "value"} : ObserveEnd(r)
  <1>1. CASE Terminated \/ UNCHANGED vars
    BY <1>1, StateTyped, UpdateMild DEF Terminated, vars, IInv
  <1> QED BY <1>1, ControllerMild, OwnerMild, WorkerMild DEF Next

\* A deadlock finding keeps the wait graph that proves it: somebody waits, and nobody
\* who waits could have gone on (State::fail, Execution::enabled).
THEOREM DeadlockIsProved == Spec => []DeadlockEvidence
  <1>1. Init => DeadlockEvidence
    BY DEF Init, DeadlockEvidence
  <1>2. IInv /\ DeadlockEvidence /\ [Next]_vars => DeadlockEvidence'
    <2> SUFFICES ASSUME IInv, DeadlockEvidence, [Next]_vars,
                        state'.outcome = "controlled_deadlock"
                 PROVE  /\ state'.graph.waits # {}
                        /\ \A w \in state'.graph.waits :
                             ~OpPossible(w[1], w[2], state'.graph.resource)
      BY DEF DeadlockEvidence, OpPossible
    <2>1. CASE state.outcome = "controlled_deadlock"
      <3>1. Kept(state, state')
        BY StepKinds, QueryFinds, GrantKeeps, ObserveKeeps DEF Mild
      <3>2. state'.graph = state.graph BY <2>1, <3>1 DEF Kept
      <3> QED BY <2>1, <3>2 DEF DeadlockEvidence
    <2>2. CASE state.outcome # "controlled_deadlock"
      <3>1. QueryEnabled BY <2>2, StepKinds, GrantKeeps, ObserveKeeps DEF Mild
      <3> QED BY <2>2, <3>1, QueryFinds
    <2> QED BY <2>1, <2>2
  <1> QED BY <1>1, <1>2, SyncInduction, PTL DEF Spec

\* An observation that is kept was made while no actor ran, and the first finding
\* stays, with its graph, through cleanup and its retries (observe, State::fail).
THEOREM EvidenceStays == Spec => EvidenceKept
  <1>1. IInv /\ [Next]_vars =>
          [/\ log'.observations # log.observations => ~history.disturbed
           /\ state.outcome # "completed" =>
                state'.outcome = state.outcome /\ state'.graph = state.graph]_vars
    BY StepKinds, QueryFinds, GrantKeeps, ObserveKeeps DEF Mild, Kept
  <1> QED BY <1>1, SyncInduction, PTL DEF Spec, EvidenceKept

EndedIfPassed == passed => state.ended

\* A passed execution ended ...
LEMMA PassedEnded == IInv => EndedIfPassed
  BY DEF EndedIfPassed, IInv, passed, Cleaned, Verdicts

\* ... after a step as well.
LEMMA PassedEndedPrimed == IInv' => EndedIfPassed'
  BY PassedEnded, PTL

\* Work that ends after the deadline never ends the execution in time, and only an
\* execution that ended in time passes (observe, Report::passed).
THEOREM LateWorkNeverEnds == Spec => LateNeverEnds
  <1>1. IInv /\ [Next]_vars =>
          [/\ env.expired /\ ~state.ended => ~state'.ended
           /\ passed' => state'.ended]_vars
    <2> SUFFICES ASSUME IInv, [Next]_vars
                 PROVE  /\ env.expired /\ ~state.ended => ~state'.ended
                        /\ passed' => state'.ended
      OBVIOUS
    <2>1. env.expired /\ ~state.ended => ~state'.ended
      BY StepKinds, QueryFinds, GrantKeeps, ObserveKeeps DEF Mild
    <2>2. IInv' BY StepIInv
    <2> QED BY <2>1, <2>2, PassedEndedPrimed DEF EndedIfPassed
  <1> QED BY <1>1, SyncInduction, PTL DEF Spec, LateNeverEnds

-----------------------------------------------------------------------------
(* What a step does to an execution that may still pass *)

\* Nothing failed: the execution is alive, or ended and is being cleaned up.
Healthy == ~state.cancelled \/ (state.outcome = "completed" /\ state.ended)

\* What happens to an actor in a step that appends no row.
Moves(a) ==
  \/ actor'[a] = actor[a]
  \/ /\ actor'[a].next = actor[a].next /\ ~actor'[a].grant
     /\ \/ Stage(a) = "spawned" /\ actor'[a].stage = "parked" /\ actor'[a].pending = Internal("start")
        \/ Stage(a) = "running" /\ actor'[a].stage = "parked" /\ actor'[a].pending = NextOp(a)
  \/ /\ actor'[a].next = actor[a].next
     /\ \/ Stage(a) = "none" /\ actor'[a].stage = "spawned"
        \/ Stage(a) = "running" /\ actor'[a].stage = "threw"
        \/ /\ Stage(a) \in {"ending", "exiting", "exited"}
           /\ actor'[a].stage \in {"exiting", "exited", "joined"}
Calm ==
  /\ UNCHANGED <<program, log>> /\ state'.decisions = state.decisions
  /\ ctl'.pc \in Late <=> ctl.pc \in Late
  /\ \A a \in Actors : Moves(a)
  /\ resource' = resource \/ \E a \in Actors, m \in Mutexes : UnwindRelease(a, m)

\* Cancelled before it ended: it cannot pass.
LEMMA Unhealthy == ASSUME IInv, Healthy', state'.ended = state.ended,
                          ctl.pc \notin Late \/ ~AllJoined
                   PROVE  ~state'.cancelled
  BY DEF Healthy, IInv, Verdicts

\* The same, for a critical section that judges.
LEMMA UnhealthyMild == ASSUME IInv, Healthy', Mild(state, state'), ctl.pc \notin Late \/ ~AllJoined
                       PROVE  ~state'.cancelled /\ ~state.cancelled
  BY Unhealthy DEF Mild

\* The calls of the execution.
LEMMA CallsCalm ==
  ASSUME IInv, Healthy', Mild(state, state'),
         \/ Refuse \/ SpawnFails \/ Barrier \/ ObserveBegin \/ Boundary
         \/ \E r \in {"threw", "invalid", "program"} : Factory(r)
  PROVE  Calm
  <1>1. /\ ctl.pc \in Early /\ UNCHANGED <<program, actor, resource, log>>
        /\ state'.cancelled \/ \E p \in Early : ctl'.pc = p
    <2>1. Typed BY DEF IInv
    <2>2. CASE Refuse
      <3>1. At("start") /\ UNCHANGED <<program, actor, resource, log>> BY <2>2 DEF Refuse
      <3>2. state'.cancelled
        BY <2>1, <2>2, FailNow, DeadlineFacts, StateTyped, OutcomeFacts DEF Refuse, Judged
      <3> QED BY <3>1, <3>2, PointsFacts DEF At
    <2>3. CASE SpawnFails
      <3>1. At("spawn") /\ UNCHANGED <<program, actor, resource, log>> /\ Goto("barrier")
        BY <2>3 DEF SpawnFails
      <3>2. ctl'.pc = "barrier" BY <2>1, <3>1, GotoFacts, PointsFacts
      <3> QED BY <3>1, <3>2, PointsFacts DEF At
    <2>4. CASE Barrier
      <3>1. /\ At("barrier") /\ UNCHANGED <<program, actor, resource, log>>
            /\ Goto(IF state'.cancelled THEN "idle" ELSE "observe")
        BY <2>4 DEF Barrier
      <3>2. state'.cancelled \/ ctl'.pc = "observe" BY <2>1, <3>1, GotoFacts, PointsFacts
      <3> QED BY <3>1, <3>2, PointsFacts DEF At
    <2>5. CASE ObserveBegin
      <3>1. /\ At("observe") /\ UNCHANGED <<program, actor, resource, log>>
            /\ Goto(IF state'.cancelled THEN "idle" ELSE "observing")
        BY <2>5 DEF ObserveBegin
      <3>2. state'.cancelled \/ ctl'.pc = "observing" BY <2>1, <3>1, GotoFacts, PointsFacts
      <3> QED BY <3>1, <3>2, PointsFacts DEF At
    <2>6. CASE Boundary
      <3>1. /\ At("boundary") /\ UNCHANGED <<program, actor, resource, log>>
            /\ Goto(IF state'.cancelled THEN "idle"
                    ELSE IF Finished(ctl.selected) THEN "joining" ELSE "observe")
        BY <2>6 DEF Boundary
      <3>2. state'.cancelled \/ ctl'.pc \in {"joining", "observe"}
        BY <2>1, <3>1, GotoFacts, PointsFacts
      <3> QED BY <3>1, <3>2, PointsFacts DEF At
    <2>7. ASSUME NEW r \in {"threw", "invalid", "program"}, Factory(r)
          PROVE  /\ ctl.pc \in Early /\ UNCHANGED <<program, actor, resource, log>>
                 /\ state'.cancelled \/ \E p \in Early : ctl'.pc = p
      <3>1. /\ At("start") /\ UNCHANGED <<program, actor, resource, log>>
            /\ ctl' = [ctl EXCEPT !.acquired = (r # "threw"),
                                  !.pc = IF state'.cancelled THEN "idle" ELSE "spawn"]
        BY <2>7 DEF Factory
      <3>2. ctl'.pc = IF state'.cancelled THEN "idle" ELSE "spawn"
        BY <2>1, <3>1 DEF Typed, Control
      <3> QED BY <3>1, <3>2, PointsFacts DEF At
    <2> QED BY <2>2, <2>3, <2>4, <2>5, <2>6, <2>7
  <1>2. ctl.pc \notin Late BY <1>1, PointsFacts
  <1>3. ~state'.cancelled BY <1>2, UnhealthyMild
  <1>4. ctl'.pc \notin Late BY <1>1, <1>3, PointsFacts
  <1> QED BY <1>1, <1>2, <1>4 DEF Calm, Moves, Mild

\* Outside the calls.
LEMMA LateCalm ==
  ASSUME IInv, state'.decisions = state.decisions,
         \/ Drain \/ ReapJoin \/ TeardownNext \/ DestroyJoin \/ QueryEnabled \/ CleanupEnter
         \/ Destroy
         \/ \E a \in Actors : ReapNext(a) \/ AdvanceRefused(a)
         \/ \E ok \in BOOLEAN : Teardown(ok)
  PROVE  Calm
  <1>0. Typed /\ {"idle", "drain", "reap", "reaping", "teardown", "destroy", "gone"} \subseteq Late
    BY DEF IInv, Late, Cleaning
  <1>1. ctl.pc \in Late
    BY <1>0 DEF Drain, ReapJoin, TeardownNext, DestroyJoin, QueryEnabled, CleanupEnter, Destroy,
                ReapNext, AdvanceRefused, Teardown, At
  <1>2. ctl'.pc \in Late
    <2>1. CASE QueryEnabled \/ \E a \in Actors : AdvanceRefused(a)
      BY <1>1, <2>1 DEF QueryEnabled, AdvanceRefused
    <2>2. CASE \E a \in Actors : ReapNext(a)
      BY <1>0, <2>2 DEF ReapNext, Goto, Typed, Control
    <2>3. CASE TeardownNext \/ DestroyJoin
      BY <1>0, <2>3 DEF TeardownNext, DestroyJoin, Goto, Typed, Control
    <2>4. CASE Drain \/ ReapJoin \/ CleanupEnter \/ Destroy \/ \E ok \in BOOLEAN : Teardown(ok)
      BY <1>0, <2>4 DEF Drain, ReapJoin, CleanupEnter, Destroy, Teardown, Goto, Typed, Control
    <2> QED BY <2>1, <2>2, <2>3, <2>4
  <1>3. UNCHANGED <<program, log>>
    BY DEF Drain, ReapJoin, TeardownNext, DestroyJoin, QueryEnabled, CleanupEnter, Destroy,
           ReapNext, AdvanceRefused, Teardown
  <1>4. Joins
    <2>1. CASE ReapJoin
      <3>1. ctl.selected \in Actors BY <1>0 DEF Typed, Control
      <3> QED BY <1>0, <2>1, <3>1, JoinOne DEF ReapJoin
    <2>2. CASE DestroyJoin
      <3>1. /\ resource' = resource /\ \A a \in Joinable : Stage(a) = "exited"
            /\ actor' = [a \in Actors |->
                          [actor[a] EXCEPT !.stage = IF @ = "none" THEN @ ELSE "joined"]]
        BY <2>2 DEF DestroyJoin
      <3>2. actor' \in [Actors -> ActorState]
        BY <1>0, <3>1 DEF Typed, ActorState, Stages
      <3>3. \A a \in Actors : /\ Stage(a) = "none" => actor'[a] = actor[a]
                              /\ Stage(a) # "none" => actor'[a].stage = "joined"
                              /\ actor'[a].pending = actor[a].pending
                              /\ actor'[a].next = actor[a].next
                              /\ Stage(a) = "joined" => actor'[a] = actor[a]
        BY <1>0, <3>1 DEF Typed, ActorState, Stage
      <3> QED BY <3>1, <3>2, <3>3 DEF Joins, Joinable
    <2>3. CASE ~ReapJoin /\ ~DestroyJoin
      <3>1. UNCHANGED <<actor, resource>>
        BY <2>3 DEF Drain, TeardownNext, QueryEnabled, CleanupEnter, Destroy, ReapNext,
                    AdvanceRefused, Teardown
      <3> QED BY <1>0, <3>1, JoinNone
    <2> QED BY <2>1, <2>2, <2>3
  <1>5. \A a \in Actors : Moves(a)
    BY <1>4 DEF Joins, Moves
  <1> QED BY <1>1, <1>2, <1>3, <1>4, <1>5 DEF Calm, Joins

\* A thread is created, or the selected one joined.
LEMMA TableCalm ==
  ASSUME IInv, Healthy', Mild(state, state'), JoinSelected \/ \E a \in Actors : Spawn(a)
  PROVE  Calm
  <1>0. Typed /\ ctl.selected \in Actors BY DEF IInv, Typed, Control
  <1>1. CASE JoinSelected
    <2>1. /\ At("joining") /\ UNCHANGED <<program, resource, log>>
          /\ Goto(IF state'.cancelled THEN "idle" ELSE "observe")
      BY <1>1 DEF JoinSelected
    <2>2. Joins BY <1>0, <1>1, JoinOne DEF JoinSelected
    <2>3. ctl.pc \notin Late BY <2>1, PointsFacts DEF At
    <2>4. ~state'.cancelled BY <2>3, UnhealthyMild
    <2>5. ctl'.pc \notin Late BY <1>0, <2>1, <2>4, GotoFacts, PointsFacts
    <2>6. \A a \in Actors : Moves(a) BY <2>2 DEF Joins, Moves
    <2> QED BY <2>1, <2>3, <2>5, <2>6 DEF Calm, Mild
  <1>2. ASSUME NEW a \in Actors, Spawn(a) PROVE Calm
    <2>1. /\ At("spawn") /\ UNCHANGED <<program, state, resource, log>> /\ Stage(a) = "none"
          /\ \E p \in {"barrier", "spawn"} : Goto(p)
      BY <1>2 DEF Spawn
    <2>2. /\ actor'[a].stage = "spawned" /\ actor'[a].next = actor[a].next
          /\ \A b \in Actors \ {a} : actor'[b] = actor[b]
      BY <1>0, <1>2, ActsStage DEF Spawn, Stages
    <2>3. ctl.pc \notin Late /\ ctl'.pc \notin Late
      BY <1>0, <2>1, GotoFacts, PointsFacts DEF At
    <2>4. \A b \in Actors : Moves(b) BY <2>1, <2>2 DEF Moves
    <2> QED BY <2>1, <2>3, <2>4 DEF Calm
  <1> QED BY <1>1, <1>2

\* A mutex list that is empty releases nothing.
LEMMA NothingHeld ==
  ASSUME Typed, NEW a \in Actors, Held(a) = {},
         resource' = [resource EXCEPT !.owner = [m \in Mutexes |-> IF m \in Held(a) THEN Nobody
                                                                   ELSE @[m]]]
  PROVE  resource' = resource
  <1> DEFINE f == [m \in Mutexes |-> IF m \in Held(a) THEN Nobody ELSE resource.owner[m]]
  <1>1. resource.owner \in [Mutexes -> Actors \cup {Nobody}] /\ resource \in Resources
    BY ResourceFacts DEF Typed
  <1>2. f = resource.owner BY <1>1
  <1>3. resource' = [resource EXCEPT !.owner = f] OBVIOUS
  <1> HIDE DEF f
  <1> QED BY <1>1, <1>2, <1>3 DEF Resources

\* Workers that append no row.
LEMMA WorkerCalm ==
  ASSUME IInv, Healthy', Mild(state, state'), NEW a \in Actors,
         WorkerRuntime(a) \/ Application(a), ~WorkerResumes(a)
  PROVE  Calm
  <1>1. /\ Typed /\ UNCHANGED <<program, ctl, log>> /\ Stage(a) \notin {"none", "joined"}
    BY DEF IInv, WorkerRuntime, Application, WorkerStart, WorkerCancelled, WorkerReport, WorkerFinish,
           WorkerExit, Request, RequestCancelled, WorkerThrows, UnwindRelease
  <1>2. ~AllJoined BY <1>1 DEF AllJoined
  <1>3. ~state'.cancelled /\ ~state.cancelled
    BY <1>2, UnhealthyMild
  <1>4. ~WorkerCancelled(a) /\ ~RequestCancelled(a) /\ ~WorkerReport(a)
    <2>1. ~WorkerReport(a)
      BY <1>1, <1>3, FailNow, StateTyped, OutcomeFacts DEF WorkerReport
    <2> QED BY <1>3, <2>1 DEF WorkerCancelled, RequestCancelled
  <1>5. /\ \A b \in Actors : Moves(b)
        /\ resource' = resource \/ \E b \in Actors, m \in Mutexes : UnwindRelease(b, m)
    <2>1. CASE WorkerStart(a)
      <3>1. Park(a, Internal("start")) /\ resource' = resource /\ Stage(a) = "spawned"
        BY <1>3, <2>1 DEF WorkerStart
      <3> QED BY <1>1, <3>1, ActsPark, InternalFacts DEF Moves
    <2>2. CASE WorkerFinish(a)
      <3>1. Held(a) = {}
        BY <1>1, <1>3, <2>2, FailNow, StateTyped, OutcomeFacts DEF WorkerFinish
      <3>2. resource' = resource
        BY <1>1, <2>2, <3>1, NothingHeld DEF WorkerFinish
      <3>3. Stage(a) = "ending" /\ actor' = [actor EXCEPT ![a].stage = "exiting", ![a].arrived = TRUE]
        BY <2>2 DEF WorkerFinish
      <3>4. /\ actor'[a].stage = "exiting" /\ actor'[a].next = actor[a].next
            /\ \A b \in Actors \ {a} : actor'[b] = actor[b]
        BY <1>1, <3>3 DEF Typed, ActorState
      <3> QED BY <3>2, <3>3, <3>4 DEF Moves
    <2>3. CASE WorkerExit(a)
      <3>1. /\ Stage(a) = "exiting" /\ actor' = [actor EXCEPT ![a].stage = "exited"]
            /\ resource' = resource
        BY <2>3 DEF WorkerExit
      <3> QED BY <1>1, <3>1, ActsStage DEF Moves, Stages
    <2>4. CASE Request(a)
      <3>1. /\ Stage(a) = "running" /\ resource' = resource /\ NextOp(a) \in Op
        BY <1>1, <2>4, NextOpType DEF Request, IInv, Requests
      <3>2. ~Misuse(a, NextOp(a))
        BY <1>1, <1>3, <2>4, FailNow, StateTyped, OutcomeFacts DEF Request
      <3>3. Park(a, NextOp(a)) BY <2>4, <3>2 DEF Request
      <3> QED BY <1>1, <3>1, <3>3, ActsPark DEF Moves
    <2>5. CASE WorkerThrows(a)
      <3>1. /\ Stage(a) = "running" /\ actor' = [actor EXCEPT ![a].stage = "threw"]
            /\ resource' = resource
        BY <2>5 DEF WorkerThrows
      <3> QED BY <1>1, <3>1, ActsStage DEF Moves, Stages
    <2>6. CASE \E m \in Mutexes : UnwindRelease(a, m)
      BY <2>6 DEF UnwindRelease, Moves
    <2> QED BY <1>4, <2>1, <2>2, <2>3, <2>4, <2>5, <2>6 DEF WorkerRuntime, Application
  <1> QED BY <1>1, <1>5 DEF Calm, Mild

\* Every step of an execution that may still pass.
LEMMA Profile ==
  ASSUME IInv, [Next]_vars, Healthy'
  PROVE  /\ Healthy
         /\ \/ Calm
            \/ \E a \in Actors : AdvanceGrants(a) \/ WorkerResumes(a)
            \/ \E r \in {"threw", "invalid", "value"} : ObserveEnd(r)
  <1>0. Typed /\ state \in StateOf(program.max_decisions) BY StateTyped DEF IInv
  <1>1. Healthy
    <2>1. CASE Mild(state, state') BY <2>1 DEF Healthy, Mild, Kept
    <2>2. CASE QueryEnabled
      <3>1. Kept(state, state') /\ state'.ended = state.ended BY <2>2, QueryFinds
      <3>2. state.cancelled => state'.cancelled
        <4> DEFINE s == CheckDeadline(state)
        <4>1. (state.cancelled => s.cancelled) /\ s \in StateOf(program.max_decisions)
          BY <1>0, DeadlineFacts DEF Judged
        <4>2. state' \in {s, Fail(s, "controlled_deadlock")} BY <2>2 DEF QueryEnabled
        <4> HIDE DEF s
        <4> QED BY <1>0, <4>1, <4>2, FailNow, OutcomeFacts
      <3> QED BY <3>1, <3>2 DEF Healthy, Kept
    <2>3. CASE \E a \in Actors : AdvanceGrants(a)
      BY <1>0, <2>3, DeadlineFacts DEF AdvanceGrants, Judged, Healthy
    <2>4. ASSUME NEW r \in {"threw", "invalid", "value"}, ObserveEnd(r) PROVE Healthy
      <3> DEFINE x == IF r = "threw" THEN Fail(state, "observation_failed") ELSE state
                 s == CheckDeadline(x)
                 keep == Keep(s) /\ r = "value" /\ Fits
      <3>1. ctl.pc \notin Late /\ ~state.ended
        BY <2>4, PointsFacts DEF ObserveEnd, At, IInv, Verdicts
      <3>2. x \in StateOf(program.max_decisions) /\ (state.cancelled => x.cancelled)
            /\ x.ended = state.ended
        BY <1>0, FailNow, OutcomeFacts DEF Judged
      <3>3. /\ s \in StateOf(program.max_decisions) /\ (x.cancelled => s.cancelled)
            /\ s.ended = x.ended
        BY <1>0, <3>2, DeadlineFacts DEF Judged
      <3>4. CASE keep BY <3>2, <3>3, <3>4 DEF Keep, Healthy
      <3>5. CASE ~keep
        <4>1. state' = IF s.cancelled THEN s ELSE Fail(s, "evidence_exhausted")
          BY <2>4, <3>5 DEF ObserveEnd
        <4> HIDE DEF s
        <4>2. state'.cancelled /\ ~state'.ended
          BY <1>0, <3>1, <3>2, <3>3, <4>1, FailNow, OutcomeFacts DEF Judged
        <4> QED BY <4>2 DEF Healthy
      <3> QED BY <3>4, <3>5
    <2> QED BY StepKinds, <2>1, <2>2, <2>3, <2>4
  <1>2. CASE QueryEnabled
    <2>1. state'.decisions = state.decisions
      <3> DEFINE s == CheckDeadline(state)
      <3>1. s.decisions = state.decisions /\ s \in StateOf(program.max_decisions)
        BY <1>0, DeadlineFacts DEF Judged
      <3>2. state' \in {s, Fail(s, "controlled_deadlock")} BY <1>2 DEF QueryEnabled
      <3> HIDE DEF s
      <3> QED BY <1>0, <3>1, <3>2, FailNow, OutcomeFacts DEF Judged
    <2> QED BY <1>1, <1>2, <2>1, LateCalm
  <1>3. CASE ControllerStep /\ \A r \in {"threw", "invalid", "value"} : ~ObserveEnd(r)
    <2>1. Mild(state, state') BY <1>3, ControllerMild
    <2>2. state'.decisions = state.decisions BY <2>1 DEF Mild
    <2> QED BY <1>1, <1>3, <2>1, <2>2, CallsCalm, LateCalm, TableCalm DEF ControllerStep
  <1>4. CASE OwnerCall /\ ~QueryEnabled /\ \A a \in Actors : ~AdvanceGrants(a)
    <2>1. Mild(state, state') BY <1>4, OwnerMild
    <2>2. state'.decisions = state.decisions BY <2>1 DEF Mild
    <2> QED BY <1>1, <1>4, <2>2, LateCalm DEF OwnerCall
  <1>5. ASSUME NEW a \in Actors, WorkerRuntime(a) \/ Application(a), ~WorkerResumes(a) PROVE Calm
    BY <1>5, WorkerMild, WorkerCalm
  <1>6. CASE Environment
    <2>1. Mild(state, state') BY <1>6, WorkerMild
    <2>2. UNCHANGED <<program, ctl, actor, resource, log>>
      BY <1>6 DEF Environment, DeadlinePasses, BudgetPasses, ForeignRequest
    <2> QED BY <1>1, <2>1, <2>2 DEF Calm, Moves, Mild
  <1>7. CASE Terminated \/ UNCHANGED vars
    BY <1>1, <1>7 DEF Terminated, vars, Calm, Moves
  <1> QED BY <1>1, <1>2, <1>3, <1>4, <1>5, <1>6, <1>7 DEF Next, OwnerCall

\* An observation that leaves the execution able to pass.
LEMMA ObserveHealthy ==
  ASSUME IInv, NEW r \in {"threw", "invalid", "value"}, ObserveEnd(r), Healthy'
  PROVE  /\ ctl.pc = "observing" /\ ctl'.pc = "idle" /\ ~state.cancelled
         /\ UNCHANGED <<program, actor, resource>> /\ state'.decisions = state.decisions
         /\ log' = [log EXCEPT !.observations = Append(@, state.decisions)]
  <1> DEFINE x == IF r = "threw" THEN Fail(state, "observation_failed") ELSE state
             s == CheckDeadline(x)
             keep == Keep(s) /\ r = "value" /\ Fits
  <1>0. /\ Typed /\ state \in StateOf(program.max_decisions) /\ At("observing") /\ Goto("idle")
        /\ UNCHANGED <<program, actor, resource>>
    BY StateTyped DEF IInv, ObserveEnd
  <1>1. ~state.ended BY <1>0, PointsFacts DEF At, IInv, Verdicts
  <1>2. x \in StateOf(program.max_decisions) /\ x.ended = state.ended
    BY <1>0, FailNow, OutcomeFacts DEF Judged
  <1>3. /\ s \in StateOf(program.max_decisions) /\ s.ended = x.ended /\ (~s.cancelled => s = x)
    BY <1>0, <1>2, DeadlineFacts DEF Judged
  <1>4. keep
    <2> SUFFICES ASSUME ~keep PROVE FALSE OBVIOUS
    <2>1. state' = IF s.cancelled THEN s ELSE Fail(s, "evidence_exhausted")
      BY DEF ObserveEnd
    <2> HIDE DEF s
    <2>2. state'.cancelled /\ ~state'.ended
      BY <1>0, <1>1, <1>2, <1>3, <2>1, FailNow, OutcomeFacts DEF Judged
    <2> QED BY <2>2 DEF Healthy
  <1>5. /\ log' = [log EXCEPT !.observations = Append(@, state.decisions)]
        /\ state' = [s EXCEPT !.ended = @ \/ s.finished] /\ ~s.cancelled /\ r = "value"
    BY <1>4 DEF ObserveEnd, Keep
  <1>6. s = state BY <1>3, <1>5
  <1> HIDE DEF s
  <1>7. state'.decisions = state.decisions BY <1>0, <1>5, <1>6 DEF StateOf
  <1>8. ctl'.pc = "idle" BY <1>0, GotoFacts, PointsFacts
  <1> QED BY <1>0, <1>5, <1>6, <1>7, <1>8 DEF At

\* A grant.
LEMMA GrantHealthy ==
  ASSUME IInv, NEW a \in Actors, AdvanceGrants(a)
  PROVE  /\ ctl.pc = "idle" /\ ctl'.pc = "boundary" /\ ~state.cancelled
         /\ UNCHANGED <<program, resource>> /\ state'.decisions = state.decisions + 1
         /\ log' = [log EXCEPT !.events = Append(@, Row("grant", a, actor[a].pending))]
         /\ Row("grant", a, actor[a].pending) \in Event
         /\ Stage(a) = "parked" /\ actor'[a].stage = "parked" /\ actor'[a].grant
         /\ actor'[a].pending = actor[a].pending /\ actor'[a].next = actor[a].next
         /\ \A b \in Actors \ {a} : actor'[b] = actor[b]
         /\ \A b \in Actors : Resting(b)
  <1>1. /\ Typed /\ state \in StateOf(program.max_decisions) /\ program.max_decisions \in Nat
        /\ At("idle") /\ UNCHANGED <<program, resource>> /\ Stage(a) = "parked" /\ Fits
    BY StateTyped DEF IInv, AdvanceGrants, Enabled
  <1>2. ~state.cancelled BY <1>1, DeadlineFacts DEF AdvanceGrants, Judged
  <1>3. state'.decisions = state.decisions + 1 BY <1>1 DEF AdvanceGrants, StateOf
  <1>4. /\ actor'[a].stage = "parked" /\ actor'[a].grant
        /\ actor'[a].pending = actor[a].pending /\ actor'[a].next = actor[a].next
        /\ \A b \in Actors \ {a} : actor'[b] = actor[b]
    BY <1>1 DEF AdvanceGrants, Typed, ActorState, Stage
  <1>5. log' = [log EXCEPT !.events = Append(@, Row("grant", a, actor[a].pending))]
    BY <1>1 DEF AdvanceGrants, AddEvent
  <1>6. Row("grant", a, actor[a].pending) \in Event
    BY <1>1, RowType DEF Typed, ActorState
  <1>7. ctl'.pc = "boundary" BY <1>1 DEF AdvanceGrants, Typed, Control
  <1>8. \A b \in Actors : Resting(b) BY <1>1, <1>2 DEF IInv, Quiet, At
  <1> QED BY <1>1, <1>2, <1>3, <1>4, <1>5, <1>6, <1>7, <1>8 DEF At

\* A result that leaves the execution able to pass.
LEMMA ResumeHealthy ==
  ASSUME IInv, NEW a \in Actors, WorkerResumes(a), Healthy'
  PROVE  /\ state' = state /\ ~state.cancelled /\ ctl' = ctl /\ ctl.pc = "boundary"
         /\ log' = [log EXCEPT !.events = Append(@, Row("result", a, Yield(actor[a].pending)))]
         /\ \A b \in Actors \ {a} : Resting(b)
  <1>1. /\ Judged(program.max_decisions, state, state') /\ Stage(a) = "parked"
        /\ (~state'.cancelled => Fits /\ state' = state) /\ ctl' = ctl /\ At("boundary")
        /\ log' = [log EXCEPT !.events = IF Fits
                     THEN Append(@, Row("result", a, Yield(actor[a].pending))) ELSE @]
        /\ ~state.cancelled /\ a = ctl.selected
    BY ResumeFacts
  <1>2. ~AllJoined /\ state'.ended = state.ended BY <1>1 DEF AllJoined, Judged
  <1>3. ~state'.cancelled BY <1>2, Unhealthy
  <1>4. \A b \in Actors \ {a} : Resting(b) BY <1>1 DEF IInv, Quiet, At
  <1> QED BY <1>1, <1>3, <1>4 DEF At

\* Appending a row to the receipt.
LEMMA AppendRow ==
  ASSUME Typed, NEW e \in Event, log' = [log EXCEPT !.events = Append(@, e)]
  PROVE  /\ Len(log.events) \in Nat /\ Len(log'.events) = Len(log.events) + 1
         /\ \A i \in 1 .. Len(log.events) : log'.events[i] = log.events[i]
         /\ log'.events[Len(log.events) + 1] = e
         /\ log'.observations = log.observations
         /\ Results' = IF e.kind = "result" THEN Results \cup {Len(log.events) + 1} ELSE Results
  <1>1. log.events \in Seq(Event) BY LogFacts
  <1>2. log'.events = Append(log.events, e) /\ log'.observations = log.observations
    BY DEF Typed, LogOf
  <1>3. /\ Len(log.events) \in Nat /\ Len(log'.events) = Len(log.events) + 1
        /\ \A i \in 1 .. Len(log.events) : log'.events[i] = log.events[i]
        /\ log'.events[Len(log.events) + 1] = e
    BY <1>1, <1>2, AppendProperties, LenProperties
  <1>4. Results' = {i \in 1 .. Len(log'.events) : log'.events[i].kind = "result"}
    BY DEF Results
  <1>5. Results' = IF e.kind = "result" THEN Results \cup {Len(log.events) + 1} ELSE Results
    BY <1>3, <1>4 DEF Results
  <1> QED BY <1>2, <1>3, <1>5

-----------------------------------------------------------------------------
(* The rows, the observations and the programs of a healthy execution *)

\* A grant whose result is still to come.
Owed(a) == Stage(a) = "parked" /\ actor[a].grant

Pairs ==
  /\ Len(log.events) = IF \E a \in Actors : Owed(a) THEN 2 * state.decisions - 1
                       ELSE 2 * state.decisions
  /\ \A a \in Actors : Owed(a) => log.events[2 * state.decisions - 1].actor = a
  /\ \A i \in 1 .. state.decisions :
       /\ log.events[2 * i - 1].kind = "grant"
       /\ 2 * i <= Len(log.events) => /\ log.events[2 * i].kind = "result"
                                      /\ log.events[2 * i - 1].actor = log.events[2 * i].actor
Observed ==
  /\ Len(log.observations) = IF ctl.pc \in Late THEN state.decisions + 1 ELSE state.decisions
  /\ \A i \in 1 .. Len(log.observations) : log.observations[i] = i - 1

RowsOf(a) == {i \in Results : log.events[i].actor = a}
Counted(a) ==
  /\ actor[a].next \in 1 .. Len(program.code[a]) + 1
  /\ Stage(a) \in {"none", "spawned"} => Cardinality(RowsOf(a)) = 0 /\ actor[a].next = 1
  /\ Stage(a) = "parked" =>
       \/ /\ actor[a].pending = Internal("start") /\ actor[a].next = 1
          /\ Cardinality(RowsOf(a)) = 0
       \/ actor[a].pending = NextOp(a) /\ Cardinality(RowsOf(a)) = actor[a].next
  /\ Stage(a) \in {"running", "threw"} => Cardinality(RowsOf(a)) = actor[a].next
  /\ Stage(a) \in {"ending", "exiting", "exited", "joined"} =>
       /\ actor[a].next = Len(program.code[a]) + 1
       /\ Cardinality(RowsOf(a)) = actor[a].next + 1

Complete == Healthy => Pairs /\ Observed /\ \A a \in Actors : Counted(a)

\* Numbers of rows.
LEMMA RowsFacts ==
  ASSUME Typed, NEW a \in Actors
  PROVE  /\ IsFiniteSet(RowsOf(a)) /\ Cardinality(RowsOf(a)) \in Nat
         /\ RowsOf(a) \subseteq 1 .. Len(log.events) /\ Len(log.events) \in Nat
  <1>1. Len(log.events) \in Nat BY LogFacts, LenProperties
  <1>2. RowsOf(a) \subseteq 1 .. Len(log.events) BY DEF RowsOf, Results
  <1>3. IsFiniteSet(1 .. Len(log.events)) BY <1>1, FS_Interval
  <1>4. IsFiniteSet(RowsOf(a)) BY <1>2, <1>3, FS_Subset
  <1>5. Cardinality(RowsOf(a)) \in Nat BY <1>4, FS_CardinalityType
  <1> QED BY <1>1, <1>2, <1>4, <1>5

\* A calm step leaves the rows alone.
LEMMA PairsCalm ==
  ASSUME IInv, Calm, Pairs, Observed, \A a \in Actors : Counted(a)
  PROVE  Pairs' /\ Observed' /\ \A a \in Actors : Counted(a)'
  <1>1. /\ UNCHANGED <<program, log>> /\ state'.decisions = state.decisions
        /\ (ctl'.pc \in Late <=> ctl.pc \in Late) /\ \A a \in Actors : Moves(a)
    BY DEF Calm
  <1>2. \A a \in Actors : Owed(a)' <=> Owed(a)
    BY <1>1 DEF Moves, Owed, Stage
  <1>3. Pairs' BY <1>1, <1>2 DEF Pairs
  <1>4. Observed' BY <1>1 DEF Observed
  <1>5. ASSUME NEW a \in Actors PROVE Counted(a)'
    <2>1. RowsOf(a)' = RowsOf(a) BY <1>1 DEF RowsOf, Results
    <2>2. actor'[a].next = actor[a].next => NextOp(a)' = NextOp(a)
      BY <1>1 DEF NextOp
    <2>3. Moves(a) /\ Counted(a) BY <1>1
    <2>4. CASE actor'[a] = actor[a]
      BY <1>1, <2>1, <2>2, <2>3, <2>4 DEF Counted, Stage
    <2>5. CASE actor'[a] # actor[a]
      <3>1. actor'[a].next = actor[a].next BY <2>3, <2>5 DEF Moves
      <3> QED BY <1>1, <2>1, <2>2, <2>3, <2>5, <3>1 DEF Counted, Stage, Moves
    <2> QED BY <2>4, <2>5
  <1> QED BY <1>3, <1>4, <1>5

\* A grant opens a pair.
LEMMA PairsGrant ==
  ASSUME IInv, NEW a \in Actors, AdvanceGrants(a), Pairs, Observed, \A b \in Actors : Counted(b)
  PROVE  Pairs' /\ Observed' /\ \A b \in Actors : Counted(b)'
  <1> DEFINE e == Row("grant", a, actor[a].pending)
             d == state.decisions
  <1>1. /\ Typed /\ d \in Nat /\ ctl.pc = "idle" /\ ctl'.pc = "boundary"
        /\ state'.decisions = d + 1 /\ program' = program
        /\ log' = [log EXCEPT !.events = Append(@, e)] /\ e \in Event
        /\ actor'[a].stage = "parked" /\ actor'[a].grant /\ Stage(a) = "parked"
        /\ actor'[a].pending = actor[a].pending /\ actor'[a].next = actor[a].next
        /\ \A b \in Actors \ {a} : actor'[b] = actor[b]
        /\ \A b \in Actors : Resting(b)
    BY GrantHealthy, StateTyped, StateFacts DEF IInv
  <1>2. e.kind = "grant" /\ e.actor = a BY DEF Row
  <1> HIDE DEF e
  <1>3. /\ Len(log.events) \in Nat /\ Len(log'.events) = Len(log.events) + 1
        /\ \A i \in 1 .. Len(log.events) : log'.events[i] = log.events[i]
        /\ log'.events[Len(log.events) + 1] = e
        /\ log'.observations = log.observations /\ Results' = Results
    BY <1>1, <1>2, AppendRow
  <1>4. \A b \in Actors : ~Owed(b) BY <1>1 DEF Owed, Resting
  <1>5. Len(log.events) = 2 * d BY <1>4 DEF Pairs
  <1>6. \A b \in Actors : Owed(b)' <=> b = a
    BY <1>1, <1>4 DEF Owed, Stage
  <1>7. Pairs'
    <2>1. Len(log'.events) = 2 * (d + 1) - 1 BY <1>1, <1>3, <1>5
    <2>2. log'.events[2 * (d + 1) - 1] = e
      <3>1. 2 * (d + 1) - 1 = Len(log.events) + 1 BY <1>1, <1>5
      <3> QED BY <1>3, <3>1
    <2>3. ASSUME NEW i \in 1 .. (d + 1)
          PROVE  /\ log'.events[2 * i - 1].kind = "grant"
                 /\ 2 * i <= Len(log'.events) =>
                      /\ log'.events[2 * i].kind = "result"
                      /\ log'.events[2 * i - 1].actor = log'.events[2 * i].actor
      <3>1. CASE i = d + 1
        BY <1>1, <1>2, <2>1, <2>2, <3>1
      <3>2. CASE i # d + 1
        <4>1. /\ i \in 1 .. d /\ 2 * i - 1 \in 1 .. Len(log.events)
              /\ 2 * i \in 1 .. Len(log.events)
          BY <1>1, <1>5, <3>2
        <4>2. log'.events[2 * i - 1] = log.events[2 * i - 1] /\ log'.events[2 * i] = log.events[2 * i]
          BY <1>3, <4>1
        <4> QED BY <4>1, <4>2 DEF Pairs
      <3> QED BY <3>1, <3>2
    <2>4. \A b \in Actors : Owed(b)' => log'.events[2 * (d + 1) - 1].actor = b
      BY <1>2, <1>6, <2>2
    <2> QED BY <1>1, <1>6, <2>1, <2>3, <2>4 DEF Pairs
  <1>8. Observed'
    BY <1>1, <1>3, PointsFacts DEF Observed
  <1>9. ASSUME NEW b \in Actors PROVE Counted(b)'
    <2>1. RowsOf(b)' = RowsOf(b)
      BY <1>3 DEF RowsOf, Results
    <2>2. /\ actor'[b].next = actor[b].next /\ actor'[b].pending = actor[b].pending
          /\ actor'[b].stage = actor[b].stage /\ NextOp(b)' = NextOp(b)
      BY <1>1 DEF Stage, NextOp
    <2> QED BY <1>1, <2>1, <2>2 DEF Counted, Stage
  <1> QED BY <1>7, <1>8, <1>9

\* A result closes it, and counts for its actor.
LEMMA PairsResume ==
  ASSUME IInv, NEW a \in Actors, WorkerResumes(a), Healthy', Pairs, Observed,
         \A b \in Actors : Counted(b)
  PROVE  Pairs' /\ Observed' /\ \A b \in Actors : Counted(b)'
  <1> DEFINE o == actor[a].pending
             e == Row("result", a, Yield(o))
             d == state.decisions
             n == Len(log.events)
  <1>1. /\ Typed /\ state' = state /\ ctl' = ctl /\ program' = program /\ d \in Nat
        /\ log' = [log EXCEPT !.events = Append(@, e)] /\ e \in Event
        /\ \A b \in Actors \ {a} : Resting(b) /\ actor'[b] = actor[b]
        /\ Owed(a) /\ actor'[a].stage = (IF o.op = "$done" THEN "ending" ELSE "running")
        /\ actor'[a].next = (IF o.op \in {"start", "$done"} THEN actor[a].next ELSE actor[a].next + 1)
        /\ ctl.pc = "boundary"
    BY ResumeHealthy, ResumeFacts, StateTyped, StateFacts DEF IInv, Owed
  <1>2. e.kind = "result" /\ e.actor = a BY DEF Row
  <1> HIDE DEF e
  <1>3. /\ n \in Nat /\ Len(log'.events) = n + 1
        /\ \A i \in 1 .. n : log'.events[i] = log.events[i]
        /\ log'.events[n + 1] = e
        /\ log'.observations = log.observations /\ Results' = Results \cup {n + 1}
    BY <1>1, <1>2, AppendRow
  <1>4. n = 2 * d - 1 /\ log.events[2 * d - 1].actor = a /\ n + 1 = 2 * d
    <2>1. \E b \in Actors : Owed(b) BY <1>1
    <2>2. n = 2 * d - 1 BY <2>1 DEF Pairs
    <2>3. log.events[2 * d - 1].actor = a BY <1>1 DEF Pairs
    <2>4. n + 1 = 2 * d BY <1>1, <1>3, <2>2
    <2> QED BY <2>2, <2>3, <2>4
  <1>5. \A b \in Actors : ~Owed(b)'
    BY <1>1 DEF Owed, Resting, Stage
  <1>6. Pairs'
    <2>1. ASSUME NEW i \in 1 .. d
          PROVE  /\ log'.events[2 * i - 1].kind = "grant"
                 /\ 2 * i <= Len(log'.events) =>
                      /\ log'.events[2 * i].kind = "result"
                      /\ log'.events[2 * i - 1].actor = log'.events[2 * i].actor
      <3>1. 2 * i - 1 \in 1 .. n /\ log'.events[2 * i - 1] = log.events[2 * i - 1]
        BY <1>1, <1>3, <1>4
      <3>2. log.events[2 * i - 1].kind = "grant" BY DEF Pairs
      <3>3. CASE i = d
        BY <1>2, <1>3, <1>4, <3>1, <3>2, <3>3
      <3>4. CASE i # d
        <4>1. 2 * i \in 1 .. n /\ log'.events[2 * i] = log.events[2 * i]
          BY <1>1, <1>3, <1>4, <3>4
        <4>2. log.events[2 * i].kind = "result" /\ log.events[2 * i - 1].actor = log.events[2 * i].actor
          BY <4>1 DEF Pairs
        <4> QED BY <3>1, <3>2, <4>1, <4>2
      <3> QED BY <3>3, <3>4
    <2> QED BY <1>1, <1>3, <1>4, <1>5, <2>1 DEF Pairs
  <1>7. Observed' BY <1>1, <1>3 DEF Observed
  <1>8. ASSUME NEW b \in Actors \ {a} PROVE Counted(b)'
    <2>1. RowsOf(b)' = RowsOf(b)
      <3>1. \A i \in Results : i \in 1 .. n BY DEF Results
      <3>2. RowsOf(b)' = {i \in Results \cup {n + 1} : log'.events[i].actor = b}
        BY <1>3 DEF RowsOf
      <3> QED BY <1>2, <1>3, <3>1, <3>2 DEF RowsOf
    <2>2. NextOp(b)' = NextOp(b) BY <1>1 DEF NextOp
    <2> QED BY <1>1, <2>1, <2>2 DEF Counted, Stage
  <1>9. Counted(a)'
    <2>1. RowsOf(a)' = RowsOf(a) \cup {n + 1}
      <3>1. \A i \in Results : i \in 1 .. n BY DEF Results
      <3>2. RowsOf(a)' = {i \in Results \cup {n + 1} : log'.events[i].actor = a}
        BY <1>3 DEF RowsOf
      <3> QED BY <1>2, <1>3, <3>1, <3>2 DEF RowsOf
    <2>2. n + 1 \notin RowsOf(a) BY <1>1, <1>3, RowsFacts
    <2>3. Cardinality(RowsOf(a)') = Cardinality(RowsOf(a)) + 1 /\ Cardinality(RowsOf(a)) \in Nat
      BY <1>1, <2>1, <2>2, RowsFacts, FS_AddElement
    <2>4. /\ program.code[a] \in Seq(Requestable) /\ Len(program.code[a]) \in Nat
          /\ actor[a].next \in Nat /\ actor[a].next # 0
      BY <1>1, ProgramFacts, LenProperties DEF Typed, ActorState, IInv, Requests
    <2>5. CASE o = Internal("start") /\ actor[a].next = 1 /\ Cardinality(RowsOf(a)) = 0
      <3>1. o.op = "start" BY <2>5 DEF Internal
      <3>2. actor'[a].stage = "running" /\ actor'[a].next = 1 BY <1>1, <2>5, <3>1
      <3> QED BY <1>1, <2>3, <2>4, <2>5, <3>2 DEF Counted, Stage
    <2>6. CASE o = NextOp(a) /\ Cardinality(RowsOf(a)) = actor[a].next
      <3>1. /\ o.op = "$done" <=> actor[a].next > Len(program.code[a])
        BY <1>1, <2>4, <2>6, NextOpType
      <3>2. actor[a].next \in 1 .. Len(program.code[a]) + 1 BY DEF Counted
      <3>3. CASE o.op = "$done"
        <4>1. actor'[a].stage = "ending" /\ actor'[a].next = actor[a].next BY <1>1, <3>3
        <4> QED BY <1>1, <2>3, <2>4, <2>6, <3>1, <3>2, <3>3, <4>1 DEF Counted, Stage
      <3>4. CASE o.op # "$done"
        <4>1. o \in Requestable
          BY <2>4, <2>6, <3>1, <3>4 DEF NextOp
        <4>2. o.op # "start" BY <4>1 DEF Requestable
        <4>3. actor'[a].stage = "running" /\ actor'[a].next = actor[a].next + 1
          BY <1>1, <3>4, <4>2
        <4> QED BY <1>1, <2>3, <2>4, <2>6, <3>1, <3>2, <3>4, <4>3 DEF Counted, Stage
      <3> QED BY <3>3, <3>4
    <2> QED BY <1>1, <2>5, <2>6 DEF Counted, Owed
  <1> QED BY <1>6, <1>7, <1>8, <1>9

\* An observation follows every grant, and the start.
LEMMA PairsObserve ==
  ASSUME IInv, NEW r \in {"threw", "invalid", "value"}, ObserveEnd(r), Healthy', Pairs, Observed,
         \A b \in Actors : Counted(b)
  PROVE  Pairs' /\ Observed' /\ \A b \in Actors : Counted(b)'
  <1>1. /\ Typed /\ ctl.pc = "observing" /\ ctl'.pc = "idle" /\ UNCHANGED <<program, actor>>
        /\ state'.decisions = state.decisions /\ state.decisions \in 0 .. program.max_decisions
        /\ log' = [log EXCEPT !.observations = Append(@, state.decisions)]
    BY ObserveHealthy, StateTyped, StateFacts DEF IInv
  <1>2. log'.events = log.events /\ log'.observations = Append(log.observations, state.decisions)
    BY <1>1 DEF Typed, LogOf
  <1>3. /\ Len(log.observations) \in Nat /\ Len(log'.observations) = Len(log.observations) + 1
        /\ \A i \in 1 .. Len(log.observations) : log'.observations[i] = log.observations[i]
        /\ log'.observations[Len(log.observations) + 1] = state.decisions
    <2>1. log.observations \in Seq(0 .. program.max_decisions) BY <1>1, LogFacts
    <2> QED BY <1>1, <1>2, <2>1, AppendProperties, LenProperties
  <1>4. Pairs' BY <1>1, <1>2 DEF Pairs, Owed, Stage
  <1>5. Observed'
    <2>1. Len(log.observations) = state.decisions BY <1>1, PointsFacts DEF Observed
    <2> QED BY <1>1, <1>3, <2>1, PointsFacts DEF Observed
  <1>6. \A b \in Actors : Counted(b)'
    <2>1. \A b \in Actors : RowsOf(b)' = RowsOf(b) /\ NextOp(b)' = NextOp(b)
      BY <1>1, <1>2 DEF RowsOf, Results, NextOp
    <2> QED BY <1>1, <2>1 DEF Counted, Stage
  <1> QED BY <1>4, <1>5, <1>6

\* At the start nothing has been recorded.
LEMMA CompleteInit == Init => Complete
  <1> SUFFICES ASSUME Init PROVE Complete OBVIOUS
  <1>1. Typed BY InitIInv DEF IInv
  <1>2. /\ log.events = <<>> /\ log.observations = <<>> /\ state.decisions = 0 /\ ctl.pc = "start"
        /\ \A a \in Actors : Stage(a) = "none" /\ actor[a].next = 1
    BY DEF Init, Stage
  <1>3. Pairs BY <1>2 DEF Pairs, Owed
  <1>4. Observed BY <1>2, PointsFacts DEF Observed
  <1>5. ASSUME NEW a \in Actors PROVE Counted(a)
    <2>1. RowsOf(a) = {} BY <1>2 DEF RowsOf, Results
    <2>2. Cardinality(RowsOf(a)) = 0 BY <2>1, FS_EmptySet
    <2>3. Len(program.code[a]) \in Nat BY <1>1, ProgramFacts, LenProperties DEF Typed
    <2> QED BY <1>2, <2>2, <2>3 DEF Counted
  <1> QED BY <1>3, <1>4, <1>5 DEF Complete

\* Every step preserves it.
LEMMA CompleteStep == IInv /\ Complete /\ [Next]_vars => Complete'
  <1> SUFFICES ASSUME IInv, Complete, [Next]_vars, Healthy'
               PROVE  Pairs' /\ Observed' /\ \A a \in Actors : Counted(a)'
    BY DEF Complete
  <1>1. Pairs /\ Observed /\ \A a \in Actors : Counted(a)
    BY Profile DEF Complete
  <1> QED BY <1>1, Profile, PairsCalm, PairsGrant, PairsResume, PairsObserve

\* The receipt of a passed execution is complete.
LEMMA CompletePassed == IInv /\ Complete => PassedIsComplete
  <1> SUFFICES ASSUME IInv, Complete, passed PROVE PassedIsComplete
    BY DEF PassedIsComplete
  <1>1. /\ Typed /\ state.ended /\ state.outcome = "completed" /\ state.cleanup = "confirmed"
        /\ ~state.cleanup_exceeded /\ state.finished
    BY PassedEnded DEF EndedIfPassed, passed, IInv
  <1>2. Pairs /\ Observed /\ \A a \in Actors : Counted(a) BY <1>1 DEF Complete, Healthy
  <1>3. AllJoined /\ ctl.pc \in Late BY <1>1 DEF IInv, Verdicts
  <1>4. /\ ctl.teardown_attempted /\ ctl.acquired /\ ~At("teardown") /\ ctl.pc \notin Cleaning
    BY <1>1 DEF IInv, Cleaned, At, Cleaning
  <1>5. state.decisions \in Nat /\ \A a \in Actors : Stage(a) = "joined" /\ ~Owed(a)
    BY <1>1, <1>3, StateTyped, StateFacts DEF AllJoined, Owed
  <1>6. Len(log.events) = 2 * state.decisions BY <1>2, <1>5 DEF Pairs
  <1>7. \A i \in 1 .. state.decisions :
          /\ log.events[2 * i - 1].kind = "grant" /\ log.events[2 * i].kind = "result"
          /\ log.events[2 * i - 1].actor = log.events[2 * i].actor
    <2> TAKE i \in 1 .. state.decisions
    <2>1. 2 * i <= Len(log.events) BY <1>5, <1>6
    <2> QED BY <1>2, <2>1 DEF Pairs
  <1>8. log.observations = [i \in 1 .. state.decisions + 1 |-> i - 1]
    <2>1. Len(log.observations) = state.decisions + 1 BY <1>2, <1>3 DEF Observed
    <2>2. log.observations \in Seq(0 .. program.max_decisions) BY <1>1, LogFacts
    <2>3. \A i \in 1 .. state.decisions + 1 : log.observations[i] = i - 1
      BY <1>2, <2>1 DEF Observed
    <2>4. log.observations = [i \in 1 .. Len(log.observations) |-> log.observations[i]]
      BY <2>2
    <2> QED BY <2>1, <2>3, <2>4
  <1>9. ASSUME NEW a \in Actors
        PROVE  /\ Stage(a) = "joined"
               /\ Cardinality({i \in Results : log.events[i].actor = a}) = Len(program.code[a]) + 2
    <2>1. Stage(a) = "joined" BY <1>5
    <2>2. /\ actor[a].next = Len(program.code[a]) + 1
          /\ Cardinality(RowsOf(a)) = actor[a].next + 1
      BY <1>2, <2>1 DEF Counted
    <2>3. Len(program.code[a]) \in Nat BY <1>1, ProgramFacts, LenProperties DEF Typed
    <2>4. Cardinality(RowsOf(a)) = Len(program.code[a]) + 2 BY <2>2, <2>3
    <2> QED BY <2>1, <2>4 DEF RowsOf
  <1>10. ASSUME NEW m \in Mutexes PROVE resource.owner[m] = Nobody
    <2>1. resource.owner[m] \in Actors \cup {Nobody} BY <1>1 DEF Typed, Resources
    <2>2. \A a \in Actors : resource.owner[m] # a BY <1>5 DEF IInv, Owners
    <2> QED BY <2>1, <2>2
  <1>11. history.teardowns = 1 /\ ~history.overran
    BY <1>1, <1>4, PointsFacts DEF IInv, Cleaned, At
  <1> QED BY <1>6, <1>7, <1>8, <1>9, <1>10, <1>11 DEF PassedIsComplete

\* A passed execution ran every program to its end, one granted operation after the
\* other, each observed, and released and tore down everything in time
\* (Execution::advance, Execution::cleanup, Report::passed).
THEOREM PassedIsWhole == Spec => []PassedIsComplete
  <1>1. Spec => []Complete
    BY CompleteInit, CompleteStep, SyncInduction, PTL DEF Spec
  <1> QED BY <1>1, CompletePassed, SyncInduction, PTL

-----------------------------------------------------------------------------
(* The receipt explains the resources *)

\* Ranks in a set of positions, and in the set with the next position.
LEMMA RankFacts ==
  ASSUME NEW n \in Nat, NEW S \in SUBSET (1 .. n)
  PROVE  /\ Cardinality(S) \in Nat /\ n + 1 \notin S
         /\ Cardinality(S \cup {n + 1}) = Cardinality(S) + 1
         /\ Rank(S \cup {n + 1}, n + 1) = Cardinality(S) + 1
         /\ \A i \in S : /\ Rank(S, i) \in Nat /\ Rank(S, i) <= Cardinality(S)
                         /\ Rank(S \cup {n + 1}, i) = Rank(S, i)
  <1>1. IsFiniteSet(S)
    <2>1. IsFiniteSet(1 .. n) BY FS_Interval
    <2> QED BY <2>1, FS_Subset
  <1>2. n + 1 \notin S OBVIOUS
  <1>3. Cardinality(S) \in Nat /\ Cardinality(S \cup {n + 1}) = Cardinality(S) + 1
    BY <1>1, <1>2, FS_AddElement, FS_CardinalityType
  <1>4. {j \in S \cup {n + 1} : j <= n + 1} = S \cup {n + 1}
    <2>1. \A j \in S \cup {n + 1} : j <= n + 1 OBVIOUS
    <2> QED BY <2>1
  <1>5. Rank(S \cup {n + 1}, n + 1) = Cardinality(S) + 1 BY <1>3, <1>4 DEF Rank
  <1>6. ASSUME NEW i \in S
        PROVE  /\ Rank(S, i) \in Nat /\ Rank(S, i) <= Cardinality(S)
               /\ Rank(S \cup {n + 1}, i) = Rank(S, i)
    <2>1. {j \in S : j <= i} \in SUBSET S OBVIOUS
    <2>2. Rank(S, i) \in Nat /\ Rank(S, i) <= Cardinality(S)
      <3> DEFINE T == {j \in S : j <= i}
      <3>1. T \in SUBSET S BY <2>1
      <3> HIDE DEF T
      <3>2. IsFiniteSet(T) /\ Cardinality(T) <= Cardinality(S) BY <1>1, <3>1, FS_Subset
      <3>3. Cardinality(T) \in Nat BY <3>2, FS_CardinalityType
      <3> QED BY <3>2, <3>3 DEF Rank, T
    <2>3. {j \in S \cup {n + 1} : j <= i} = {j \in S : j <= i}
      <3>1. ~(n + 1 <= i) OBVIOUS
      <3> QED BY <3>1
    <2> QED BY <2>2, <2>3 DEF Rank
  <1> QED BY <1>2, <1>3, <1>5, <1>6

\* What the rows ev at the positions sent and got say of a queue.
Carried(sent, got, ev, queue) ==
  /\ Len(queue) = Cardinality(sent) - Cardinality(got)
  /\ \A i \in sent :
       IF Rank(sent, i) - Cardinality(got) > 0
       THEN queue[Rank(sent, i) - Cardinality(got)] = ev[i].pending.value
       ELSE \A j \in got : Rank(got, j) = Rank(sent, i) => ev[j].pending.value = ev[i].pending.value

\* A value is sent.
LEMMA CarriedSend ==
  ASSUME NEW n \in Nat, NEW sent \in SUBSET (1 .. n), NEW got \in SUBSET (1 .. n), NEW V,
         NEW queue \in Seq(V), NEW x \in V, NEW ev, NEW fv, \A i \in 1 .. n : fv[i] = ev[i],
         fv[n + 1].pending.value = x, Carried(sent, got, ev, queue)
  PROVE  Carried(sent \cup {n + 1}, got, fv, Append(queue, x))
  <1> DEFINE s2 == sent \cup {n + 1}
             q2 == Append(queue, x)
             C == Cardinality(sent)
             G == Cardinality(got)
  <1>1. /\ C \in Nat /\ Cardinality(s2) = C + 1 /\ Rank(s2, n + 1) = C + 1 /\ n + 1 \notin sent
        /\ \A i \in sent : Rank(sent, i) \in Nat /\ Rank(sent, i) <= C /\ Rank(s2, i) = Rank(sent, i)
    BY RankFacts
  <1>2. G \in Nat BY RankFacts
  <1>3. /\ Len(q2) = Len(queue) + 1 /\ Len(queue) \in Nat /\ q2[Len(queue) + 1] = x
        /\ \A i \in 1 .. Len(queue) : q2[i] = queue[i]
    BY AppendProperties, LenProperties
  <1>4. Len(queue) = C - G BY DEF Carried
  <1> HIDE DEF s2, q2, C, G
  <1>5. Len(q2) = Cardinality(s2) - G BY <1>1, <1>2, <1>3, <1>4
  <1>6. ASSUME NEW i \in s2
        PROVE  IF Rank(s2, i) - G > 0 THEN q2[Rank(s2, i) - G] = fv[i].pending.value
               ELSE \A j \in got : Rank(got, j) = Rank(s2, i) => fv[j].pending.value = fv[i].pending.value
    <2>1. CASE i = n + 1
      <3>1. Rank(s2, i) - G = Len(queue) + 1 BY <1>1, <1>2, <1>4, <2>1
      <3> QED BY <1>3, <2>1, <3>1
    <2>2. CASE i # n + 1
      <3>1. i \in sent BY <2>2 DEF s2
      <3>2. /\ Rank(sent, i) \in Nat /\ Rank(sent, i) <= C /\ Rank(s2, i) = Rank(sent, i)
            /\ fv[i] = ev[i] /\ \A j \in got : fv[j] = ev[j]
        BY <1>1, <3>1
      <3>3. IF Rank(sent, i) - G > 0 THEN queue[Rank(sent, i) - G] = ev[i].pending.value
            ELSE \A j \in got : Rank(got, j) = Rank(sent, i) => ev[j].pending.value = ev[i].pending.value
        BY <3>1 DEF Carried, G
      <3>4. CASE Rank(sent, i) - G > 0
        <4>1. Rank(sent, i) - G \in 1 .. Len(queue) BY <1>1, <1>2, <1>4, <3>2, <3>4
        <4>2. q2[Rank(sent, i) - G] = queue[Rank(sent, i) - G] BY <1>3, <4>1
        <4> QED BY <3>2, <3>3, <3>4, <4>2
      <3>5. CASE ~(Rank(sent, i) - G > 0)
        BY <3>2, <3>3, <3>5
      <3> QED BY <3>4, <3>5
    <2> QED BY <2>1, <2>2
  <1> QED BY <1>5, <1>6 DEF Carried, s2, q2, G

\* The oldest value is received.
LEMMA CarriedReceive ==
  ASSUME NEW n \in Nat, NEW sent \in SUBSET (1 .. n), NEW got \in SUBSET (1 .. n), NEW V,
         NEW queue \in Seq(V), queue # <<>>, NEW ev, NEW fv, \A i \in 1 .. n : fv[i] = ev[i],
         fv[n + 1].pending.value = Head(queue), Carried(sent, got, ev, queue)
  PROVE  Carried(sent, got \cup {n + 1}, fv, Tail(queue))
  <1> DEFINE g2 == got \cup {n + 1}
             q2 == Tail(queue)
             G == Cardinality(got)
             C == Cardinality(sent)
  <1>1. /\ G \in Nat /\ Cardinality(g2) = G + 1 /\ Rank(g2, n + 1) = G + 1 /\ n + 1 \notin got
        /\ \A j \in got : Rank(got, j) \in Nat /\ Rank(got, j) <= G /\ Rank(g2, j) = Rank(got, j)
    BY RankFacts
  <1>2. C \in Nat /\ \A i \in sent : Rank(sent, i) \in Nat /\ Rank(sent, i) <= C
    BY RankFacts
  <1>3. /\ Len(q2) = Len(queue) - 1 /\ Len(queue) \in Nat /\ Head(queue) = queue[1]
        /\ \A i \in 1 .. Len(q2) : q2[i] = queue[i + 1]
    BY HeadTailProperties, LenProperties
  <1>4. Len(queue) = C - G BY DEF Carried
  <1>5. \A i \in sent : fv[i] = ev[i] OBVIOUS
  <1> HIDE DEF g2, q2, C, G
  <1>6. Len(q2) = C - Cardinality(g2) BY <1>1, <1>2, <1>3, <1>4
  <1>7. ASSUME NEW i \in sent
        PROVE  IF Rank(sent, i) - (G + 1) > 0
               THEN q2[Rank(sent, i) - (G + 1)] = fv[i].pending.value
               ELSE \A j \in g2 : Rank(g2, j) = Rank(sent, i) => fv[j].pending.value = fv[i].pending.value
    <2> DEFINE R == Rank(sent, i)
    <2>1. R \in Nat /\ R <= C BY <1>2
    <2>2. IF R - G > 0 THEN queue[R - G] = ev[i].pending.value
          ELSE \A j \in got : Rank(got, j) = R => ev[j].pending.value = ev[i].pending.value
      BY DEF Carried, G
    <2> HIDE DEF R
    <2>3. CASE R - (G + 1) > 0
      <3>1. R - (G + 1) \in 1 .. Len(q2) /\ (R - (G + 1)) + 1 = R - G /\ R - G > 0
        BY <1>1, <1>2, <1>3, <1>4, <2>1, <2>3
      <3>2. q2[R - (G + 1)] = queue[R - G] BY <1>3, <3>1
      <3>3. q2[R - (G + 1)] = fv[i].pending.value BY <1>5, <2>2, <3>1, <3>2
      <3> QED BY <2>3, <3>3 DEF R
    <2>4. CASE R - G = 1
      <3>1. ~(R - (G + 1) > 0) /\ R = G + 1 BY <1>1, <2>1, <2>4
      <3>2. queue[1] = ev[i].pending.value BY <2>2, <2>4
      <3>3. ASSUME NEW j \in g2, Rank(g2, j) = R PROVE j = n + 1
        <4> SUFFICES ASSUME j \in got PROVE FALSE BY DEF g2
        <4>1. Rank(got, j) \in Nat /\ Rank(got, j) <= G /\ Rank(g2, j) = Rank(got, j) BY <1>1
        <4> QED BY <1>1, <3>1, <3>3, <4>1
      <3>4. \A j \in g2 : Rank(g2, j) = R => fv[j].pending.value = fv[i].pending.value
        BY <1>3, <1>5, <3>2, <3>3
      <3> QED BY <3>1, <3>4 DEF R
    <2>5. CASE ~(R - G > 0)
      <3>1. ~(R - (G + 1) > 0) /\ R # G + 1 BY <1>1, <2>1, <2>5
      <3>2. ASSUME NEW j \in g2, Rank(g2, j) = R PROVE fv[j].pending.value = fv[i].pending.value
        <4>1. j # n + 1 BY <1>1, <3>1, <3>2
        <4>2. j \in got BY <4>1 DEF g2
        <4>3. Rank(got, j) = R /\ fv[j] = ev[j] BY <1>1, <3>2, <4>2
        <4> QED BY <1>5, <2>2, <2>5, <4>2, <4>3
      <3> QED BY <3>1, <3>2 DEF R
    <2> QED BY <1>1, <2>1, <2>3, <2>4, <2>5
  <1> QED BY <1>1, <1>6, <1>7 DEF Carried, g2, q2, C

\* Nothing failed or is failing, and what the receipt then says of the resources.
Alive == ~state.cancelled /\ \A a \in Actors : Stage(a) # "threw"
OwnersShown == \A m \in Mutexes, a \in Actors : resource.owner[m] = a <=> Holds(a, m)
QueuesShown == \A q \in Queues : Carried(On({"send"}, q), On({"receive"}, q), log.events,
                                         resource.queue[q])
Explained == Alive => OwnersShown /\ QueuesShown

\* Positions of rows.
LEMMA OnFacts ==
  ASSUME Typed, NEW ops, NEW r
  PROVE  On(ops, r) \in SUBSET (1 .. Len(log.events)) /\ Len(log.events) \in Nat
  BY LogFacts, LenProperties DEF On, Results

\* Rows that are no results say nothing of the resources.
LEMMA ShownSame ==
  ASSUME Results' = Results, \A i \in Results : log'.events[i] = log.events[i],
         resource' = resource, OwnersShown, QueuesShown
  PROVE  OwnersShown' /\ QueuesShown'
  <1>1. \A ops, r : On(ops, r)' = On(ops, r) /\ \A i \in On(ops, r) : log'.events[i] = log.events[i]
    BY DEF On
  <1>2. \A m, a : Holds(a, m)' <=> Holds(a, m)
    BY <1>1 DEF Holds
  <1>3. OwnersShown' BY <1>2 DEF OwnersShown
  <1>4. ASSUME NEW q \in Queues
        PROVE  Carried(On({"send"}, q), On({"receive"}, q), log.events, resource.queue[q])'
    <2> DEFINE sent == On({"send"}, q)
               got == On({"receive"}, q)
    <2>1. Carried(sent, got, log.events, resource.queue[q]) BY DEF QueuesShown
    <2>2. /\ \A i \in sent : log'.events[i] = log.events[i]
          /\ \A i \in got : log'.events[i] = log.events[i]
      BY <1>1
    <2>3. Carried(sent, got, log'.events, resource.queue[q])
      <3> HIDE DEF sent, got
      <3> QED BY <2>1, <2>2 DEF Carried
    <2>4. sent' = sent /\ got' = got /\ resource'.queue[q] = resource.queue[q] BY <1>1
    <2> QED BY <2>3, <2>4
  <1> QED BY <1>3, <1>4 DEF QueuesShown

\* Cancellation is for good.
LEMMA CancelledStays == ASSUME IInv, [Next]_vars, ~state'.cancelled PROVE ~state.cancelled
  <1>1. Healthy' BY DEF Healthy
  <1>2. CASE Mild(state, state') BY <1>2 DEF Mild
  <1>3. CASE QueryEnabled
    <2> DEFINE s == CheckDeadline(state)
    <2>1. (state.cancelled => s.cancelled) /\ s \in StateOf(program.max_decisions) /\ Typed
      BY StateTyped, DeadlineFacts DEF Judged, IInv
    <2>2. state' \in {s, Fail(s, "controlled_deadlock")} BY <1>3 DEF QueryEnabled
    <2> HIDE DEF s
    <2> QED BY <2>1, <2>2, FailNow, OutcomeFacts
  <1>4. CASE \E a \in Actors : AdvanceGrants(a) BY <1>4, GrantHealthy
  <1>5. CASE \E r \in {"threw", "invalid", "value"} : ObserveEnd(r) BY <1>1, <1>5, ObserveHealthy
  <1> QED BY <1>2, <1>3, <1>4, <1>5, StepKinds

\* What an operation does to each mutex and each queue.
LEMMA ApplyEach ==
  ASSUME Typed, NEW a \in Actors, NEW o \in Op, WellFormed(o)
  PROVE  /\ \A m \in Mutexes :
              Apply(a, o).owner[m] = IF o.op = "lock" /\ o.res = m THEN a
                                     ELSE IF o.op = "unlock" /\ o.res = m THEN Nobody
                                     ELSE resource.owner[m]
         /\ \A q \in Queues :
              Apply(a, o).queue[q] = IF o.op = "send" /\ o.res = q THEN Append(resource.queue[q], o.value)
                                     ELSE IF o.op = "receive" /\ o.res = q THEN Tail(resource.queue[q])
                                     ELSE resource.queue[q]
  <1>1. /\ resource \in Resources /\ resource.owner \in [Mutexes -> Actors \cup {Nobody}]
        /\ resource.queue \in [Queues -> Seq(Values \cup {0})]
    BY ResourceFacts DEF Typed
  <1>2. CASE o.op = "lock"
    <2>1. Apply(a, o) = [resource EXCEPT !.owner[o.res] = a] BY <1>2 DEF Apply, Applied
    <2> QED BY <1>1, <1>2, <2>1 DEF Resources
  <1>3. CASE o.op = "unlock"
    <2>1. Apply(a, o) = [resource EXCEPT !.owner[o.res] = Nobody] BY <1>3 DEF Apply, Applied
    <2> QED BY <1>1, <1>3, <2>1 DEF Resources
  <1>4. CASE o.op = "send"
    <2> DEFINE t == Append(resource.queue[o.res], o.value)
    <2>1. Apply(a, o) = [resource EXCEPT !.queue[o.res] = t] /\ o.res \in Queues
      BY <1>4 DEF Apply, Applied, WellFormed
    <2>2. /\ Apply(a, o).owner = resource.owner
          /\ \A q \in Queues : Apply(a, o).queue[q] = IF q = o.res THEN t ELSE resource.queue[q]
      <3> HIDE DEF t
      <3> QED BY <1>1, <2>1 DEF Resources
    <2> QED BY <1>4, <2>2
  <1>5. CASE o.op = "receive"
    <2> DEFINE t == Tail(resource.queue[o.res])
    <2>1. Apply(a, o) = [resource EXCEPT !.queue[o.res] = t] /\ o.res \in Queues
      BY <1>5 DEF Apply, Applied, WellFormed
    <2>2. /\ Apply(a, o).owner = resource.owner
          /\ \A q \in Queues : Apply(a, o).queue[q] = IF q = o.res THEN t ELSE resource.queue[q]
      <3> HIDE DEF t
      <3> QED BY <1>1, <2>1 DEF Resources
    <2> QED BY <1>5, <2>2
  <1>6. CASE o.op \notin {"lock", "unlock", "send", "receive"}
    <2>1. Apply(a, o) = resource BY <1>6 DEF Apply, Applied
    <2> QED BY <1>6, <2>1
  <1> QED BY <1>2, <1>3, <1>4, <1>5, <1>6

\* A result row is explained as it is written.
LEMMA ShownResume ==
  ASSUME IInv, NEW a \in Actors, WorkerResumes(a), Healthy', OwnersShown, QueuesShown
  PROVE  OwnersShown' /\ QueuesShown'
  <1> DEFINE o == actor[a].pending
             x == Yield(o)
             e == Row("result", a, x)
             n == Len(log.events)
  <1>1. /\ Typed /\ o \in Op /\ WellFormed(o) /\ OpPossible(a, o, resource)
        /\ resource' = Apply(a, o) /\ e \in Event
        /\ log' = [log EXCEPT !.events = Append(@, e)]
    BY ResumeHealthy, ResumeFacts
  <1>2. e.kind = "result" /\ e.actor = a /\ e.pending = x BY DEF Row
  <1>3. x.op = o.op /\ x.res = o.res BY <1>1, ApplyFacts
  <1>4. x.value = IF o.op = "receive" THEN Head(resource.queue[o.res]) ELSE o.value
    BY <1>1 DEF Yield, Op
  <1> HIDE DEF o, x, e
  <1>5. /\ n \in Nat /\ \A i \in 1 .. n : log'.events[i] = log.events[i]
        /\ log'.events[n + 1] = e /\ Results' = Results \cup {n + 1}
    BY <1>1, <1>2, AppendRow
  <1>6. \A ops, r : On(ops, r) \in SUBSET (1 .. n) BY <1>1, OnFacts
  <1>7. ASSUME NEW ops, NEW r
        PROVE  On(ops, r)' = IF o.op \in ops /\ o.res = r THEN On(ops, r) \cup {n + 1} ELSE On(ops, r)
    <2>1. On(ops, r)' = {i \in Results \cup {n + 1} : /\ log'.events[i].pending.op \in ops
                                                      /\ log'.events[i].pending.res = r}
      BY <1>5 DEF On
    <2>2. \A i \in Results : log'.events[i] = log.events[i] BY <1>5 DEF Results
    <2>3. log'.events[n + 1].pending.op = o.op /\ log'.events[n + 1].pending.res = o.res
      BY <1>2, <1>3, <1>5
    <2> QED BY <2>1, <2>2, <2>3 DEF On
  <1>8. OwnersShown'
    <2> SUFFICES ASSUME NEW m \in Mutexes, NEW b \in Actors
                 PROVE  resource'.owner[m] = b <=> Holds(b, m)'
      BY DEF OwnersShown
    <2> DEFINE locks == On({"lock"}, m)
               turns == On({"lock", "unlock"}, m)
    <2>1. Holds(b, m)' <=> \E i \in locks' : log'.events[i].actor = b /\ \A j \in turns' : j <= i
      BY DEF Holds
    <2>2. /\ locks \in SUBSET (1 .. n) /\ turns \in SUBSET (1 .. n)
          /\ locks' = (IF o.op \in {"lock"} /\ o.res = m THEN locks \cup {n + 1} ELSE locks)
          /\ turns' = (IF o.op \in {"lock", "unlock"} /\ o.res = m THEN turns \cup {n + 1} ELSE turns)
      BY <1>6, <1>7
    <2>3. resource'.owner[m] = IF o.op = "lock" /\ o.res = m THEN a
                               ELSE IF o.op = "unlock" /\ o.res = m THEN Nobody
                               ELSE resource.owner[m]
      BY <1>1, ApplyEach
    <2>4. resource.owner[m] = b <=> \E i \in locks : log.events[i].actor = b /\ \A j \in turns : j <= i
      BY DEF OwnersShown, Holds
    <2> HIDE DEF locks, turns
    <2>5. CASE o.op = "lock" /\ o.res = m
      <3>1. n + 1 \in locks' /\ n + 1 \in turns' /\ locks' = locks \cup {n + 1}
            /\ turns' = turns \cup {n + 1}
        BY <2>2, <2>5
      <3>2. \A j \in turns' : j <= n + 1 BY <1>5, <2>2, <3>1
      <3>3. \A i \in locks' : n + 1 <= i => i = n + 1 BY <1>5, <2>2, <3>1
      <3>4. log'.events[n + 1].actor = a BY <1>2, <1>5
      <3>5. Holds(b, m)' <=> b = a BY <2>1, <3>1, <3>2, <3>3, <3>4
      <3> QED BY <2>3, <2>5, <3>5
    <2>6. CASE o.op = "unlock" /\ o.res = m
      <3>1. n + 1 \in turns' /\ locks' = locks BY <2>2, <2>6
      <3>2. \A i \in locks' : ~(n + 1 <= i) BY <1>5, <2>2, <3>1
      <3>3. ~Holds(b, m)' BY <2>1, <3>1, <3>2
      <3>4. resource'.owner[m] = Nobody BY <2>3, <2>6
      <3> QED BY <3>3, <3>4, ActorsFacts
    <2>7. CASE ~(o.op \in {"lock", "unlock"} /\ o.res = m)
      <3>1. locks' = locks /\ turns' = turns /\ resource'.owner[m] = resource.owner[m]
        BY <2>2, <2>3, <2>7
      <3>2. \A i \in locks : log'.events[i] = log.events[i] BY <1>5, <2>2
      <3> QED BY <2>1, <2>4, <3>1, <3>2
    <2> QED BY <2>5, <2>6, <2>7
  <1>9. QueuesShown'
    <2> SUFFICES ASSUME NEW q \in Queues
                 PROVE  Carried(On({"send"}, q)', On({"receive"}, q)', log'.events, resource'.queue[q])
      BY DEF QueuesShown
    <2> DEFINE sent == On({"send"}, q)
               got == On({"receive"}, q)
               V == Values \cup {0}
    <2>1. /\ sent \in SUBSET (1 .. n) /\ got \in SUBSET (1 .. n)
          /\ sent' = (IF o.op \in {"send"} /\ o.res = q THEN sent \cup {n + 1} ELSE sent)
          /\ got' = (IF o.op \in {"receive"} /\ o.res = q THEN got \cup {n + 1} ELSE got)
      BY <1>6, <1>7
    <2>2. resource'.queue[q] = IF o.op = "send" /\ o.res = q THEN Append(resource.queue[q], o.value)
                               ELSE IF o.op = "receive" /\ o.res = q THEN Tail(resource.queue[q])
                               ELSE resource.queue[q]
      BY <1>1, ApplyEach
    <2>3. Carried(sent, got, log.events, resource.queue[q]) BY DEF QueuesShown
    <2>4. resource.queue[q] \in Seq(V) /\ o.value \in V
      BY <1>1, ResourceFacts DEF Typed, Op
    <2>5. log'.events[n + 1].pending.value = x.value BY <1>2, <1>5
    <2> HIDE DEF sent, got, V
    <2>6. CASE o.op = "send" /\ o.res = q
      <3>1. /\ sent' = sent \cup {n + 1} /\ got' = got
            /\ resource'.queue[q] = Append(resource.queue[q], o.value)
            /\ log'.events[n + 1].pending.value = o.value
        BY <1>4, <2>1, <2>2, <2>5, <2>6
      <3>2. Carried(sent \cup {n + 1}, got, log'.events, Append(resource.queue[q], o.value))
        BY <1>5, <2>1, <2>3, <2>4, <3>1, CarriedSend
      <3> QED BY <3>1, <3>2 DEF sent, got
    <2>7. CASE o.op = "receive" /\ o.res = q
      <3>1. /\ sent' = sent /\ got' = got \cup {n + 1}
            /\ resource'.queue[q] = Tail(resource.queue[q])
            /\ log'.events[n + 1].pending.value = Head(resource.queue[q])
            /\ resource.queue[q] # <<>>
        BY <1>1, <1>4, <2>1, <2>2, <2>5, <2>7 DEF OpPossible
      <3>2. Carried(sent, got \cup {n + 1}, log'.events, Tail(resource.queue[q]))
        BY <1>5, <2>1, <2>3, <2>4, <3>1, CarriedReceive
      <3> QED BY <3>1, <3>2 DEF sent, got
    <2>8. CASE ~(o.op \in {"send", "receive"} /\ o.res = q)
      <3>1. sent' = sent /\ got' = got /\ resource'.queue[q] = resource.queue[q]
        BY <2>1, <2>2, <2>8
      <3>2. /\ \A i \in sent : log'.events[i] = log.events[i]
            /\ \A i \in got : log'.events[i] = log.events[i]
        BY <1>5, <2>1
      <3>3. Carried(sent, got, log'.events, resource.queue[q])
        BY <2>3, <3>2 DEF Carried
      <3> QED BY <3>1, <3>3 DEF sent, got
    <2> QED BY <2>6, <2>7, <2>8
  <1> QED BY <1>8, <1>9

\* At the start there are no rows, and nothing is owned or queued.
LEMMA ExplainedInit == Init => Explained
  <1> SUFFICES ASSUME Init PROVE OwnersShown /\ QueuesShown BY DEF Explained
  <1>1. log.events = <<>> /\ resource = NoResources BY DEF Init
  <1>2. Results = {} BY <1>1 DEF Results
  <1>3. \A ops, r : On(ops, r) = {} BY <1>2 DEF On
  <1>4. OwnersShown
    BY <1>1, <1>3, ActorsFacts DEF OwnersShown, Holds, NoResources
  <1>5. ASSUME NEW q \in Queues
        PROVE  Carried(On({"send"}, q), On({"receive"}, q), log.events, resource.queue[q])
    <2>1. resource.queue[q] = <<>> BY <1>1 DEF NoResources
    <2>2. Cardinality({}) = 0 /\ Len(<<>>) = 0 BY FS_EmptySet
    <2>3. Carried({}, {}, log.events, <<>>) BY <2>2 DEF Carried
    <2> QED BY <1>3, <2>1, <2>3
  <1> QED BY <1>4, <1>5 DEF QueuesShown

\* Every step preserves it, when no application lets an exception pass a guard and goes on.
LEMMA ExplainedStep ==
  ASSUME Unwinders = {}
  PROVE  IInv /\ Explained /\ [Next]_vars => Explained'
  <1> SUFFICES ASSUME IInv, Explained, [Next]_vars, Alive' PROVE OwnersShown' /\ QueuesShown'
    BY DEF Explained
  <1>1. ~state'.cancelled /\ Healthy' BY DEF Alive, Healthy
  <1>2. ~state.cancelled BY <1>1, CancelledStays
  <1>3. Typed BY DEF IInv
  <1>4. CASE Calm
    <2>1. \A a \in Actors : Stage(a) # "threw"
      BY <1>4 DEF Alive, Calm, Moves, Stage
    <2>2. resource' = resource /\ log' = log
      BY <1>2, <1>4, <2>1 DEF Calm, UnwindRelease
    <2>3. Results' = Results BY <2>2 DEF Results
    <2>4. OwnersShown /\ QueuesShown BY <1>2, <2>1 DEF Explained, Alive
    <2> QED BY <2>2, <2>3, <2>4, ShownSame
  <1>5. ASSUME NEW a \in Actors, AdvanceGrants(a) PROVE OwnersShown' /\ QueuesShown'
    <2> DEFINE e == Row("grant", a, actor[a].pending)
    <2>1. /\ resource' = resource /\ e \in Event /\ log' = [log EXCEPT !.events = Append(@, e)]
          /\ \A b \in Actors : Resting(b)
      BY <1>5, GrantHealthy
    <2>2. e.kind = "grant" BY DEF Row
    <2> HIDE DEF e
    <2>3. Results' = Results /\ \A i \in 1 .. Len(log.events) : log'.events[i] = log.events[i]
      BY <1>3, <2>1, <2>2, AppendRow
    <2>4. OwnersShown /\ QueuesShown BY <1>2, <2>1 DEF Explained, Alive, Resting
    <2>5. \A i \in Results : log'.events[i] = log.events[i] BY <2>3 DEF Results
    <2> QED BY <2>1, <2>3, <2>4, <2>5, ShownSame
  <1>6. ASSUME NEW a \in Actors, WorkerResumes(a) PROVE OwnersShown' /\ QueuesShown'
    <2>1. Stage(a) = "parked" /\ \A b \in Actors \ {a} : Resting(b)
      BY <1>1, <1>6, ResumeHealthy, ResumeFacts
    <2>2. OwnersShown /\ QueuesShown BY <1>2, <2>1 DEF Explained, Alive, Resting
    <2> QED BY <1>1, <1>6, <2>2, ShownResume
  <1>7. ASSUME NEW r \in {"threw", "invalid", "value"}, ObserveEnd(r)
        PROVE  OwnersShown' /\ QueuesShown'
    <2>1. /\ UNCHANGED <<actor, resource>>
          /\ log' = [log EXCEPT !.observations = Append(@, state.decisions)]
      BY <1>1, <1>7, ObserveHealthy
    <2>2. log'.events = log.events BY <1>3, <2>1 DEF Typed, LogOf
    <2>3. Results' = Results BY <2>2 DEF Results
    <2>4. OwnersShown /\ QueuesShown BY <1>2, <2>1 DEF Explained, Alive, Stage
    <2> QED BY <2>1, <2>2, <2>3, <2>4, ShownSame
  <1> QED BY <1>1, <1>4, <1>5, <1>6, <1>7, Profile

\* Between calls on a live execution nobody is failing.
LEMMA ExplainedImplies == IInv /\ Explained => ReceiptExplainsResources
  <1> SUFFICES ASSUME IInv, Explained, At("idle"), ~state.cancelled PROVE ReceiptExplainsResources
    BY DEF ReceiptExplainsResources
  <1>1. \A a \in Actors : Resting(a) BY DEF IInv, Quiet, At
  <1>2. OwnersShown /\ QueuesShown BY <1>1 DEF Explained, Alive, Resting
  <1>3. \A m \in Mutexes, a \in Actors : resource.owner[m] = a <=> Holds(a, m)
    BY <1>2 DEF OwnersShown
  <1>4. ASSUME NEW q \in Queues
        PROVE  LET sent == On({"send"}, q)
                   got == On({"receive"}, q)
                   left(i) == Rank(sent, i) - Cardinality(got)
                   value(i) == log.events[i].pending.value
               IN /\ Len(resource.queue[q]) = Cardinality(sent) - Cardinality(got)
                  /\ \A i \in sent :
                       IF left(i) > 0 THEN resource.queue[q][left(i)] = value(i)
                       ELSE \A j \in got : Rank(got, j) = Rank(sent, i) => value(j) = value(i)
    <2>1. Carried(On({"send"}, q), On({"receive"}, q), log.events, resource.queue[q])
      BY <1>2 DEF QueuesShown
    <2> QED BY <2>1, Zenon DEF Carried
  <1> QED BY <1>3, <1>4, Zenon DEF ReceiptExplainsResources

\* Between calls on a live execution the receipt alone explains who owns each mutex and
\* what each queue holds: every value received once, in the order sent (Hook::request).
\* The hypothesis is needed: ~MutexGuard releases without a row while an exception passes,
\* so code that handles such an exception and goes on leaves the receipt behind.
THEOREM ReceiptIsExact ==
  ASSUME Unwinders = {}
  PROVE  Spec => []ReceiptExplainsResources
  <1>1. Init => Explained BY ExplainedInit
  <1>2. IInv /\ Explained /\ [Next]_vars => Explained' BY ExplainedStep
  <1>3. Spec => []Explained BY <1>1, <1>2, SyncInduction, PTL DEF Spec
  <1>4. IInv /\ Explained => ReceiptExplainsResources BY ExplainedImplies
  <1> QED BY <1>3, <1>4, SyncInduction, PTL

=============================================================================

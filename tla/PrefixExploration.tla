------------------------- MODULE PrefixExploration -------------------------
(***************************************************************************)
(* explore (src/schedule_sync.cpp): a search through the decisions of a    *)
(* controlled execution.  Each prefix of decisions is replayed in a fresh  *)
(* execution, and the actors enabled at its end are the branches.          *)
(*                                                                         *)
(* An application is given by its maximal decision sequences and how each  *)
(* ends; what a replay does is what ControlledSync describes, here reduced *)
(* to its outcome.  The deadline may pass between any two steps.           *)
(***************************************************************************)
EXTENDS Naturals, Sequences, FiniteSets, SequencesExt

CONSTANTS
  Apps,    \* applications with the bounds of their search:
           \* [leaves : sets of [path : Seq(ActorIds), deadlock : BOOLEAN], runs (max_runs),
           \*  waiting (of prefixes, 4096 in the code), decisions (max_decisions) : Nat]
  ActorIds \* 1 .. n, in canonical order

\* An application has a maximal decision sequence, and none continues another.
ASSUME SearchAssumption ==
  /\ ActorIds \subseteq Nat /\ IsFiniteSet(ActorIds) /\ Apps # {}
  /\ \A a \in Apps : /\ a.runs \in Nat \ {0} /\ a.waiting \in Nat /\ a.decisions \in Nat
                     /\ a.leaves # {}
                     /\ \A l \in a.leaves : l.path \in Seq(ActorIds) /\ l.deadlock \in BOOLEAN
                     /\ \A l, m \in a.leaves : IsPrefix(l.path, m.path) => l = m

StopReasons == {"", "total_timeout", "run_bound", "prefix_bound", "factory_failed", "cleanup_incomplete",
            "callback_timeout", "execution_failed", "evidence_exhausted", "decision_bound"}
CleanupResults == {"not_started", "confirmed", "incomplete", "teardown_failed"}

VARIABLES
  app,       \* the application
  late,      \* the exploration's deadline has passed
  prefixes,  \* the stack of prefixes still to replay
  locals,    \* the other locals of explore
  run,       \* the attempt being made
  attempts,  \* rows of the receipt, with the prefix each is about
  retained,  \* prefixes of the executions handed back for a cleanup retry
  result     \* what the receipt says of completeness, once it is made

prefixVars == <<app, late, prefixes, locals, run, attempts, retained, result>>

Paths == {l.path : l \in app.leaves}
EnabledAfter(prefix) == {a \in ActorIds : \E p \in Paths : IsPrefix(Append(prefix, a), p)}
IsLeaf(prefix) == prefix \in Paths
Deadlocked(prefix) == \E l \in app.leaves : l.path = prefix /\ l.deadlock

NoRun == [prefix |-> <<>>, outcome |-> "none", cleanup |-> "not_started", stage |-> "none",
          overrun |-> FALSE]
PrefixTypeOK ==
  /\ app \in Apps /\ late \in BOOLEAN
  /\ prefixes \in Seq(Seq(ActorIds))
  /\ locals \in [pc : {"loop", "factory", "acquired", "replay", "cleanup", "retain", "branch",
                       "end", "recheck", "over"},
                 complete : BOOLEAN, evidence : BOOLEAN, exceeded : BOOLEAN,
                 runs : 0 .. app.runs, terminals : Nat, deadlocks : Nat, reason : StopReasons]
  /\ locals.complete <=> locals.reason = ""
  /\ run \in [prefix : Seq(ActorIds), cleanup : CleanupResults, stage : {"none", "factory", "execution"},
              overrun : BOOLEAN,
              outcome : {"none", "completed", "controlled_deadlock", "failed"}]
  /\ attempts \in Seq([prefix : Seq(ActorIds), cleanup : CleanupResults, kept : BOOLEAN, sound : BOOLEAN])
  /\ retained \in Seq(Seq(ActorIds))
  /\ result \in {"none", "complete", "incomplete"}

PrefixInit ==
  /\ app \in Apps /\ late = FALSE
  /\ prefixes = << <<>> >>
  /\ locals = [pc |-> "loop", complete |-> TRUE, evidence |-> TRUE, exceeded |-> FALSE,
               runs |-> 0, terminals |-> 0, deadlocks |-> 0, reason |-> ""]
  /\ run = NoRun /\ attempts = <<>> /\ retained = <<>> /\ result = "none"

\* stop(): the first reason is kept.
Stopped(s, reason) ==
  [s EXCEPT !.complete = FALSE, !.reason = IF @ = "" THEN reason ELSE @]

\* expired(): a check of the clock.
Unnoticed(s) == s   \* mutant: the deadline is not looked at
Checked(s) == IF late THEN Stopped([s EXCEPT !.exceeded = TRUE], "total_timeout") ELSE s
Goto(s, point) == locals' = [s EXCEPT !.pc = point]

---------------------------------------------------------------------------
(* One attempt *)

\* The next prefix, or a reason to end.
Pop ==
  LET s == Checked(locals)
      why == IF late THEN "total_timeout" ELSE IF s.runs >= app.runs THEN "run_bound"
             ELSE IF Len(prefixes) > app.waiting THEN "prefix_bound" ELSE ""
  IN /\ locals.pc = "loop"
     /\ IF prefixes = <<>> THEN Goto(locals, "end") /\ UNCHANGED <<prefixes, run>>
        ELSE IF why # "" THEN Goto(Stopped(s, why), "end") /\ UNCHANGED <<prefixes, run>>
        ELSE /\ Goto([s EXCEPT !.runs = @ + 1], "factory")
             /\ prefixes' = Front(prefixes) /\ run' = [NoRun EXCEPT !.prefix = Last(prefixes)]
     /\ UNCHANGED <<app, late, attempts, retained, result>>

\* The application's factory returns or throws, in time or late.
Factory(ok) ==
  LET s == Checked(IF ok THEN locals ELSE Stopped(locals, "factory_failed"))
  IN /\ locals.pc = "factory"
     /\ IF ok /\ ~late
        THEN Goto(s, "acquired") /\ run' = [run EXCEPT !.stage = "execution"]
        ELSE Goto(s, "retain") /\ run' = [run EXCEPT !.stage = "factory"]
     /\ UNCHANGED <<app, late, prefixes, attempts, retained, result>>

Acquire ==
  /\ locals.pc = "acquired" /\ Goto(Checked(locals), "replay")
  /\ UNCHANGED <<app, late, prefixes, run, attempts, retained, result>>

\* The decisions of the prefix: the execution does what the application does, or
\* fails; once the search is stopped the rest of the prefix is left out.
ReplayPrefix(fails) ==
  LET s == Checked(locals)
  IN /\ locals.pc = "replay" /\ Goto(s, "cleanup")
     /\ run' = [run EXCEPT !.outcome = IF fails THEN "failed"
                                       ELSE IF s.complete /\ Deadlocked(run.prefix)
                                       THEN "controlled_deadlock" ELSE "completed"]
     /\ UNCHANGED <<app, late, prefixes, attempts, retained, result>>

\* cleanup() and the reason its outcome gives; overrun: a callback was late.
AfterCleanup(s, cleanup, overrun) ==
  IF cleanup # "confirmed" THEN Stopped(s, "cleanup_incomplete")
  ELSE IF overrun THEN Stopped(s, "callback_timeout")
  ELSE IF run.outcome = "failed" THEN Stopped(s, "execution_failed")
  ELSE s
Cleanup(cleanup, overrun) ==
  /\ locals.pc = "cleanup"
  /\ Goto(AfterCleanup(Checked(locals), cleanup, overrun), "retain")
  /\ run' = [run EXCEPT !.cleanup = cleanup, !.overrun = overrun]
  /\ UNCHANGED <<app, late, prefixes, attempts, retained, result>>

\* retain_row: the row, or an omission row in its place.
Retain(fits) ==
  LET s == IF fits THEN locals ELSE Stopped([locals EXCEPT !.evidence = FALSE], "evidence_exhausted")
      executed == run.stage = "execution"
      t == IF executed THEN Checked(s) ELSE s
  IN /\ locals.pc = "retain"
     /\ attempts' = Append(attempts, [prefix |-> run.prefix, cleanup |-> run.cleanup, kept |-> fits,
                              sound |-> ~late /\ ~run.overrun /\ run.outcome # "failed"])
     /\ retained' = IF run.cleanup = "incomplete" THEN Append(retained, run.prefix) ELSE retained
     /\ Goto(t, IF t.complete THEN "branch" ELSE "end")
     /\ UNCHANGED <<app, late, prefixes, run, result>>

\* Actors from the last one to the first.
Descending(A) ==
  [i \in 1 .. Cardinality(A) |-> CHOOSE a \in A : Cardinality({b \in A : b > a}) = i - 1]

\* Count a leaf, or put the enabled actors on the stack, the first one on top.
FirstOnly(prefix) ==   \* mutant: only one of the enabled actors is followed
  LET down == Descending(EnabledAfter(prefix))
  IN IF down = <<>> THEN <<>> ELSE <<Append(prefix, down[1])>>
Branches(prefix) ==
  LET down == Descending(EnabledAfter(prefix))
  IN [i \in DOMAIN down |-> Append(prefix, down[i])]
Branch ==
  LET prefix == run.prefix
  IN /\ locals.pc = "branch"
     /\ IF IsLeaf(prefix) \/ run.outcome = "controlled_deadlock"
        THEN /\ Goto([locals EXCEPT
                        !.deadlocks = IF run.outcome = "controlled_deadlock" THEN @ + 1 ELSE @,
                        !.terminals = IF run.outcome = "controlled_deadlock" THEN @ ELSE @ + 1], "loop")
             /\ UNCHANGED prefixes
        ELSE IF Len(prefix) >= app.decisions
        THEN Goto(Stopped(locals, "decision_bound"), "end") /\ UNCHANGED prefixes
        ELSE Goto(locals, "loop") /\ prefixes' = prefixes \o Branches(prefix)
     /\ UNCHANGED <<app, late, run, attempts, retained, result>>

---------------------------------------------------------------------------
(* The receipt: made after a check of the clock, and once more if it is late *)

Verdict(s) == IF s.complete /\ prefixes = <<>> THEN "complete" ELSE "incomplete"
Report ==
  /\ locals.pc = "end" /\ Goto(Checked(locals), "recheck") /\ result' = Verdict(Checked(locals))
  /\ UNCHANGED <<app, late, prefixes, run, attempts, retained>>
Recheck ==
  /\ locals.pc = "recheck" /\ Goto(Checked(locals), "over")
  /\ result' = IF late THEN Verdict(Checked(locals)) ELSE result
  /\ UNCHANGED <<app, late, prefixes, run, attempts, retained>>

DeadlineExpires ==
  /\ locals.pc # "over" /\ ~late /\ late' = TRUE
  /\ UNCHANGED <<app, prefixes, locals, run, attempts, retained, result>>
ExploreReturned == locals.pc = "over" /\ UNCHANGED prefixVars

PrefixNext ==
  \/ Pop \/ Acquire \/ Branch \/ Report \/ Recheck \/ DeadlineExpires \/ ExploreReturned
  \/ \E b \in BOOLEAN : Factory(b) \/ ReplayPrefix(b) \/ Retain(b)
  \/ \E c \in CleanupResults \ {"not_started"}, b \in BOOLEAN : Cleanup(c, b)

PrefixSpec == PrefixInit /\ [][PrefixNext]_prefixVars

---------------------------------------------------------------------------
(* Properties *)

\* The tree of the application: every prefix of a maximal decision sequence.
Tree == UNION {{SubSeq(p, 1, n) : n \in 0 .. Len(p)} : p \in Paths}
Explored == {attempts[i].prefix : i \in DOMAIN attempts}
InHand == IF locals.pc \in {"factory", "acquired", "replay", "cleanup", "retain", "branch"}
          THEN {run.prefix} ELSE {}

\* Nothing is forgotten and nothing is done twice: as long as the search is not
\* stopped, a node that was not explored lies below exactly one waiting prefix
\* (or the one in hand), and a node that was explored below none.
FrontierExact ==
  locals.complete =>
    /\ \A node \in Tree \ (Explored \cup InHand) :
         \/ Cardinality({i \in DOMAIN prefixes : IsPrefix(prefixes[i], node)}) = 1
         \/ \E p \in InHand : IsPrefix(p, node)
    /\ \A node \in Explored \cup InHand :
         \A i \in DOMAIN prefixes : ~IsPrefix(prefixes[i], node)
    /\ Cardinality(Explored) = Len(attempts)

\* Complete coverage is the whole tree, each prefix replayed once, in time and
\* without failure, with confirmed cleanup and kept evidence, every leaf counted as what it is.
CompleteMeansTree ==
  result = "complete" =>
    /\ Explored = Tree /\ Len(attempts) = Cardinality(Tree)
    /\ locals.deadlocks = Cardinality({l \in app.leaves : l.deadlock})
    /\ locals.terminals = Cardinality({l \in app.leaves : ~l.deadlock})
    /\ \A i \in DOMAIN attempts : attempts[i].cleanup = "confirmed" /\ attempts[i].kept /\ attempts[i].sound

\* Every attempt has its row, in order, and only an execution whose cleanup is
\* incomplete is handed back; after it nothing is attempted.
AttemptsAccounted ==
  /\ locals.pc \in {"loop", "branch", "end", "over"} => Len(attempts) = locals.runs
  /\ retained # <<>> =>
       /\ Len(retained) = 1 /\ retained[1] = attempts[locals.runs].prefix
       /\ attempts[locals.runs].cleanup = "incomplete"
  /\ \A i \in DOMAIN attempts : attempts[i].cleanup # "confirmed" => i = locals.runs

\* The search accounts for the tree and for what it did.
SearchInv == PrefixTypeOK /\ FrontierExact /\ AttemptsAccounted
=============================================================================

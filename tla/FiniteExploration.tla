------------------------- MODULE FiniteExploration -------------------------
(***************************************************************************)
(* explore_finite (src/schedule_exploration.cpp): enumerate every merge of *)
(* the actors' checkpoint chains within a preemption bound, run each one   *)
(* with every input, and report what was covered.                          *)
(*                                                                         *)
(* An actor's next checkpoint is fixed by how often it was chosen, so a    *)
(* schedule is a sequence of actors.  The runner is the application's; the *)
(* stop request and the deadline may come between any two steps.  Bytes    *)
(* are abstract: a row or a state fits or it does not.                     *)
(***************************************************************************)
EXTENDS Naturals, Sequences, FiniteSets, SequencesExt

CONSTANT Spaces   \* declarations with their limits
\* [chains : lengths of the actors' chains in the order of their names,
\*  inputs, preemptions, cap (max_enumerated_schedules), runs : Nat, compare : BOOLEAN]

ASSUME SpacesAssumption ==
  \A s \in Spaces : /\ s.chains \in Seq(Nat \ {0}) /\ s.chains # <<>>
                    /\ s.inputs \in Nat \ {0} /\ s.cap \in Nat \ {0}
                    /\ s.preemptions \in Nat /\ s.runs \in Nat /\ s.compare \in BOOLEAN

Reasons == {"", "cancelled", "time_budget", "enumeration_limit", "run_limit", "coverage_limit",
            "evidence_limit", "unconfirmed_cleanup", "complete", "non_pass_runs",
            "invalid_declaration"}
Categories == {"passed", "model_mismatch", "comparison_failed", "comparison_missing",
               "cleanup_failed", "execution_failed", "coverage_failed",
               "runner_or_evidence_failed"}

VARIABLES
  space,     \* the declaration
  world,     \* stop requested; deadline passed
  search,    \* locals of enumerate: current, the loop index of each frame, result
  campaign,  \* locals of explore_finite
  rows       \* result["runs"], with what the runner really did

vars == <<space, world, search, campaign, rows>>

Actors == 1 .. Len(space.chains)
Checkpoints == UNION {{i} \X (1 .. space.chains[i]) : i \in Actors}
Steps == Cardinality(Checkpoints)   \* length
\* How often an actor is chosen in the first n steps (its position), and whether
\* its chain goes on.
Picked(path, n, i) == Cardinality({k \in 1 .. n : path[k] = i})
Unfinished(path, n, i) == Picked(path, n, i) < space.chains[i]

\* Step k takes over from an actor that was not finished.
Preempts(path, k) ==
  k > 1 /\ path[k] # path[k - 1] /\ Unfinished(path, k - 1, path[k - 1])
Preemptions(path) == Cardinality({k \in 1 .. Len(path) : Preempts(path, k)})

\* A run's identity, and what the report keeps of it; clean and good are what the
\* runner really did.
Row == [steps : Seq(Nat), input : Nat, category : Categories, clean : BOOLEAN, good : BOOLEAN,
        kept : BOOLEAN, late : BOOLEAN]

TypeOK ==
  /\ space \in Spaces
  /\ world \in [stop : BOOLEAN, late : BOOLEAN]
  /\ search \in [pc : {"declare", "visit", "loop", "over"}, current : Seq(Actors),
                 index : Seq(Nat), schedules : Seq(Seq(Actors)), exhausted : BOOLEAN,
                 reason : Reasons]
  /\ Len(search.schedules) <= space.cap
  /\ campaign \in [pc : {"wait", "next", "running", "over"}, attempted : 0 .. space.runs,
                   completed : Nat, compared : Nat, edges : Nat, halt : BOOLEAN,
                   reason : Reasons, schedule : Nat, input : Nat, failure : Nat,
                   counterexample : Nat, complete : BOOLEAN]
  /\ campaign.completed <= campaign.attempted /\ campaign.compared <= campaign.attempted
  /\ rows \in Seq(Row)

None == 0   \* firstFailure and firstCounterexample: the run's number, or none

Init ==
  /\ space \in Spaces /\ world = [stop |-> FALSE, late |-> FALSE] /\ rows = <<>>
  /\ search = [pc |-> "declare", current |-> <<>>, index |-> <<>>, schedules |-> <<>>,
               exhausted |-> TRUE, reason |-> ""]
  /\ campaign = [pc |-> "wait", attempted |-> 0, completed |-> 0, compared |-> 0, edges |-> 0,
                 halt |-> FALSE, reason |-> "", schedule |-> 1, input |-> 0, failure |-> None,
                 counterexample |-> None, complete |-> FALSE]

---------------------------------------------------------------------------
(* Admission *)

Reject ==
  /\ search.pc = "declare" /\ search' = [search EXCEPT !.pc = "over"]
  /\ campaign' = [campaign EXCEPT !.pc = "over", !.reason = "invalid_declaration"]
  /\ UNCHANGED <<space, world, rows>>
Admit ==
  /\ search.pc = "declare" /\ search' = [search EXCEPT !.pc = "visit"]
  /\ UNCHANGED <<space, world, campaign, rows>>

---------------------------------------------------------------------------
(* enumerate: a depth-first search *)

\* Leave the search for good, with what was found.
Found(s) ==
  /\ search' = [s EXCEPT !.pc = "over"]
  /\ campaign' = [campaign EXCEPT !.pc = "next", !.reason = s.reason]
CutShort(reason) == Found([search EXCEPT !.exhausted = FALSE, !.reason = reason])

\* The frame returns to the loop that called it, at the next index.
Innermost(index, i) == [index EXCEPT ![Len(index)] = i]
Backtrack(s) ==
  IF s.current = <<>> THEN Found(s)
  ELSE /\ search' = [s EXCEPT !.pc = "loop", !.current = Front(@),
                              !.index = Innermost(@, Last(@) + 1)]
       /\ UNCHANGED campaign

AtLimit(s) == Len(s.schedules) = space.cap

Visit ==
  /\ search.pc = "visit"
  /\ IF world.stop \/ world.late
     THEN CutShort(IF world.stop THEN "cancelled" ELSE "time_budget")
     ELSE IF Len(search.current) < Steps
     THEN /\ search' = [search EXCEPT !.pc = "loop", !.index = Append(@, 1)]
          /\ UNCHANGED campaign
     ELSE IF AtLimit(search) THEN CutShort("enumeration_limit")
     ELSE Backtrack([search EXCEPT !.schedules = Append(@, search.current)])
  /\ UNCHANGED <<space, world, rows>>

\* The actors a frame may choose.
AnySwitch(path) ==   \* mutant: switching away from a finished actor counts
  {i \in Actors : /\ Unfinished(path, Len(path), i)
                  /\ Cardinality({k \in 2 .. Len(path) + 1 : Append(path, i)[k] # Append(path, i)[k - 1]})
                       <= space.preemptions}
Eligible(path) ==
  {i \in Actors : /\ Unfinished(path, Len(path), i)
                  /\ Preemptions(Append(path, i)) <= space.preemptions}

Loop ==
  LET left == {i \in Eligible(search.current) : i >= Last(search.index)}
      choice == CHOOSE i \in left : \A j \in left : i <= j
  IN /\ search.pc = "loop"
     /\ IF left # {}
        THEN /\ search' = [search EXCEPT !.pc = "visit", !.current = Append(@, choice),
                                         !.index = Innermost(@, choice)]
             /\ UNCHANGED campaign
        ELSE Backtrack([search EXCEPT !.index = Front(@)])
     /\ UNCHANGED <<space, world, rows>>

---------------------------------------------------------------------------
(* The campaign *)

EligibleRuns == Len(search.schedules) * space.inputs
\* The two loops: the inputs of one schedule before the next schedule.
NextJob(c) ==
  IF c.input + 1 < space.inputs THEN [c EXCEPT !.input = @ + 1]
  ELSE [c EXCEPT !.schedule = @ + 1, !.input = 0]

\* The verdict, once the loop ends.
DespiteHalt(c) ==   \* mutant: a campaign that was halted may count
  /\ search.exhausted /\ c.attempted = EligibleRuns /\ c.completed = EligibleRuns
Complete(c) ==
  /\ search.exhausted /\ c.attempted = EligibleRuns /\ c.completed = EligibleRuns
  /\ ~c.halt
Finish(c) ==
  campaign' = [c EXCEPT !.pc = "over", !.complete = Complete(c),
                        !.reason = IF @ # "" THEN @
                                   ELSE IF c.completed = EligibleRuns THEN "complete"
                                   ELSE "non_pass_runs"]
Halt(c, reason) == Finish([c EXCEPT !.halt = TRUE, !.reason = reason])

OutOfRuns == campaign.attempted >= space.runs

RunNext ==
  /\ campaign.pc = "next"
  /\ IF campaign.schedule > Len(search.schedules) THEN Finish(campaign)
     ELSE IF world.stop \/ world.late \/ OutOfRuns
     THEN Halt(campaign, IF world.stop THEN "cancelled"
                         ELSE IF world.late THEN "time_budget" ELSE "run_limit")
     ELSE campaign' = [campaign EXCEPT !.pc = "running", !.attempted = @ + 1]
  /\ UNCHANGED <<space, world, search, rows>>

\* What a runner may hand back: nothing (it threw), or a receipt that is the one
\* of this schedule and fresh or not, with its cleanup, its comparison (foreign:
\* of another execution) and its verdict; evidence of a pass that does not hold
\* up, or does not fit.
Samples == [bound : BOOLEAN, clean : BOOLEAN,
            comparison : {"none", "matched", "mismatch", "failed", "foreign"},
            passed : BOOLEAN, evidence : {"sound", "broken", "too_large"}]
Threw == [bound |-> FALSE, clean |-> FALSE, comparison |-> "none", passed |-> FALSE,
          evidence |-> "broken"]

\* category() and the requirement of a comparison.
Category(s) ==
  IF space.compare /\ s.comparison = "none" THEN "comparison_missing"
  ELSE IF ~s.clean THEN "cleanup_failed"
  ELSE IF s.comparison = "foreign" THEN "runner_or_evidence_failed"
  ELSE IF s.comparison = "mismatch" THEN "model_mismatch"
  ELSE IF s.comparison = "failed" THEN "comparison_failed"
  ELSE IF s.passed THEN "passed" ELSE "execution_failed"

\* The row's category: a receipt that is not this schedule's, and a pass whose
\* evidence is broken or does not fit, are failures.  Any length_error counts as
\* a coverage failure, the runner's too.
Judged(s) ==
  IF s.bound /\ (Category(s) # "passed" \/ s.evidence = "sound") THEN Category(s)
  ELSE IF s.evidence = "too_large" THEN "coverage_failed" ELSE "runner_or_evidence_failed"

\* cleanup_known
Presumed(s) == s.clean   \* mutant: cleanup is believed whatever the receipt is
CleanupKnown(s) == s.bound /\ s.clean

\* Observations of a pass are entered into the coverage one by one; broken
\* evidence leaves what came before it.
Entered(s) ==
  IF ~s.bound \/ Category(s) # "passed" THEN {0}
  ELSE IF s.evidence = "sound" THEN {Steps} ELSE 0 .. (Steps - 1)

Noted(c, category) ==
  [c EXCEPT !.failure = IF category # "passed" /\ @ = None THEN c.attempted ELSE @,
            !.counterexample = IF category = "model_mismatch" /\ @ = None THEN c.attempted ELSE @]

\* comparison_runs: a foreign comparison is refused before it counts.
Counted(s) == s.bound /\ s.comparison # "none" /\ (s.comparison = "foreign" => ~s.clean)

\* A run that deserves the name of a pass.
Good(s) == /\ s.bound /\ s.clean /\ s.passed /\ s.evidence = "sound"
           /\ s.comparison = "matched" \/ (s.comparison = "none" /\ ~space.compare)

Judge(s, entered, fits) ==
  LET category == Judged(s)
      c == Noted([campaign EXCEPT
             !.pc = "next", !.edges = @ + entered,
             !.completed = IF category = "passed" THEN @ + 1 ELSE @,
             !.compared = IF Counted(s) THEN @ + 1 ELSE @], category)
  IN /\ campaign.pc = "running" /\ entered \in Entered(s)
     /\ rows' = Append(rows, [steps |-> search.schedules[campaign.schedule],
                              input |-> campaign.input, category |-> category,
                              kept |-> fits, late |-> world.late,
                              clean |-> s.bound /\ s.clean, good |-> Good(s)])
     /\ IF ~fits THEN Halt(c, "evidence_limit")
        ELSE IF category = "coverage_failed" THEN Halt(c, "coverage_limit")
        ELSE IF ~CleanupKnown(s) THEN Halt(c, "unconfirmed_cleanup")
        ELSE IF world.late THEN Halt(c, "time_budget")
        ELSE campaign' = NextJob(c)
     /\ UNCHANGED <<space, world, search>>

---------------------------------------------------------------------------
(* Environment *)

StopRequested ==
  /\ campaign.pc # "over" /\ ~world.stop /\ world' = [world EXCEPT !.stop = TRUE]
  /\ UNCHANGED <<space, search, campaign, rows>>
DeadlinePasses ==
  /\ campaign.pc # "over" /\ ~world.late /\ world' = [world EXCEPT !.late = TRUE]
  /\ UNCHANGED <<space, search, campaign, rows>>

Returned == campaign.pc = "over" /\ UNCHANGED vars

Next ==
  \/ Reject \/ Admit \/ Visit \/ Loop \/ RunNext \/ StopRequested \/ DeadlinePasses \/ Returned
  \/ \E s \in Samples \cup {Threw}, entered \in 0 .. Steps, fits \in BOOLEAN :
       Judge(s, entered, fits)

Spec == Init /\ [][Next]_vars

---------------------------------------------------------------------------
(* Properties *)

\* What there is to explore: the order-preserving merges within the bound.
Merges ==
  {m \in [1 .. Steps -> Actors] :
     /\ \A i \in Actors : Picked(m, Steps, i) = space.chains[i]
     /\ Preemptions(m) <= space.preemptions}
Before(a, b) ==   \* the canonical order
  \E k \in 1 .. Steps : a[k] < b[k] /\ \A j \in 1 .. (k - 1) : a[j] = b[j]

\* The search finds every merge exactly once, in canonical order; cut short, it
\* has found merges only, and none beyond the first it has not found.
EnumerationExact ==
  search.pc = "over" /\ campaign.reason # "invalid_declaration" =>
    LET found == search.schedules
    IN /\ \A i, j \in 1 .. Len(found) : i < j => Before(found[i], found[j])
       /\ ToSet(found) \subseteq Merges
       /\ \A m \in Merges : m \notin ToSet(found) =>
            ~search.exhausted /\ \A i \in 1 .. Len(found) : Before(found[i], m)
       /\ search.exhausted => found # <<>>

\* A campaign that calls itself complete ran every merge with every input exactly
\* once; every run passed on sound evidence that was kept, with confirmed cleanup,
\* in time, and compared with the model if that was required; and its coverage
\* accounts for every step of them.
CompleteMeansAll ==
  campaign.complete =>
    /\ {<<r.steps, r.input>> : r \in ToSet(rows)} = Merges \X (0 .. space.inputs - 1)
    /\ Len(rows) = Cardinality(Merges) * space.inputs
    /\ \A r \in ToSet(rows) :
         r.category = "passed" /\ r.clean /\ r.good /\ r.kept /\ ~r.late
    /\ campaign.edges = Len(rows) * Steps

\* n is the first of the runs S, or none if there is none.
First(n, S) == IF S = {} THEN n = None ELSE n \in S /\ \A j \in S : n <= j

\* The reported failure and counterexample are the first ones there are.
FirstsAreFirst ==
  /\ First(campaign.failure, {i \in DOMAIN rows : rows[i].category # "passed"})
  /\ First(campaign.counterexample, {i \in DOMAIN rows : rows[i].category = "model_mismatch"})

\* After a run whose cleanup is not known to be complete nothing is acquired again.
UnknownCleanupStops ==
  \A i \in DOMAIN rows :
    ~rows[i].clean => i = campaign.attempted /\ campaign.pc = "over" /\ ~campaign.complete

\* The stop reason tells the truth about the campaign.
ReasonTruthful ==
  campaign.pc = "over" =>
    /\ (campaign.reason = "complete") <=> campaign.complete
    /\ campaign.reason = "cancelled" => world.stop
    /\ campaign.reason = "time_budget" => world.late
    /\ campaign.reason = "run_limit" => campaign.attempted = space.runs
    /\ campaign.reason = "enumeration_limit" => Cardinality(Merges) > space.cap
    /\ campaign.reason = "non_pass_runs" =>
         /\ campaign.attempted = Cardinality(Merges) * space.inputs
         /\ \E r \in ToSet(rows) : r.category # "passed"

\* What holds of the report throughout a campaign.
CampaignInv == TypeOK /\ FirstsAreFirst /\ UnknownCleanupStops /\ ReasonTruthful
=============================================================================

----------------------------- MODULE MCDrivers -----------------------------
(***************************************************************************)
(* What drives executions.  FiniteExploration: few enough merges that      *)
(* every campaign can be followed to its end, with bounds below, at and    *)
(* above what there is to explore.  PrefixExploration: two actors over one *)
(* lock, two actors that may deadlock, one straight line, and three actors *)
(* of one step.  ScheduleBinding: schedules of two steps, up to three      *)
(* generations, two replays with the same session.                         *)
(***************************************************************************)
EXTENDS FiniteExploration, PrefixExploration, ScheduleBinding

MCSpace(chains, inputs, preemptions, cap, runs, compare) ==
  [chains |-> chains, inputs |-> inputs, preemptions |-> preemptions, cap |-> cap,
   runs |-> runs, compare |-> compare]

MCSpaces ==
  {MCSpace(<<1, 1>>, 2, 1, 2, 4, FALSE), MCSpace(<<1, 2>>, 1, 1, 3, 9, TRUE),
   MCSpace(<<2, 2>>, 1, 0, 2, 2, FALSE), MCSpace(<<2, 2>>, 1, 1, 4, 2, TRUE),
   MCSpace(<<2, 1>>, 1, 0, 1, 9, FALSE), MCSpace(<<2>>, 2, 0, 1, 0, FALSE)}
\* Larger spaces for the search alone: no run is allowed.
MCShapes ==
  {MCSpace(c, 1, p, cap, 0, FALSE) :
     c \in {<<1, 1>>, <<2, 2>>, <<3, 2>>, <<2, 2, 1>>, <<1, 1, 1>>}, p \in 0 .. 3, cap \in {4, 99}}
MCCampaigns == MCSpaces \cup MCShapes

---------------------------------------------------------------------------

MCEnd(path) == [path |-> path, deadlock |-> FALSE]
MCDead(path) == [path |-> path, deadlock |-> TRUE]
MCApp(leaves, runs, waiting, decisions) ==
  [leaves |-> leaves, runs |-> runs, waiting |-> waiting, decisions |-> decisions]

MCLock == {MCEnd(<<1, 1, 2, 2>>), MCEnd(<<2, 2, 1, 1>>)}
MCEmbrace == {MCEnd(<<1, 1, 2>>), MCDead(<<1, 2>>), MCDead(<<2, 1>>), MCEnd(<<2, 2, 1>>)}
MCLine == {MCEnd(<<1, 1, 1, 1, 1>>)}
MCThree == {MCEnd(p) : p \in {q \in [1 .. 3 -> 1 .. 3] : {q[1], q[2], q[3]} = 1 .. 3}}
MCApps ==
  { MCApp(MCLock, 9, 4, 4), MCApp(MCEmbrace, 9, 4, 4), MCApp(MCLine, 9, 4, 4),
    MCApp(MCThree, 16, 4, 4), MCApp(MCThree, 7, 4, 4), MCApp(MCThree, 16, 3, 4) }

---------------------------------------------------------------------------

VARIABLE drives   \* which driver is looked at
MCVars == <<vars, prefixVars, bindingVars, drives>>

\* A driver that is not looked at has one initial state.
MCInit ==
  /\ Init /\ PrefixInit /\ BindingInit /\ drives \in {"merges", "prefixes", "binding"}
  /\ drives # "prefixes" => app = CHOOSE a \in Apps : TRUE
  /\ drives # "merges" => space = CHOOSE s \in Spaces : TRUE
MCNext ==
  /\ UNCHANGED drives
  /\ \/ drives = "merges" /\ Next /\ UNCHANGED <<prefixVars, bindingVars>>
     \/ drives = "prefixes" /\ PrefixNext /\ UNCHANGED <<vars, bindingVars>>
     \/ drives = "binding" /\ BindingNext /\ UNCHANGED <<vars, prefixVars>>
MCSpec == MCInit /\ [][MCNext]_MCVars
=============================================================================

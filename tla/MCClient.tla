------------------------------ MODULE MCClient ------------------------------
(***************************************************************************)
(* JobControl (two jobs, three calls), ExploreSession (the registration    *)
(* and three commands) and StepFlow (two states a computer may return,     *)
(* conversations long enough for two traces): a connection serves one of   *)
(* them.                                                                   *)
(***************************************************************************)
EXTENDS JobControl, ExploreSession, StepFlow

VARIABLE serves   \* what the connection is for

MCVars == <<jobVars, sessionVars, flowVars, serves>>

MCInit ==
  /\ JobInit /\ SessionInit /\ FlowInit
  /\ serves \in {"jobs", "session", "flow"} /\ (serves # "jobs" => ~exchange.capable)
MCNext ==
  /\ UNCHANGED serves
  /\ \/ serves = "jobs" /\ JobNext /\ UNCHANGED <<sessionVars, flowVars>>
     \/ serves = "session" /\ SessionNext /\ UNCHANGED <<jobVars, flowVars>>
     \/ serves = "flow" /\ FlowNext /\ UNCHANGED <<jobVars, sessionVars>>
MCSpec == MCInit /\ [][MCNext]_MCVars
=============================================================================

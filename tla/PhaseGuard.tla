---------------------------- MODULE PhaseGuard ----------------------------
(***************************************************************************)
(* PhaseGuard (src/protocol.cpp): which message a client may send and may  *)
(* accept in each phase of a session, and the phase that follows.  A       *)
(* message is its tag; spec_validated is told apart by its verdict.        *)
(***************************************************************************)

Phases == {"idle", "validating", "ready", "stepping", "exploring", "done"}

Registrations == {"register", "register_traces", "register_trace_gen", "register_explore",
                  "register_explore_session", "register_validate"}
AsyncRegistrations == {"register_validate_async", "register_trace_gen_async"}
JobControls == {"query_job", "await_job", "cancel_job"}
ExploreCommands == {"explore_assume_transition", "explore_next_step", "explore_query_state",
                    "explore_check_invariant", "explore_assume_state", "explore_rollback",
                    "explore_done"}
ClientMessages ==
  Registrations \cup AsyncRegistrations \cup JobControls \cup ExploreCommands \cup {"report_state"}

Errors == {"register_error", "protocol_error"}
ExploreReplies == {"explore_transition_status", "explore_step_done", "explore_state",
                   "explore_invariant_status", "explore_assume_status", "explore_rollback_done"}
JobReplies == {"job_accepted", "job_status", "job_result"}
MirrorMessages ==
  Errors \cup ExploreReplies \cup JobReplies \cup
  {"spec_valid", "spec_invalid", "gen_traces_done", "initial_state", "next_step", "step_ok",
   "all_steps_done", "step_mismatch", "explorer_ready", "explore_session_done"}

---------------------------------------------------------------------------
(* PhaseGuard::sent *)

MaySend(phase, tag) ==
  \/ tag \in Registrations \cup AsyncRegistrations /\ phase = "idle"
  \/ tag \in JobControls /\ phase \in {"idle", "done"}
  \/ tag = "report_state" /\ phase = "stepping"
  \/ tag \in ExploreCommands /\ phase = "exploring"

AfterSend(phase, tag) ==
  IF tag \notin Registrations THEN phase
  ELSE IF tag = "register_explore_session" THEN "exploring" ELSE "validating"

---------------------------------------------------------------------------
(* PhaseGuard::received *)

AnyOrder(phase, tag) ==   \* mutant: next_step before initial_state
  \/ tag \in Errors
  \/ tag \in {"spec_valid", "spec_invalid", "gen_traces_done"} /\ phase = "validating"
  \/ tag \in {"initial_state", "next_step"} /\ phase \in {"ready", "stepping"}
  \/ tag \in {"step_ok", "all_steps_done", "step_mismatch"} /\ phase = "stepping"
EarlyEnd(phase, tag) ==   \* mutant: a flow may end before its first step
  \/ AnyOrder(phase, tag) /\ tag # "next_step"
  \/ tag = "next_step" /\ phase = "stepping"
  \/ tag = "all_steps_done" /\ phase = "ready"
MayReceive(phase, tag) ==
  \/ tag \in Errors
  \/ tag \in {"spec_valid", "spec_invalid", "gen_traces_done"} /\ phase = "validating"
  \/ tag = "initial_state" /\ phase \in {"ready", "stepping"}
  \/ tag \in {"next_step", "step_ok", "all_steps_done", "step_mismatch"} /\ phase = "stepping"
  \/ tag \in ExploreReplies \cup {"explorer_ready", "explore_session_done"} /\ phase = "exploring"
  \/ tag \in JobReplies /\ phase \in {"idle", "done"}

AfterReceive(phase, tag) ==
  CASE tag = "spec_valid" -> "ready"
    [] tag = "initial_state" -> "stepping"
    [] tag \in {"spec_invalid", "gen_traces_done", "all_steps_done", "step_mismatch",
                "explore_session_done"} -> "done"
    [] OTHER -> phase
=============================================================================

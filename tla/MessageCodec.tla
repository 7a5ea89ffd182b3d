---------------------------- MODULE MessageCodec ----------------------------
(***************************************************************************)
(* decode_mirror_message and encode_client_message of src/protocol.cpp on  *)
(* JSON documents.  A line is <<"garbage">> (no JSON), <<"overflow">> (a   *)
(* number no double can hold) or <<"json", document>>; a decoded message   *)
(* is <<"message", proto_step, fields>>.                                   *)
(***************************************************************************)
EXTENDS ItfValue

CONSTANT Word     \* integers of the wire are read modulo Word: 2^64 in the code

NoField == <<"absent">>
Str(s) == <<"str", s>>

---------------------------------------------------------------------------
\* require_int: an unsigned number beyond the signed range wraps.
RequireInt(j) ==
  IF j[1] # "int" THEN Bad
  ELSE <<"int", IF 2 * j[2] >= Word THEN j[2] - Word ELSE j[2]>>
RequireString(j) == IF j[1] # "str" THEN Bad ELSE j
RequireStrings(j) ==
  IF j[1] # "arr" THEN Bad
  ELSE LET vs == [i \in DOMAIN j[2] |-> RequireString(j[2][i])] IN Build(vs, <<"arr", vs>>)
\* The enumerations: any other text is refused.
OneOf(j, names) == IF j[1] # "str" THEN Bad ELSE IF j[2] \in names THEN j ELSE Bad
TransitionStatuses == {"ENABLED", "DISABLED", "UNKNOWN"}
InvariantStatuses == {"SATISFIED", "VIOLATED", "UNKNOWN"}
JobKinds == {"validate", "gen_traces"}
JobPhases == {"pending", "running", "done", "failed", "cancelled", "unknown"}
HintKinds ==
  {"value_mismatch", "missing", "extra", "missing_elem", "extra_elem", "type_mismatch", "truncated"}

\* A member of an object, and what an absent one reads as.
Member(j, key) == IF key \in DOMAIN j[2] THEN j[2][key] ELSE NoField

\* decode_validate_result.
ValidateResult(j) ==
  IF j = Str("valid") THEN <<"valid">>
  ELSE IF j[1] = "obj" /\ Member(j, "invalid")[1] = "str" THEN <<"invalid", j[2].invalid[2]>> ELSE Bad

\* decode_diff_hint: a path that is no array, and a null value, read as absent.
PathSegment(j) ==
  IF j[1] # "obj" THEN Bad
  ELSE IF Member(j, "field")[1] = "str" THEN <<"field", j[2].field[2]>>
  ELSE IF Member(j, "index")[1] = "int" THEN <<"index", RequireInt(j[2].index)[2]>> ELSE Bad
OptionalValue(j) == IF j[1] \in {"absent", "null"} THEN NoField ELSE Decode(j)
DiffHint(j) ==
  IF j[1] # "obj" THEN Bad
  ELSE LET path == Member(j, "path")
           segments == IF path[1] = "arr" THEN [i \in DOMAIN path[2] |-> PathSegment(path[2][i])] ELSE <<>>
           fields == "kind" :> OneOf(Member(j, "kind"), HintKinds)
                       @@ "path" :> Build(segments, <<"arr", segments>>)
                       @@ "expected" :> OptionalValue(Member(j, "expected"))
                       @@ "actual" :> OptionalValue(Member(j, "actual"))
       IN Build(fields, <<"hint", fields>>)
Hints(j) ==
  IF j[1] # "arr" THEN <<"arr", <<>>>>
  ELSE LET hs == [i \in DOMAIN j[2] |-> DiffHint(j[2][i])] IN Build(hs, <<"arr", hs>>)

\* decode_gen_traces_payload and decode_job_outcome; traces are kept as they are.
GenTraces(j) ==
  IF j[1] # "obj" THEN Bad
  ELSE LET paths == RequireStrings(Member(j, "itfTracePaths"))
           traces == Member(j, "itfTraces")
       IN IF Failed(paths) THEN paths
          ELSE <<"traces", paths[2], IF traces[1] = "arr" THEN traces[2] ELSE <<>>>>
Outcome(j) ==
  IF j[1] # "obj" THEN Bad
  ELSE IF "validate" \in DOMAIN j[2] THEN ValidateResult(j[2].validate)
  ELSE IF "genTraces" \in DOMAIN j[2] THEN GenTraces(j[2].genTraces)
  ELSE RequireString(Member(j, "error"))

\* What each message carries: member -> how it is read.
MessageFields ==
  "spec_validated" :> [result |-> "verdict"]
    @@ "initial_state" :> [action |-> "string", state |-> "state"]
    @@ "next_step" :> [action |-> "string", parameters |-> "state"]
    @@ "step_mismatch" :> [expected |-> "state", actual |-> "state", hints |-> "hints"]
    @@ "register_error" :> [error |-> "string"]
    @@ "protocol_error" :> [error |-> "string"]
    @@ "explorer_ready" :> [initTransitions |-> "int", nextTransitions |-> "int", stateInvariants |-> "int"]
    @@ "explore_transition_status" :> [status |-> "transition"]
    @@ "explore_assume_status" :> [status |-> "transition"]
    @@ "explore_invariant_status" :> [status |-> "invariant"]
    @@ "explore_step_done" :> [stepNo |-> "int"]
    @@ "explore_state" :> [state |-> "state"]
    @@ "explore_rollback_done" :> [snapshotId |-> "int"]
    @@ "job_accepted" :> [jobId |-> "string", kind |-> "kind"]
    @@ "job_status" :> [jobId |-> "string", phase |-> "phase"]
    @@ "job_result" :> [jobId |-> "string", outcome |-> "outcome"]
    @@ [tag \in {"step_ok", "all_steps_done", "explore_session_done"} |-> <<>>]

ReadField(how, j) ==
  CASE how = "string" -> RequireString(j)
    [] how = "int" -> RequireInt(j)
    [] how = "state" -> DecodeState(j)
    [] how = "verdict" -> ValidateResult(j)
    [] how = "hints" -> Hints(j)
    [] how = "transition" -> OneOf(j, TransitionStatuses)
    [] how = "invariant" -> OneOf(j, InvariantStatuses)
    [] how = "kind" -> OneOf(j, JobKinds)
    [] how = "phase" -> OneOf(j, JobPhases)
    [] how = "outcome" -> Outcome(j)

\* decode_mirror_message.  parse_error is caught, the out_of_range of a number that
\* does not fit is not; JsonError and nlohmann's exceptions are caught around the
\* fields, and no other.
DecodeMessage(j) ==
  LET tag == j[2].proto_step[2]
  IN CASE tag = "gen_traces_done" -> LET g == GenTraces(j) IN IF Failed(g) THEN g ELSE <<"message", tag, g>>
       [] tag \in DOMAIN MessageFields ->
            LET fields == [k \in DOMAIN MessageFields[tag] |-> ReadField(MessageFields[tag][k], Member(j, k))]
            IN Build(fields, <<"message", tag, fields>>)
       [] tag \notin DOMAIN MessageFields \cup {"gen_traces_done"} ->
            <<"message", "protocol_error", "unknown proto_step">>
DecodeMirrorMessage(line) ==
  CASE line[1] = "garbage" -> Bad
    [] line[1] = "overflow" -> Thrown
    [] line[1] = "json" ->
         LET j == line[2]
         IN IF j[1] # "obj" THEN Bad
            ELSE IF Member(j, "proto_step")[1] # "str" THEN Bad
            ELSE DecodeMessage(j)

---------------------------------------------------------------------------
\* encode_client_message.  The members of a message or configuration that are always
\* written and those that are written when they are present (not NoField).
Layout(must, may) == [must |-> must, may |-> may]
ConfigLayout ==
  Layout({"specPath", "invariant", "lengthBound", "paramVars"}, {"initPredicate", "nextPredicate", "constInit"})
TraceConfigLayout == Layout({"numTraces"}, {"view"})
ClientLayouts ==
  "register" :> Layout({"apalacheConfig", "traceConfig"}, {"spec"})
    @@ "register_traces" :> Layout({"apalacheConfig", "itfTracePaths"}, {})
    @@ "register_explore" :> Layout({"spec", "invariants", "exports"}, {"maxSteps"})
    @@ "register_explore_session" :> Layout({"spec", "invariants", "exports"}, {})
    @@ "await_job" :> Layout({"jobId"}, {"timeoutSecs"})
    @@ "explore_assume_transition" :> Layout({"transitionId"}, {})
    @@ "explore_check_invariant" :> Layout({"invariantId"}, {})
    @@ "explore_rollback" :> Layout({"snapshotId"}, {})
    @@ [t \in {"register_validate", "register_validate_async"} |-> Layout({"apalacheConfig", "bound"}, {"spec"})]
    @@ [t \in {"register_trace_gen", "register_trace_gen_async"} |->
          Layout({"apalacheConfig", "traceConfig"}, {"destPath", "spec"})]
    @@ [t \in {"query_job", "cancel_job"} |-> Layout({"jobId"}, {})]
    @@ [t \in {"explore_assume_state", "report_state"} |-> Layout({"state"}, {})]
    @@ [t \in {"explore_next_step", "explore_query_state", "explore_done"} |-> Layout({}, {})]

NonEmpty(layout, members) ==   \* mutant: an optional member that is empty is dropped
  layout.must \cup {k \in layout.may : members[k] \notin {NoField, Str("")}}
Written(layout, members) == layout.must \cup {k \in layout.may : members[k] # NoField}
EncodeConfig(layout, c) == <<"obj", [k \in Written(layout, c) |-> c[k]]>>
WriteMember(key, m) ==
  CASE key = "apalacheConfig" -> EncodeConfig(ConfigLayout, m)
    [] key = "traceConfig" -> EncodeConfig(TraceConfigLayout, m)
    [] key = "spec" -> Marker("sources", m)
    [] key = "state" -> EncodeState(m)
    [] key \notin {"apalacheConfig", "traceConfig", "spec", "state"} -> m
EncodeClientMessage(name, members) ==
  <<"obj", "proto_step" :> Str(name)
      @@ [k \in Written(ClientLayouts[name], members) |-> WriteMember(k, members[k])]>>
=============================================================================

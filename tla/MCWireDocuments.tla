-------------------------- MODULE MCWireDocuments --------------------------
(***************************************************************************)
(* Documents for WireDocuments: values of three levels with every kind and *)
(* every marker, each mirror message, contracts around the limits, texts   *)
(* with comment marks and quotes in every place.                           *)
(***************************************************************************)
EXTENDS WireDocuments

Digit(minus, digits) == [minus |-> minus, digits |-> digits]
MCNumerals ==
  "0" :> Digit(FALSE, <<0>>) @@ "1" :> Digit(FALSE, <<1>>) @@ "12" :> Digit(FALSE, <<1, 2>>)
    @@ "2" :> Digit(FALSE, <<2>>) @@ "8" :> Digit(FALSE, <<8>>)
    @@ "-2" :> Digit(TRUE, <<2>>) @@ "010" :> Digit(FALSE, <<0, 1, 0>>) @@ "09" :> Digit(FALSE, <<0, 9>>)

Atoms == {Null, <<"int", 12>>, <<"int", -2>>, <<"bool", FALSE>>, Str("1"), <<"unserializable", "1">>}
Few == {<<"int", 12>>, <<"int", -2>>, Str("1")}
Lists(S) == {<<>>} \cup {<<a>> : a \in S} \cup {<<a, b>> : a, b \in S}
Rec(f) == <<"record", f>>
Level2 ==
  {<<k, l>> : k \in {"set", "seq", "tuple"}, l \in Lists(Few)}
    \cup {Rec(<<>>), Rec("a" :> Null), Rec("a" :> Str("1") @@ "b" :> Null), Rec("tag" :> Str("1") @@ "value" :> Null),
          Rec("tag" :> Null @@ "value" :> Null), Rec("tag" :> Null @@ "value" :> Null @@ "a" :> Null),
          Rec("#bigint" :> Str("12") @@ "a" :> Null), Rec("#set" :> <<"seq", <<Null>>>> @@ "a" :> Null)}
    \cup {Rec(m :> Str("1")) : m \in {"#bigint", "#unserializable", "#set", "tag"}}
    \cup {Rec(m :> <<"seq", <<Null>>>>) : m \in {"#set", "#tup", "#map", "#bigint"}}
    \cup {<<"map", <<>>>>, <<"map", <<<<Str("1"), Null>>>>>>, <<"map", <<<<Str("1"), Null>>, <<Null, Str("1")>>>>>>,
          <<"variant", "t", <<"int", 12>>>>, <<"variant", "t", Null>>}
Pair12 == <<"set", <<<<"int", 12>>, <<"int", -2>>>>>>
Pair21 == <<"set", <<<<"int", -2>>, <<"int", 12>>>>>>
Level3 ==
  {<<"set", l>> : l \in Lists({Pair12, Pair21, <<"set", <<>>>>})}
    \cup {<<"seq", <<Pair12>>>>, <<"seq", <<Pair21>>>>, Rec("a" :> Pair12), Rec("a" :> Pair21),
          <<"variant", "t", Pair12>>, <<"variant", "t", Pair21>>, Rec("a" :> Rec("#bigint" :> Str("12"))),
          <<"map", <<<<Pair12, Pair21>>>>>>, <<"map", <<<<Pair21, Pair12>>>>>>}
MCValues == Atoms \cup Level2 \cup Level3

Obj(f) == <<"obj", f>>
Arr(s) == <<"arr", s>>
Payloads ==
  {Null, Str("1"), Str(""), Str("x"), Str("09"), Str("010"), <<"int", 1>>, <<"real", 2>>, <<"real">>, Arr(<<>>),
   Arr(<<Null>>), Arr(<<Arr(<<Null, Str("1")>>)>>), Arr(<<<<"real">>>>), Obj("#bigint" :> Str(""))}
Members == {"#bigint", "#tup", "#set", "#map", "#unserializable", "a", "tag"}
MCTrees ==
  Payloads \cup {Obj(m :> p) : m \in Members, p \in Payloads}
    \cup {Obj("tag" :> p @@ "value" :> q) : p, q \in Payloads}
    \cup {Arr(<<Obj(m :> p), q>>) : m \in {"#set", "#bigint"}, p, q \in Payloads}

---------------------------------------------------------------------------
\* What the mirror says and the document it says it with.
Says(tag, members, fields, needs) ==
  [document |-> Obj("proto_step" :> Str(tag) @@ members), tag |-> tag, fields |-> fields, needs |-> needs]
Same(tag, members) == Says(tag, members, members, DOMAIN members)
AState == Obj("x" :> Obj("#bigint" :> Str("12")))
Read == Rec("x" :> <<"int", 12>>)
Num(n) == <<"int", n>>
HintDoc ==
  Obj("kind" :> Str("missing") @@ "path" :> Arr(<<Obj("field" :> Str("x")), Obj("index" :> Num(1))>>)
      @@ "actual" :> Null)
HintRead ==
  <<"hint", "kind" :> Str("missing") @@ "path" :> Arr(<<<<"field", "x">>, <<"index", 1>>>>)
      @@ "expected" :> NoField @@ "actual" :> NoField>>
Paths1 == Arr(<<Str("p")>>)
Invalid == Obj("invalid" :> Str("why"))
MCMirrorMessages ==
  {Says("spec_validated", "result" :> Str("valid"), "result" :> <<"valid">>, {"result"}),
   Says("spec_validated", "result" :> Invalid, "result" :> <<"invalid", "why">>, {"result"}),
   Says("initial_state", "action" :> Str("A") @@ "state" :> AState, "action" :> Str("A") @@ "state" :> Read,
        {"action", "state"}),
   Says("next_step", "action" :> Str("A") @@ "parameters" :> AState, "action" :> Str("A") @@ "parameters" :> Read,
        {"action", "parameters"}),
   Says("step_ok", <<>>, <<>>, {}), Says("all_steps_done", <<>>, <<>>, {}), Says("explore_session_done", <<>>, <<>>, {}),
   Says("step_mismatch", "expected" :> AState @@ "actual" :> Obj(<<>>),
        "expected" :> Read @@ "actual" :> Rec(<<>>) @@ "hints" :> Arr(<<>>), {"expected", "actual"}),
   Says("step_mismatch", "expected" :> AState @@ "actual" :> AState @@ "hints" :> Arr(<<HintDoc>>),
        "expected" :> Read @@ "actual" :> Read @@ "hints" :> Arr(<<HintRead>>), {"expected", "actual"}),
   Says("gen_traces_done", "itfTracePaths" :> Paths1, <<"traces", <<Str("p")>>, <<>>>>, {"itfTracePaths"}),
   Says("gen_traces_done", "itfTracePaths" :> Paths1 @@ "itfTraces" :> Arr(<<Null>>),
        <<"traces", <<Str("p")>>, <<Null>>>>, {"itfTracePaths"}),
   Says("explore_state", "state" :> AState, "state" :> Read, {"state"}),
   Says("job_result", "jobId" :> Str("j") @@ "outcome" :> Obj("validate" :> Invalid),
        "jobId" :> Str("j") @@ "outcome" :> <<"invalid", "why">>, {"jobId", "outcome"}),
   Says("job_result", "jobId" :> Str("j") @@ "outcome" :> Obj("genTraces" :> Obj("itfTracePaths" :> Paths1)),
        "jobId" :> Str("j") @@ "outcome" :> <<"traces", <<Str("p")>>, <<>>>>, {"jobId", "outcome"}),
   Says("job_result", "jobId" :> Str("j") @@ "outcome" :> Obj("error" :> Str("e")),
        "jobId" :> Str("j") @@ "outcome" :> Str("e"), {"jobId", "outcome"})}
    \cup {Same(t, "error" :> Str("e")) : t \in {"register_error", "protocol_error"}}
    \cup {Same("explorer_ready", "initTransitions" :> Num(a) @@ "nextTransitions" :> Num(1) @@ "stateInvariants" :> Num(0)) :
            a \in {-8, 7}}
    \cup {Same(t, "status" :> Str(s)) : t \in {"explore_transition_status", "explore_assume_status"},
                                         s \in {"ENABLED", "DISABLED", "UNKNOWN"}}
    \cup {Same("explore_invariant_status", "status" :> Str(s)) : s \in {"SATISFIED", "VIOLATED", "UNKNOWN"}}
    \cup {Same("explore_step_done", "stepNo" :> Num(7)), Same("explore_rollback_done", "snapshotId" :> Num(0))}
    \cup {Same("job_accepted", "jobId" :> Str("j") @@ "kind" :> Str(k)) : k \in {"validate", "gen_traces"}}
    \cup {Same("job_status", "jobId" :> Str("j") @@ "phase" :> Str(p)) :
            p \in {"pending", "running", "done", "failed", "cancelled", "unknown"}}
MCLines ==
  {<<"garbage">>, <<"overflow">>, <<"json", Null>>, <<"json", Obj(<<>>)>>, <<"json", Obj("proto_step" :> Str("new"))>>}
    \cup {<<"json", Obj("proto_step" :> Str("explore_state") @@ "state" :> Obj("x" :> t))>> : t \in MCTrees}
    \cup {<<"json", Obj("proto_step" :> Str("explore_step_done") @@ "stepNo" :> Num(n))>> : n \in 0 .. 15}

---------------------------------------------------------------------------
Configs == {[specPath |-> Str("p"), invariant |-> Str(""), lengthBound |-> Num(1), paramVars |-> Str(""),
             initPredicate |-> i, nextPredicate |-> n, constInit |-> NoField] :
              i \in {NoField, Str("")}, n \in {NoField, Str("N")}}
OneConfig == CHOOSE c \in Configs : c.initPredicate = NoField
TraceConfigs == {[numTraces |-> Num(1), view |-> v] : v \in {NoField, Str("")}}
Specs == {NoField, Arr(<<>>), Arr(<<Str("m")>>)}
States == {Rec("x" :> v) : v \in Atoms \cup {Rec("#bigint" :> Str("12")), Rec("a" :> Null), Pair12, Pair21}} \cup {Rec(<<>>)}
MCClientMessages ==
  {<<"register", [apalacheConfig |-> c, traceConfig |-> t, spec |-> s]>> : c \in Configs, t \in TraceConfigs, s \in Specs}
    \cup {<<m, [apalacheConfig |-> OneConfig, traceConfig |-> t, destPath |-> d, spec |-> NoField]>> :
            m \in {"register_trace_gen", "register_trace_gen_async"}, t \in TraceConfigs, d \in {NoField, Str("")}}
    \cup {<<m, [apalacheConfig |-> OneConfig, bound |-> Num(b), spec |-> s]>> :
            m \in {"register_validate", "register_validate_async"}, b \in {0, 1}, s \in Specs}
    \cup {<<"register_traces", [apalacheConfig |-> OneConfig, itfTracePaths |-> Paths1]>>}
    \cup {<<"register_explore", [spec |-> Arr(<<>>), invariants |-> Arr(<<>>), exports |-> e, maxSteps |-> m]>> :
            e \in {Arr(<<>>), Paths1}, m \in {NoField, Num(0)}}
    \cup {<<"register_explore_session", [spec |-> Arr(<<>>), invariants |-> Paths1, exports |-> Arr(<<>>)]>>}
    \cup {<<m, [jobId |-> Str(j)]>> : m \in {"query_job", "cancel_job"}, j \in {"", "j"}}
    \cup {<<"await_job", [jobId |-> Str("j"), timeoutSecs |-> t]>> : t \in {NoField, Num(0), Num(1)}}
    \cup {<<m, <<>>>> : m \in {"explore_next_step", "explore_query_state", "explore_done"}}
    \cup {<<m, [state |-> s]>> : m \in {"explore_assume_state", "report_state"}, s \in States}
    \cup {<<"explore_assume_transition", [transitionId |-> Num(0)]>>, <<"explore_check_invariant", [invariantId |-> Num(0)]>>,
          <<"explore_rollback", [snapshotId |-> Num(0)]>>}

---------------------------------------------------------------------------
MCLimit ==
  [depth |-> 2, nodes |-> 4, literal |-> 2, nesting |-> 5, aliases |-> 1, inputs |-> 2, path |-> 1,
   initializers |-> 1, actions |-> 1, observations |-> 2]
Type(kind, members) == Obj("kind" :> Str(kind) @@ members)
Leaf == Type("int", <<>>)
Label(kind, name, t) == Obj(LabelName(kind) :> Str(name) @@ PayloadName(kind) :> t)
Types ==
  {Leaf, Type("int", "a" :> Null), Type("what", <<>>), Null, Obj(<<>>), Type("set", "element" :> Leaf),
   Type("set", "element" :> Null), Type("seq", "element" :> Type("set", "element" :> Leaf)),
   Type("tuple", "elements" :> Arr(<<Leaf, Leaf, Leaf>>)), Type("tuple", "elements" :> Arr(<<Leaf, Leaf, Leaf, Leaf>>)),
   Type("tuple", "elements" :> Leaf), Type("map", "key" :> Leaf @@ "value" :> Leaf),
   Type("map", "key" :> Leaf @@ "value" :> Null), Type("opaqueItf", "description" :> Str("d")),
   Type("opaqueItf", "description" :> Str("long"))}
    \cup {Type(k, ListName(k) :> Arr(<<Label(k, "a", Leaf), Label(k, n, t)>>)) :
            k \in {"record", "variant"}, n \in {"", "a", "b", "long"}, t \in {Leaf, Null}}
Segments ==
  {Obj("field" :> Str("x")), Obj("index" :> Num(-1)), Obj("index" :> Num(0)), Obj("variantValue" :> Str("long")),
   Obj("field" :> Str("x") @@ "index" :> Num(0)), Null}
    \cup {Obj("mapKey" :> l) : l \in
            {Type("null", <<>>), Type("bool", "value" :> Str("x")), Type("int", "value" :> Str("12")),
             Type("int", "value" :> Str("x")), Type("str", "value" :> Str("x")),
             Type("set", "values" :> Arr(<<Type("null", <<>>)>>)),
             Type("seq", "values" :> Arr(<<Type("tuple", "values" :> Arr(<<Type("null", <<>>)>>))>>)),
             Type("record", "fields" :> Arr(<<Obj("name" :> Str("a") @@ "value" :> Type("null", <<>>))>>)),
             Type("map", "entries" :> Arr(<<Obj("key" :> Null @@ "value" :> Type("null", <<>>))>>)),
             Type("variant", "tag" :> Str("t") @@ "payload" :> Type("null", <<>>)), Type("what", <<>>)}}
Input(path, rest) ==
  Obj("id" :> Str("i") @@ "from" :> Obj("root" :> Str("initialState") @@ "path" :> Arr(path)) @@ rest)
Action(inputs) ==
  Obj("id" :> Str("a") @@ "wireAction" :> Str("A") @@ "wireAliases" :> Arr(<<>>) @@ "inputs" :> Arr(inputs))
Observation(rest) == Obj("id" :> Str("o") @@ "wireName" :> Str("o") @@ "provenance" :> Str("oracle") @@ rest)
ContractOf(initializers, actions, observations) ==
  Obj("schema" :> Str("contract/v1") @@ "interfaceVersion" :> Str("1")
      @@ "model" :> Obj("module" :> Str("M") @@ "source" :> Str("S"))
      @@ "wire" :> Obj("actionVariable" :> Str("a") @@ "parameterVariable" :> Null)
      @@ "initializers" :> Arr(initializers) @@ "actions" :> Arr(actions) @@ "observations" :> Arr(observations))
OfType(t) == "expectedType" :> t
Plain == ContractOf(<<>>, <<Action(<<>>)>>, <<>>)
MCContracts ==
  {ContractOf(<<>>, <<Action(<<Input(<<>>, OfType(t))>>)>>, <<Observation(OfType(u))>>) : t, u \in Types}
    \cup {ContractOf(<<Action(<<Input(<<s>>, <<>>)>>)>>, <<>>, <<Observation(OfType(t))>>) : s \in Segments, t \in {Null, Leaf}}
    \cup {ContractOf(<<>>, <<Action(<<Input(<<>>, OfType(Leaf)), Input(<<>>, <<>>)>>)>>, o) :
            o \in {<<Observation(OfType(Leaf)), Observation(OfType(Type("set", "element" :> Leaf)))>>,
                   <<Observation(OfType(Type("map", "key" :> Leaf @@ "value" :> Leaf))), Observation(OfType(Leaf))>>,
                   <<Observation("provenance" :> Str("what"))>>, <<Observation(<<>>), Observation(<<>>), Observation(<<>>)>>}}
    \cup UNION {{<<"obj", [Plain[2] EXCEPT ![k] = v]>> : v \in {Null, Str("long"), Arr(<<>>), Arr(<<Null>>)}} : k \in ContractMembers}
    \cup {Obj(Plain[2] @@ "more" :> Null), Null,
          ContractOf(<<>>, <<Action(<<>>), Action(<<>>)>>, <<>>), ContractOf(<<Action(<<Input(<<Null, Null>>, <<>>)>>)>>, <<>>, <<>>)}

Extension(members) == Obj("schema" :> Str("negotiation/v1") @@ members)
ReplyOf(tag, member, status, more) ==
  Obj("proto_step" :> Str(tag) @@ member @@ "modelInterface" :> Extension("status" :> Str(status) @@ more))
Extras ==
  {<<>>, "semanticDigest" :> Str("d") @@ "descriptorSchema" :> Str("descriptor/v1"), "semanticDigest" :> Str("bad"),
   "descriptorSchema" :> Str("descriptor/v1"), "descriptor" :> Str("x"), "descriptor" :> Null, "code" :> Str("c"),
   "code" :> Str("c") @@ "expectedSemanticDigest" :> Str("d"), "code" :> Str("") @@ "expectedSemanticDigest" :> Str("d"),
   "code" :> Str("c") @@ "descriptorBytes" :> Num(-1), "more" :> Null}
Statuses == {"matched", "resolved", "not_modified", "mismatch", "unsupported", "unavailable", "too_large", "what"}
MCReplies ==
  {<<"json", ReplyOf(tag, member, status, more)>> :
     tag \in {"spec_validated", "register_error", "step_ok"},
     member \in {"result" :> Str("valid") @@ "error" :> Str("e"), "result" :> Invalid @@ "error" :> Str("e")},
     status \in Statuses, more \in Extras}
    \cup {<<l, ReplyOf("spec_validated", "result" :> Str("valid"), "matched", "semanticDigest" :> Str("d")
                         @@ "descriptorSchema" :> Str("descriptor/v1"))>> : l \in {"json", "repeated"}}
    \cup {<<"garbage">>, <<"overflow">>, <<"json", Null>>,
          <<"json", Obj("proto_step" :> Str("spec_validated") @@ "result" :> Str("valid"))>>,
          <<"json", Obj("proto_step" :> Str("spec_validated") @@ "result" :> Str("valid") @@
                        "deep" :> Arr(<<Arr(<<Arr(<<Arr(<<Arr(<<>>)>>)>>)>>)>>))>>}

MCAdapterKeys == [digest : {"d", "e"}, id : {"a"}, profile : {"p", "q"}, contract : {"c", "v"}]

---------------------------------------------------------------------------
Clause(tokens, imports) == [tokens |-> tokens, imports |-> imports]
MCWordChars == {"EXTENDS", "INSTANCE", "LOCAL", "A", "B", "X"}
MCClauses ==
  {Clause(<<"EXTENDS", "A">>, <<"A">>), Clause(<<"EXTENDS", "A", ",", "B", ",", "A">>, <<"A", "B", "A">>),
   Clause(<<"LOCAL", "INSTANCE", "B">>, <<"B">>), Clause(<<"X", "=", "=", "INSTANCE", "A", "X", "<", "-", "B">>, <<"A">>),
   Clause(<<"X", "(", "A", ",", "B", ")", "*", "B">>, <<>>), Clause(<<"X", "\\", "/", "B">>, <<>>)}
MCGaps ==
  {<<" ">>, <<"\n">>, <<"(", "*", "*", ")">>, <<"\\", "*", "A", "\n">>, <<"\"", "(", "*", "\"">>, <<"\"", "\\", "\\", "\"">>}
MCNoise == MCGaps \cup
  {<<"(", "*", " ", "EXTENDS", " ", "A", "*", ")">>,
   <<"(", "*", "(", "*", "*", ")", "INSTANCE", " ", "B", "\"", "*", ")">>,
   <<"(", "*", ")", "\\", "*", " ", "*", "*", ")">>,
   <<"\\", "*", "\"", "(", "*", " ", "EXTENDS", "\n">>,
   <<"\\", "*", "*", ")", "INSTANCE", "\n">>,
   <<"\"", "\\", "\"", "EXTENDS", " ", "B", "\"">>,
   <<"\"", "\\", "*", "\"">>}
=============================================================================

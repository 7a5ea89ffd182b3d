--------------------------- MODULE ModelInterface ---------------------------
(***************************************************************************)
(* src/model_interface.cpp: what is admitted as a contract, as a reply to  *)
(* a negotiated registration and as its failure, and which compiled        *)
(* adapter a key resolves to.  Documents are those of ItfValue.  The       *)
(* limits of the code are constants.                                       *)
(***************************************************************************)
EXTENDS MessageCodec, SequencesExt

CONSTANTS
  Limit,         \* the limits of the code, by name
  LongStrings,   \* strings of more than 256 bytes
  Digests        \* the texts parse_wire_semantic_digest accepts

\* 32, 8192, 128, 128, 16, 128, 32, 32, 256 and 1024 in the code.
LimitNames ==
  {"depth", "nodes", "literal", "nesting", "aliases", "inputs", "path", "initializers", "actions",
   "observations"}
ASSUME LimitsAssumption == Limit \in [LimitNames -> Nat]

Rejected == -1
Keys(j) == IF j[1] = "obj" THEN DOMAIN j[2] ELSE {}
\* exact_object: the required members, and only allowed ones.
Exact(j, required, optional) ==
  j[1] = "obj" /\ required \subseteq DOMAIN j[2] /\ DOMAIN j[2] \subseteq required \cup optional
IsStr(j) == j[1] = "str"
ShortStr(j) == IF j[1] = "str" THEN j[2] \notin LongStrings ELSE FALSE
Nothing(j) == j[1] \in {"null", "absent"}
KindOf(j) == IF Member(j, "kind")[1] = "str" THEN j[2].kind[2] ELSE "none"

---------------------------------------------------------------------------
\* validate_model_type: the number of nodes counted so far, or Rejected.
LeafTypes == {"int", "bool", "str", "null"}
ListName(kind) == IF kind = "record" THEN "fields" ELSE "cases"
LabelName(kind) == IF kind = "record" THEN "wireName" ELSE "tag"
PayloadName(kind) == IF kind = "record" THEN "type" ELSE "payload"
\* A list of labelled types: labels are short, not empty and not repeated.
EntryShape(kind, e) == Exact(e, {LabelName(kind), PayloadName(kind)}, {}) /\ ShortStr(e[2][LabelName(kind)])
FreshLabel(kind, es, i) ==
  LET label(k) == es[k][2][LabelName(kind)]
  IN label(i) # Str("") /\ \A k \in 1 .. i - 1 : label(k) # label(i)

RECURSIVE ModelType(_, _, _)
\* The types ts in order, each counted on top of the ones before.
ModelTypes(ts, depth, nodes) ==
  FoldLeft(LAMBDA n, t : IF n = Rejected THEN n ELSE ModelType(t, depth, n), nodes, ts)
LabelledTypes(kind, es, depth, nodes) ==
  LET step(n, i) ==
        IF n # Rejected /\ EntryShape(kind, es[i]) /\ FreshLabel(kind, es, i)
          THEN ModelType(es[i][2][PayloadName(kind)], depth, n) ELSE Rejected
  IN FoldLeft(step, nodes, [i \in DOMAIN es |-> i])
ModelType(t, depth, nodes) ==
  IF depth >= Limit.depth \/ nodes + 1 > Limit.nodes \/ t[1] # "obj" THEN Rejected
  ELSE LET kind == KindOf(t)
           n == nodes + 1
       IN CASE kind \in LeafTypes -> IF Exact(t, {"kind"}, {}) THEN n ELSE Rejected
            [] kind \in {"set", "seq"} ->
                 IF Exact(t, {"kind", "element"}, {}) THEN ModelType(t[2].element, depth + 1, n) ELSE Rejected
            [] kind = "tuple" ->
                 IF Exact(t, {"kind", "elements"}, {}) /\ Member(t, "elements")[1] = "arr"
                   THEN ModelTypes(t[2].elements[2], depth + 1, n) ELSE Rejected
            [] kind \in {"record", "variant"} ->
                 IF Exact(t, {"kind", ListName(kind)}, {}) /\ Member(t, ListName(kind))[1] = "arr"
                   THEN LabelledTypes(kind, t[2][ListName(kind)][2], depth + 1, n) ELSE Rejected
            [] kind = "map" ->
                 IF Exact(t, {"kind", "key", "value"}, {})
                   THEN ModelTypes(<<t[2].key, t[2].value>>, depth + 1, n) ELSE Rejected
            [] kind = "opaqueItf" ->
                 IF Exact(t, {"kind", "description"}, {}) /\ ShortStr(Member(t, "description"))
                   THEN n ELSE Rejected
            [] kind \notin LeafTypes \cup {"set", "seq", "tuple", "record", "variant", "map", "opaqueItf"} ->
                 Rejected

---------------------------------------------------------------------------
\* validate_literal.
RECURSIVE Literal(_, _)
LiteralMembers(kind) ==
  CASE kind = "null" -> {} [] kind \in {"int", "bool", "str"} -> {"value"}
    [] kind \in {"set", "seq", "tuple"} -> {"values"} [] kind = "record" -> {"fields"}
    [] kind = "map" -> {"entries"} [] kind = "variant" -> {"tag", "payload"}
LiteralKinds == {"null", "int", "bool", "str", "set", "seq", "tuple", "record", "map", "variant"}
LiteralEntry(kind, e, depth) ==
  /\ Exact(e, {IF kind = "record" THEN "name" ELSE "key", "value"}, {})
  /\ IF kind = "record" THEN IsStr(e[2].name) ELSE Literal(e[2].key, depth)
  /\ Literal(e[2].value, depth)
Literal(j, depth) ==
  LET kind == IF j[1] = "obj" THEN KindOf(j) ELSE "none"
  IN /\ depth < Limit.literal /\ kind \in LiteralKinds
     /\ Exact(j, {"kind"} \cup LiteralMembers(kind), {})
     /\ CASE kind = "null" -> TRUE
          [] kind = "bool" -> j[2].value[1] = "bool"
          [] kind = "str" -> IsStr(j[2].value)
          [] kind = "int" -> IsStr(j[2].value) /\ j[2].value[2] \in DOMAIN Numerals
          [] kind \in {"set", "seq", "tuple"} ->
               /\ j[2].values[1] = "arr"
               /\ \A i \in DOMAIN j[2].values[2] : Literal(j[2].values[2][i], depth + 1)
          [] kind \in {"record", "map"} ->
               LET es == IF kind = "record" THEN j[2].fields ELSE j[2].entries
               IN es[1] = "arr" /\ \A i \in DOMAIN es[2] : LiteralEntry(kind, es[2][i], depth + 1)
          [] kind = "variant" -> IsStr(j[2].tag) /\ Literal(j[2].payload, depth + 1)

\* validate_path_segment.
Segment(j) ==
  \/ \E key \in {"field", "variantValue"} : Keys(j) = {key} /\ ShortStr(j[2][key])
  \/ Keys(j) = {"index"} /\ j[2].index[1] = "int" /\ j[2].index[2] >= 0
  \/ Keys(j) = {"mapKey"} /\ Literal(j[2].mapKey, 0)

\* validate_contract_action and validate_contract.
InputShape(j) ==
  /\ Exact(j, {"id", "from"}, {"expectedType"}) /\ ShortStr(j[2].id)
  /\ Exact(j[2].from, {"root", "path"}, {})
  /\ Member(j[2].from, "root") \in {Str("initialState"), Str("stepParameters")}
  /\ j[2].from[2].path[1] = "arr" /\ Len(j[2].from[2].path[2]) <= Limit.path
  /\ \A i \in DOMAIN j[2].from[2].path[2] : Segment(j[2].from[2].path[2][i])
ActionShape(j) ==
  /\ Exact(j, {"id", "wireAction", "wireAliases", "inputs"}, {})
  /\ ShortStr(j[2].id) /\ ShortStr(j[2].wireAction)
  /\ j[2].wireAliases[1] = "arr" /\ Len(j[2].wireAliases[2]) <= Limit.aliases
  /\ j[2].inputs[1] = "arr" /\ Len(j[2].inputs[2]) <= Limit.inputs
  /\ \A i \in DOMAIN j[2].wireAliases[2] : ShortStr(j[2].wireAliases[2][i])
ObservationShape(j) ==
  /\ Exact(j, {"id", "wireName", "provenance"}, {"expectedType"})
  /\ ShortStr(j[2].id) /\ ShortStr(j[2].wireName)
  /\ j[2].provenance \in {Str("implementation"), Str("oracle"), Str("derived")}
ContractMembers == {"schema", "interfaceVersion", "model", "wire", "initializers", "actions", "observations"}
HeadShape(j) ==
  /\ Exact(j, ContractMembers, {}) /\ j[2].schema = Str("contract/v1") /\ ShortStr(j[2].interfaceVersion)
  /\ Exact(j[2].model, {"module", "source"}, {}) /\ ShortStr(j[2].model[2].module) /\ ShortStr(j[2].model[2].source)
  /\ Exact(j[2].wire, {"actionVariable", "parameterVariable"}, {}) /\ ShortStr(j[2].wire[2].actionVariable)
  /\ Nothing(j[2].wire[2].parameterVariable) \/ ShortStr(j[2].wire[2].parameterVariable)
  /\ \A k \in {"initializers", "actions", "observations"} : j[2][k][1] = "arr" /\ Len(j[2][k][2]) <= Limit[k]

CountAlone(shaped, j, n) ==   \* mutant: every type has the whole number of nodes to itself
  IF n = Rejected \/ ~shaped THEN Rejected
  ELSE IF Nothing(Member(j, "expectedType")) THEN n ELSE ModelType(j[2].expectedType, 0, 0)
\* The type of an input or an observation is counted after its other members.
CountItem(shaped, j, n) ==
  IF n = Rejected \/ ~shaped THEN Rejected
  ELSE IF Nothing(Member(j, "expectedType")) THEN n ELSE ModelType(j[2].expectedType, 0, n)
CountInput(n, j) == CountItem(InputShape(j), j, n)
CountObservation(n, j) == CountItem(ObservationShape(j), j, n)
CountAction(n, j) ==
  IF n = Rejected \/ ~ActionShape(j) THEN Rejected ELSE FoldLeft(CountInput, n, j[2].inputs[2])
Contract(j) ==
  /\ HeadShape(j)
  /\ LET initializers == FoldLeft(CountAction, 0, j[2].initializers[2])
         actions == FoldLeft(CountAction, initializers, j[2].actions[2])
     IN FoldLeft(CountObservation, actions, j[2].observations[2]) # Rejected

---------------------------------------------------------------------------
\* strict_parse: <<"json", document>> without repeated keys and not nested too deep;
\* <<"repeated", document>> is a text whose repeated keys leave that document.
RECURSIVE Nesting(_)
Nesting(j) ==
  IF j[1] \notin {"arr", "obj"} THEN 0
  ELSE 1 + Max({0} \cup {Nesting(j[2][k]) : k \in DOMAIN j[2]})
StrictlyParsed(line) == IF line[1] = "json" THEN Nesting(line[2]) <= Limit.nesting ELSE FALSE

\* decode_reply and decode_failure: what a verify client admits, by status.
DigestField(j) == IF Nothing(j) THEN TRUE ELSE IF IsStr(j) THEN j[2] \in Digests ELSE FALSE
Has(j, key) == ~Nothing(Member(j, key))
ReplyAdmitted(x) ==
  /\ Exact(x, {"schema", "status"},
           {"descriptorSchema", "semanticDigest", "provenanceDigest", "descriptorBytes", "descriptor"})
  /\ x[2].schema = Str("negotiation/v1") /\ IsStr(x[2].status)
  /\ DigestField(Member(x, "semanticDigest")) /\ DigestField(Member(x, "provenanceDigest"))
  /\ Has(x, "descriptorSchema") => IsStr(x[2].descriptorSchema)
  /\ ~Has(x, "descriptor") /\ ~Has(x, "descriptorBytes")
  /\ CASE x[2].status[2] = "matched" ->
            Member(x, "descriptorSchema") = Str("descriptor/v1") /\ Has(x, "semanticDigest")
       [] x[2].status[2] \in {"unsupported", "unavailable"} ->
            \A k \in {"descriptorSchema", "semanticDigest", "provenanceDigest"} : ~Has(x, k)
       [] x[2].status[2] = "mismatch" -> TRUE
       [] x[2].status[2] \notin {"matched", "unsupported", "unavailable", "mismatch"} -> FALSE
FailureAdmitted(x) ==
  /\ Exact(x, {"schema", "status", "code"},
           {"expectedSemanticDigest", "actualSemanticDigest", "provenanceDigest", "descriptorBytes"})
  /\ x[2].schema = Str("negotiation/v1") /\ IsStr(x[2].code) /\ x[2].code # Str("")
  /\ x[2].status \in {Str("mismatch"), Str("unsupported"), Str("unavailable")}
  /\ Has(x, "descriptorBytes") => x[2].descriptorBytes[1] = "int" /\ x[2].descriptorBytes[2] >= 0
  /\ \A k \in {"expectedSemanticDigest", "actualSemanticDigest", "provenanceDigest"} :
       DigestField(Member(x, k))
  /\ x[2].status = Str("mismatch") => Has(x, "expectedSemanticDigest")

\* decode_model_interface_registration_reply: the message and the extension it carries.
RegistrationReply(line) ==
  IF ~StrictlyParsed(line) THEN Bad
  ELSE LET message == DecodeMirrorMessage(line)
           x == Member(line[2], "modelInterface")
       IN IF Failed(message) THEN message
          ELSE IF Nothing(x) THEN <<"registered", message, NoField>>
          ELSE CASE message[2] = "spec_validated" ->
                      IF ReplyAdmitted(x) /\ message[3].result = <<"valid">>
                        THEN <<"registered", message, x[2].status>> ELSE Bad
                 [] message[2] = "register_error" ->
                      IF FailureAdmitted(x) THEN <<"registered", message, x[2].status>> ELSE Bad
                 [] message[2] \notin {"spec_validated", "register_error"} -> Bad

---------------------------------------------------------------------------
\* CompiledAdapterRegistry::resolve, for a sequence of keys.
ResolveAdapter(registered, key) ==
  LET exact == {i \in DOMAIN registered : registered[i] = key}
      identity == {i \in DOMAIN registered : registered[i].digest = key.digest /\ registered[i].id = key.id}
      target == {i \in identity : registered[i].profile = key.profile}
  IN CASE \E i, k \in exact : i # k -> <<"adapter_ambiguous">>
       [] \E i \in exact : exact = {i} -> <<"factory", CHOOSE i \in exact : TRUE>>
       [] exact = {} /\ identity # {} /\ target = {} -> <<"target_profile_mismatch">>
       [] exact = {} /\ target # {} -> <<"state_computer_contract_mismatch">>
       [] identity = {} -> <<"adapter_not_registered">>
=============================================================================

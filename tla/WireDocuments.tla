--------------------------- MODULE WireDocuments ---------------------------
(***************************************************************************)
(* The documents the client reads and writes, one at a time: values, lines *)
(* from a mirror, messages to it, contracts, negotiated replies, adapter   *)
(* registries and module texts.  The answer is what the code makes of the  *)
(* document; the properties compare it with what the document says.        *)
(***************************************************************************)
EXTENDS ModelInterface, ImportScan

CONSTANTS
  Values,          \* values to compare, encode and decode
  Trees,           \* JSON documents to decode as values
  MirrorMessages,  \* documents of well-formed mirror messages, with the message they say
  Lines,           \* other lines from a mirror
  ClientMessages,  \* messages to the mirror: <<name, members>>
  Contracts,       \* contracts of generated bindings
  Replies,         \* negotiated registration replies
  AdapterKeys,     \* keys of compiled adapters: [digest, id, profile, contract]
  Clauses,         \* pieces of TLA+ code: [tokens, imports]
  Noise,           \* comments, strings and blanks, as characters
  Gaps             \* the short ones of them, which may follow any token

VARIABLES doc, answer
documentVars == <<doc, answer>>

Pending == <<"pending">>
Texts == UNION {[1 .. n -> Clauses] : n \in 0 .. 2}
Registries == UNION {[1 .. n -> AdapterKeys] : n \in 0 .. 3}
DocumentInit ==
  /\ answer = Pending
  /\ \/ \E v, w \in Values : doc = <<"values", v, w>>
     \/ \E j \in Trees : doc = <<"tree", j>>
     \/ \E m \in MirrorMessages : doc = <<"message", m>>
     \/ \E l \in Lines : doc = <<"line", l>>
     \/ \E m, n \in ClientMessages : doc = <<"sent", m, n>>
     \/ \E c \in Contracts : doc = <<"contract", c>>
     \/ \E r \in Replies : doc = <<"reply", r>>
     \/ \E r \in Registries, k \in AdapterKeys : doc = <<"adapter", r, k>>
     \/ \E c \in Clauses, n \in Gaps, m \in Noise : doc = <<"text", <<c>>, n, m>>
     \/ \E t \in Texts, m \in Noise : doc = <<"text", t, <<" ">>, m>>

\* A text: its clauses, the first noise after each token and the second one, in
\* which the author may write anything, after each clause.
Rendered(clauses, noise, between) ==
  between \o FlattenSeq([i \in DOMAIN clauses |-> Spaced(clauses[i].tokens, noise) \o between])

Process ==
  CASE doc[1] = "values" -> <<ValueEq(doc[2], doc[3]), Decode(Encode(doc[2]))>>
    [] doc[1] = "tree" -> Decode(doc[2])
    [] doc[1] = "message" -> DecodeMirrorMessage(<<"json", doc[2].document>>)
    [] doc[1] = "line" -> DecodeMirrorMessage(doc[2])
    [] doc[1] = "sent" -> <<EncodeClientMessage(doc[2][1], doc[2][2]), EncodeClientMessage(doc[3][1], doc[3][2])>>
    [] doc[1] = "contract" -> <<"contract", Contract(doc[2])>>
    [] doc[1] = "reply" -> RegistrationReply(doc[2])
    [] doc[1] = "adapter" -> ResolveAdapter(doc[2], doc[3])
    [] doc[1] = "text" -> ImportNames(Rendered(doc[2], doc[3], doc[4]))
Handle == answer = Pending /\ answer' = Process /\ UNCHANGED doc
DocumentNext == Handle
DocumentSpec == DocumentInit /\ [][DocumentNext]_documentVars
Answered(kind) == answer # Pending /\ doc[1] = kind

---------------------------------------------------------------------------
\* Equality of values is equality of what they denote whenever no set lists an element
\* twice, at every depth; a value survives encode_value and decode_value exactly when
\* no record in it looks like a marker or a variant; and what decode_value accepts, it
\* accepts again after encode_value, with the same result (Value::operator==,
\* encode_value, decode_value).
ValuesExact ==
  /\ Answered("values") =>
       LET v == doc[2] w == doc[3]
       IN /\ DuplicateFree(v) /\ DuplicateFree(w) => (answer[1] <=> Meaning(v) = Meaning(w))
          /\ answer[2] = v <=> Unmistakable(v)
  /\ Answered("tree") => Failed(answer) \/ Decode(Encode(answer)) = answer

\* The document with one member left out, and with one of another JSON kind.
Damaged(j, k) ==
  {<<"obj", [m \in DOMAIN j[2] \ {k} |-> j[2][m]]>>, <<"obj", [j[2] EXCEPT ![k] = <<"bool", TRUE>>]>>}
\* A message to the mirror whose state, if it has one, is unmistakable.
Clear(m) ==
  "state" \in DOMAIN m[2] => \A k \in DOMAIN m[2].state[2] : Unmistakable(m[2].state[2][k])
\* Every message of the mirror is read as what it says, whatever other members it has;
\* without a member it needs, or with one of another kind, it is refused and not read
\* as some other message; two messages of the client that are written alike are the
\* same message, unless a state in them holds a record that looks like a marker
\* (decode_mirror_message, encode_client_message).  A number is read modulo Word into
\* the signed range.
MessagesExact ==
  /\ Answered("message") =>
       LET j == doc[2].document
       IN /\ answer = <<"message", doc[2].tag, doc[2].fields>>
          /\ DecodeMirrorMessage(<<"json", <<"obj", j[2] @@ "later" :> Null>>>>) = answer
          /\ \A k \in doc[2].needs : \A damaged \in Damaged(j, k) :
               DecodeMirrorMessage(<<"json", damaged>>) = Bad
  /\ Answered("line") /\ answer[1] = "message" /\ answer[2] = "explore_step_done" =>
       LET n == answer[3].stepNo[2]
       IN -Word <= 2 * n /\ 2 * n < Word /\ (n - doc[2][2][2].stepNo[2]) % Word = 0
  /\ Answered("sent") /\ Clear(doc[2]) /\ Clear(doc[3]) => (answer[1] = answer[2] <=> doc[2] = doc[3])

\* Reading one line from the mirror gives a message or an error, never an exception
\* (protocol.hpp:262 "Never throws: malformed JSON / unknown proto_step become
\* Error{json, ...} / ProtocolError{...}").
DecodeNeverThrows == Answered("line") => answer # Thrown

---------------------------------------------------------------------------
\* What a model type is, without counting: its parts, shape, size and depth.
TypeMembers ==
  [k \in LeafTypes |-> {}] @@ [k \in {"set", "seq"} |-> {"element"}] @@ "tuple" :> {"elements"}
    @@ "record" :> {"fields"} @@ "variant" :> {"cases"} @@ "map" :> {"key", "value"}
    @@ "opaqueItf" :> {"description"}
LocallyShaped(t) ==
  /\ t[1] = "obj" /\ KindOf(t) \in DOMAIN TypeMembers
  /\ DOMAIN t[2] = {"kind"} \cup TypeMembers[KindOf(t)]
  /\ CASE KindOf(t) = "tuple" -> t[2].elements[1] = "arr"
       [] KindOf(t) \in {"record", "variant"} ->
            LET es == t[2][ListName(KindOf(t))]
                label(i) == es[2][i][2][LabelName(KindOf(t))]
            IN /\ es[1] = "arr" /\ \A i \in DOMAIN es[2] : EntryShape(KindOf(t), es[2][i])
               /\ \A i, k \in DOMAIN es[2] : label(i) # Str("") /\ (label(i) = label(k) => i = k)
       [] KindOf(t) = "opaqueItf" -> ShortStr(t[2].description)
       [] OTHER -> TRUE
SubTypes(t) ==
  CASE KindOf(t) \in {"set", "seq"} -> <<t[2].element>>
    [] KindOf(t) = "tuple" -> t[2].elements[2]
    [] KindOf(t) \in {"record", "variant"} ->
         LET es == t[2][ListName(KindOf(t))][2]
         IN [i \in DOMAIN es |-> es[i][2][PayloadName(KindOf(t))]]
    [] KindOf(t) = "map" -> <<t[2].key, t[2].value>>
    [] OTHER -> <<>>
RECURSIVE Shaped(_), Size(_), Depth(_)
Shaped(t) == LocallyShaped(t) /\ \A i \in DOMAIN SubTypes(t) : Shaped(SubTypes(t)[i])
Size(t) == FoldLeft(LAMBDA n, s : n + Size(s), 1, SubTypes(t))
Depth(t) == 1 + Max({0} \cup {Depth(SubTypes(t)[i]) : i \in DOMAIN SubTypes(t)})

Inputs(c) ==
  FlattenSeq([i \in DOMAIN c[2].initializers[2] |-> c[2].initializers[2][i][2].inputs[2]])
    \o FlattenSeq([i \in DOMAIN c[2].actions[2] |-> c[2].actions[2][i][2].inputs[2]])
Typed(items) == SelectSeq(items, LAMBDA x : Has(x, "expectedType"))
TypesOf(c) ==
  LET typed == Typed(Inputs(c)) \o Typed(c[2].observations[2])
  IN [i \in DOMAIN typed |-> typed[i][2].expectedType]
ItemsShaped(c) ==
  /\ \A k \in {"initializers", "actions"} : \A i \in DOMAIN c[2][k][2] : ActionShape(c[2][k][2][i])
  /\ \A i \in DOMAIN Inputs(c) : InputShape(Inputs(c)[i])
  /\ \A i \in DOMAIN c[2].observations[2] : ObservationShape(c[2].observations[2][i])
WithinLimits(types) ==
  /\ \A i \in DOMAIN types : Shaped(types[i]) /\ Depth(types[i]) <= Limit.depth
  /\ FoldLeft(LAMBDA n, t : n + Size(t), 0, types) <= Limit.nodes

\* How far a registered key agrees with the wanted one.
Agreement(k, key) ==
  IF <<k.digest, k.id>> # <<key.digest, key.id>> THEN 0
  ELSE IF k.profile # key.profile THEN 1 ELSE IF k.contract # key.contract THEN 2 ELSE 3
Blame == <<"adapter_not_registered", "target_profile_mismatch", "state_computer_contract_mismatch">>
AdapterExact ==
  LET best == Max({0} \cup {Agreement(doc[2][i], doc[3]) : i \in DOMAIN doc[2]})
      exact == {i \in DOMAIN doc[2] : doc[2][i] = doc[3]}
  IN IF best < 3 THEN answer = <<Blame[best + 1]>>
     ELSE IF Cardinality(exact) > 1 THEN answer = <<"adapter_ambiguous">>
     ELSE \E i \in exact : answer = <<"factory", i>>

\* A contract is admitted exactly when it has the right shape, no type in it is nested
\* deeper than the limit and all its types together stay within the number of nodes,
\* wherever in the contract they are; a negotiated reply carries an extension only on a
\* valid registration or a registration error, and a matched one names the digest; an
\* adapter is used only when it is the one registration of exactly its key, and the
\* error otherwise names the first part of the key in which the nearest registration
\* differs (validate_contract, validate_model_type,
\* decode_model_interface_registration_reply, CompiledAdapterRegistry::resolve).
AdmissionExact ==
  /\ Answered("contract") =>
       (answer[2] <=> HeadShape(doc[2]) /\ ItemsShaped(doc[2]) /\ WithinLimits(TypesOf(doc[2])))
  /\ Answered("reply") /\ ~Failed(answer) /\ answer[3] # NoField =>
       LET x == doc[2][2][2].modelInterface[2]
           message == answer[2]
       IN /\ message[2] = "spec_validated" => message[3].result = <<"valid">>
          /\ answer[3] = Str("matched") => message[2] = "spec_validated" /\ x.semanticDigest[2] \in Digests
          /\ answer[3] = Str("mismatch") /\ message[2] = "register_error" =>
               x.expectedSemanticDigest[2] \in Digests
          /\ "descriptor" \in DOMAIN x => x.descriptor = Null
  /\ Answered("adapter") => AdapterExact

\* The names found in a text are those its EXTENDS and INSTANCE clauses import, in
\* order, whatever stands in its comments and strings: other clauses, quotes, escaped
\* quotes, nested or unbalanced comment marks (dependency_tokens, import_names).
ImportsExact ==
  Answered("text") => answer = FlattenSeq([i \in DOMAIN doc[2] |-> doc[2][i].imports])
=============================================================================

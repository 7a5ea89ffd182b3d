------------------------------ MODULE ItfValue ------------------------------
(***************************************************************************)
(* Value and the ITF codec of src/value.cpp.  A value is a tuple that      *)
(* starts with its kind: <<"int", n>>, <<"set", elements>>, <<"map",       *)
(* entries>>, <<"variant", tag, value>> and so on; sets and maps are the   *)
(* vectors the code keeps.  A JSON document is such a tuple too, <<"obj",  *)
(* members>> and <<"arr", elements>>; a number that is not an integer is   *)
(* <<"real", n>> when integral and <<"real">> when not.                    *)
(***************************************************************************)
EXTENDS Integers, Sequences, TLC

CONSTANT Numerals    \* the texts that are a sign and digits: text -> [minus, digits]

Null == <<"null">>
Bad == <<"bad">>         \* JsonError
Thrown == <<"thrown">>   \* any other exception

---------------------------------------------------------------------------
\* Value::operator==.
RECURSIVE ValueEq(_, _)
ValueEq(v, w) ==
  /\ v[1] = w[1] /\ Len(v) = Len(w)
  /\ CASE v[1] = "set" ->
            /\ Len(v[2]) = Len(w[2])
            /\ \A i \in DOMAIN v[2] : \E j \in DOMAIN w[2] : ValueEq(v[2][i], w[2][j])
       [] v[1] \in {"seq", "tuple", "record"} ->
            DOMAIN v[2] = DOMAIN w[2] /\ \A i \in DOMAIN v[2] : ValueEq(v[2][i], w[2][i])
       [] v[1] = "map" ->
            /\ Len(v[2]) = Len(w[2])
            /\ \A i \in DOMAIN v[2] : \A s \in {1, 2} : ValueEq(v[2][i][s], w[2][i][s])
       [] v[1] = "variant" -> v[2] = w[2] /\ ValueEq(v[3], w[3])
       [] v[1] \in {"null", "int", "bool", "str", "unserializable"} -> v = w

---------------------------------------------------------------------------
\* encode_value.
Marker(name, payload) == <<"obj", name :> payload>>
RECURSIVE Encode(_)
EncodeAll(vs) == <<"arr", [i \in DOMAIN vs |-> Encode(vs[i])]>>
Encode(v) ==
  CASE v[1] \in {"null", "bool", "str"} -> v
    [] v[1] = "int" -> Marker("#bigint", <<"str", ToString(v[2])>>)
    [] v[1] = "set" -> Marker("#set", EncodeAll(v[2]))
    [] v[1] = "seq" -> EncodeAll(v[2])
    [] v[1] = "tuple" -> Marker("#tup", EncodeAll(v[2]))
    [] v[1] = "record" -> <<"obj", [k \in DOMAIN v[2] |-> Encode(v[2][k])]>>
    [] v[1] = "map" ->
         Marker("#map", <<"arr", [i \in DOMAIN v[2] |-> EncodeAll(v[2][i])]>>)
    [] v[1] = "variant" -> <<"obj", "tag" :> <<"str", v[2]>> @@ "value" :> Encode(v[3])>>
    [] v[1] = "unserializable" -> Marker("#unserializable", <<"str", v[2]>>)

---------------------------------------------------------------------------
\* cpp_int from a checked digit string: a leading zero makes it octal, and then 8
\* and 9 are no digits.
PlaceValue(digits, radix) ==
  LET value[i \in 0 .. Len(digits)] == IF i = 0 THEN 0 ELSE radix * value[i - 1] + digits[i]
  IN value[Len(digits)]
CppInt(digits) ==
  LET octal == digits[1] = 0
  IN IF octal /\ \E i \in DOMAIN digits : digits[i] > 7 THEN Thrown
     ELSE <<"int", PlaceValue(digits, IF octal THEN 8 ELSE 10)>>

\* decode_bigint: text is empty, an optional sign and digits, or malformed.
DecodeBigint(text) ==
  CASE text = "" -> Null
    [] text \in DOMAIN Numerals ->
         LET n == CppInt(Numerals[text].digits)
         IN IF n # Thrown /\ Numerals[text].minus THEN <<"int", -n[2]>> ELSE n
    [] text \notin DOMAIN Numerals \cup {""} -> Bad

Failed(v) == v \in {Bad, Thrown}
\* A failure of a decoded part, or the value built from all of them.  Which one of
\* several different exceptions comes first is not told.
Build(parts, value) ==
  IF \E i \in DOMAIN parts : Failed(parts[i])
    THEN parts[CHOOSE i \in DOMAIN parts : Failed(parts[i])] ELSE value

HasMarker(j, name, kind) ==   \* mutant: other members do not matter
  IF name \in DOMAIN j[2] THEN j[2][name][1] = kind ELSE FALSE
\* An object with exactly this one member, of this JSON kind.
IsMarker(j, name, kind) == DOMAIN j[2] = {name} /\ j[2][name][1] = kind

\* decode_value.
RECURSIVE Decode(_)
DecodeAll(js) == [i \in DOMAIN js |-> Decode(js[i])]
DecodeEntry(j) ==
  IF j[1] # "arr" THEN Bad ELSE IF Len(j[2]) # 2 THEN Bad
  ELSE LET kv == DecodeAll(j[2]) IN Build(kv, kv)
DecodeObject(j) ==
  CASE IsMarker(j, "#bigint", "str") -> DecodeBigint(j[2]["#bigint"][2])
    [] IsMarker(j, "#tup", "arr") -> LET vs == DecodeAll(j[2]["#tup"][2]) IN Build(vs, <<"tuple", vs>>)
    [] IsMarker(j, "#set", "arr") -> LET vs == DecodeAll(j[2]["#set"][2]) IN Build(vs, <<"set", vs>>)
    [] IsMarker(j, "#map", "arr") ->
         LET es == [i \in DOMAIN j[2]["#map"][2] |-> DecodeEntry(j[2]["#map"][2][i])]
         IN Build(es, <<"map", es>>)
    [] IsMarker(j, "#unserializable", "str") -> <<"unserializable", j[2]["#unserializable"][2]>>
    [] DOMAIN j[2] = {"tag", "value"} ->
         IF j[2].tag[1] # "str" THEN Bad
         ELSE LET v == Decode(j[2].value) IN IF Failed(v) THEN v ELSE <<"variant", j[2].tag[2], v>>
    [] OTHER -> LET vs == DecodeAll(j[2]) IN Build(vs, <<"record", vs>>)
Decode(j) ==
  CASE j[1] \in {"null", "bool", "str", "int"} -> j
    [] j[1] = "real" -> IF Len(j) = 1 THEN Bad ELSE <<"int", j[2]>>
    [] j[1] = "arr" -> LET vs == DecodeAll(j[2]) IN Build(vs, <<"seq", vs>>)
    [] j[1] = "obj" -> DecodeObject(j)

\* decode_state and encode_state: a state is a record that no marker can be.
DecodeState(j) ==
  IF j[1] # "obj" THEN Bad ELSE LET vs == DecodeAll(j[2]) IN Build(vs, <<"record", vs>>)
EncodeState(s) == <<"obj", [k \in DOMAIN s[2] |-> Encode(s[2][k])]>>

---------------------------------------------------------------------------
\* What a value denotes: a set is a set.
RECURSIVE Meaning(_)
Meaning(v) ==
  CASE v[1] = "set" -> <<"set", {Meaning(v[2][i]) : i \in DOMAIN v[2]}>>
    [] v[1] \in {"seq", "tuple", "record"} -> <<v[1], [i \in DOMAIN v[2] |-> Meaning(v[2][i])]>>
    [] v[1] = "map" -> <<"map", [i \in DOMAIN v[2] |-> <<Meaning(v[2][i][1]), Meaning(v[2][i][2])>>]>>
    [] v[1] = "variant" -> <<"variant", v[2], Meaning(v[3])>>
    [] OTHER -> v

RECURSIVE Parts(_)
Parts(v) ==
  {v} \cup CASE v[1] \in {"set", "seq", "tuple", "record"} -> UNION {Parts(v[2][i]) : i \in DOMAIN v[2]}
             [] v[1] = "map" -> UNION {Parts(v[2][i][1]) \cup Parts(v[2][i][2]) : i \in DOMAIN v[2]}
             [] v[1] = "variant" -> Parts(v[3])
             [] OTHER -> {}
\* No set inside v lists an element twice.
DuplicateFree(v) ==
  \A p \in Parts(v) : p[1] = "set" =>
    \A i, j \in DOMAIN p[2] : Meaning(p[2][i]) = Meaning(p[2][j]) => i = j
\* A record that is written the way another kind of value is written.
Imitates(r) ==
  \/ \E name \in {"#tup", "#set", "#map"} : DOMAIN r[2] = {name} /\ r[2][name][1] = "seq"
  \/ \E name \in {"#bigint", "#unserializable"} : DOMAIN r[2] = {name} /\ r[2][name][1] = "str"
  \/ DOMAIN r[2] = {"tag", "value"}
Unmistakable(v) == \A p \in Parts(v) : p[1] = "record" => ~Imitates(p)
=============================================================================

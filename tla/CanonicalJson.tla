--------------------------- MODULE CanonicalJson ---------------------------
(***************************************************************************)
(* canonical-json.ts: the text of a JSON value with the keys of every      *)
(* object in UTF-16 order, which actors use as the primary key of a        *)
(* payload.  JSON.stringify is the fast path, but a JavaScript object      *)
(* lists its array-index keys first, in numeric order, whatever order they *)
(* were inserted in: where that order differs, a second, recursive encoder *)
(* is taken.  A text is a sequence of tokens; what a leaf or a key looks   *)
(* like is left out.                                                       *)
(***************************************************************************)
EXTENDS Integers, Sequences, SequencesExt

CONSTANTS
    KeyOrder,     \* the object keys, in UTF-16 order
    IndexOrder,   \* those that are array indices, in numeric order
    Documents,    \* the values that payloads hold, with all their parts
    Nesting       \* how deep each of them nests

ASSUME KeyAssumption ==
    /\ KeyOrder \in Seq(ToSet(KeyOrder)) /\ IndexOrder \in Seq(ToSet(KeyOrder))
    /\ "}" \notin ToSet(KeyOrder)

\* JSON values.
Leaf(token) == [kind |-> "leaf", token |-> token]
Array(items) == [kind |-> "array", items |-> items]
Object(entries) == [kind |-> "object", entries |-> entries]

Brackets == {"[", "]", "{", "}"}

IsJson(value) ==
    \/ value.kind = "leaf" /\ value = Leaf(value.token) /\ value.token \notin Brackets
    \/ value.kind = "array" /\ value = Array(value.items) /\ value.items \in Seq(Documents)
    \/ /\ value.kind = "object" /\ value = Object(value.entries)
       /\ value.entries \in [DOMAIN value.entries -> Documents]
       /\ DOMAIN value.entries \subseteq ToSet(KeyOrder)

Parts(json) ==
    CASE json.kind = "leaf" -> {}
      [] json.kind = "array" -> ToSet(json.items)
      [] json.kind = "object" -> {json.entries[k] : k \in DOMAIN json.entries}

ASSUME DocumentsAssumption ==
    /\ Nesting \in [Documents -> Nat]
    /\ \A json \in Documents :
          IsJson(json) /\ \A part \in Parts(json) : Nesting[part] < Nesting[json]

\* Those of the keys that are in an order, in that order.
Listed(order, keys) ==
    FlattenSeq([i \in DOMAIN order |-> IF order[i] \in keys THEN <<order[i]>> ELSE <<>>])

Sorted(keys) == Listed(KeyOrder, keys)

isArrayIndexKey(key) == key \in ToSet(IndexOrder)

\* The order a JavaScript object built from sorted keys lists them in.
RuntimeKeys(keys) == Listed(IndexOrder, keys) \o Sorted(keys \ ToSet(IndexOrder))

\* Which of two array indices is less.
Below(key, other) ==
    \E i, j \in DOMAIN IndexOrder : i < j /\ IndexOrder[i] = key /\ IndexOrder[j] = other

\* Exact encoding sorts at every object, native encoding lists what it finds.
KeysOf(value, exact) ==
    IF exact THEN Sorted(DOMAIN value.entries) ELSE RuntimeKeys(DOMAIN value.entries)

\* The text of a value, from the texts of its parts.
Text(text, value, exact) ==
    CASE value.kind = "leaf" -> <<value.token>>
      [] value.kind = "array" ->
            <<"[">> \o FlattenSeq([i \in DOMAIN value.items |-> text[value.items[i]]]) \o <<"]">>
      [] value.kind = "object" ->
            LET keys == KeysOf(value, exact)
            IN <<"{">> \o FlattenSeq([i \in DOMAIN keys |->
                                        <<keys[i]>> \o text[value.entries[keys[i]]]])
                       \o <<"}">>

Encode(json, exact) ==
    LET text[value \in Documents] == Text(text, value, exact)
    IN text[json]

canonicalJsonStringExact(json) == Encode(json, TRUE)

nativeJsonString(json) == Encode(json, FALSE)

\* The early test looks at the outermost object only.
hasNativeKeyOrderConflict(json) ==
    /\ json.kind = "object"
    /\ LET keys == Sorted(DOMAIN json.entries)
       IN \E i, j \in DOMAIN keys :
            /\ i < j /\ isArrayIndexKey(keys[j])
            /\ ~isArrayIndexKey(keys[i]) \/ Below(keys[j], keys[i])

\* orderJsonObject compares the order of the keys at every depth.
exactEncodingRequired(json) ==
    LET required[value \in Documents] ==
            \/ \E part \in Parts(value) : required[part]
            \/ /\ value.kind = "object"
               /\ RuntimeKeys(DOMAIN value.entries) # Sorted(DOMAIN value.entries)
    IN required[json]

\* The fast path, unless either test finds an object whose order it would change.
canonicalJsonString(json) ==
    IF hasNativeKeyOrderConflict(json) \/ exactEncodingRequired(json)
      THEN canonicalJsonStringExact(json)
      ELSE nativeJsonString(json)

=============================================================================

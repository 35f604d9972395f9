--------------------------- MODULE MCActorRuntime --------------------------
EXTENDS ActorRuntime

CONSTANTS a1, a2, c1, c2

\* "-" sorts before the digits and "a" after them; two keys are array indices.
Keys == <<"-", "10", "9", "a">>
Indices == <<"9", "10">>

One == Leaf("1")
Two == Leaf("2")
Flat == {One, Two} \cup {Object(e) : e \in UNION {[ks -> {One, Two}] :
                                        ks \in SUBSET {"10", "9", "a"}}}
Docs == Flat \cup {Object([k \in {"a"} |-> d]) : d \in Flat}
             \cup {Object([k \in {"-", "9"} |-> d]) : d \in Flat}
             \cup {Array(<<One, d>>) : d \in Flat}

Depth[d \in Docs] ==
    IF Parts(d) = {} THEN 0 ELSE 1 + Max({Depth[part] : part \in Parts(d)})

\* The fast path of canonicalJsonString never shows: every document has the text
\* the recursive encoder gives it, and no two have the same.
ASSUME CanonicalTexts ==
    /\ \A d \in Docs : canonicalJsonString(d) = canonicalJsonStringExact(d)
    /\ Cardinality({canonicalJsonString(d) : d \in Docs}) = Cardinality(Docs)

Payload(own, id, parts, key, doc, at) ==
    [own |-> own, fields |-> [id |-> id, parts |-> parts, key |-> key, doc |-> doc,
                              at |-> at]]

Nested == Object([k \in {"a"} |-> Object([i \in {"10", "9"} |-> One])])

\* An id long enough for its hash to wrap; it wraps to a negative number.
Long == <<"x", "x", "x", "x", "x", "x">>

First == Payload("no tag", Long, <<<<"x", ":">>, <<"y">>>>, <<"k">>, Nested, 0)
Second == Payload("no tag", Long, <<<<"x">>, <<":", "y">>>>, <<"k", "nul">>, One, 1)
Third == Payload("Own", <<"x", "nul", "k">>, <<<<"%", "nul">>, <<"x">>, <<":">>>>, <<"x", "nul", "k">>,
                 Two, 0)

Made == {First, Second, Third}

\* Others that an observer may name, next to those in every way but one.
Named == Made \cup {[First EXCEPT !.fields.doc = Object([k \in {"a"} |->
                        Object([i \in {"10", "9"} |-> Two])])],
                    [Second EXCEPT !.fields.key = <<"k">>],
                    [Second EXCEPT !.fields.parts = <<<<"x", ":">>, <<"y">>>>]}

\* Of what a class or a tag may declare, each combination once.
Declared ==
    {d \in Definitions :
        /\ d.ownTag # "absent" => d.id = "string" /\ ~d.deliverAt /\ ~d.ownKey
                                    /\ ~d.ownDeliverAt /\ d.payload = "struct"
        /\ d.payload = "class" => d.id = "entityAndKey" /\ (d.ownKey \/ d.ownDeliverAt)
        /\ d.deliverAt => d.payload = "class" \/ d.id = "entityAndKey"}

Group(entityId) == IF Len(entityId) > 1 THEN "large" ELSE "small"

Codes ==
    [token \in {"x", "y", "k", "nul", ":", "%", "3A", "25", "00", "Op"} |->
        CASE token = "x" -> 120 [] token = "y" -> 121 [] token = "k" -> 107
          [] token = "nul" -> 0 [] token = ":" -> 58 [] token = "%" -> 37
          [] token = "3A" -> 13121 [] token = "25" -> 55357 [] token = "00" -> 12336
          [] token = "Op" -> 28537]

\* An id with a NUL is followed by no name of the operation here.
ASSUME NoIdHoldsTheTag

Symmetry == Permutations(Actors) \cup Permutations(Calls)

=============================================================================

----------------------------- MODULE Invocation ----------------------------
(***************************************************************************)
(* internal/invocation-compiler.ts and the two callers of it in actor.ts:  *)
(* what becomes of a payload on its way from the call of an operation to   *)
(* the handler, and which texts name the call.  Payloads take four forms:  *)
(* none, a struct (or its fields), a class, which may bring a primary key  *)
(* and a delivery time of its own, and an opaque schema, whose values have *)
(* no prototype to carry the key and travel in a carrier.                  *)
(*                                                                         *)
(* A payload is [own, fields]: own is its own _tag, or NoTag, and fields   *)
(* are id (a text), parts (a tuple of texts), key (a text), doc (a JSON    *)
(* value) and at (a time).                                                 *)
(***************************************************************************)
EXTENDS IdentityCodecs, CanonicalJson

NoTag == "no tag"
Defect == [defect |-> TRUE]

\* An operation: the form of its payload, what its id function returns, whether
\* it has deliverAt, and what its payload declares of its own.
Definitions ==
    {d \in [payload : {"none", "struct", "class", "opaque"},
            id : {"none", "string", "tuple", "entityAndKey", "canonical"},
            deliverAt : BOOLEAN, ownKey : BOOLEAN, ownDeliverAt : BOOLEAN,
            ownTag : {"absent", "required", "literal"}] :
        /\ d.ownKey \/ d.ownDeliverAt => d.payload = "class"
        /\ d.ownTag # "absent" => d.payload \in {"struct", "class"}
        /\ d.payload = "none" => d.id = "none"}

isOpaquePayload(d) == d.payload = "opaque"

\* The id function of a definition: a text stands for both the entity id and the
\* primary key, and the operation's name for an id function that is not there.
resolveId(d, tag, payload) ==
    LET both(text) == [entityId |-> text, primaryKey |-> text]
        keyed(key) == [entityId |-> payload.fields.id, primaryKey |-> key]
    IN CASE d.id = "none" -> both(<<tag>>)
         [] d.id = "string" -> both(payload.fields.id)
         [] d.id = "tuple" -> both(EncodeEntityId(payload.fields.parts))
         [] d.id = "entityAndKey" -> keyed(payload.fields.key)
         [] d.id = "canonical" -> keyed(canonicalJsonString(payload.fields.doc))

\* The operation the caller's payload becomes: its _tag replaces the payload's.
makeOperationValue(d, tag, payload) ==
    CASE isOpaquePayload(d) -> [tag |-> tag, payload |-> payload]
      [] d.payload = "none" -> [tag |-> tag]
      [] OTHER -> [tag |-> tag, fields |-> payload.fields]

ExecIdOf(d, tag, payload) ==
    LET identity == resolveId(d, tag, payload)
    IN EncodeExecId(identity.entityId, <<tag>>, identity.primaryKey)

compileInvocation(d, tag, payload) ==
    [operation |-> makeOperationValue(d, tag, payload),
     entityId |-> resolveId(d, tag, payload).entityId,
     execId |-> ExecIdOf(d, tag, payload)]

-----------------------------------------------------------------------------
(* The compiled payload schema of an operation.                            *)

Carrier(value) == [carried |-> value]

unwrapOpaquePayload(value) ==
    IF "carried" \in DOMAIN value THEN value.carried ELSE value

\* The constructor of a payload class drops what is not a field, gives a literal
\* _tag its default, and rejects a value without a required one.
Construct(d, own, fields) ==
    CASE d.ownTag = "absent" -> [own |-> NoTag, fields |-> fields]
      [] d.ownTag = "required" /\ own # NoTag -> [own |-> own, fields |-> fields]
      [] d.ownTag = "literal" /\ own \in {NoTag, "Own"} ->
            [own |-> "Own", fields |-> fields]
      [] OTHER -> Defect

\* The primary key of a wire payload: a class keeps the one it declares.
compiledPrimaryKey(d, tag, wire) ==
    IF d.ownKey THEN wire.fields.id
    ELSE resolveId(d, tag, unwrapOpaquePayload(wire)).primaryKey

Now == 0
OwnTime(payload) == payload.fields.at
DefinedTime(payload) == payload.fields.at + 1

\* Mutant: a class with a primary key is taken as it is.
keyedClassAsItIs(d, wire) ==
    CASE d.ownDeliverAt -> OwnTime(wire)
      [] d.payload # "none" /\ d.deliverAt /\ ~d.ownDeliverAt /\ ~d.ownKey ->
            DefinedTime(unwrapOpaquePayload(wire))
      [] OTHER -> Now

\* Mutant: the definition's delay comes on top of the class's own time.
addedTimes(d, wire) ==
    CASE d.ownDeliverAt /\ d.deliverAt -> OwnTime(wire) + DefinedTime(wire)
      [] d.ownDeliverAt /\ ~d.deliverAt -> OwnTime(wire)
      [] d.payload # "none" /\ d.deliverAt /\ ~d.ownDeliverAt ->
            DefinedTime(unwrapOpaquePayload(wire))
      [] OTHER -> Now

\* Its delivery time: the class's own, else deliverAt's; without a payload none.
compiledDeliverAt(d, wire) ==
    CASE d.ownDeliverAt -> OwnTime(wire)
      [] d.payload # "none" /\ d.deliverAt /\ ~d.ownDeliverAt ->
            DefinedTime(unwrapOpaquePayload(wire))
      [] OTHER -> Now

-----------------------------------------------------------------------------
(* The ways into the protocol, and out of it.                              *)

NoPayload == [own |-> NoTag, fields |-> "none"]

\* Client.send makes the wire payload from the operation without its _tag.
compileOutgoingRequest(d, operation) ==
    CASE d.payload = "none" -> NoPayload
      [] isOpaquePayload(d) -> Carrier(operation.payload)
      [] OTHER -> Construct(d, NoTag, operation.fields)

\* The ref of an actor passes the operation to the rpc client, which makes it.
rpcArg(d, operation) ==
    CASE d.payload = "none" -> NoPayload
      [] isOpaquePayload(d) -> Carrier(operation.payload)
      [] OTHER -> Construct(d, operation.tag, operation.fields)

\* The ref has the operation only: what it gives the id function for a payload.
payloadFromOperation(d, operation) ==
    CASE isOpaquePayload(d) -> unwrapOpaquePayload(operation.payload)
      [] d.payload = "none" -> NoPayload
      [] OTHER -> [own |-> operation.tag, fields |-> operation.fields]

\* The test mailbox makes a wire payload again from the one it is given.
remade(d, wire) == IF isOpaquePayload(d) THEN Carrier(wire) ELSE wire

\* Mutant: the handler is given the carrier.
carrierToHandler(d, tag, wire) ==
    CASE isOpaquePayload(d) -> [tag |-> tag, payload |-> wire]
      [] d.payload = "none" -> [tag |-> tag]
      [] OTHER -> [tag |-> IF wire.own = NoTag THEN tag ELSE wire.own,
                   fields |-> wire.fields]

\* transformHandlers: the operation a handler is given; a _tag of the payload
\* comes after the operation's and wins.
handlerOperation(d, tag, wire) ==
    CASE isOpaquePayload(d) -> [tag |-> tag, payload |-> unwrapOpaquePayload(wire)]
      [] d.payload = "none" -> [tag |-> tag]
      [] OTHER -> [tag |-> IF wire.own = NoTag THEN tag ELSE wire.own,
                   fields |-> wire.fields]

=============================================================================

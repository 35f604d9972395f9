---------------------------- MODULE ActorRuntime ---------------------------
(***************************************************************************)
(* Actors in one runtime (toLayer and toTestLayer of actor.ts) and the     *)
(* calls that go through it, from the operation handle to the handler, in  *)
(* the words of Invocation.  In a cluster a call is stored under its       *)
(* address and primary key, once, and delivered when its time has come; in *)
(* a test the mailbox hands it to the rpc client of the actor whose layer  *)
(* built the mailbox.  Each layer builds a Client of its own, but all of   *)
(* them are the same service: a program that merges the layers of several  *)
(* actors sees the last one.  Both actors have the same operation, so a    *)
(* call that reaches the wrong one is handled there.                       *)
(***************************************************************************)
EXTENDS Invocation, AddressResolver

CONSTANTS
    Actors,
    Calls,      \* concurrent calls
    Sent,       \* the payloads calls are made with
    Payloads,   \* the payloads an observer may name
    Offered,    \* the definitions of the operation, a subset of Definitions
    Modes,      \* "cluster", "test"
    MaxTime,    \* bound: the last time a delivery waits for
    Nobody

\* Each token has a code; so have the name of the operation and what codecs add.
Tag == "Op"
Tokens == DOMAIN charCode

ASSUME TokensAssumption == {Tag, Nul, Colon, Percent, "3A", "25", "00"} \subseteq Tokens
ASSUME OfferedAssumption == Offered \subseteq Definitions
ASSUME SentAssumption == Sent \subseteq Payloads
ASSUME ModesAssumption == Modes \subseteq {"cluster", "test"}
ASSUME NobodyAssumption == Nobody \notin Actors
ASSUME PayloadsAssumption ==
    \A p \in Payloads :
        /\ p = [own |-> p.own, fields |-> p.fields]
        /\ p.fields \in [id : Seq(Tokens), parts : Seq(Seq(Tokens)) \ {<<>>},
                         key : Seq(Tokens), doc : Documents, at : Nat]
ASSUME TimesAssumption == MaxTime \in Nat /\ \A p \in Sent : p.fields.at + 1 <= MaxTime

VARIABLES
    definition, \* of the operation both actors have
    mode,
    client,     \* client[a]: the actor whose mailbox a's Client sends to
    ambient,    \* the same of the Client a merged program sees
    captured,   \* captured[a]: the actor whose address a's handlers keep
    root,       \* root[a]: the registry a's runtime was built with
    call,       \* what each call asked for, and how it went
    stored,     \* requests in storage
    handled,    \* what handlers were given
    now

layers == <<client, ambient, captured, root>>
vars == <<definition, mode, layers, call, stored, handled, now>>

Paths == {"execute", "send", "refSend"}
NotCalled == [step |-> "idle"]

TypeOK ==
    /\ definition \in Offered /\ mode \in Modes /\ now \in 0..MaxTime
    /\ client \in [Actors -> Actors \cup {Nobody}]
    /\ captured \in [Actors -> Actors \cup {Nobody}]
    /\ root \in [Actors -> Actors \cup {Nobody}]
    /\ ambient \in Actors \cup {Nobody}
    /\ \A c \in Calls :
        \/ call[c] = NotCalled
        \/ /\ call[c].step \in {"called", "defect"}
           /\ call[c].actor \in Actors /\ call[c].given \in Sent
           /\ call[c].path \in Paths /\ call[c].merged \in BOOLEAN
    /\ \A row \in stored : row.address.entityType \in Actors /\ row.call \in Calls
                             /\ row.at \in 0..MaxTime
    /\ \A h \in handled : h.call \in Calls /\ h.actor \in Actors

Init ==
    /\ definition \in Offered /\ mode \in Modes /\ now = 0
    /\ client = [a \in Actors |-> Nobody]
    /\ captured = [a \in Actors |-> Nobody]
    /\ root = [a \in Actors |-> Nobody]
    /\ ambient = Nobody
    /\ call = [c \in Calls |-> NotCalled]
    /\ stored = {} /\ handled = {}

-----------------------------------------------------------------------------
(* The layers.                                                             *)

\* Mutant: the Client layer is built once for all actors.
sharedService(a) == IF ambient = Nobody THEN a ELSE ambient

\* The Client of a's runtime is built anew over a's own mailbox.
attachFreshService(a) == a

\* Mutant: the context of the outer handler is kept, with its address.
wholeContext(outer) == outer

\* What the build of an actor inside a handler of another one keeps of the
\* outer handler's address and registry: nothing.
omitLayerBuildContextExclusions(outer) == Nobody

\* a's layer is built, at the top or inside a handler of an actor.  The layers
\* at the top share one registry, one built in a handler has its own.
Assemble(a) ==
    \E outer \in {b \in Actors : client[b] # Nobody} \cup {Nobody} :
        /\ client[a] = Nobody
        /\ client' = [client EXCEPT ![a] = attachFreshService(a)]
        /\ ambient' = client'[a]
        /\ captured' = [captured EXCEPT ![a] = omitLayerBuildContextExclusions(outer)]
        /\ root' = [root EXCEPT ![a] = IF outer = Nobody THEN Nobody ELSE a]
        /\ UNCHANGED <<definition, mode, call, stored, handled, now>>

\* The address a handler reads and the registry it registers its state in: what
\* it captured shadows what the entity manager provides.
AddressSeen(a) == IF captured[a] = Nobody THEN a ELSE captured[a]
RegistrySeen(a) == root[AddressSeen(a)]

\* The registry the State service of a was built with.
stateRegistry(a) == root[a]

-----------------------------------------------------------------------------
(* The calls.                                                              *)

invocationOf(payload) == compileInvocation(definition, Tag, payload)

Wire(path, operation) ==
    IF path = "send" THEN compileOutgoingRequest(definition, operation)
                     ELSE rpcArg(definition, operation)

\* The handle answers with the ExecId of the invocation, a ref with one it
\* derives from the operation again.
ExecIdGiven(path, payload) ==
    LET invocation == invocationOf(payload)
        again == resolveId(definition, Tag,
                           payloadFromOperation(definition, invocation.operation))
    IN IF path # "refSend" THEN invocation.execId
       ELSE EncodeExecId(invocation.entityId, <<Tag>>, again.primaryKey)

Asks(c, a, path, payload, merged, step) ==
    call' = [call EXCEPT ![c] = [step |-> step, actor |-> a, given |-> payload,
                                 path |-> path, merged |-> merged,
                                 execId |-> ExecIdGiven(path, payload)]]

\* Storage keeps one request per address, tag and primary key.
Save(c, address, wire) ==
    LET key == compiledPrimaryKey(definition, Tag, wire)
        same(row) == /\ row.address.entityType = address.entityType
                     /\ row.address.entityId = address.entityId
                     /\ row.primaryKey = key
    IN stored' = IF \E row \in stored : same(row)
                   THEN stored
                   ELSE stored \cup
                     {[call |-> c, address |-> address, primaryKey |-> key,
                       wire |-> wire, at |-> compiledDeliverAt(definition, wire)]}

Handle(c, a, entityId, wire) ==
    handled' = handled \cup
        {[call |-> c, actor |-> a, self |-> AddressSeen(a),
          registry |-> RegistrySeen(a), entityId |-> entityId, when |-> now,
          operation |-> handlerOperation(definition, Tag, wire)]}

\* A Client sends with the resolver of its host, a producer's or a consumer's; a
\* rpc client is the cluster's.
InCluster(c, a, path, wire, entityId) ==
    /\ mode = "cluster"
    /\ \E resolver \in Resolvers :
        /\ path # "send" => resolver = "fromSharding"
        /\ Save(c, resolveEntity(resolver, a, entityId), wire)
    /\ UNCHANGED handled

\* The rpc client of a ref is its actor's; the mailbox is that of the Client.
InTest(c, a, path, wire, entityId, merged) ==
    /\ mode = "test"
    /\ IF path = "send"
         THEN Handle(c, IF merged THEN ambient ELSE client[a], entityId,
                     remade(definition, wire))
         ELSE Handle(c, a, entityId, wire)
    /\ UNCHANGED stored

Invoke(c, a, path, payload, merged) ==
    LET invocation == invocationOf(payload)
        wire == Wire(path, invocation.operation)
    IN /\ call[c] = NotCalled /\ client[a] # Nobody
       /\ merged => mode = "test" /\ path = "send"
       /\ IF wire = Defect
            THEN /\ Asks(c, a, path, payload, merged, "defect")
                 /\ UNCHANGED <<stored, handled>>
            ELSE /\ Asks(c, a, path, payload, merged, "called")
                 /\ \/ InCluster(c, a, path, wire, invocation.entityId)
                    \/ InTest(c, a, path, wire, invocation.entityId, merged)
       /\ UNCHANGED <<definition, mode, layers, now>>

\* A runner reads the shards there are and takes what its time has come for.
Deliver(row) ==
    /\ row.at <= now /\ row.address.shardId.id \in 1..shardsPerGroup
    /\ \A h \in handled : h.call # row.call
    /\ Handle(row.call, row.address.entityType, row.address.entityId, row.wire)
    /\ UNCHANGED <<definition, mode, layers, call, stored, now>>

Tick ==
    /\ mode = "cluster" /\ now < MaxTime
    /\ now' = now + 1
    /\ UNCHANGED <<definition, mode, layers, call, stored, handled>>

Next ==
    \/ \E a \in Actors : Assemble(a)
    \/ \E c \in Calls, a \in Actors, path \in Paths, payload \in Sent, merged \in BOOLEAN :
        Invoke(c, a, path, payload, merged)
    \/ \E row \in stored : Deliver(row)
    \/ Tick

Spec == Init /\ [][Next]_vars

-----------------------------------------------------------------------------
\* What a caller may count on when the payload has no _tag of its own, which the
\* protocol would mix up with the operation's.
Asked(c) ==
    CASE definition.ownDeliverAt -> OwnTime(call[c].given)
      [] definition.payload # "none" /\ definition.deliverAt /\ ~definition.ownDeliverAt ->
            DefinedTime(call[c].given)
      [] OTHER -> Now

RemadeOpaque(c) ==
    mode = "test" /\ call[c].path = "send" /\ isOpaquePayload(definition)

\* A handler is given the operation its caller made, whatever form the payload
\* has and whichever way it came; in a cluster never before the time the payload
\* or the definition asks for; and from the entity id it gets back the tuple
\* that the id was made of.  The test mailbox wraps an opaque payload twice.
HandledAsGiven ==
    \A h \in handled :
        LET given == call[h.call].given
        IN definition.ownTag = "absent" =>
            /\ RemadeOpaque(h.call) \/ h.operation = makeOperationValue(definition, Tag, given)
            /\ mode = "cluster" => h.when >= Asked(h.call)
            /\ definition.id = "tuple" => DecodeEntityId(h.entityId) = given.fields.parts

\* When two payloads name the same invocation.
SameIdentity(p, q) ==
    CASE definition.id = "none" -> TRUE
      [] definition.id = "string" -> p.id = q.id
      [] definition.id = "tuple" -> p.parts = q.parts
      [] definition.id = "entityAndKey" -> p.id = q.id /\ p.key = q.key
      [] definition.id = "canonical" -> p.id = q.id /\ p.doc = q.doc

\* An entity id may hold a NUL, and the ExecId then decodes to what follows it as
\* the tag.  Where that is the name of the operation, it reads as the ExecId of
\* another entity; none of the payloads has such an id.
NoIdHoldsTheTag ==
    \A d \in Offered, p \in Payloads :
        Has(resolveId(d, Tag, p).entityId, Nul) => DecodeExecId(ExecIdOf(d, Tag, p)).tag # <<Tag>>

Finds(execId, row) ==
    LET decoded == DecodeExecId(execId)
    IN /\ decoded.entityId = row.address.entityId /\ decoded.tag = <<Tag>>
       /\ decoded.primaryKey = row.primaryKey

\* A class that brings a primary key of its own is stored under that one.
KeyedElsewhere(row) ==
    definition.ownKey /\ row.primaryKey #
        resolveId(definition, Tag, call[row.call].given).primaryKey

\* peek, watch, waitFor and rerun recompute the ExecId from a payload: they find
\* a stored request if and only if that payload names it, and the ExecId a call
\* returned finds the request that the call stored.  An entity id with a
\* NUL and a class with another primary key of its own are the exceptions.  And
\* whichever host sent it, a request is in the shard where the cluster reads it.
ObserversFindRequests ==
    \A row \in stored :
        /\ row.address.shardId =
              getShardId(row.address.entityId, ShardGroupOf(row.address.entityId))
        /\ ~Has(row.address.entityId, Nul) /\ ~KeyedElsewhere(row) =>
            /\ \A q \in Payloads :
                Finds(invocationOf(q).execId, row)
                    <=> SameIdentity(call[row.call].given.fields, q.fields)
            /\ Finds(call[row.call].execId, row)

\* A call is handled by the actor it was made on, by a handler that sees its own
\* address and registers its state where the actor's State service looks for it,
\* in every runtime that gives the call its actor's own layer.
OwnServices ==
    \A h \in handled :
        /\ (mode = "test" /\ call[h.call].merged) \/ h.actor = call[h.call].actor
        /\ h.self = h.actor /\ h.registry = stateRegistry(h.actor)

=============================================================================

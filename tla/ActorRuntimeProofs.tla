-------------------------- MODULE ActorRuntimeProofs -------------------------
(***************************************************************************)
(* What TLAPS proves of ActorRuntime, for every set of actors, calls,      *)
(* payloads and definitions of the operation: type correctness, that a     *)
(* call is served by its own actor with its own services, that a handler   *)
(* is given what the caller made, and that observers find the requests.    *)
(* That no entity id holds the operation's tag is a hypothesis of the last *)
(* alone: the ExecId of such an entity reads as that of another.           *)
(***************************************************************************)
EXTENDS ActorRuntime, CodecProofs

---------------------------------------------------------------------------
(* Lemmas: what becomes of a payload on its way.                           *)

Operation(p) == makeOperationValue(definition, Tag, p)

\* The wire payload of a call, as its path makes it.
WireOf(c) == Wire(call[c].path, Operation(call[c].given))

\* The parts of a compiled invocation.
LEMMA InvocationParts ==
    ASSUME NEW p
    PROVE  /\ invocationOf(p).operation = Operation(p)
           /\ invocationOf(p).entityId = resolveId(definition, Tag, p).entityId
           /\ invocationOf(p).execId = ExecIdOf(definition, Tag, p)
  BY DEF invocationOf, compileInvocation, Operation

\* A payload's shape: two fields, and no carrier.
LEMMA PayloadShape ==
    ASSUME NEW p \in Payloads
    PROVE  /\ p = [own |-> p.own, fields |-> p.fields]
           /\ "carried" \notin DOMAIN p
           /\ p.fields.at \in Nat
  <1>1. p = [own |-> p.own, fields |-> p.fields] /\ p.fields.at \in Nat
    BY PayloadsAssumption
  <1>2. "carried" \notin DOMAIN [own |-> p.own, fields |-> p.fields]
    OBVIOUS
  <1> QED
    BY <1>1, <1>2

\* A wire payload that is no defect has the fields of the caller's payload; an
\* opaque one carries it whole.
LEMMA WireKeepsPayload ==
    ASSUME NEW p \in Payloads, NEW path, definition \in Definitions,
           NEW wire, wire = Wire(path, Operation(p)), wire # Defect
    PROVE  /\ isOpaquePayload(definition) =>
                wire = Carrier(p) /\ unwrapOpaquePayload(wire) = p
           /\ definition.payload \in {"struct", "class"} =>
                /\ wire = [own |-> wire.own, fields |-> p.fields]
                /\ unwrapOpaquePayload(wire) = wire
                /\ definition.ownTag = "absent" => wire.own = NoTag
           /\ definition.payload = "none" => wire = NoPayload
           /\ definition.payload \in {"none", "struct", "class", "opaque"}
  <1>1. definition.payload \in {"none", "struct", "class", "opaque"}
    BY DEF Definitions
  <1>2. CASE isOpaquePayload(definition)
    <2>1. wire = Carrier(p)
      BY <1>2 DEF Wire, compileOutgoingRequest, rpcArg, Operation, makeOperationValue,
                  isOpaquePayload
    <2>2. unwrapOpaquePayload(wire) = p
      BY <2>1 DEF unwrapOpaquePayload, Carrier
    <2> QED
      BY <1>1, <1>2, <2>1, <2>2 DEF isOpaquePayload
  <1>3. CASE definition.payload \in {"struct", "class"}
    <2>1. Operation(p) = [tag |-> Tag, fields |-> p.fields]
      BY <1>3 DEF Operation, makeOperationValue, isOpaquePayload
    <2>2. \E own : wire = Construct(definition, own, p.fields)
      BY <1>3, <2>1 DEF Wire, compileOutgoingRequest, rpcArg, isOpaquePayload
    <2>3. /\ wire = [own |-> wire.own, fields |-> p.fields]
          /\ definition.ownTag = "absent" => wire.own = NoTag
      BY <2>2 DEF Construct
    <2>4. "carried" \notin DOMAIN wire
      <3>1. "carried" \notin DOMAIN [own |-> wire.own, fields |-> p.fields]
        OBVIOUS
      <3> QED
        BY <2>3, <3>1
    <2> QED
      BY <1>1, <1>3, <2>3, <2>4 DEF unwrapOpaquePayload, isOpaquePayload
  <1>4. CASE definition.payload = "none"
    BY <1>4 DEF Wire, compileOutgoingRequest, rpcArg, isOpaquePayload
  <1> QED
    BY <1>1, <1>2, <1>3, <1>4 DEF isOpaquePayload

\* The id function looks at the fields of a payload.
LEMMA IdOfFields ==
    ASSUME NEW d, NEW p, NEW q, p.fields = q.fields
    PROVE  resolveId(d, Tag, p) = resolveId(d, Tag, q)
  BY DEF resolveId

\* A request is stored under the key of the caller's payload, unless its class
\* declares one.
LEMMA KeyOfPayload ==
    ASSUME NEW p \in Payloads, NEW path, definition \in Definitions,
           Wire(path, Operation(p)) # Defect, ~definition.ownKey
    PROVE  compiledPrimaryKey(definition, Tag, Wire(path, Operation(p)))
              = resolveId(definition, Tag, p).primaryKey
  <1> DEFINE wire == Wire(path, Operation(p))
  <1>1. CASE definition.payload = "none"
    <2>1. definition.id = "none"
      BY <1>1 DEF Definitions
    <2> QED
      BY <2>1 DEF compiledPrimaryKey, resolveId
  <1>2. CASE definition.payload # "none"
    <2>1. unwrapOpaquePayload(wire).fields = p.fields
      BY <1>2, WireKeepsPayload DEF isOpaquePayload
    <2>2. resolveId(definition, Tag, unwrapOpaquePayload(wire)) = resolveId(definition, Tag, p)
      BY <2>1, IdOfFields
    <2> QED
      BY <2>2 DEF compiledPrimaryKey
  <1> QED
    BY <1>1, <1>2

\* It is delivered when the payload or the definition asks for it.
LEMMA TimeOfPayload ==
    ASSUME NEW p \in Payloads, NEW path, definition \in Definitions,
           Wire(path, Operation(p)) # Defect
    PROVE  compiledDeliverAt(definition, Wire(path, Operation(p))) =
             CASE definition.ownDeliverAt -> OwnTime(p)
               [] definition.payload # "none" /\ definition.deliverAt
                    /\ ~definition.ownDeliverAt -> DefinedTime(p)
               [] OTHER -> Now
  <1> DEFINE wire == Wire(path, Operation(p))
  <1>1. definition.ownDeliverAt => definition.payload = "class"
    BY DEF Definitions
  <1>2. definition.payload = "class" => wire.fields = p.fields
    BY WireKeepsPayload
  <1>3. definition.payload # "none" => unwrapOpaquePayload(wire).fields = p.fields
    BY WireKeepsPayload DEF isOpaquePayload
  <1> QED
    BY <1>1, <1>2, <1>3 DEF compiledDeliverAt, OwnTime, DefinedTime

\* A delivery waits for a time within the bound.
LEMMA TimeBounded ==
    ASSUME NEW p \in Sent, NEW path, definition \in Definitions,
           Wire(path, Operation(p)) # Defect
    PROVE  compiledDeliverAt(definition, Wire(path, Operation(p))) \in 0 .. MaxTime
  <1>1. p \in Payloads /\ p.fields.at \in Nat
    BY SentAssumption, PayloadShape
  <1>2. OwnTime(p) \in 0 .. MaxTime /\ DefinedTime(p) \in 0 .. MaxTime /\ Now \in 0 .. MaxTime
    BY <1>1, TimesAssumption DEF OwnTime, DefinedTime, Now
  <1> QED
    BY <1>1, <1>2, TimeOfPayload

\* A handler that is given the wire payload is given the caller's operation,
\* when the payload brings no _tag of its own.
LEMMA HandlerIsGiven ==
    ASSUME NEW p \in Payloads, NEW path, definition \in Definitions,
           Wire(path, Operation(p)) # Defect, definition.ownTag = "absent"
    PROVE  /\ handlerOperation(definition, Tag, Wire(path, Operation(p))) = Operation(p)
           /\ ~isOpaquePayload(definition) =>
                remade(definition, Wire(path, Operation(p))) = Wire(path, Operation(p))
  <1> DEFINE wire == Wire(path, Operation(p))
  <1>1. CASE isOpaquePayload(definition)
    BY <1>1, WireKeepsPayload DEF handlerOperation, Operation, makeOperationValue
  <1>2. CASE definition.payload = "none"
    BY <1>2, WireKeepsPayload
    DEF handlerOperation, Operation, makeOperationValue, remade, isOpaquePayload
  <1>3. CASE definition.payload \in {"struct", "class"}
    <2>1. wire.fields = p.fields /\ wire.own = NoTag
      BY <1>3, WireKeepsPayload
    <2> QED
      BY <1>3, <2>1
      DEF handlerOperation, Operation, makeOperationValue, remade, isOpaquePayload
  <1> QED
    BY <1>1, <1>2, <1>3, WireKeepsPayload DEF isOpaquePayload

---------------------------------------------------------------------------
(* The inductive invariant                                                 *)

\* The Client of an actor is over its own mailbox, no handler keeps the
\* address of another one, and a merged program sees an actor that is there.
LayersBuilt ==
    /\ client \in [Actors -> Actors \cup {Nobody}]
    /\ captured \in [Actors -> Actors \cup {Nobody}]
    /\ root \in [Actors -> Actors \cup {Nobody}]
    /\ \A a \in Actors : client[a] \in {a, Nobody} /\ captured[a] = Nobody
    /\ ambient \in Actors \cup {Nobody}
    /\ ambient # Nobody => client[ambient] # Nobody
    /\ ambient = Nobody => \A a \in Actors : client[a] = Nobody

\* What a call was made with, on an actor that is there.
CallMade(c) ==
    /\ call[c].step \in {"called", "defect"}
    /\ call[c].actor \in Actors /\ client[call[c].actor] # Nobody
    /\ call[c].given \in Sent
    /\ call[c].path \in Paths
    /\ call[c].merged \in BOOLEAN
    /\ call[c].execId = ExecIdGiven(call[c].path, call[c].given)
    /\ call[c].step = "called" => WireOf(c) # Defect

\* A stored request is what its call made of its payload.
RequestMade(row) ==
    /\ mode = "cluster"
    /\ row.call \in Calls /\ call[row.call].step = "called"
    /\ row.wire = WireOf(row.call)
    /\ \E resolver \in Resolvers :
          row.address = resolveEntity(resolver, call[row.call].actor,
                                      invocationOf(call[row.call].given).entityId)
    /\ row.primaryKey = compiledPrimaryKey(definition, Tag, row.wire)
    /\ row.at = compiledDeliverAt(definition, row.wire)

\* So is what a handler was given, once more remade by the test mailbox; the
\* handler is the called actor's, or of the actor a merged program sees.
HandlingMade(h) ==
    /\ h.call \in Calls /\ call[h.call].step = "called"
    /\ h.actor \in Actors /\ client[h.actor] # Nobody
    /\ h.actor = call[h.call].actor \/ (mode = "test" /\ call[h.call].merged)
    /\ h.self = h.actor /\ h.registry = root[h.actor]
    /\ h.entityId = invocationOf(call[h.call].given).entityId
    /\ \/ h.operation = handlerOperation(definition, Tag, WireOf(h.call))
       \/ /\ mode = "test" /\ call[h.call].path = "send"
          /\ h.operation =
               handlerOperation(definition, Tag, remade(definition, WireOf(h.call)))
    /\ mode = "cluster" => h.when >= compiledDeliverAt(definition, WireOf(h.call))

RuntimeInv ==
    /\ definition \in Offered /\ mode \in Modes /\ now \in 0 .. MaxTime
    /\ LayersBuilt
    /\ call = [c \in Calls |-> call[c]]
    /\ \A c \in Calls : call[c] = NotCalled \/ CallMade(c)
    /\ \A row \in stored : RequestMade(row)
    /\ \A h \in handled : HandlingMade(h)

---------------------------------------------------------------------------
(* RuntimeInv is inductive.                                                *)

\* What was made of a call stays so while the call, its definition and the
\* layers that serve it stay.
LEMMA RecordsStay ==
    ASSUME UNCHANGED <<definition, mode>>
    PROVE  /\ \A c : CallMade(c) /\ call'[c] = call[c]
                       /\ client'[call[c].actor] = client[call[c].actor] => CallMade(c)'
           /\ \A row : RequestMade(row) /\ call'[row.call] = call[row.call] => RequestMade(row)'
           /\ \A h : /\ HandlingMade(h) /\ call'[h.call] = call[h.call]
                     /\ client'[h.actor] = client[h.actor] /\ root'[h.actor] = root[h.actor]
                     => HandlingMade(h)'
  <1>1. \A c : call'[c] = call[c] => WireOf(c)' = WireOf(c)
    BY DEF WireOf, Operation, Wire
  <1>2. \A p : invocationOf(p)' = invocationOf(p)
    BY DEF invocationOf
  <1>3. \A path, p : ExecIdGiven(path, p)' = ExecIdGiven(path, p)
    BY <1>2 DEF ExecIdGiven, invocationOf
  <1> QED
    BY <1>1, <1>2, <1>3 DEF CallMade, RequestMade, HandlingMade

\* A runtime without layers, calls and requests.
LEMMA RuntimeInit == Init => RuntimeInv
  BY TimesAssumption DEF Init, RuntimeInv, LayersBuilt

\* A new layer serves its own actor; nothing was handled by it before.
LEMMA AssembleStep ==
    ASSUME RuntimeInv, NEW a \in Actors, Assemble(a)
    PROVE  RuntimeInv'
  <1>1. /\ client[a] = Nobody
        /\ client' = [client EXCEPT ![a] = a]
        /\ ambient' = a
        /\ captured' = [captured EXCEPT ![a] = Nobody]
        /\ \E r \in Actors \cup {Nobody} : root' = [root EXCEPT ![a] = r]
        /\ UNCHANGED <<definition, mode, call, stored, handled, now>>
    BY DEF Assemble, attachFreshService, omitLayerBuildContextExclusions, RuntimeInv,
           LayersBuilt
  <1>2. LayersBuilt'
    BY <1>1, NobodyAssumption DEF RuntimeInv, LayersBuilt
  <1>3. \A b \in Actors : client[b] # Nobody => client'[b] = client[b] /\ root'[b] = root[b]
    BY <1>1 DEF RuntimeInv, LayersBuilt
  <1>4. \A c \in Calls : call[c] = NotCalled \/ CallMade(c)'
    BY <1>1, <1>3, RecordsStay DEF RuntimeInv, CallMade
  <1>5. \A row \in stored : RequestMade(row)'
    BY <1>1, RecordsStay DEF RuntimeInv
  <1>6. \A h \in handled : HandlingMade(h)'
    BY <1>1, <1>3, RecordsStay DEF RuntimeInv, HandlingMade
  <1> QED
    BY <1>1, <1>2, <1>4, <1>5, <1>6 DEF RuntimeInv

\* A call that is asked for keeps what was made of the other calls.
LEMMA AsksStep ==
    ASSUME RuntimeInv, NEW c \in Calls, NEW a \in Actors, NEW path \in Paths,
           NEW payload \in Sent, NEW merged \in BOOLEAN, NEW step \in {"called", "defect"},
           call[c] = NotCalled, client[a] # Nobody,
           step = "called" => Wire(path, Operation(payload)) # Defect,
           Asks(c, a, path, payload, merged, step),
           UNCHANGED <<definition, mode, layers, now>>
    PROVE  /\ call' = [d \in Calls |-> call'[d]]
           /\ call'[c].step = step /\ call'[c].actor = a /\ call'[c].given = payload
           /\ call'[c].path = path /\ call'[c].merged = merged
           /\ \A d \in Calls : call'[d] = NotCalled \/ CallMade(d)'
           /\ \A row \in stored : RequestMade(row)'
           /\ \A h \in handled : HandlingMade(h)'
  <1> DEFINE made == [step |-> step, actor |-> a, given |-> payload, path |-> path,
                      merged |-> merged, execId |-> ExecIdGiven(path, payload)]
  <1>1. call' = [call EXCEPT ![c] = made]
    BY DEF Asks
  <1>2. call' = [d \in Calls |-> call'[d]] /\ call'[c] = made
    BY <1>1 DEF RuntimeInv
  <1>3. \A d \in Calls : d # c => call'[d] = call[d]
    BY <1>1 DEF RuntimeInv
  <1>4. client' = client /\ root' = root
    BY DEF layers
  <1>5. ExecIdGiven(path, payload)' = ExecIdGiven(path, payload)
    BY DEF ExecIdGiven, invocationOf
  <1>6. CallMade(c)'
    <2>1. WireOf(c)' = Wire(path, Operation(payload))
      BY <1>2 DEF WireOf, Operation, Wire
    <2> QED
      BY <1>2, <1>4, <1>5, <2>1 DEF CallMade
  <1>7. \A d \in Calls : call'[d] = NotCalled \/ CallMade(d)'
    BY <1>3, <1>4, <1>6, RecordsStay DEF RuntimeInv
  <1>8. \A d \in Calls : call[d].step = "called" => call'[d] = call[d]
    BY <1>3 DEF NotCalled
  <1>9. \A row \in stored : RequestMade(row)'
    BY <1>8, RecordsStay DEF RuntimeInv, RequestMade
  <1>10. \A h \in handled : HandlingMade(h)'
    BY <1>4, <1>8, RecordsStay DEF RuntimeInv, HandlingMade
  <1> QED
    BY <1>2, <1>7, <1>9, <1>10

\* A handling of a call by an actor that serves it, as its handler is given it.
LEMMA HandleMakes ==
    ASSUME RuntimeInv, NEW c \in Calls, NEW a \in Actors, NEW entityId, NEW wire,
           client[a] # Nobody, Handle(c, a, entityId, wire),
           UNCHANGED <<definition, mode, layers, now>>,
           call'[c].step = "called",
           a = call'[c].actor \/ (mode = "test" /\ call'[c].merged),
           entityId = invocationOf(call'[c].given).entityId,
           \/ wire = WireOf(c)'
           \/ mode = "test" /\ call'[c].path = "send" /\ wire = remade(definition, WireOf(c)'),
           mode = "cluster" => now >= compiledDeliverAt(definition, WireOf(c)'),
           \A h \in handled : HandlingMade(h)'
    PROVE  \A h \in handled' : HandlingMade(h)'
  <1>1. PICK new : /\ handled' = handled \cup {new}
                   /\ new = [call |-> c, actor |-> a, self |-> AddressSeen(a),
                              registry |-> RegistrySeen(a), entityId |-> entityId,
                              when |-> now,
                              operation |-> handlerOperation(definition, Tag, wire)]
    BY DEF Handle
  <1>2. AddressSeen(a) = a /\ RegistrySeen(a) = root[a]
    BY DEF AddressSeen, RegistrySeen, RuntimeInv, LayersBuilt
  <1>3. client'[a] # Nobody /\ root'[a] = root[a]
    BY DEF layers
  <1>4. \A p : invocationOf(p)' = invocationOf(p)
    BY DEF invocationOf
  <1>5. /\ new.call = c /\ new.actor = a /\ new.self = a /\ new.registry = root'[a]
        /\ new.entityId = entityId /\ new.when = now
        /\ new.operation = handlerOperation(definition, Tag, wire)
    BY <1>1, <1>2, <1>3
  <1>6. HandlingMade(new)'
    BY <1>3, <1>4, <1>5 DEF HandlingMade
  <1> QED
    BY <1>1, <1>6

\* A call is rejected, stored once, or handed over to a handler.
LEMMA InvokeStep ==
    ASSUME RuntimeInv, NEW c \in Calls, NEW a \in Actors, NEW path \in Paths,
           NEW payload \in Sent, NEW merged \in BOOLEAN,
           Invoke(c, a, path, payload, merged)
    PROVE  RuntimeInv'
  <1>1. PICK wire : wire = Wire(path, Operation(payload))
    OBVIOUS
  <1>2. PICK entityId : entityId = invocationOf(payload).entityId
    OBVIOUS
  <1>3. /\ call[c] = NotCalled /\ client[a] # Nobody
        /\ merged => mode = "test" /\ path = "send"
        /\ UNCHANGED <<definition, mode, layers, now>>
        /\ \/ /\ wire = Defect /\ Asks(c, a, path, payload, merged, "defect")
              /\ UNCHANGED <<stored, handled>>
           \/ /\ wire # Defect /\ Asks(c, a, path, payload, merged, "called")
              /\ \/ InCluster(c, a, path, wire, entityId)
                 \/ InTest(c, a, path, wire, entityId, merged)
    BY <1>1, <1>2, InvocationParts DEF Invoke
  <1>4. LayersBuilt' /\ definition' \in Offered /\ mode' \in Modes /\ now' \in 0 .. MaxTime
    BY <1>3 DEF RuntimeInv, LayersBuilt, layers
  <1>5. CASE /\ wire = Defect /\ Asks(c, a, path, payload, merged, "defect")
             /\ UNCHANGED <<stored, handled>>
    <2>1. /\ call' = [d \in Calls |-> call'[d]]
          /\ \A d \in Calls : call'[d] = NotCalled \/ CallMade(d)'
          /\ \A row \in stored : RequestMade(row)'
          /\ \A h \in handled : HandlingMade(h)'
      BY <1>3, <1>5, AsksStep
    <2> QED
      BY <1>4, <1>5, <2>1 DEF RuntimeInv
  <1>6. CASE wire # Defect /\ Asks(c, a, path, payload, merged, "called")
    <2>1. /\ call' = [d \in Calls |-> call'[d]]
          /\ call'[c].step = "called" /\ call'[c].actor = a /\ call'[c].given = payload
          /\ call'[c].path = path /\ call'[c].merged = merged
          /\ \A d \in Calls : call'[d] = NotCalled \/ CallMade(d)'
          /\ \A row \in stored : RequestMade(row)'
          /\ \A h \in handled : HandlingMade(h)'
      BY <1>1, <1>3, <1>6, AsksStep
    <2>2. WireOf(c)' = wire
      BY <1>1, <1>3, <2>1 DEF WireOf, Operation, Wire
    <2>3. \A p : invocationOf(p)' = invocationOf(p)
      BY <1>3 DEF invocationOf
    <2>4. CASE InCluster(c, a, path, wire, entityId)
      <3>1. PICK resolver \in Resolvers : Save(c, resolveEntity(resolver, a, entityId), wire)
        BY <2>4 DEF InCluster
      <3>2. PICK address : address = resolveEntity(resolver, a, entityId)
        OBVIOUS
      <3>3. PICK new : /\ stored' = stored \/ stored' = stored \cup {new}
                       /\ new = [call |-> c, address |-> address,
                                 primaryKey |-> compiledPrimaryKey(definition, Tag, wire),
                                 wire |-> wire, at |-> compiledDeliverAt(definition, wire)]
        BY <3>1, <3>2 DEF Save
      <3>4. /\ new.call = c /\ new.address = address /\ new.wire = wire
            /\ new.primaryKey = compiledPrimaryKey(definition, Tag, wire)
            /\ new.at = compiledDeliverAt(definition, wire)
        BY <3>3
      <3>5. mode = "cluster" /\ handled' = handled
        BY <2>4 DEF InCluster
      <3>6. RequestMade(new)'
        BY <1>2, <1>3, <2>1, <2>2, <2>3, <3>2, <3>4, <3>5 DEF RequestMade
      <3> QED
        BY <1>4, <2>1, <3>3, <3>5, <3>6 DEF RuntimeInv
    <2>5. CASE InTest(c, a, path, wire, entityId, merged)
      <3>1. mode = "test" /\ stored' = stored
        BY <2>5 DEF InTest
      <3>2. CASE path # "send"
        <4>1. Handle(c, a, entityId, wire)
          BY <2>5, <3>2 DEF InTest
        <4>2. \A h \in handled' : HandlingMade(h)'
          BY <1>2, <1>3, <2>1, <2>2, <3>1, <4>1, HandleMakes
        <4> QED
          BY <1>4, <2>1, <3>1, <4>2 DEF RuntimeInv
      <3>3. CASE path = "send"
        <4>1. PICK b : /\ b = IF merged THEN ambient ELSE client[a]
                       /\ Handle(c, b, entityId, remade(definition, wire))
          BY <2>5, <3>3 DEF InTest
        <4>2. b \in Actors /\ client[b] # Nobody /\ (b = a \/ merged)
          BY <1>3, <4>1 DEF RuntimeInv, LayersBuilt
        <4>3. b = call'[c].actor \/ (mode = "test" /\ call'[c].merged)
          BY <2>1, <3>1, <4>2
        <4>4. entityId = invocationOf(call'[c].given).entityId
          BY <1>2, <2>1
        <4>5. /\ mode = "test" /\ call'[c].path = "send"
              /\ remade(definition, wire) = remade(definition, WireOf(c)')
          BY <2>1, <2>2, <3>1, <3>3
        <4>6. \A h \in handled' : HandlingMade(h)'
          BY <1>3, <2>1, <3>1, <4>1, <4>2, <4>3, <4>4, <4>5, HandleMakes
        <4> QED
          BY <1>4, <2>1, <3>1, <4>6 DEF RuntimeInv
      <3> QED
        BY <3>2, <3>3
    <2> QED
      BY <1>3, <1>6, <2>4, <2>5
  <1> QED
    BY <1>3, <1>5, <1>6

\* A request is delivered to the actor its call was made on, in its time.
LEMMA DeliverStep ==
    ASSUME RuntimeInv, NEW row \in stored, Deliver(row)
    PROVE  RuntimeInv'
  <1>1. /\ row.at <= now
        /\ Handle(row.call, row.address.entityType, row.address.entityId, row.wire)
        /\ UNCHANGED <<definition, mode, layers, call, stored, now>>
    BY DEF Deliver
  <1>2. RequestMade(row)
    BY DEF RuntimeInv
  <1>3. PICK c \in Calls : c = row.call /\ call[c].step = "called"
    BY <1>2 DEF RequestMade
  <1>4. CallMade(c)
    BY <1>3 DEF RuntimeInv, NotCalled
  <1>5. PICK a \in Actors : a = call[c].actor /\ client[a] # Nobody
    BY <1>4 DEF CallMade
  <1>6. PICK entityId : entityId = invocationOf(call[c].given).entityId
    OBVIOUS
  <1>7. /\ row.address.entityType = a /\ row.address.entityId = entityId
        /\ row.wire = WireOf(c) /\ row.at = compiledDeliverAt(definition, WireOf(c))
    BY <1>2, <1>3, <1>5, <1>6 DEF RequestMade, resolveEntity
  <1>8. Handle(c, a, entityId, row.wire)
    BY <1>1, <1>3, <1>7
  <1>9. call' = call /\ WireOf(c)' = WireOf(c)
    BY <1>1 DEF WireOf, Operation, Wire
  <1>10. \A h \in handled : HandlingMade(h)'
    BY <1>1, RecordsStay DEF RuntimeInv, layers
  <1>11. \A h \in handled' : HandlingMade(h)'
    <2>1. /\ call'[c].step = "called" /\ a = call'[c].actor
          /\ entityId = invocationOf(call'[c].given).entityId
          /\ row.wire = WireOf(c)'
          /\ now >= compiledDeliverAt(definition, WireOf(c)')
      <3>1. compiledDeliverAt(definition, WireOf(c)) \in 0 .. MaxTime
        BY <1>4, TimeBounded, <1>3, OfferedAssumption DEF CallMade, WireOf, RuntimeInv
      <3>2. now \in 0 .. MaxTime
        BY DEF RuntimeInv
      <3> QED
        BY <1>1, <1>3, <1>5, <1>6, <1>7, <1>9, <3>1, <3>2
    <2> QED
      BY <1>1, <1>5, <1>8, <1>10, <2>1, HandleMakes
  <1>12. \A d \in Calls : call[d] = NotCalled \/ CallMade(d)'
    BY <1>1, RecordsStay DEF RuntimeInv, layers
  <1>13. \A r \in stored : RequestMade(r)'
    BY <1>1, RecordsStay DEF RuntimeInv
  <1>14. LayersBuilt'
    BY <1>1 DEF RuntimeInv, LayersBuilt, layers
  <1> QED
    BY <1>1, <1>11, <1>12, <1>13, <1>14 DEF RuntimeInv

\* When nothing but the time changes, or nothing at all, the records stay.
LEMMA TimeStep ==
    ASSUME RuntimeInv, UNCHANGED <<definition, mode, layers, call, stored, handled>>,
           now' \in 0 .. MaxTime
    PROVE  RuntimeInv'
  <1>1. \A c \in Calls : call[c] = NotCalled \/ CallMade(c)'
    BY RecordsStay DEF RuntimeInv, layers
  <1>2. \A row \in stored : RequestMade(row)'
    BY RecordsStay DEF RuntimeInv
  <1>3. \A h \in handled : HandlingMade(h)'
    BY RecordsStay DEF RuntimeInv, layers
  <1>4. LayersBuilt'
    BY DEF RuntimeInv, LayersBuilt, layers
  <1> QED
    BY <1>1, <1>2, <1>3, <1>4 DEF RuntimeInv

\* Every step keeps RuntimeInv.
LEMMA RuntimeNext ==
    ASSUME RuntimeInv, [Next]_vars
    PROVE  RuntimeInv'
  <1>1. CASE \E a \in Actors : Assemble(a)
    BY <1>1, AssembleStep
  <1>2. CASE \E c \in Calls, a \in Actors, path \in Paths, payload \in Sent,
                merged \in BOOLEAN : Invoke(c, a, path, payload, merged)
    BY <1>2, InvokeStep
  <1>3. CASE \E row \in stored : Deliver(row)
    BY <1>3, DeliverStep
  <1>4. CASE Tick
    <2>1. now' \in 0 .. MaxTime
      BY <1>4, TimesAssumption DEF Tick, RuntimeInv
    <2> QED
      BY <1>4, <2>1, TimeStep DEF Tick
  <1>5. CASE UNCHANGED vars
    BY <1>5, TimeStep DEF vars, RuntimeInv
  <1> QED
    BY <1>1, <1>2, <1>3, <1>4, <1>5 DEF Next

\* RuntimeInv holds in every reachable state.
THEOREM RuntimeInvariance == Spec => []RuntimeInv
  BY RuntimeInit, RuntimeNext, PTL DEF Spec

\* The runtime's variables keep their types.
THEOREM RuntimeTypeCorrect == Spec => []TypeOK
  <1>1. RuntimeInv => TypeOK
    <2> SUFFICES ASSUME RuntimeInv
                 PROVE  TypeOK
      OBVIOUS
    <2>1. \A c \in Calls : call[c] = NotCalled
            \/ /\ call[c].step \in {"called", "defect"}
               /\ call[c].actor \in Actors /\ call[c].given \in Sent
               /\ call[c].path \in Paths /\ call[c].merged \in BOOLEAN
      BY DEF RuntimeInv, CallMade
    <2>2. \A row \in stored : row.address.entityType \in Actors /\ row.call \in Calls
                                /\ row.at \in 0 .. MaxTime
      <3> SUFFICES ASSUME NEW row \in stored
                   PROVE  row.address.entityType \in Actors /\ row.call \in Calls
                            /\ row.at \in 0 .. MaxTime
        OBVIOUS
      <3>1. RequestMade(row)
        BY DEF RuntimeInv
      <3>2. CallMade(row.call)
        BY <3>1 DEF RuntimeInv, RequestMade, NotCalled
      <3>3. row.address.entityType = call[row.call].actor
        BY <3>1 DEF RequestMade, resolveEntity
      <3>4. row.at \in 0 .. MaxTime
        BY <3>1, <3>2, TimeBounded, OfferedAssumption
        DEF RequestMade, CallMade, WireOf, RuntimeInv
      <3> QED
        BY <3>1, <3>2, <3>3, <3>4 DEF RequestMade, CallMade
    <2>3. \A h \in handled : h.call \in Calls /\ h.actor \in Actors
      BY DEF RuntimeInv, HandlingMade
    <2> QED
      BY <2>1, <2>2, <2>3 DEF TypeOK, RuntimeInv, LayersBuilt
  <1> QED
    BY <1>1, RuntimeInvariance, PTL

\* However the layers of actors are built and merged, a call is handled by the
\* actor it was made on, unless a test program called another one's Client, and
\* the handler sees its own address and its own registry.
THEOREM CallsUseOwnServices == Spec => []OwnServices
  <1>1. RuntimeInv => OwnServices
    BY DEF RuntimeInv, HandlingMade, OwnServices, stateRegistry
  <1> QED
    BY <1>1, RuntimeInvariance, PTL

---------------------------------------------------------------------------
(* What handlers are given.                                                *)

\* The entity id of a tuple is a text, and decodes to the tuple.
LEMMA TuplesDecode ==
    ASSUME NEW p \in Payloads
    PROVE  /\ EncodeEntityId(p.fields.parts) \in Seq(Tokens)
           /\ DecodeEntityId(EncodeEntityId(p.fields.parts)) = p.fields.parts
  <1>1. p.fields.parts \in Seq(Seq(Tokens)) /\ p.fields.parts # <<>>
    BY PayloadsAssumption
  <1>2. Meaningful \subseteq Tokens
    BY TokensAssumption DEF Meaningful
  <1>3. Seq(Tokens \ {Nul}) \subseteq Seq(Tokens)
    BY SeqMonotonic
  <1> QED
    BY <1>1, <1>2, <1>3, EntityIdRoundTrip

\* A handler is given what the caller made, whatever the form of the payload, the
\* path and the interleaving, and in a cluster not before its time.
THEOREM HandlersGetWhatCallersGave == Spec => []HandledAsGiven
  <1>1. RuntimeInv => HandledAsGiven
    <2> SUFFICES ASSUME RuntimeInv, NEW h \in handled, definition.ownTag = "absent"
                 PROVE  LET given == call[h.call].given
                        IN /\ RemadeOpaque(h.call)
                                \/ h.operation = makeOperationValue(definition, Tag, given)
                           /\ mode = "cluster" => h.when >= Asked(h.call)
                           /\ definition.id = "tuple" =>
                                DecodeEntityId(h.entityId) = given.fields.parts
      BY DEF HandledAsGiven
    <2>1. PICK c \in Calls : c = h.call /\ call[c].step = "called" /\ HandlingMade(h)
      BY DEF RuntimeInv, HandlingMade
    <2>2. PICK p \in Payloads : p = call[c].given /\ CallMade(c) /\ WireOf(c) # Defect
      BY <2>1, SentAssumption DEF RuntimeInv, CallMade, NotCalled
    <2>3. definition \in Definitions
      BY OfferedAssumption DEF RuntimeInv
    <2>4. WireOf(c) = Wire(call[c].path, Operation(p))
      BY <2>2 DEF WireOf
    <2>5. RemadeOpaque(c) \/ h.operation = makeOperationValue(definition, Tag, p)
      <3>1. /\ handlerOperation(definition, Tag, WireOf(c)) = Operation(p)
            /\ ~isOpaquePayload(definition) => remade(definition, WireOf(c)) = WireOf(c)
        BY <2>2, <2>3, <2>4, HandlerIsGiven
      <3> QED
        BY <2>1, <3>1 DEF HandlingMade, RemadeOpaque, Operation
    <2>6. mode = "cluster" => h.when >= Asked(c)
      <3>1. compiledDeliverAt(definition, WireOf(c)) = Asked(c)
        BY <2>2, <2>3, <2>4, TimeOfPayload DEF Asked
      <3> QED
        BY <2>1, <3>1 DEF HandlingMade
    <2>7. definition.id = "tuple" => DecodeEntityId(h.entityId) = p.fields.parts
      <3>1. h.entityId = resolveId(definition, Tag, p).entityId
        BY <2>1, <2>2, InvocationParts DEF HandlingMade
      <3> QED
        BY <3>1, TuplesDecode DEF resolveId
    <2> QED
      BY <2>1, <2>2, <2>5, <2>6, <2>7
  <1> QED
    BY <1>1, RuntimeInvariance, PTL

---------------------------------------------------------------------------
(* What observers find.                                                    *)

\* The first separator of a text is where the first segment ends.
LEMMA FirstSegment ==
    ASSUME NEW S, Nul \in S, NEW segment \in Seq(S), NEW rest \in Seq(S), ~Has(segment, Nul)
    PROVE  LET text == segment \o <<Nul>> \o rest
           IN Has(text, Nul) /\ Before(text, Nul) = segment /\ After(text, Nul) = rest
  <1> DEFINE text == segment \o <<Nul>> \o rest
             n == Len(segment) + 1
  <1>1. /\ text \in Seq(S) /\ Len(text) = n + Len(rest)
        /\ text[n] = Nul
        /\ \A i \in 1 .. Len(segment) : text[i] = segment[i]
        /\ \A i \in 1 .. Len(rest) : text[n + i] = rest[i]
    <2>1. <<Nul>> \in Seq(S) /\ Len(<<Nul>>) = 1 /\ <<Nul>>[1] = Nul
      OBVIOUS
    <2>2. PICK left : left = segment \o <<Nul>>
      OBVIOUS
    <2>3. /\ left \in Seq(S) /\ Len(left) = n /\ left[n] = Nul
          /\ \A i \in 1 .. Len(segment) : left[i] = segment[i]
      BY <2>1, <2>2, ConcatProperties
    <2>4. text = left \o rest
      BY <2>2
    <2> QED
      BY <2>3, <2>4, ConcatProperties
  <1>2. \A i \in 1 .. Len(segment) : segment[i] # Nul
    BY DEF Has, ToSet
  <1>3. n \in 1 .. Len(text) /\ Len(segment) \in Nat /\ Len(rest) \in Nat
    BY <1>1
  <1>4. Has(text, Nul)
    BY <1>1, <1>3 DEF Has, ToSet
  <1>5. SelectInSeq(text, LAMBDA t : t = Nul) = n
    <2> DEFINE I == {i \in 1 .. Len(text) : text[i] = Nul}
    <2>1. n \in I /\ \A i \in I : n <= i
      BY <1>1, <1>2, <1>3
    <2>2. Min(I) = n
      BY <2>1 DEF Min
    <2> QED
      BY <2>1, <2>2 DEF SelectInSeq
  <1>6. Before(text, Nul) = segment
    <2>1. Before(text, Nul) = SubSeq(text, 1, n - 1)
      BY <1>5 DEF Before
    <2>2. /\ SubSeq(text, 1, n - 1) \in Seq(S)
          /\ Len(SubSeq(text, 1, n - 1)) = n - 1
          /\ \A i \in 1 .. n - 1 : SubSeq(text, 1, n - 1)[i] = segment[i]
      BY <1>1, <1>3
    <2> QED
      BY <2>1, <2>2, <1>3, SeqEqual
  <1>7. After(text, Nul) = rest
    <2>1. After(text, Nul) = SubSeq(text, n + 1, Len(text))
      BY <1>5 DEF After
    <2>2. /\ SubSeq(text, n + 1, Len(text)) \in Seq(S)
          /\ Len(SubSeq(text, n + 1, Len(text))) = Len(rest)
          /\ \A i \in 1 .. Len(rest) : SubSeq(text, n + 1, Len(text))[i] = rest[i]
      BY <1>1, <1>3
    <2> QED
      BY <2>1, <2>2, SeqEqual
  <1> QED
    BY <1>4, <1>6, <1>7

\* An ExecId decodes to its segments, if no NUL is in the first two.
LEMMA ExecIdDecodes ==
    ASSUME NEW S, Tokens \subseteq S,
           NEW entityId \in Seq(S), NEW key \in Seq(S), ~Has(entityId, Nul)
    PROVE  DecodeExecId(EncodeExecId(entityId, <<Tag>>, key))
              = [entityId |-> entityId, tag |-> <<Tag>>, primaryKey |-> key]
  <1> DEFINE rest == <<Tag>> \o <<Nul>> \o key
             text == entityId \o <<Nul>> \o rest
  <1>1. Nul \in S /\ <<Tag>> \in Seq(S) /\ <<Nul>> \in Seq(S)
    BY TokensAssumption
  <1>2. ~Has(<<Tag>>, Nul)
    <2>1. DOMAIN <<Tag>> = {1} /\ <<Tag>>[1] # Nul
      BY DEF Tag, Nul
    <2> QED
      BY <2>1 DEF Has, ToSet
  <1>3. rest \in Seq(S)
    BY <1>1
  <1>4. EncodeExecId(entityId, <<Tag>>, key) = text
    <2>1. PICK e1 \in Seq(S) : e1 = entityId \o <<Nul>>
      BY <1>1, ConcatProperties
    <2>2. EncodeExecId(entityId, <<Tag>>, key) = ((e1 \o <<Tag>>) \o <<Nul>>) \o key
      BY <2>1 DEF EncodeExecId
    <2>3. ((e1 \o <<Tag>>) \o <<Nul>>) \o key = (e1 \o (<<Tag>> \o <<Nul>>)) \o key
      BY <1>1, ConcatAssociative
    <2>4. PICK tail \in Seq(S) : tail = <<Tag>> \o <<Nul>>
      BY <1>1, ConcatProperties
    <2>5. (e1 \o tail) \o key = e1 \o (tail \o key)
      BY ConcatAssociative
    <2> QED
      BY <2>1, <2>2, <2>3, <2>4, <2>5
  <1>5. Has(text, Nul) /\ Before(text, Nul) = entityId /\ After(text, Nul) = rest
    BY <1>1, <1>3, FirstSegment
  <1>6. Has(rest, Nul) /\ Before(rest, Nul) = <<Tag>> /\ After(rest, Nul) = key
    BY <1>1, <1>2, FirstSegment
  <1> HIDE DEF rest, text
  <1> QED
    BY <1>4, <1>5, <1>6 DEF DecodeExecId

\* The canonical texts of the documents that payloads hold tell them apart.
LEMMA TextsTellDocuments ==
    ASSUME NEW p \in Payloads, NEW q \in Payloads
    PROVE  /\ canonicalJsonString(p.fields.doc) \in Seq(JsonTokens)
           /\ canonicalJsonString(p.fields.doc) = canonicalJsonString(q.fields.doc)
                <=> p.fields.doc = q.fields.doc
  <1>1. p.fields.doc \in Documents /\ q.fields.doc \in Documents
    BY PayloadsAssumption
  <1> QED
    BY <1>1, CanonicalTexts, CanonicalTextsTell

\* What the id function gives is two texts.
LEMMA IdsAreTexts ==
           \E S : /\ Tokens \subseteq S
                  /\ \A d \in Definitions, p \in Payloads :
                        /\ resolveId(d, Tag, p).entityId \in Seq(Tokens)
                        /\ resolveId(d, Tag, p).primaryKey \in Seq(S)
  <1>1. PICK S0 : S0 = JsonTokens
    OBVIOUS
  <1>2. PICK S : S = Tokens \cup S0
    OBVIOUS
  <1>3. Seq(Tokens) \subseteq Seq(S) /\ Seq(S0) \subseteq Seq(S) /\ Tokens \subseteq S
    BY <1>2
  <1>4. ASSUME NEW d \in Definitions, NEW p \in Payloads
        PROVE  /\ resolveId(d, Tag, p).entityId \in Seq(Tokens)
               /\ resolveId(d, Tag, p).primaryKey \in Seq(S)
    <2>1. d.id \in {"none", "string", "tuple", "entityAndKey", "canonical"}
      BY DEF Definitions
    <2>2. p.fields.id \in Seq(Tokens) /\ p.fields.key \in Seq(Tokens)
      BY PayloadsAssumption
    <2>3. <<Tag>> \in Seq(Tokens)
      BY TokensAssumption
    <2>4. EncodeEntityId(p.fields.parts) \in Seq(Tokens)
      BY TuplesDecode
    <2>5. canonicalJsonString(p.fields.doc) \in Seq(S)
      BY <1>1, <1>3, TextsTellDocuments
    <2> QED
      BY <1>3, <2>1, <2>2, <2>3, <2>4, <2>5 DEF resolveId
  <1> QED
    BY <1>3, <1>4

\* Two payloads have the same identity exactly if the id function gives the same
\* texts for both.
LEMMA IdentityIsId ==
    ASSUME definition \in Definitions,
           NEW p \in Payloads, NEW q \in Payloads
    PROVE  SameIdentity(p.fields, q.fields) <=>
             /\ resolveId(definition, Tag, p).entityId = resolveId(definition, Tag, q).entityId
             /\ resolveId(definition, Tag, p).primaryKey = resolveId(definition, Tag, q).primaryKey
  <1>1. definition.id \in {"none", "string", "tuple", "entityAndKey", "canonical"}
    BY DEF Definitions
  <1>2. EncodeEntityId(p.fields.parts) = EncodeEntityId(q.fields.parts)
          <=> p.fields.parts = q.fields.parts
    BY TuplesDecode
  <1>3. canonicalJsonString(p.fields.doc) = canonicalJsonString(q.fields.doc)
          <=> p.fields.doc = q.fields.doc
    BY TextsTellDocuments
  <1> QED
    BY <1>1, <1>2, <1>3 DEF SameIdentity, resolveId

\* A ref derives the ExecId of the invocation from the operation again.
LEMMA ExecIdDerived ==
    ASSUME NEW p \in Payloads, NEW path, definition \in Definitions
    PROVE  ExecIdGiven(path, p) = ExecIdOf(definition, Tag, p)
  <1> DEFINE again == payloadFromOperation(definition, Operation(p))
  <1>1. resolveId(definition, Tag, again) = resolveId(definition, Tag, p)
    <2>1. CASE definition.payload = "none"
      <3>1. definition.id = "none"
        BY <2>1 DEF Definitions
      <3> QED
        BY <3>1 DEF resolveId
    <2>2. CASE definition.payload # "none"
      <3>1. again.fields = p.fields
        BY <2>2, PayloadShape
        DEF payloadFromOperation, Operation, makeOperationValue, isOpaquePayload,
            unwrapOpaquePayload
      <3> QED
        BY <3>1, IdOfFields
    <2> QED
      BY <2>1, <2>2
  <1> HIDE DEF again
  <1> QED
    BY <1>1, InvocationParts DEF ExecIdGiven, ExecIdOf, again

\* A stored request is under the texts of the caller's payload, in the shard the
\* cluster reads.
LEMMA RowOfPayload ==
    ASSUME RuntimeInv, NEW row \in stored
    PROVE  \E p \in Payloads :
             /\ p = call[row.call].given /\ definition \in Definitions
             /\ call[row.call].execId = ExecIdOf(definition, Tag, p)
             /\ row.address.entityId = resolveId(definition, Tag, p).entityId
             /\ ~KeyedElsewhere(row) =>
                  row.primaryKey = resolveId(definition, Tag, p).primaryKey
             /\ \E resolver \in Resolvers :
                  row.address.shardId = shardIdBy(resolver, row.address.entityId,
                                                  ShardGroupOf(row.address.entityId))
  <1>1. PICK c \in Calls : c = row.call /\ call[c].step = "called" /\ RequestMade(row)
    BY DEF RuntimeInv, RequestMade
  <1>2. PICK p \in Payloads : p = call[c].given /\ CallMade(c) /\ WireOf(c) # Defect
    BY <1>1, SentAssumption DEF RuntimeInv, CallMade, NotCalled
  <1>3. definition \in Definitions
    BY OfferedAssumption DEF RuntimeInv
  <1>4. call[c].execId = ExecIdOf(definition, Tag, p)
    BY <1>2, <1>3, ExecIdDerived DEF CallMade
  <1>5. PICK resolver \in Resolvers :
           row.address = resolveEntity(resolver, call[c].actor,
                                       resolveId(definition, Tag, p).entityId)
    BY <1>1, <1>2, InvocationParts DEF RequestMade
  <1>6. /\ row.address.entityId = resolveId(definition, Tag, p).entityId
        /\ row.address.shardId = shardIdBy(resolver, row.address.entityId,
                                           ShardGroupOf(row.address.entityId))
    BY <1>5 DEF resolveEntity
  <1>7. ~KeyedElsewhere(row) => row.primaryKey = resolveId(definition, Tag, p).primaryKey
    <2>1. CASE definition.ownKey
      BY <1>1, <1>2, <2>1 DEF KeyedElsewhere
    <2>2. CASE ~definition.ownKey
      <3>1. WireOf(c) = Wire(call[c].path, Operation(p))
        BY <1>2 DEF WireOf
      <3>2. row.primaryKey = compiledPrimaryKey(definition, Tag, WireOf(c))
        BY <1>1 DEF RequestMade
      <3> QED
        BY <1>2, <1>3, <2>2, <3>1, <3>2, KeyOfPayload
    <2> QED
      BY <2>1, <2>2
  <1> QED
    BY <1>1, <1>2, <1>3, <1>4, <1>6, <1>7

\* An ExecId recomputed from a payload, or returned by a call, finds the request
\* that the payload names and no other, and every request is in the shard that the
\* cluster reads, whichever host stored it.  One case is beyond the encoding: the
\* ExecId of an entity whose own id holds a NUL followed by the operation's name.
THEOREM ObserversFind ==
    ASSUME NoIdHoldsTheTag
    PROVE  Spec => []ObserversFindRequests
  <1>1. RuntimeInv => ObserversFindRequests
    <2> SUFFICES ASSUME RuntimeInv, NEW row \in stored
                 PROVE  /\ row.address.shardId =
                             getShardId(row.address.entityId, ShardGroupOf(row.address.entityId))
                        /\ ~Has(row.address.entityId, Nul) /\ ~KeyedElsewhere(row) =>
                             /\ \A q \in Payloads :
                                  Finds(invocationOf(q).execId, row)
                                    <=> SameIdentity(call[row.call].given.fields, q.fields)
                             /\ Finds(call[row.call].execId, row)
      BY DEF ObserversFindRequests
    <2>1. PICK p \in Payloads :
             /\ p = call[row.call].given /\ definition \in Definitions
             /\ call[row.call].execId = ExecIdOf(definition, Tag, p)
             /\ row.address.entityId = resolveId(definition, Tag, p).entityId
             /\ ~KeyedElsewhere(row) =>
                  row.primaryKey = resolveId(definition, Tag, p).primaryKey
             /\ \E resolver \in Resolvers :
                  row.address.shardId = shardIdBy(resolver, row.address.entityId,
                                                  ShardGroupOf(row.address.entityId))
      BY RowOfPayload
    <2>2. PICK S : /\ Tokens \subseteq S
                   /\ \A q \in Payloads :
                        /\ resolveId(definition, Tag, q).entityId \in Seq(Tokens)
                        /\ resolveId(definition, Tag, q).primaryKey \in Seq(S)
      BY <2>1, IdsAreTexts
    <2>3. row.address.shardId =
            getShardId(row.address.entityId, ShardGroupOf(row.address.entityId))
      <3>1. row.address.entityId \in Seq(Tokens)
        BY <2>1, <2>2
      <3>2. PICK resolver \in Resolvers :
               row.address.shardId = shardIdBy(resolver, row.address.entityId,
                                               ShardGroupOf(row.address.entityId))
        BY <2>1
      <3>3. resolveEntity(resolver, Tag, row.address.entityId)
              = resolveEntity("fromSharding", Tag, row.address.entityId)
        BY <3>1, ResolversAgree DEF Resolvers
      <3> QED
        BY <3>2, <3>3 DEF resolveEntity, shardIdBy
    <2>4. ASSUME ~Has(row.address.entityId, Nul), ~KeyedElsewhere(row), NEW q \in Payloads
          PROVE  Finds(ExecIdOf(definition, Tag, q), row) <=> SameIdentity(p.fields, q.fields)
      <3> DEFINE entityId == resolveId(definition, Tag, q).entityId
                 key == resolveId(definition, Tag, q).primaryKey
      <3>1. SameIdentity(p.fields, q.fields)
              <=> row.address.entityId = entityId /\ row.primaryKey = key
        BY <2>1, <2>4, IdentityIsId
      <3>2. CASE Has(entityId, Nul)
        <4>1. DecodeExecId(ExecIdOf(definition, Tag, q)).tag # <<Tag>>
          BY <3>2 DEF NoIdHoldsTheTag, RuntimeInv
        <4> QED
          BY <2>4, <3>1, <3>2, <4>1 DEF Finds
      <3>3. CASE ~Has(entityId, Nul)
        <4>1. entityId \in Seq(S) /\ key \in Seq(S)
          BY <2>2, SeqMonotonic
        <4>2. ExecIdOf(definition, Tag, q) = EncodeExecId(entityId, <<Tag>>, key)
          BY DEF ExecIdOf
        <4>3. DecodeExecId(ExecIdOf(definition, Tag, q))
                = [entityId |-> entityId, tag |-> <<Tag>>, primaryKey |-> key]
          BY <2>2, <3>3, <4>1, <4>2, ExecIdDecodes
        <4> QED
          BY <3>1, <4>3 DEF Finds
      <3> QED
        BY <3>2, <3>3
    <2>5. ASSUME ~Has(row.address.entityId, Nul), ~KeyedElsewhere(row)
          PROVE  Finds(call[row.call].execId, row)
      <3>1. SameIdentity(p.fields, p.fields)
        BY <2>1, IdentityIsId
      <3> QED
        BY <2>1, <2>4, <2>5, <3>1
    <2> QED
      BY <2>1, <2>3, <2>4, <2>5, InvocationParts
  <1> QED
    BY <1>1, RuntimeInvariance, PTL
=============================================================================

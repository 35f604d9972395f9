------------------------ MODULE ActorStateRegistry ------------------------
(***************************************************************************)
(* The registry of src/actor-state.ts: a map from an entity's address to   *)
(* the handle of its live state, and the calls that read it.               *)
(*                                                                         *)
(* An activation of an entity builds its state, registers it (registerState*)
(* registers the handle and then adds the finalizer that removes it),      *)
(* serves, is passivated and closes its scope.  The cluster starts the next*)
(* activation of an address as soon as the last one no longer serves, while*)
(* the old scope may still be closing.  getState, watchState and           *)
(* waitForState first have the entity answer $activate, then look its      *)
(* handle up and then use the handle: the entity moves in between.         *)
(*                                                                         *)
(* A handle is named by its activation.  What a state holds is the number  *)
(* of its version, and the predicate of waitForState holds of one version. *)
(***************************************************************************)
EXTENDS Integers, FiniteSets

CONSTANTS
    Addresses,      \* entity type and entity id
    Activations,    \* activations of entities, each happens at most once
    AddressOf,      \* the entity each of them is an activation of
    Readers,        \* calls of getState, watchState and waitForState
    Kind,           \* which of the three each is
    Target,         \* the entity each asks for
    Materialized,   \* the calls that bring their own materialize effect
    Goal,           \* the version waitForState waits for
    MaxVersion,     \* bound: the last version of a state
    MaxInterrupts   \* bound: builds that are interrupted

ASSUME ActivationAssumption == AddressOf \in [Activations -> Addresses]
ASSUME ReaderAssumption ==
    /\ Kind \in [Readers -> {"get", "watch", "waitFor"}]
    /\ Target \in [Readers -> Addresses]
    /\ Materialized \subseteq Readers
ASSUME VersionAssumption == MaxVersion \in Nat \ {0} /\ Goal \in 1 .. MaxVersion

Nobody == "nobody"
ASSUME NobodyAssumption == Nobody \notin Activations

VARIABLES
    registry,      \* the handle registered at each address
    phase,         \* where each activation stands
    version,       \* what the state of each activation holds
    interrupted,   \* the activations whose build was interrupted
    pc,            \* where each call stands
    closedBefore,  \* the activations that had closed when the call began
    answeredBy,    \* the activation that answered the call's $activate
    handle,        \* the handle the call found
    seen           \* the last version the call received, 0 before

entities == <<registry, phase, version, interrupted>>
readers == <<pc, closedBefore, answeredBy, handle, seen>>
vars == <<entities, readers>>

Init ==
    /\ registry = [k \in Addresses |-> Nobody]
    /\ phase = [a \in Activations |-> "new"]
    /\ version = [a \in Activations |-> 1]
    /\ interrupted = {}
    /\ pc = [r \in Readers |-> "idle"]
    /\ closedBefore = [r \in Readers |-> {}]
    /\ answeredBy = [r \in Readers |-> Nobody]
    /\ handle = [r \in Readers |-> Nobody]
    /\ seen = [r \in Readers |-> 0]

---------------------------------------------------------------------------
(* An activation                                                           *)

Active == {"building", "registered", "serving"}
Advance(a, from, to) == phase[a] = from /\ phase' = [phase EXCEPT ![a] = to]

\* The cluster runs at most one activation of an address; one that closes
\* does not count any more.
Start(a) ==
    /\ \A b \in Activations : AddressOf[b] = AddressOf[a] => phase[b] \notin Active
    /\ Advance(a, "new", "building")
    /\ UNCHANGED <<registry, version, interrupted, readers>>

\* registerState, first step: the handle replaces what was registered.
Register(a) ==
    /\ Advance(a, "building", "registered")
    /\ registry' = [registry EXCEPT ![AddressOf[a]] = a]
    /\ UNCHANGED <<version, interrupted, readers>>

\* Mutant: the entity answers before it has registered its state.
AddFinalizerEarly(a) ==
    /\ \/ Advance(a, "building", "serving")
       \/ Advance(a, "registered", "serving")
    /\ UNCHANGED <<registry, version, interrupted, readers>>

\* registerState, second step; then the build is done and messages, $activate
\* first, are answered.
AddFinalizer(a) ==
    /\ Advance(a, "registered", "serving")
    /\ UNCHANGED <<registry, version, interrupted, readers>>

\* The fiber that builds the entity is interrupted: no finalizer was added.
InterruptBuild(a) ==
    /\ Cardinality(interrupted) < MaxInterrupts
    /\ Advance(a, "building", "closed") \/ Advance(a, "registered", "closed")
    /\ interrupted' = interrupted \cup {a}
    /\ UNCHANGED <<registry, version, readers>>

\* A handler changes the state and publishes the change (see StateCell).
Write(a) ==
    /\ phase[a] = "serving"
    /\ version[a] < MaxVersion
    /\ version' = [version EXCEPT ![a] = @ + 1]
    /\ UNCHANGED <<registry, phase, interrupted, readers>>

\* The entity stops serving and its scope begins to close.
Passivate(a) ==
    /\ Advance(a, "serving", "closing")
    /\ UNCHANGED <<registry, version, interrupted, readers>>

\* Mutant: the finalizer removes whatever is registered at the address.
CloseAnyHandle(a) ==
    /\ Advance(a, "closing", "closed")
    /\ registry' = [registry EXCEPT ![AddressOf[a]] = Nobody]
    /\ UNCHANGED <<version, interrupted, readers>>

\* Mutant: the finalizer leaves the handle of an entity that stays known.
CloseOnly(a) ==
    /\ Advance(a, "closing", "closed")
    /\ UNCHANGED <<registry, version, interrupted, readers>>

\* The scope closes and the finalizer runs: deregister removes the handle
\* only if it is still the registered one.
Close(a) ==
    /\ Advance(a, "closing", "closed")
    /\ registry' = [registry EXCEPT ![AddressOf[a]] = IF @ = a THEN Nobody ELSE @]
    /\ UNCHANGED <<version, interrupted, readers>>

---------------------------------------------------------------------------
(* getState, watchState, waitForState                                      *)

Goto(r, from, to) == pc[r] = from /\ pc' = [pc EXCEPT ![r] = to]

\* stateAddress: $activate, or the caller's own effect in its place.
Call(r) ==
    /\ Goto(r, "idle", IF r \in Materialized THEN "lookup" ELSE "activate")
    /\ closedBefore' = [closedBefore EXCEPT ![r] = {a \in Activations : phase[a] = "closed"}]
    /\ UNCHANGED <<answeredBy, handle, seen, entities>>

\* The entity, started if it was not, answers $activate.
Activated(r, a) ==
    /\ AddressOf[a] = Target[r] /\ phase[a] = "serving"
    /\ Goto(r, "activate", "lookup")
    /\ answeredBy' = [answeredBy EXCEPT ![r] = a]
    /\ UNCHANGED <<closedBefore, handle, seen, entities>>

\* registry.get fails with ActorStateUnavailable.
LookupFails(r) ==
    /\ registry[Target[r]] = Nobody
    /\ Goto(r, "lookup", "unavailable")
    /\ UNCHANGED <<closedBefore, answeredBy, handle, seen, entities>>

\* Mutant: what the map returns is used unchecked.
LookupUnchecked(r) ==
    /\ Goto(r, "lookup", "use")
    /\ handle' = [handle EXCEPT ![r] = registry[Target[r]]]
    /\ UNCHANGED <<closedBefore, answeredBy, seen, entities>>

\* registry.get finds a handle.
Lookup(r) ==
    /\ registry[Target[r]] # Nobody
    /\ Goto(r, "lookup", "use")
    /\ handle' = [handle EXCEPT ![r] = registry[Target[r]]]
    /\ UNCHANGED <<closedBefore, answeredBy, seen, entities>>

Received(r, next) == Kind[r] = "waitFor" /\ next = Goal

\* stateOf: handle.get reads the state, whether its scope is open or not.
Get(r) ==
    /\ Kind[r] = "get"
    /\ Goto(r, "use", "answered")
    /\ seen' = [seen EXCEPT ![r] = version[handle[r]]]
    /\ UNCHANGED <<closedBefore, answeredBy, handle, entities>>

\* watchStateOf: the stream begins with the last change.
Subscribe(r) ==
    /\ Kind[r] # "get"
    /\ Goto(r, "use", IF Received(r, version[handle[r]]) THEN "answered" ELSE "receive")
    /\ seen' = [seen EXCEPT ![r] = version[handle[r]]]
    /\ UNCHANGED <<closedBefore, answeredBy, handle, entities>>

\* Mutant: a subscriber that is late gets the last change only.
ReceiveLast(r) ==
    /\ pc[r] = "receive" /\ seen[r] < version[handle[r]]
    /\ Goto(r, "receive", IF Received(r, version[handle[r]]) THEN "answered" ELSE "receive")
    /\ seen' = [seen EXCEPT ![r] = version[handle[r]]]
    /\ UNCHANGED <<closedBefore, answeredBy, handle, entities>>

\* Every change after it is received; waitForState takes the first that
\* satisfies its predicate.
Receive(r) ==
    /\ pc[r] = "receive" /\ seen[r] < version[handle[r]]
    /\ Goto(r, "receive", IF Received(r, seen[r] + 1) THEN "answered" ELSE "receive")
    /\ seen' = [seen EXCEPT ![r] = @ + 1]
    /\ UNCHANGED <<closedBefore, answeredBy, handle, entities>>

---------------------------------------------------------------------------
Entity(a) ==
    \/ Start(a) \/ Register(a) \/ AddFinalizer(a) \/ InterruptBuild(a)
    \/ Write(a) \/ Passivate(a) \/ Close(a)

Reader(r) ==
    \/ Call(r) \/ (\E a \in Activations : Activated(r, a))
    \/ Lookup(r) \/ LookupFails(r) \/ Get(r) \/ Subscribe(r) \/ Receive(r)

Next == (\E a \in Activations : Entity(a)) \/ (\E r \in Readers : Reader(r))

Spec == Init /\ [][Next]_vars

\* A subscriber's fiber receives what is published.
FairSpec == Spec /\ \A r \in Readers : WF_vars(Receive(r))

---------------------------------------------------------------------------
(* Properties                                                              *)

TypeOK ==
    /\ registry \in [Addresses -> Activations \cup {Nobody}]
    /\ phase \in [Activations -> Active \cup {"new", "closing", "closed"}]
    /\ version \in [Activations -> 1 .. MaxVersion]
    /\ interrupted \subseteq Activations
    /\ pc \in [Readers -> {"idle", "activate", "lookup", "use", "receive",
                           "answered", "unavailable"}]
    /\ closedBefore \in [Readers -> SUBSET Activations]
    /\ answeredBy \in [Readers -> Activations \cup {Nobody}]
    /\ handle \in [Readers -> Activations \cup {Nobody}]
    /\ seen \in [Readers -> 0 .. MaxVersion]
    /\ \A r \in Readers : pc[r] \in {"use", "receive", "answered"} => handle[r] # Nobody

\* The state of an activation that serves is what is found at its address,
\* whenever earlier activations of the entity close.
ServingIsFound ==
    \A a \in Activations : phase[a] = "serving" => registry[AddressOf[a]] = a

\* When the scope of an activation has closed its handle is not registered,
\* unless the activation was interrupted while it was built.
ClosedIsForgotten ==
    \A a \in Activations :
        phase[a] = "closed" /\ a \notin interrupted => registry[AddressOf[a]] # a

\* A call never reads or watches the state of an activation that had closed
\* before the call began.
ReadsAreFresh ==
    \A r \in Readers : handle[r] \notin closedBefore[r] \ interrupted

\* A call that materialized the entity finds its state unavailable only if
\* the activation that answered has stopped serving since.
UnavailableMeansClosed ==
    \A r \in Readers :
        pc[r] = "unavailable" /\ r \notin Materialized =>
            phase[answeredBy[r]] \in {"closing", "closed"}

\* waitForState ends when the state comes to satisfy the predicate after the
\* subscription, even if it no longer does when the subscriber gets to it.
WaitersEnd ==
    \A r \in Readers :
        pc[r] = "receive" /\ Kind[r] = "waitFor"
            /\ seen[r] < Goal /\ Goal <= version[handle[r]]
        ~> pc[r] = "answered"

=============================================================================

--------------------- MODULE ActorStateRegistryProofs ---------------------
(***************************************************************************)
(* What TLAPS proves of ActorStateRegistry, for all entities, activations  *)
(* and calls: the map is never wrong about an activation that serves, and  *)
(* only an interrupted build leaves a handle behind.  One invariant of the *)
(* entities carries the proof; the calls add what they remember.           *)
(***************************************************************************)
EXTENDS ActorStateRegistry, TLAPS

---------------------------------------------------------------------------
(* The entities                                                            *)

EntityTypes ==
    /\ registry \in [Addresses -> Activations \cup {Nobody}]
    /\ phase \in [Activations -> Active \cup {"new", "closing", "closed"}]
    /\ version \in [Activations -> 1 .. MaxVersion]
    /\ interrupted \subseteq Activations

\* At most one activation of an address is being built or serves.
ActiveAlone ==
    \A a, b \in Activations :
        /\ AddressOf[a] = AddressOf[b]
        /\ phase[a] \in Active
        /\ phase[b] \in Active
        => a = b

\* An activation is registered from its registration to its passivation.
ActiveIsRegistered ==
    \A a \in Activations :
        phase[a] \in {"registered", "serving"} => registry[AddressOf[a]] = a

\* A registered handle is at its own address, and of a scope that is open or
\* of a build that was interrupted.
RegisteredIsOpen ==
    \A k \in Addresses :
        registry[k] # Nobody =>
            /\ AddressOf[registry[k]] = k
            /\ phase[registry[k]] \in {"registered", "serving", "closing"}
                  \/ registry[k] \in interrupted

EntityInv == EntityTypes /\ ActiveAlone /\ ActiveIsRegistered /\ RegisteredIsOpen

\* Initially nothing is registered and nothing is active.
LEMMA EntityInit == Init => EntityInv
  BY VersionAssumption
  DEF Init, EntityInv, EntityTypes, ActiveAlone, ActiveIsRegistered,
      RegisteredIsOpen, Active

\* Every step of an activation keeps the invariant of the entities.
LEMMA EntityStep ==
    ASSUME EntityInv, NEW a \in Activations, Entity(a) PROVE EntityInv'
  <1> USE ActivationAssumption, NobodyAssumption
          DEF EntityInv, EntityTypes, Advance, Active
  <1>1. CASE Start(a)
    <2>1. EntityTypes'
      BY <1>1 DEF Start
    <2>2. ActiveAlone'
      BY <1>1 DEF Start, ActiveAlone
    <2>3. ActiveIsRegistered'
      BY <1>1 DEF Start, ActiveIsRegistered
    <2>4. RegisteredIsOpen'
      BY <1>1 DEF Start, RegisteredIsOpen
    <2> QED
      BY <2>1, <2>2, <2>3, <2>4
  <1>2. CASE Register(a)
    <2>1. EntityTypes'
      BY <1>2 DEF Register
    <2>2. ActiveAlone'
      BY <1>2 DEF Register, ActiveAlone
    <2>3. ActiveIsRegistered'
      BY <1>2 DEF Register, ActiveIsRegistered, ActiveAlone
    <2>4. RegisteredIsOpen'
      BY <1>2 DEF Register, RegisteredIsOpen
    <2> QED
      BY <2>1, <2>2, <2>3, <2>4
  <1>3. CASE AddFinalizer(a)
    <2>1. EntityTypes'
      BY <1>3 DEF AddFinalizer
    <2>2. ActiveAlone'
      BY <1>3 DEF AddFinalizer, ActiveAlone
    <2>3. ActiveIsRegistered' /\ RegisteredIsOpen'
      BY <1>3 DEF AddFinalizer, ActiveIsRegistered, RegisteredIsOpen
    <2> QED
      BY <2>1, <2>2, <2>3
  <1>4. CASE InterruptBuild(a)
    <2>1. EntityTypes'
      BY <1>4 DEF InterruptBuild
    <2>2. ActiveAlone' /\ ActiveIsRegistered'
      BY <1>4 DEF InterruptBuild, ActiveAlone, ActiveIsRegistered
    <2>3. RegisteredIsOpen'
      BY <1>4 DEF InterruptBuild, RegisteredIsOpen
    <2> QED
      BY <2>1, <2>2, <2>3
  <1>5. CASE Write(a)
    <2>1. EntityTypes'
      BY <1>5, VersionAssumption DEF Write
    <2> QED
      BY <1>5, <2>1 DEF Write, ActiveAlone, ActiveIsRegistered, RegisteredIsOpen
  <1>6. CASE Passivate(a)
    <2>1. EntityTypes'
      BY <1>6 DEF Passivate
    <2>2. ActiveAlone' /\ ActiveIsRegistered'
      BY <1>6 DEF Passivate, ActiveAlone, ActiveIsRegistered
    <2>3. RegisteredIsOpen'
      BY <1>6 DEF Passivate, RegisteredIsOpen
    <2> QED
      BY <2>1, <2>2, <2>3
  <1>7. CASE Close(a)
    <2>1. EntityTypes'
      BY <1>7 DEF Close
    <2>2. ActiveAlone'
      BY <1>7 DEF Close, ActiveAlone
    <2>3. ActiveIsRegistered'
      BY <1>7 DEF Close, ActiveIsRegistered
    <2>4. RegisteredIsOpen'
      BY <1>7 DEF Close, RegisteredIsOpen
    <2> QED
      BY <2>1, <2>2, <2>3, <2>4
  <1> QED
    BY <1>1, <1>2, <1>3, <1>4, <1>5, <1>6, <1>7 DEF Entity

---------------------------------------------------------------------------
(* The calls                                                               *)

ReaderTypes ==
    /\ pc \in [Readers -> {"idle", "activate", "lookup", "use", "receive",
                           "answered", "unavailable"}]
    /\ closedBefore \in [Readers -> SUBSET Activations]
    /\ answeredBy \in [Readers -> Activations \cup {Nobody}]
    /\ handle \in [Readers -> Activations \cup {Nobody}]
    /\ seen \in [Readers -> 0 .. MaxVersion]

\* A call has a handle from its lookup on, and not before it.
UsersHaveHandles ==
    \A r \in Readers :
        /\ pc[r] \in {"use", "receive", "answered"} => handle[r] # Nobody
        /\ pc[r] \in {"idle", "activate", "lookup"} => handle[r] = Nobody

\* What was closed stays closed.
ClosedStays ==
    \A r \in Readers : \A a \in closedBefore[r] : phase[a] = "closed"

\* A call that looks its entity up was answered by an activation of it that
\* serves, or has served; it finds nothing only in the second case.
AnsweredServed ==
    \A r \in Readers \ Materialized :
        pc[r] \in {"lookup", "unavailable"} =>
            /\ answeredBy[r] \in Activations
            /\ AddressOf[answeredBy[r]] = Target[r]
            /\ phase[answeredBy[r]] \in {"serving", "closing", "closed"}
            /\ pc[r] = "unavailable" => phase[answeredBy[r]] # "serving"

ReaderInv ==
    ReaderTypes /\ UsersHaveHandles /\ ClosedStays /\ AnsweredServed /\ ReadsAreFresh

RegistryInv == EntityInv /\ ReaderInv

\* No call has begun.
LEMMA ReaderInit == Init => ReaderInv
  BY NobodyAssumption, VersionAssumption
  DEF Init, ReaderInv, ReaderTypes, UsersHaveHandles, ClosedStays, AnsweredServed,
      ReadsAreFresh

\* What the calls remember of the entities survives every step of these:
\* a scope that closed is never open again, and one that stopped serving
\* never serves again.
LEMMA ReaderEntityStep ==
    ASSUME RegistryInv, NEW a \in Activations, Entity(a) PROVE ReaderInv'
  <1>1. UNCHANGED readers
    BY DEF Entity, Start, Register, AddFinalizer, InterruptBuild, Write, Passivate, Close
  <1>2. /\ \A b \in Activations : phase[b] = "closed" => phase'[b] = "closed"
        /\ \A b \in Activations :
              phase[b] \in {"serving", "closing", "closed"} =>
                  phase'[b] \in {"serving", "closing", "closed"}
        /\ \A b \in Activations :
              phase[b] \in {"closing", "closed"} => phase'[b] \in {"closing", "closed"}
    BY DEF RegistryInv, EntityInv, EntityTypes, Entity, Start, Register, AddFinalizer,
           InterruptBuild, Write, Passivate, Close, Advance
  <1>3. interrupted \subseteq interrupted'
    BY DEF Entity, Start, Register, AddFinalizer, InterruptBuild, Write, Passivate, Close
  <1>4. ReaderTypes' /\ UsersHaveHandles'
    BY <1>1 DEF RegistryInv, ReaderInv, ReaderTypes, UsersHaveHandles, readers
  <1>5. ClosedStays'
    BY <1>1, <1>2 DEF RegistryInv, ReaderInv, ReaderTypes, ClosedStays, readers
  <1>6. AnsweredServed'
    <2> SUFFICES ASSUME NEW r \in Readers \ Materialized,
                        pc'[r] \in {"lookup", "unavailable"}
                 PROVE  /\ answeredBy'[r] \in Activations
                        /\ AddressOf[answeredBy'[r]] = Target[r]
                        /\ phase'[answeredBy'[r]] \in {"serving", "closing", "closed"}
                        /\ pc'[r] = "unavailable" => phase'[answeredBy'[r]] # "serving"
      BY DEF AnsweredServed
    <2>1. /\ pc'[r] = pc[r] /\ answeredBy'[r] = answeredBy[r]
          /\ answeredBy[r] \in Activations
          /\ AddressOf[answeredBy[r]] = Target[r]
          /\ phase[answeredBy[r]] \in {"serving", "closing", "closed"}
          /\ pc[r] = "unavailable" => phase[answeredBy[r]] \in {"closing", "closed"}
      BY <1>1 DEF RegistryInv, ReaderInv, AnsweredServed, readers
    <2> QED
      BY <1>2, <2>1
  <1>7. ReadsAreFresh'
    BY <1>1, <1>3 DEF RegistryInv, ReaderInv, ReadsAreFresh, readers
  <1> QED
    BY <1>4, <1>5, <1>6, <1>7 DEF ReaderInv

\* Every step of a call keeps it.
LEMMA ReaderStep ==
    ASSUME RegistryInv, NEW r \in Readers, Reader(r) PROVE ReaderInv'
  <1> USE ReaderAssumption, ActivationAssumption, NobodyAssumption
          DEF RegistryInv, ReaderInv, ReaderTypes, Goto
  <1>1. UNCHANGED entities
    BY DEF Reader, Call, Activated, Lookup, LookupFails, Get, Subscribe, Receive
  <1>2. CASE Call(r)
    <2>1. ReaderTypes' /\ UsersHaveHandles' /\ ClosedStays'
      BY <1>1, <1>2 DEF Call, UsersHaveHandles, ClosedStays, entities
    <2>2. AnsweredServed'
      BY <1>1, <1>2 DEF Call, AnsweredServed, entities
    <2>3. ReadsAreFresh'
      <3>1. handle[r] = Nobody
        BY <1>2 DEF Call, UsersHaveHandles
      <3> QED
        BY <1>1, <1>2, <3>1 DEF Call, ReadsAreFresh, entities
    <2> QED
      BY <2>1, <2>2, <2>3
  <1>3. CASE \E a \in Activations : Activated(r, a)
    <2>1. ReaderTypes' /\ UsersHaveHandles' /\ ClosedStays' /\ ReadsAreFresh'
      BY <1>1, <1>3 DEF Activated, UsersHaveHandles, ClosedStays, ReadsAreFresh, entities
    <2>2. AnsweredServed'
      BY <1>1, <1>3 DEF Activated, AnsweredServed, entities
    <2> QED
      BY <2>1, <2>2
  <1>4. CASE Lookup(r)
    <2>1. /\ registry[Target[r]] \in Activations
          /\ phase[registry[Target[r]]] # "closed" \/ registry[Target[r]] \in interrupted
      BY <1>4 DEF Lookup, EntityInv, EntityTypes, RegisteredIsOpen
    <2>2. registry[Target[r]] \notin closedBefore[r] \ interrupted
      BY <2>1 DEF ClosedStays
    <2>3. ReaderTypes' /\ UsersHaveHandles' /\ ClosedStays'
      BY <1>1, <1>4, <2>1 DEF Lookup, UsersHaveHandles, ClosedStays, entities
    <2>4. ReadsAreFresh'
      BY <1>1, <1>4, <2>2 DEF Lookup, ReadsAreFresh, entities
    <2>5. AnsweredServed'
      BY <1>1, <1>4 DEF Lookup, AnsweredServed, entities
    <2> QED
      BY <2>3, <2>4, <2>5
  <1>5. CASE LookupFails(r)
    <2>1. r \notin Materialized => phase[answeredBy[r]] # "serving"
      BY <1>5 DEF LookupFails, AnsweredServed, EntityInv, ActiveIsRegistered
    <2>2. AnsweredServed'
      BY <1>1, <1>5, <2>1 DEF LookupFails, AnsweredServed, entities
    <2>3. ReaderTypes' /\ UsersHaveHandles' /\ ClosedStays' /\ ReadsAreFresh'
      BY <1>1, <1>5 DEF LookupFails, UsersHaveHandles, ClosedStays, ReadsAreFresh, entities
    <2> QED
      BY <2>2, <2>3
  <1>6. CASE Get(r) \/ Subscribe(r) \/ Receive(r)
    <2>1. handle[r] \in Activations /\ version[handle[r]] \in 1 .. MaxVersion
      BY <1>6 DEF Get, Subscribe, Receive, UsersHaveHandles, EntityInv, EntityTypes
    <2>2. seen' \in [Readers -> 0 .. MaxVersion]
      <3>1. CASE Get(r) \/ Subscribe(r)
        <4>1. seen' = [seen EXCEPT ![r] = version[handle[r]]]
          BY <3>1 DEF Get, Subscribe
        <4>2. version[handle[r]] \in 0 .. MaxVersion
          BY <2>1, VersionAssumption
        <4> QED
          BY <4>1, <4>2
      <3>2. CASE Receive(r)
        <4>1. seen' = [seen EXCEPT ![r] = seen[r] + 1]
          BY <3>2 DEF Receive
        <4>2. seen[r] + 1 \in 0 .. MaxVersion
          BY <2>1, <3>2, VersionAssumption DEF Receive
        <4> QED
          BY <4>1, <4>2
      <3> QED
        BY <1>6, <3>1, <3>2
    <2>3. /\ UNCHANGED <<closedBefore, answeredBy, handle>>
          /\ pc' = [pc EXCEPT ![r] = pc'[r]]
          /\ pc'[r] \in {"receive", "answered"}
      BY <1>6 DEF Get, Subscribe, Receive
    <2>4. ReaderTypes' /\ UsersHaveHandles' /\ ClosedStays' /\ ReadsAreFresh'
      BY <1>1, <2>1, <2>2, <2>3 DEF UsersHaveHandles, ClosedStays, ReadsAreFresh, entities
    <2>5. AnsweredServed'
      BY <1>1, <2>3 DEF AnsweredServed, entities
    <2> QED
      BY <2>4, <2>5
  <1> QED
    BY <1>2, <1>3, <1>4, <1>5, <1>6 DEF Reader

---------------------------------------------------------------------------
\* The invariant of the entities and of the calls is inductive.
LEMMA RegistryNext == RegistryInv /\ [Next]_vars => RegistryInv'
  <1> SUFFICES ASSUME RegistryInv, [Next]_vars PROVE RegistryInv'
    OBVIOUS
  <1>1. CASE \E a \in Activations : Entity(a)
    BY <1>1, EntityStep, ReaderEntityStep DEF RegistryInv
  <1>2. CASE \E r \in Readers : Reader(r)
    <2>1. UNCHANGED entities
      BY <1>2 DEF Reader, Call, Activated, Lookup, LookupFails, Get, Subscribe, Receive
    <2>2. EntityInv'
      BY <2>1 DEF RegistryInv, EntityInv, EntityTypes, ActiveAlone, ActiveIsRegistered,
                  RegisteredIsOpen, entities
    <2> QED
      BY <1>2, <2>2, ReaderStep DEF RegistryInv
  <1>3. CASE UNCHANGED vars
    BY <1>3 DEF vars, entities, readers, RegistryInv, EntityInv, EntityTypes, ActiveAlone,
                ActiveIsRegistered, RegisteredIsOpen, ReaderInv, ReaderTypes,
                UsersHaveHandles, ClosedStays, AnsweredServed, ReadsAreFresh
  <1> QED
    BY <1>1, <1>2, <1>3 DEF Next

\* In every reachable state the map and what the calls remember agree with
\* the entities.
THEOREM RegistryInvariance == Spec => []RegistryInv
  <1>1. Init => RegistryInv
    BY EntityInit, ReaderInit DEF RegistryInv
  <1> QED
    BY <1>1, RegistryNext, PTL DEF Spec

\* Type correctness of the registry and the calls.
THEOREM RegistryTypeCorrect == Spec => []TypeOK
  <1>1. RegistryInv => TypeOK
    BY DEF RegistryInv, EntityInv, EntityTypes, ReaderInv, ReaderTypes,
        UsersHaveHandles, TypeOK
  <1> QED
    BY <1>1, RegistryInvariance, PTL

\* The identity check of deregister: the end of an old activation does not
\* take its successor out of the map.
THEOREM ServingActivationsAreFound == Spec => []ServingIsFound
  <1>1. RegistryInv => ServingIsFound
    BY DEF RegistryInv, EntityInv, ActiveIsRegistered, ServingIsFound
  <1> QED
    BY <1>1, RegistryInvariance, PTL

\* The finalizer of an activation that was built removes its handle, even
\* when another activation came in between.
THEOREM ClosedActivationsAreForgotten == Spec => []ClosedIsForgotten
  <1>1. RegistryInv => ClosedIsForgotten
    BY ActivationAssumption, NobodyAssumption
    DEF RegistryInv, EntityInv, RegisteredIsOpen, ClosedIsForgotten
  <1> QED
    BY <1>1, RegistryInvariance, PTL

\* No call reads a state that had ended before the call began.
THEOREM ReadsOfLiveStates == Spec => []ReadsAreFresh
  <1>1. RegistryInv => ReadsAreFresh
    BY DEF RegistryInv, ReaderInv
  <1> QED
    BY <1>1, RegistryInvariance, PTL

\* A call that materialized its entity fails only when the entity has
\* stopped since.
THEOREM UnavailableOnlyIfClosed == Spec => []UnavailableMeansClosed
  <1>1. RegistryInv => UnavailableMeansClosed
    BY DEF RegistryInv, ReaderInv, AnsweredServed, UnavailableMeansClosed
  <1> QED
    BY <1>1, RegistryInvariance, PTL

=============================================================================

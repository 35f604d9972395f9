----------------------- MODULE CompensationOrderProofs -----------------------
(***************************************************************************)
(* What TLAPS proves of DurableCompensation when the handler runs its      *)
(* steps one after the other: compensations run in reverse order, one at a *)
(* time, before the run reports its failure; a suspended run has something *)
(* to decide; and every step is one of CompensationSaga's, or none.  With  *)
(* steps that are started together they do not hold: a run shows it.       *)
(*                                                                         *)
(* The argument is about replays.  A replay registers its steps anew, in   *)
(* memory; what it may do depends on that list, and what must be true is   *)
(* said of the list that an earlier replay stored.  In a sequential        *)
(* handler both are the completed steps in the order of Before, since      *)
(* once a step has failed no other one can complete.                       *)
(***************************************************************************)
EXTENDS DurableCompensationProofs, FiniteSetTheorems

\* The handler awaits each of its steps before it starts the next one.
SequentialHandler ==
    /\ \A s, t \in Steps : s # t => <<s, t>> \in Before \/ <<t, s>> \in Before
    /\ \A s, t \in Steps : <<s, t>> \in Before => <<t, s>> \notin Before

---------------------------------------------------------------------------
(* The inductive invariant                                                 *)

Completed == {s \in Steps : forward[s] = "ok"}

Compensating == pc \in {"plan", "undo", "undoing", "await"}

\* A handler that runs belongs to an execution that is not suspended or over.
FiberRuns == pc # "down" => result = "None"

\* A step was reached only after those before it had completed.
RepliedInOrder ==
    \A s, t \in Steps : <<t, s>> \in Before /\ forward[s] # "none" => forward[t] = "ok"

\* This replay has registered completed steps, in order and without a gap.
RegisteredInOrder ==
    /\ IsInjective(registered)
    /\ \A i, j \in DOMAIN registered : <<registered[i], registered[j]>> \in Before => i < j
    /\ \A i \in DOMAIN registered : forward[registered[i]] = "ok"
    /\ \A i \in DOMAIN registered : \A t \in Steps :
          <<t, registered[i]>> \in Before => t \in ToSet(registered)

\* c is a cause the handler can fail with: of a step that failed, or its own
\* when every step has completed.
FailsWith(c) ==
    \/ c \in Steps /\ forward[c] = "failed"
    \/ c = "body" /\ bodyFails /\ Completed = Steps

\* A replay that compensates found the cause of the first one, and all the
\* completed steps.
ReplayAgrees ==
    /\ Compensating => FailsWith(cause) /\ Completed \subseteq ToSet(registered)
    /\ planSlot # "empty" => FailsWith(original)
    /\ pc \in {"undo", "undoing", "await"} => planSlot # "empty"

\* The stored plan has the completed steps, later ones first.
PlanInOrder ==
    planSlot # "empty" =>
        /\ IsInjective(plan)
        /\ \A i, j \in DOMAIN plan : <<plan[i], plan[j]>> \in Before => j < i
        /\ ToSet(plan) = Completed

\* So has what this replay has left, but for what is settled.
TodoInOrder ==
    pc \in {"undo", "undoing", "await"} =>
        /\ \A i, j \in DOMAIN todo : <<todo[i], todo[j]>> \in Before => j < i
        /\ ToSet(todo) \subseteq Completed
        /\ \A s \in Completed : s \in ToSet(todo) \/ Settled(s)

\* Undos are of completed steps, and run once there is a plan.
UndosPlanned ==
    \A k \in PendingCompensation :
        undo[k] # "none" => planSlot # "empty" /\ forward[k[1]] = "ok"

OrderInv ==
    /\ FiberRuns
    /\ RepliedInOrder
    /\ RegisteredInOrder
    /\ ReplayAgrees
    /\ PlanInOrder
    /\ TodoInOrder
    /\ UndosPlanned
    /\ UndoneInReverse
    /\ FailureAfterCompensation
    /\ SuspendedIsPending

---------------------------------------------------------------------------
(* Lemmas: what a step may do to the storage.                              *)

\* A workflow that has not started keeps every order.
LEMMA OrderInit == Init => OrderInv
  <1> SUFFICES ASSUME Init PROVE OrderInv
    OBVIOUS
  <1> USE DEF Init
  <1>1. FiberRuns /\ RepliedInOrder /\ RegisteredInOrder
    BY DEF FiberRuns, RepliedInOrder, RegisteredInOrder, IsInjective
  <1>2. ReplayAgrees /\ PlanInOrder /\ TodoInOrder
    BY DEF ReplayAgrees, Compensating, PlanInOrder, TodoInOrder
  <1>3. UndosPlanned /\ UndoneInReverse
    BY DEF UndosPlanned, UndoneInReverse
  <1>4. FailureAfterCompensation /\ SuspendedIsPending
    BY DEF FailureAfterCompensation, SuspendedIsPending
  <1> QED
    BY <1>1, <1>2, <1>3, <1>4 DEF OrderInv

\* The steps that write a reply or the plan.
LEMMA StorageMoves ==
    ASSUME [Next]_vars
    PROVE  /\ UNCHANGED forward \/ \E s \in Steps : ForwardReply(s)
           /\ UNCHANGED undo \/ UndoReply
           /\ UNCHANGED <<plan, planSlot, original>> \/ WritePlan
                \/ (UNCHANGED <<plan, original>> /\ DeliverPlan)
           /\ UNCHANGED bodyFails
  <1> USE DEF store, engine, fiber, outside
  <1>1. CASE Handler
    BY <1>1
    DEF Handler, StartHandler, ForwardReply, Register, HandlerFails, HandlerSucceeds,
        WritePlan, StartUndo, UndoReply, UndoSucceeded, RecordFailure, AwaitRetry, AwaitStop,
        AwaitSuspend, Refail
  <1>2. CASE Deliver \/ Resume \/ Disturb
    BY <1>2
    DEF Deliver, DeliverPlan, DeliverFailure, DeliverDecision, Delivered, Resume, Disturb,
        UndoInterrupted, ResumeUnasked, Crash, Interrupt
  <1>3. CASE \E o \in Operators : Operator(o)
    BY <1>3
    DEF Operator, Read, Continue, Decide, DecidePending, Submit, AwaitAccepted, EndCall,
        Timeout
  <1>4. CASE UNCHANGED vars
    BY <1>4 DEF vars
  <1> QED
    BY <1>1, <1>2, <1>3, <1>4 DEF Next

\* The steps that write a deferred of a compensation or make it visible.
LEMMA DeferredMoves ==
    ASSUME [Next]_vars
    PROVE  /\ UNCHANGED failureSlot \/ RecordFailure
                \/ \E k \in PendingCompensation : DeliverFailure(k)
           /\ UNCHANGED <<decision, decisionSlot>> \/ (\E o \in Operators : Submit(o))
                \/ \E k \in PendingCompensation : DeliverDecision(k)
  <1> USE DEF store, engine, fiber, outside
  <1>1. CASE Handler
    <2>1. UNCHANGED failureSlot \/ RecordFailure
      BY <1>1
      DEF Handler, StartHandler, ForwardReply, Register, HandlerFails, HandlerSucceeds,
          WritePlan, StartUndo, UndoReply, UndoSucceeded, AwaitRetry, AwaitStop,
          AwaitSuspend, Refail
    <2>2. UNCHANGED <<decision, decisionSlot>>
      BY <1>1
      DEF Handler, StartHandler, ForwardReply, Register, HandlerFails, HandlerSucceeds,
          WritePlan, StartUndo, UndoReply, UndoSucceeded, RecordFailure, AwaitRetry, AwaitStop,
          AwaitSuspend, Refail
    <2> QED
      BY <2>1, <2>2
  <1>2. CASE Deliver \/ Resume \/ Disturb
    BY <1>2
    DEF Deliver, DeliverPlan, DeliverFailure, DeliverDecision, Delivered, Resume, Disturb,
        UndoInterrupted, ResumeUnasked, Crash, Interrupt
  <1>3. CASE \E o \in Operators : Operator(o)
    <2>1. CASE \E o \in Operators : Submit(o)
      BY <2>1 DEF Submit
    <2>2. CASE ~\E o \in Operators : Submit(o)
      BY <1>3, <2>2
      DEF Operator, Read, Continue, Decide, DecidePending, AwaitAccepted, EndCall, Timeout
    <2> QED
      BY <2>1, <2>2
  <1>4. CASE UNCHANGED vars
    BY <1>4 DEF vars
  <1> QED
    BY <1>1, <1>2, <1>3, <1>4 DEF Next

\* What is stored stays: replies, the plan, failures and visible decisions.
LEMMA StorageGrows ==
    ASSUME Inv, [Next]_vars
    PROVE  /\ \A s \in Steps : forward[s] # "none" => forward'[s] = forward[s]
           /\ \A k \in PendingCompensation :
                /\ undo[k] # "none" => undo'[k] = undo[k]
                /\ failureSlot[k] # "empty" => failureSlot'[k] # "empty"
                /\ decisionSlot[k] # "empty" =>
                      decisionSlot'[k] # "empty" /\ decision'[k] = decision[k]
                /\ decisionSlot[k] = "visible" => decisionSlot'[k] = "visible"
           /\ planSlot # "empty" => planSlot' # "empty" /\ UNCHANGED <<plan, original>>
  <1>1. TypeOK
    BY DEF Inv
  <1>2. \A s \in Steps : forward[s] # "none" => forward'[s] = forward[s]
    BY <1>1, StorageMoves DEF TypeOK, ForwardReply
  <1>3. \A k \in PendingCompensation : undo[k] # "none" => undo'[k] = undo[k]
    <2>1. UndoReply => UndoKey \in PendingCompensation /\ undo[UndoKey] = "none"
      BY <1>1 DEF UndoReply, Inv, FiberReached, TypeOK, UndoKey, CompensationActivityName,
                  PendingCompensation
    <2> QED
      BY <1>1, <2>1, StorageMoves DEF TypeOK, UndoReply
  <1>4. \A k \in PendingCompensation : failureSlot[k] # "empty" => failureSlot'[k] # "empty"
    <2>1. CASE RecordFailure
      BY <1>1, <2>1 DEF RecordFailure, TypeOK, Written
    <2>2. CASE \E k \in PendingCompensation : DeliverFailure(k)
      BY <1>1, <2>2 DEF DeliverFailure, TypeOK
    <2> QED
      BY <2>1, <2>2, DeferredMoves
  <1>5. \A k \in PendingCompensation :
          /\ decisionSlot[k] # "empty" =>
                decisionSlot'[k] # "empty" /\ decision'[k] = decision[k]
          /\ decisionSlot[k] = "visible" => decisionSlot'[k] = "visible"
    <2>1. CASE \E o \in Operators : Submit(o)
      BY <1>1, <2>1 DEF Submit, TypeOK, Written
    <2>2. CASE \E k \in PendingCompensation : DeliverDecision(k)
      BY <1>1, <2>2 DEF DeliverDecision, TypeOK
    <2> QED
      BY <2>1, <2>2, DeferredMoves
  <1>6. planSlot # "empty" => planSlot' # "empty" /\ UNCHANGED <<plan, original>>
    BY StorageMoves DEF WritePlan, Written, DeliverPlan
  <1> QED
    BY <1>2, <1>3, <1>4, <1>5, <1>6

\* A step that is settled stays so.
LEMMA SettledKept ==
    ASSUME Inv, [Next]_vars, NEW s \in Steps, Settled(s)
    PROVE  Settled(s)'
  <1>1. PICK n \in Attempts : undo[<<s, n>>] = "ok" \/ DecisionAt(s, n) = "Stop"
    BY DEF Settled
  <1>2. <<s, n>> \in PendingCompensation
    BY DEF PendingCompensation
  <1>3. undo'[<<s, n>>] = "ok" \/ DecisionAt(s, n)' = "Stop"
    BY <1>1, <1>2, StorageGrows DEF DecisionAt, CompensationDecisionName
  <1> QED
    BY <1>3 DEF Settled

---------------------------------------------------------------------------
(* Lemmas: what a group of steps keeps.                                    *)

\* A step that writes no reply and no plan keeps what is said of them.
LEMMA RepliesKept ==
    ASSUME Inv, OrderInv, [Next]_vars,
           UNCHANGED <<forward, undo, plan, original>>,
           planSlot' # "empty" <=> planSlot # "empty"
    PROVE  /\ RepliedInOrder' /\ PlanInOrder' /\ UndosPlanned' /\ UndoneInReverse'
           /\ Completed' = Completed
           /\ planSlot' # "empty" => FailsWith(original)'
           /\ \A c : FailsWith(c) => FailsWith(c)'
           /\ \A s \in Completed : Settled(s) => Settled(s)'
  <1>1. UNCHANGED bodyFails /\ Completed' = Completed
    BY StorageMoves DEF Completed
  <1>2. RepliedInOrder' /\ PlanInOrder' /\ UndosPlanned'
    BY <1>1 DEF OrderInv, RepliedInOrder, PlanInOrder, UndosPlanned
  <1>3. \A c : FailsWith(c) => FailsWith(c)'
    BY <1>1 DEF FailsWith
  <1>4. planSlot' # "empty" => FailsWith(original)'
    BY <1>3 DEF OrderInv, ReplayAgrees, FailsWith
  <1>5. UndoneInReverse'
    BY SettledKept DEF OrderInv, UndoneInReverse, Settled
  <1>6. \A s \in Completed : Settled(s) => Settled(s)'
    BY SettledKept DEF Completed
  <1> QED
    BY <1>1, <1>2, <1>3, <1>4, <1>5, <1>6

\* A fiber that does not move keeps its lists; one that is lost has none.
LEMMA FiberKept ==
    ASSUME Inv, OrderInv, [Next]_vars,
           UNCHANGED <<forward, undo, plan, original>>,
           planSlot' # "empty" <=> planSlot # "empty",
           UNCHANGED fiber \/ FiberDown
    PROVE  RegisteredInOrder' /\ ReplayAgrees' /\ TodoInOrder'
  <1>1. /\ Completed' = Completed
        /\ planSlot' # "empty" => FailsWith(original)'
        /\ \A c : FailsWith(c) => FailsWith(c)'
        /\ \A s \in Completed : Settled(s) => Settled(s)'
    BY RepliesKept
  <1>2. CASE UNCHANGED fiber
    <2>1. RegisteredInOrder'
      BY <1>2 DEF fiber, OrderInv, RegisteredInOrder
    <2>2. Compensating => FailsWith(cause)'
      BY <1>1, <1>2 DEF fiber, OrderInv, ReplayAgrees, FailsWith
    <2>3. ReplayAgrees'
      BY <1>1, <1>2, <2>2 DEF fiber, OrderInv, ReplayAgrees, Compensating
    <2>4. TodoInOrder'
      BY <1>1, <1>2 DEF fiber, OrderInv, TodoInOrder, Settled, DecisionAt
    <2> QED
      BY <2>1, <2>3, <2>4
  <1>3. CASE FiberDown
    <2>1. RegisteredInOrder'
      BY <1>3 DEF FiberDown, RegisteredInOrder, IsInjective
    <2>2. ReplayAgrees' /\ TodoInOrder'
      BY <1>1, <1>3 DEF FiberDown, ReplayAgrees, Compensating, TodoInOrder
    <2> QED
      BY <2>1, <2>2
  <1> QED
    BY <1>2, <1>3

\* A run that had failed has failed; one that was suspended with something
\* to decide has it still, unless it is about to be resumed.
LEMMA ResultKept ==
    ASSUME Inv, OrderInv, [Next]_vars,
           UNCHANGED <<forward, undo, plan, original>>,
           result' = "Failure" => result = "Failure" /\ UNCHANGED exitCause,
           result' = "Suspended" /\ ~wake' =>
              /\ result = "Suspended" /\ ~wake
              /\ \A k \in PendingCompensation :
                    decisionSlot'[k] = "visible" => decisionSlot[k] = "visible"
    PROVE  FailureAfterCompensation' /\ SuspendedIsPending'
  <1>1. FailureAfterCompensation'
    BY SettledKept DEF OrderInv, FailureAfterCompensation, Settled
  <1>2. SuspendedIsPending'
    BY StorageGrows DEF OrderInv, SuspendedIsPending
  <1> QED
    BY <1>1, <1>2

---------------------------------------------------------------------------
(* OrderInv is inductive.                                                  *)

\* Steps of the engine and the operators beside the fiber.
LEMMA OutsideStep ==
    ASSUME Inv, OrderInv,
           \/ Deliver \/ Resume \/ ResumeUnasked
           \/ \E o \in Operators : Operator(o)
           \/ UNCHANGED vars
    PROVE  OrderInv'
  <1>1. [Next]_vars
    BY DEF Next, Disturb
  <1>2. /\ UNCHANGED <<forward, undo, plan, original, exitCause>>
        /\ UNCHANGED fiber
        /\ planSlot' # "empty" <=> planSlot # "empty"
        /\ result' = result \/ (result = "Suspended" /\ result' = "None")
    <2> USE DEF store, engine, fiber, outside
    <2>1. CASE Deliver \/ Resume \/ ResumeUnasked
      <3>1. CASE DeliverPlan
        BY <3>1 DEF DeliverPlan, Delivered
      <3>2. CASE \E k \in PendingCompensation : DeliverFailure(k) \/ DeliverDecision(k)
        BY <3>2 DEF DeliverFailure, DeliverDecision, Delivered
      <3>3. CASE Resume
        BY <3>3 DEF Resume
      <3>4. CASE ResumeUnasked
        BY <3>4 DEF ResumeUnasked
      <3> QED
        BY <2>1, <3>1, <3>2, <3>3, <3>4 DEF Deliver
    <2>2. CASE \E o \in Operators : Operator(o)
      <3>1. PICK o \in Operators : Operator(o)
        BY <2>2
      <3>2. CASE Submit(o)
        BY <3>2 DEF Submit
      <3>3. CASE ~Submit(o)
        BY <3>1, <3>3 DEF Operator, Read, Continue, Decide, DecidePending, AwaitAccepted,
                          EndCall, Timeout
      <3> QED
        BY <3>2, <3>3
    <2>3. CASE UNCHANGED vars
      BY <2>3 DEF vars
    <2> QED
      BY <2>1, <2>2, <2>3
  <1>3. result' = "Suspended" /\ ~wake' =>
          /\ result = "Suspended" /\ ~wake
          /\ \A k \in PendingCompensation :
                decisionSlot'[k] = "visible" => decisionSlot[k] = "visible"
    <2>1. CASE Deliver
      BY <2>1 DEF Deliver, DeliverPlan, DeliverFailure, DeliverDecision, Delivered
    <2>2. CASE Resume \/ ResumeUnasked
      BY <2>2 DEF Resume, ResumeUnasked
    <2>3. CASE \E o \in Operators : Submit(o)
      BY <2>3 DEF Submit, Written, engine, Inv, TypeOK
    <2>4. CASE (\E o \in Operators : Operator(o)) /\ ~(\E o \in Operators : Submit(o))
      BY <2>4, Zenon DEF Operator, Read, Continue, Decide, DecidePending, AwaitAccepted,
                         EndCall, Timeout, store, engine
    <2>5. CASE UNCHANGED vars
      BY <2>5 DEF vars, store, engine
    <2> QED
      BY <2>1, <2>2, <2>3, <2>4, <2>5
  <1>4. FiberRuns'
    BY <1>2 DEF fiber, OrderInv, FiberRuns
  <1> QED
    BY <1>1, <1>2, <1>3, <1>4, RepliesKept, FiberKept, ResultKept DEF OrderInv

\* A sequential handler can fail with one cause only: whatever replay fails,
\* it fails as the first one did.
LEMMA OneCause ==
    ASSUME SequentialHandler, RepliedInOrder, NEW c, NEW d, FailsWith(c), FailsWith(d)
    PROVE  c = d
  <1>1. CASE c \in Steps /\ d \in Steps /\ forward[c] = "failed" /\ forward[d] = "failed"
    BY <1>1 DEF SequentialHandler, RepliedInOrder
  <1>2. CASE Completed = Steps
    BY <1>2 DEF FailsWith, Completed
  <1> QED
    BY <1>1, <1>2 DEF FailsWith

\* Once a replay can fail no step is reached that has no reply yet.
LEMMA NoneReached ==
    ASSUME SequentialHandler, Inv, OrderInv, NEW c, FailsWith(c), NEW s \in Steps, Reached(s)
    PROVE  forward[s] # "none"
  <1>1. CASE c \in Steps /\ forward[c] = "failed"
    <2>1. <<c, s>> \notin Before
      BY <1>1 DEF Reached, OrderInv, RegisteredInOrder, ToSet
    <2> QED
      BY <1>1, <2>1 DEF SequentialHandler, OrderInv, RepliedInOrder
  <1>2. CASE Completed = Steps
    BY <1>2 DEF Completed
  <1> QED
    BY <1>1, <1>2 DEF FailsWith

\* The step the fiber is at is one of the completed steps.
LEMMA HeadCompleted ==
    ASSUME Inv, OrderInv, pc \in {"undo", "undoing", "await"}, todo # <<>>
    PROVE  /\ Head(todo) \in Completed /\ Head(todo) \in ToSet(plan) /\ planSlot # "empty"
           /\ UndoKey = <<Head(todo), attempt>> /\ UndoKey \in PendingCompensation
  <1>1. todo \in Seq(Steps) /\ attempt \in Attempts
    BY DEF Inv, TypeOK
  <1>2. 1 \in DOMAIN todo /\ Head(todo) = todo[1] /\ Head(todo) \in Steps
    BY <1>1
  <1>3. Head(todo) \in Completed
    BY <1>2 DEF OrderInv, TodoInOrder, ToSet
  <1>4. planSlot # "empty" /\ ToSet(plan) = Completed
    BY DEF OrderInv, ReplayAgrees, PlanInOrder
  <1> QED
    BY <1>1, <1>2, <1>3, <1>4 DEF UndoKey, CompensationActivityName, PendingCompensation

\* Steps that end this run of the fiber.
LEMMA FiberLost ==
    ASSUME SequentialHandler, Inv, OrderInv,
           \/ HandlerSucceeds \/ UndoInterrupted \/ AwaitSuspend \/ Refail
           \/ Crash \/ Interrupt
    PROVE  OrderInv'
  <1>1. [Next]_vars
    BY DEF Next, Handler, Disturb
  <1>2. FiberDown /\ UNCHANGED store /\ UNCHANGED original
    BY DEF HandlerSucceeds, UndoInterrupted, AwaitSuspend, Refail, Crash, Interrupt, outside
  <1>3. FiberRuns'
    BY <1>2 DEF FiberDown, FiberRuns
  <1>4. FailureAfterCompensation' /\ SuspendedIsPending'
    <2>1. CASE HandlerSucceeds \/ UndoInterrupted \/ Crash \/ Interrupt
      <3>1. /\ result' = "Failure" => result = "Failure" /\ UNCHANGED exitCause
            /\ result' = "Suspended" /\ ~wake' => result = "Suspended" /\ ~wake
        BY <2>1 DEF HandlerSucceeds, UndoInterrupted, Crash, Interrupt, engine
      <3> QED
        BY <1>1, <1>2, <3>1, ResultKept DEF store
    <2>2. CASE AwaitSuspend
      <3> DEFINE k == UndoKey
      <3>1. /\ pc = "await" /\ DecisionAt(Head(todo), attempt) = "none"
            /\ todo # <<>> /\ failureSlot[k] # "empty"
        BY <2>2 DEF AwaitSuspend, Inv, FiberReached
      <3>2. /\ k = <<Head(todo), attempt>> /\ k \in PendingCompensation
            /\ k[1] \in ToSet(plan)
        BY <3>1, HeadCompleted
      <3>3. decisionSlot[k] # "visible"
        BY <3>1, <3>2 DEF DecisionAt, CompensationDecisionName, Inv, RecordsJustified,
                          CompensationDecision
      <3>4. SuspendedIsPending'
        BY <1>2, <3>1, <3>2, <3>3 DEF SuspendedIsPending, store
      <3>5. FailureAfterCompensation'
        BY <2>2 DEF AwaitSuspend, FailureAfterCompensation
      <3> QED
        BY <3>4, <3>5
    <2>3. CASE Refail
      <3>1. pc = "undo" /\ todo = <<>> /\ result' = "Failure" /\ exitCause' = cause
        BY <2>3 DEF Refail
      <3>2. \A s \in Steps : forward[s] = "ok" => Settled(s)
        BY <3>1 DEF OrderInv, TodoInOrder, Completed, ToSet
      <3>3. cause = original
        <4>1. FailsWith(cause) /\ FailsWith(original)
          BY <3>1 DEF OrderInv, ReplayAgrees, Compensating
        <4> QED
          BY <4>1, OneCause DEF OrderInv
      <3> QED
        BY <1>1, <1>2, <3>1, <3>2, <3>3, SettledKept
        DEF FailureAfterCompensation, SuspendedIsPending, store, Settled
    <2> QED
      BY <2>1, <2>2, <2>3
  <1> QED
    BY <1>1, <1>2, <1>3, <1>4, RepliesKept, FiberKept DEF OrderInv, store

\* Steps of the handler that keep its lists: it starts, fails with a cause,
\* runs an undo, records its failure and goes on to the next attempt.
LEMMA HandlerStep ==
    ASSUME SequentialHandler, Inv, OrderInv,
           StartHandler \/ HandlerFails \/ StartUndo \/ RecordFailure \/ AwaitRetry
    PROVE  OrderInv'
  <1>1. [Next]_vars
    BY DEF Next, Handler
  <1>2. /\ UNCHANGED <<forward, undo, plan, planSlot, original, registered, todo>>
        /\ UNCHANGED engine /\ UNCHANGED <<decision, decisionSlot>>
    BY DEF StartHandler, HandlerFails, StartUndo, RecordFailure, AwaitRetry, store, outside
  <1>3. FailureAfterCompensation' /\ SuspendedIsPending'
    BY <1>1, <1>2, ResultKept DEF engine
  <1>4. FiberRuns'
    BY <1>2 DEF OrderInv, FiberRuns, engine, StartHandler, HandlerFails, StartUndo,
                RecordFailure, AwaitRetry
  <1>5. RegisteredInOrder'
    BY <1>2 DEF OrderInv, RegisteredInOrder
  <1>6. /\ Completed' = Completed
        /\ planSlot' # "empty" => FailsWith(original)'
        /\ \A c : FailsWith(c) => FailsWith(c)'
        /\ \A s \in Completed : Settled(s) => Settled(s)'
    BY <1>1, <1>2, RepliesKept
  <1>7. TodoInOrder'
    <2>1. pc' \in {"undo", "undoing", "await"} => pc \in {"undo", "undoing", "await"}
      BY DEF StartHandler, HandlerFails, StartUndo, RecordFailure, AwaitRetry
    <2> QED
      BY <1>2, <1>6, <2>1 DEF OrderInv, TodoInOrder
  <1>8. ReplayAgrees'
    <2>1. CASE StartHandler
      BY <1>6, <2>1 DEF StartHandler, ReplayAgrees, Compensating
    <2>2. CASE HandlerFails
      <3>1. pc = "body" /\ pc' = "plan"
        BY <2>2 DEF HandlerFails
      <3>2. FailsWith(cause')
        BY <2>2 DEF HandlerFails, FailsWith, Finished, OrderInv, RegisteredInOrder, ToSet,
                    Completed
      <3>3. Completed \subseteq ToSet(registered)
        <4>1. CASE \E s \in Steps : Reached(s) /\ forward[s] = "failed"
          BY <4>1 DEF Reached, Completed, SequentialHandler, OrderInv, RepliedInOrder
        <4>2. CASE Finished
          BY <4>2 DEF Finished, Completed
        <4> QED
          BY <2>2, <4>1, <4>2 DEF HandlerFails
      <3>4. FailsWith(cause)'
        BY <1>2, <1>6, <3>2, StorageMoves, <1>1 DEF FailsWith
      <3> QED
        BY <1>2, <1>6, <3>1, <3>3, <3>4 DEF ReplayAgrees
    <2>3. CASE StartUndo \/ RecordFailure \/ AwaitRetry
      <3>1. /\ pc \in {"undo", "undoing", "await"} /\ pc' \in {"undo", "undoing", "await"}
            /\ cause' = cause
        BY <2>3 DEF StartUndo, RecordFailure, AwaitRetry
      <3>2. FailsWith(cause)'
        BY <1>6, <3>1 DEF OrderInv, ReplayAgrees, Compensating, FailsWith
      <3> QED
        BY <1>2, <1>6, <3>1, <3>2 DEF OrderInv, ReplayAgrees, Compensating
    <2> QED
      BY <2>1, <2>2, <2>3
  <1> QED
    BY <1>1, <1>2, <1>3, <1>4, <1>5, <1>7, <1>8, RepliesKept DEF OrderInv

\* A step replies: it is the first of its handler to do so, so no replay can
\* have failed, and nothing is undone.
LEMMA ReplyStep ==
    ASSUME SequentialHandler, Inv, OrderInv, NEW s \in Steps, ForwardReply(s)
    PROVE  OrderInv'
  <1>1. [Next]_vars
    BY DEF Next, Handler
  <1>2. /\ pc = "body" /\ Reached(s) /\ forward[s] = "none"
        /\ UNCHANGED <<undo, plan, planSlot, original, registered, todo, pc, result, bodyFails>>
    BY DEF ForwardReply, fiber, engine, outside
  <1>3. PICK r \in {"ok", "failed"} : forward' = [forward EXCEPT ![s] = r]
    BY DEF ForwardReply
  <1>4. /\ forward \in [Steps -> Reply]
        /\ forward'[s] = r
        /\ \A t \in Steps : t # s => forward'[t] = forward[t]
    BY <1>3 DEF Inv, TypeOK
  <1>5. planSlot = "empty" /\ planSlot' = "empty"
    BY <1>2, NoneReached DEF OrderInv, ReplayAgrees
  <1>6. \A t \in Steps : <<t, s>> \in Before => t # s /\ forward[t] = "ok"
    BY <1>2 DEF Reached, OrderInv, RegisteredInOrder, ToSet, SequentialHandler
  <1>7. RepliedInOrder'
    <2> SUFFICES ASSUME NEW u \in Steps, NEW t \in Steps, <<t, u>> \in Before,
                        forward'[u] # "none"
                 PROVE  forward'[t] = "ok"
      BY DEF RepliedInOrder
    <2>1. CASE u = s
      BY <1>4, <1>6, <2>1
    <2>2. CASE u # s
      <3>1. forward[u] # "none" /\ forward[t] = "ok"
        BY <1>4, <2>2 DEF OrderInv, RepliedInOrder
      <3> QED
        BY <1>2, <1>4, <3>1
    <2> QED
      BY <2>1, <2>2
  <1>8. RegisteredInOrder'
    <2>1. \A i \in DOMAIN registered : registered[i] \in Steps /\ registered[i] # s
      BY <1>2 DEF Inv, TypeOK, OrderInv, RegisteredInOrder
    <2> QED
      BY <1>2, <1>4, <2>1 DEF OrderInv, RegisteredInOrder
  <1>9. FiberRuns' /\ ReplayAgrees' /\ PlanInOrder' /\ TodoInOrder'
    BY <1>2, <1>5
    DEF OrderInv, FiberRuns, ReplayAgrees, Compensating, PlanInOrder, TodoInOrder
  <1>10. \A k \in PendingCompensation : undo[k] = "none"
    BY <1>5 DEF OrderInv, UndosPlanned
  <1>11. UndosPlanned' /\ UndoneInReverse'
    BY <1>2, <1>10 DEF UndosPlanned, UndoneInReverse, PendingCompensation
  <1>12. FailureAfterCompensation' /\ SuspendedIsPending'
    BY <1>2 DEF OrderInv, FiberRuns, FailureAfterCompensation, SuspendedIsPending
  <1> QED
    BY <1>7, <1>8, <1>9, <1>11, <1>12 DEF OrderInv

\* A completed step is registered, as the last one so far.
LEMMA RegisterStep ==
    ASSUME SequentialHandler, Inv, OrderInv, NEW s \in Steps, Register(s)
    PROVE  OrderInv'
  <1>1. [Next]_vars
    BY DEF Next, Handler
  <1>2. /\ pc = "body" /\ Reached(s) /\ forward[s] = "ok"
        /\ registered' = Append(registered, s)
        /\ UNCHANGED store /\ UNCHANGED engine /\ UNCHANGED outside /\ UNCHANGED <<pc, todo>>
    BY DEF Register
  <1>3. /\ registered \in Seq(Steps) /\ Len(registered) \in Nat
        /\ DOMAIN registered = 1 .. Len(registered)
        /\ DOMAIN registered' = 1 .. Len(registered) + 1
        /\ registered'[Len(registered) + 1] = s
        /\ \A i \in DOMAIN registered : registered'[i] = registered[i]
    BY <1>2 DEF Inv, TypeOK
  <1>4. /\ \A i \in DOMAIN registered : registered[i] # s
        /\ \A i \in DOMAIN registered : <<s, registered[i]>> \notin Before
        /\ \A t \in Steps : <<t, s>> \in Before => t \in ToSet(registered)
        /\ <<s, s>> \notin Before
    BY <1>2 DEF Reached, OrderInv, RegisteredInOrder, ToSet, SequentialHandler
  <1>5. ToSet(registered) \subseteq ToSet(registered')
    <2>1. DOMAIN registered \subseteq DOMAIN registered'
      BY <1>3
    <2> QED
      BY <1>3, <2>1 DEF ToSet
  <1>6. RegisteredInOrder'
    <2>1. IsInjective(registered)'
      BY <1>3, <1>4 DEF OrderInv, RegisteredInOrder, IsInjective
    <2>2. \A i, j \in DOMAIN registered' :
            <<registered'[i], registered'[j]>> \in Before => i < j
      BY <1>3, <1>4 DEF OrderInv, RegisteredInOrder
    <2>3. \A i \in DOMAIN registered' : forward'[registered'[i]] = "ok"
      BY <1>2, <1>3 DEF OrderInv, RegisteredInOrder, store
    <2>4. \A i \in DOMAIN registered' : \A t \in Steps :
            <<t, registered'[i]>> \in Before => t \in ToSet(registered')
      BY <1>3, <1>4, <1>5 DEF OrderInv, RegisteredInOrder
    <2> QED
      BY <2>1, <2>2, <2>3, <2>4 DEF RegisteredInOrder
  <1>7. /\ planSlot' # "empty" => FailsWith(original)'
        /\ RepliedInOrder' /\ PlanInOrder' /\ UndosPlanned' /\ UndoneInReverse'
    BY <1>1, <1>2, RepliesKept DEF store, outside
  <1>8. FailureAfterCompensation' /\ SuspendedIsPending'
    BY <1>1, <1>2, ResultKept DEF store, engine, outside
  <1>9. FiberRuns' /\ ReplayAgrees' /\ TodoInOrder'
    BY <1>2, <1>7 DEF OrderInv, FiberRuns, engine, ReplayAgrees, Compensating, TodoInOrder
  <1> QED
    BY <1>6, <1>7, <1>8, <1>9 DEF OrderInv

\* The plan: the completed steps in reverse, whichever replay writes it.
LEMMA PlanStep ==
    ASSUME SequentialHandler, Inv, OrderInv, WritePlan
    PROVE  OrderInv'
  <1> DEFINE order == CompensationOrder(registered)
  <1>1. [Next]_vars
    BY DEF Next, Handler
  <1>2. /\ pc = "plan" /\ pc' = "undo" /\ todo' = order
        /\ plan' = IF planSlot = "empty" THEN order ELSE plan
        /\ original' = IF planSlot = "empty" THEN cause ELSE original
        /\ planSlot' # "empty"
        /\ UNCHANGED <<forward, undo, decision, decisionSlot, registered, cause, bodyFails>>
        /\ UNCHANGED engine
    BY DEF WritePlan, Written
  <1>3. /\ registered \in Seq(Steps) /\ Len(registered) \in Nat
        /\ DOMAIN registered = 1 .. Len(registered)
    BY DEF Inv, TypeOK
  <1>4. /\ DOMAIN order = 1 .. Len(registered)
        /\ \A i \in DOMAIN order : order[i] = registered[(Len(registered) - i) + 1]
    BY <1>3 DEF CompensationOrder, Reverse
  <1>5. \A i \in DOMAIN order :
          (Len(registered) - i) + 1 \in DOMAIN registered
    BY <1>3, <1>4
  <1>6. /\ IsInjective(order)
        /\ \A i, j \in DOMAIN order : <<order[i], order[j]>> \in Before => j < i
    <2> SUFFICES ASSUME NEW i \in DOMAIN order, NEW j \in DOMAIN order
                 PROVE  /\ order[i] = order[j] => i = j
                        /\ <<order[i], order[j]>> \in Before => j < i
      BY DEF IsInjective
    <2> DEFINE a == (Len(registered) - i) + 1
               b == (Len(registered) - j) + 1
    <2>1. /\ a \in DOMAIN registered /\ b \in DOMAIN registered
          /\ order[i] = registered[a] /\ order[j] = registered[b]
          /\ i \in Int /\ j \in Int
      BY <1>3, <1>4, <1>5
    <2>2. registered[a] = registered[b] => a = b
      BY <2>1 DEF OrderInv, RegisteredInOrder, IsInjective
    <2>3. <<registered[a], registered[b]>> \in Before => a < b
      BY <2>1 DEF OrderInv, RegisteredInOrder
    <2>4. (a = b => i = j) /\ (a < b => j < i)
      BY <1>3, <2>1
    <2> QED
      BY <2>1, <2>2, <2>3, <2>4
  <1>7. ToSet(order) = Completed
    <2>1. ToSet(order) \subseteq Completed
      BY <1>3, <1>4, <1>5 DEF ToSet, Completed, OrderInv, RegisteredInOrder
    <2>2. ASSUME NEW s \in Completed PROVE s \in ToSet(order)
      <3>1. PICK i \in DOMAIN registered : registered[i] = s
        BY <1>2, <2>2 DEF OrderInv, ReplayAgrees, Compensating, ToSet
      <3>2. (Len(registered) - i) + 1 \in DOMAIN order
        BY <1>3, <1>4, <3>1
      <3>3. order[(Len(registered) - i) + 1] = s
        BY <1>3, <1>4, <3>1, <3>2
      <3> QED
        BY <3>2, <3>3 DEF ToSet
    <2> QED
      BY <2>1, <2>2
  <1>8. Completed' = Completed /\ FailsWith(cause)
    BY <1>2 DEF Completed, OrderInv, ReplayAgrees, Compensating
  <1>9. PlanInOrder'
    BY <1>2, <1>6, <1>7, <1>8 DEF OrderInv, PlanInOrder
  <1>10. TodoInOrder'
    BY <1>2, <1>6, <1>7, <1>8 DEF TodoInOrder
  <1>11. ReplayAgrees'
    <2>1. FailsWith(cause)'
      BY <1>2, <1>8 DEF FailsWith
    <2>2. FailsWith(original)'
      BY <1>2, <1>8 DEF OrderInv, ReplayAgrees, FailsWith
    <2>3. Completed \subseteq ToSet(registered)
      BY <1>2 DEF OrderInv, ReplayAgrees, Compensating
    <2> QED
      BY <1>2, <1>8, <2>1, <2>2, <2>3 DEF ReplayAgrees
  <1>12. RepliedInOrder' /\ RegisteredInOrder'
    BY <1>2 DEF OrderInv, RepliedInOrder, RegisteredInOrder
  <1>13. UndosPlanned' /\ UndoneInReverse'
    BY <1>2 DEF OrderInv, UndosPlanned, UndoneInReverse, Settled, DecisionAt
  <1>14. FiberRuns' /\ FailureAfterCompensation' /\ SuspendedIsPending'
    BY <1>2
    DEF OrderInv, FiberRuns, FailureAfterCompensation, SuspendedIsPending, engine
  <1> QED
    BY <1>9, <1>10, <1>11, <1>12, <1>13, <1>14 DEF OrderInv

\* The steps completed after the one whose undo is running are settled.
LEMMA LaterSettled ==
    ASSUME Inv, OrderInv, pc = "undoing", NEW s \in Steps,
           <<Head(todo), s>> \in Before, forward[s] = "ok"
    PROVE  Settled(s)
  <1>1. s \in Completed /\ todo \in Seq(Steps) /\ todo # <<>>
    BY DEF Completed, Inv, TypeOK, FiberReached
  <1>2. ASSUME s \in ToSet(todo) PROVE FALSE
    <2>1. PICK j \in DOMAIN todo : todo[j] = s
      BY <1>2 DEF ToSet
    <2>2. 1 \in DOMAIN todo /\ Head(todo) = todo[1] /\ DOMAIN todo = 1 .. Len(todo)
      BY <1>1
    <2>3. j < 1
      BY <2>1, <2>2 DEF OrderInv, TodoInOrder
    <2> QED
      BY <1>1, <2>2, <2>3
  <1> QED
    BY <1>1, <1>2 DEF OrderInv, TodoInOrder

\* An undo replies: every later step of the handler is settled by then.
LEMMA UndoStep ==
    ASSUME SequentialHandler, Inv, OrderInv, UndoReply
    PROVE  OrderInv'
  <1> DEFINE u == Head(todo)
  <1>1. [Next]_vars
    BY DEF Next, Handler
  <1>2. /\ pc = "undoing" /\ pc' = "undo" /\ todo # <<>>
        /\ UNCHANGED <<forward, plan, planSlot, original, registered, todo, cause, bodyFails>>
        /\ UNCHANGED <<decision, decisionSlot>>
        /\ UNCHANGED engine
    BY DEF UndoReply, Inv, FiberReached, outside
  <1>3. /\ u \in Completed /\ planSlot # "empty"
        /\ UndoKey = <<u, attempt>> /\ UndoKey \in PendingCompensation
    BY <1>2, HeadCompleted
  <1>4. \A k \in PendingCompensation : k # UndoKey => undo'[k] = undo[k]
    BY DEF UndoReply, Inv, TypeOK
  <1>5. \A s \in Steps : Settled(s) => Settled(s)'
    BY <1>1, SettledKept
  <1>6. \A s \in Steps : <<u, s>> \in Before /\ forward[s] = "ok" => Settled(s)
    BY <1>2, LaterSettled
  <1>7. UndoneInReverse'
    <2> SUFFICES ASSUME NEW t \in Steps, NEW s \in Steps, <<t, s>> \in Before,
                        forward[s] = "ok", NEW n \in Attempts, undo'[<<t, n>>] # "none"
                 PROVE  Settled(s)'
      BY <1>2 DEF UndoneInReverse, Settled, DecisionAt
    <2>1. CASE t = u
      BY <1>5, <1>6, <2>1
    <2>2. CASE t # u
      <3>1. undo[<<t, n>>] # "none"
        BY <1>3, <1>4, <2>2 DEF PendingCompensation
      <3> QED
        BY <1>5, <3>1 DEF OrderInv, UndoneInReverse
    <2> QED
      BY <2>1, <2>2
  <1>8. UndosPlanned'
    BY <1>2, <1>3, <1>4 DEF OrderInv, UndosPlanned, Completed
  <1>9. RepliedInOrder' /\ RegisteredInOrder' /\ PlanInOrder'
    BY <1>2 DEF OrderInv, RepliedInOrder, RegisteredInOrder, PlanInOrder, Completed
  <1>10. TodoInOrder'
    <2>1. Completed' = Completed /\ Completed \subseteq Steps
      BY <1>2 DEF Completed
    <2>2. \A s \in Completed : s \in ToSet(todo) \/ Settled(s)'
      BY <1>2, <1>5, <2>1 DEF OrderInv, TodoInOrder
    <2> QED
      BY <1>2, <2>1, <2>2 DEF OrderInv, TodoInOrder
  <1>11. FiberRuns' /\ ReplayAgrees'
    <2>1. Completed' = Completed /\ \A c : FailsWith(c) => FailsWith(c)'
      BY <1>2 DEF Completed, FailsWith
    <2>2. FailsWith(cause)' /\ FailsWith(original)'
      BY <1>2, <1>3, <2>1 DEF OrderInv, ReplayAgrees, Compensating, FailsWith
    <2> QED
      BY <1>2, <1>3, <2>1, <2>2
      DEF OrderInv, FiberRuns, ReplayAgrees, Compensating, engine
  <1>12. FailureAfterCompensation' /\ SuspendedIsPending'
    BY <1>2 DEF OrderInv, FiberRuns, FailureAfterCompensation, SuspendedIsPending, engine
  <1> QED
    BY <1>7, <1>8, <1>9, <1>10, <1>11, <1>12 DEF OrderInv

\* The fiber goes on to the next compensation: this one is settled.
LEMMA NextCompensationStep ==
    ASSUME SequentialHandler, Inv, OrderInv, UndoSucceeded \/ AwaitStop
    PROVE  OrderInv'
  <1> DEFINE u == Head(todo)
  <1>1. [Next]_vars
    BY DEF Next, Handler
  <1>2. /\ pc \in {"undo", "await"} /\ pc' = "undo" /\ todo # <<>> /\ todo' = Tail(todo)
        /\ UNCHANGED <<registered, cause>>
        /\ UNCHANGED store /\ UNCHANGED engine /\ UNCHANGED outside
    BY DEF UndoSucceeded, AwaitStop, NextCompensation, Inv, FiberReached
  <1>3. todo \in Seq(Steps) /\ attempt \in Attempts
    BY DEF Inv, TypeOK
  <1>4. Settled(u)
    BY <1>2, <1>3, HeadCompleted DEF UndoSucceeded, AwaitStop, Settled
  <1>5. /\ \A s \in Completed : Settled(s) => Settled(s)'
        /\ Completed' = Completed
        /\ planSlot' # "empty" => FailsWith(original)'
        /\ \A c : FailsWith(c) => FailsWith(c)'
        /\ RepliedInOrder' /\ PlanInOrder' /\ UndosPlanned' /\ UndoneInReverse'
    BY <1>1, <1>2, RepliesKept DEF store, outside
  <1>6. /\ DOMAIN todo = 1 .. Len(todo) /\ Len(todo) \in Nat /\ u = todo[1]
        /\ DOMAIN todo' = 1 .. Len(todo) - 1
        /\ \A i \in DOMAIN todo' : i + 1 \in DOMAIN todo /\ todo'[i] = todo[i + 1]
    BY <1>2, <1>3
  <1>7. TodoInOrder'
    <2>1. \A i, j \in DOMAIN todo' : <<todo'[i], todo'[j]>> \in Before => j < i
      <3> SUFFICES ASSUME NEW i \in DOMAIN todo', NEW j \in DOMAIN todo',
                          <<todo'[i], todo'[j]>> \in Before
                   PROVE  j < i
        OBVIOUS
      <3>1. j + 1 < i + 1
        BY <1>2, <1>6 DEF OrderInv, TodoInOrder
      <3> QED
        BY <1>6, <3>1
    <2>2. ToSet(todo') \subseteq ToSet(todo)
      BY <1>6 DEF ToSet
    <2>3. ASSUME NEW s \in Completed, s \notin ToSet(todo') PROVE Settled(s)
      <3>1. CASE s \in ToSet(todo)
        <4>1. PICK j \in DOMAIN todo : todo[j] = s
          BY <3>1 DEF ToSet
        <4>2. j # 1 => j - 1 \in DOMAIN todo' /\ todo'[j - 1] = s
          BY <1>6, <4>1
        <4>3. j = 1
          BY <2>3, <4>2 DEF ToSet
        <4> QED
          BY <1>4, <1>6, <4>1, <4>3
      <3>2. CASE s \notin ToSet(todo)
        BY <1>2, <3>2 DEF OrderInv, TodoInOrder
      <3> QED
        BY <3>1, <3>2
    <2>4. \A s \in Completed : s \in ToSet(todo') \/ Settled(s)'
      BY <1>5, <2>3
    <2> QED
      BY <1>2, <1>5, <2>1, <2>2, <2>4 DEF OrderInv, TodoInOrder
  <1>8. FiberRuns' /\ RegisteredInOrder'
    BY <1>2 DEF OrderInv, FiberRuns, RegisteredInOrder, store, engine
  <1>9. ReplayAgrees'
    <2>1. FailsWith(cause)'
      BY <1>2, <1>5 DEF OrderInv, ReplayAgrees, Compensating, FailsWith
    <2> QED
      BY <1>2, <1>5, <2>1 DEF OrderInv, ReplayAgrees, Compensating, store
  <1>10. FailureAfterCompensation' /\ SuspendedIsPending'
    BY <1>1, <1>2, ResultKept DEF store, engine, outside
  <1> QED
    BY <1>5, <1>7, <1>8, <1>9, <1>10 DEF OrderInv

\* OrderInv is inductive: every step of the handler, the engine and the
\* operators keeps it.
LEMMA OrderNext ==
    ASSUME SequentialHandler PROVE Inv /\ OrderInv /\ [Next]_vars => OrderInv'
  <1> SUFFICES ASSUME Inv, OrderInv, [Next]_vars PROVE OrderInv'
    OBVIOUS
  <1>1. CASE Handler
    BY <1>1, HandlerStep, ReplyStep, RegisterStep, PlanStep, UndoStep, NextCompensationStep,
       FiberLost
    DEF Handler
  <1>2. CASE Deliver \/ Resume \/ (\E o \in Operators : Operator(o)) \/ UNCHANGED vars
    BY <1>2, OutsideStep
  <1>3. CASE Disturb
    BY <1>3, FiberLost, OutsideStep DEF Disturb
  <1> QED
    BY <1>1, <1>2, <1>3 DEF Next

\* In every reachable state of a sequential handler the replays agree on what
\* completed, on its order and on the cause of the failure.
THEOREM OrderInvariance == ASSUME SequentialHandler PROVE Spec => []OrderInv
  BY OrderInit, OrderNext, Invariance, PTL DEF Spec

---------------------------------------------------------------------------
(* What follows from OrderInv                                              *)

\* Compensations run in reverse registration order (README.md), whatever
\* replays, crashes and decisions come between them.
THEOREM CompensationsInReverse == ASSUME SequentialHandler PROVE Spec => []UndoneInReverse
  <1>1. OrderInv => UndoneInReverse
    BY DEF OrderInv
  <1> QED
    BY <1>1, OrderInvariance, PTL

\* A run reports its failure when its completed steps are undone or given up,
\* with the cause that started the compensation.
THEOREM FailsAfterCompensation ==
    ASSUME SequentialHandler PROVE Spec => []FailureAfterCompensation
  <1>1. OrderInv => FailureAfterCompensation
    BY DEF OrderInv
  <1> QED
    BY <1>1, OrderInvariance, PTL

\* A suspended run that nobody is about to resume has a pending attempt that
\* pendingCompensation finds in the stored plan.
THEOREM SuspendedHasPending == ASSUME SequentialHandler PROVE Spec => []SuspendedIsPending
  <1>1. OrderInv => SuspendedIsPending
    BY DEF OrderInv
  <1> QED
    BY <1>1, OrderInvariance, PTL

\* A failed attempt that nobody has answered is the last one of its step, and
\* its step is not settled.
LEMMA UnansweredUnsettled ==
    ASSUME Inv, NEW s \in Steps, NEW m \in Attempts,
           failureSlot[<<s, m>>] # "empty", decisionSlot[<<s, m>>] = "empty"
    PROVE  /\ ~Settled(s)
           /\ \A n \in Attempts : undo[<<s, n>>] # "none" => n <= m
  <1>1. undo[<<s, m>>] = "failed" /\ DecisionAt(s, m) = "none"
    BY DEF Inv, RecordsJustified, PendingCompensation, DecisionAt, CompensationDecisionName
  <1>2. m \in Nat /\ \A n \in Attempts : n \in Nat
    BY DEF Attempts
  <1>3. ASSUME NEW n \in Attempts, undo[<<s, n>>] # "none" PROVE n <= m
    BY <1>1, <1>2, <1>3 DEF Inv, AttemptsReached, Retried
  <1>4. ASSUME NEW n \in Attempts, undo[<<s, n>>] = "ok" \/ DecisionAt(s, n) = "Stop"
        PROVE  FALSE
    <2>1. <<s, n>> \in PendingCompensation
      BY DEF PendingCompensation
    <2>2. undo[<<s, n>>] # "none"
      BY <1>4, <2>1 DEF DecisionAt, CompensationDecisionName, Inv, RecordsJustified
    <2>3. n < m
      BY <1>1, <1>2, <1>3, <1>4, <2>2
    <2>4. undo[<<s, n>>] = "failed" /\ DecisionAt(s, n) = "Retry"
      BY <1>1, <2>3 DEF Inv, AttemptsReached, Retried
    <2> QED
      BY <1>4, <2>4
  <1> QED
    BY <1>3, <1>4 DEF Settled

\* decidePending has no choice: one attempt at most waits for a decision.
THEOREM OneAttemptPending == ASSUME SequentialHandler PROVE Spec => []OnePending
  <1>1. ASSUME Inv, OrderInv PROVE OnePending
    <2> SUFFICES ASSUME NEW s \in Steps, NEW m \in Attempts,
                        NEW t \in Steps, NEW n \in Attempts,
                        failureSlot[<<s, m>>] # "empty", decisionSlot[<<s, m>>] = "empty",
                        failureSlot[<<t, n>>] # "empty", decisionSlot[<<t, n>>] = "empty"
                 PROVE  s = t /\ m = n
      BY DEF OnePending, PendingCompensation
    <2>1. undo[<<s, m>>] = "failed" /\ undo[<<t, n>>] = "failed"
      BY <1>1 DEF Inv, RecordsJustified, PendingCompensation
    <2>2. forward[s] = "ok" /\ forward[t] = "ok"
      BY <1>1, <2>1 DEF OrderInv, UndosPlanned, PendingCompensation
    <2>3. ~Settled(s) /\ ~Settled(t)
      BY <1>1, UnansweredUnsettled
    <2>4. s = t
      BY <1>1, <2>1, <2>2, <2>3 DEF SequentialHandler, OrderInv, UndoneInReverse
    <2>5. n <= m /\ m <= n /\ m \in Nat /\ n \in Nat
      BY <1>1, <2>1, <2>4, UnansweredUnsettled DEF Attempts
    <2> QED
      BY <2>4, <2>5
  <1> QED
    BY <1>1, Invariance, OrderInvariance, PTL

---------------------------------------------------------------------------
(* Refinement of CompensationSaga                                          *)

\* The mapping of ImplementsSaga.
ProgressOf(k) ==
    CASE undo[k] = "none"   -> "none"
      [] undo[k] = "ok"     -> "undone"
      [] undo[k] = "failed" -> IF decisionSlot[k] = "empty" THEN "failed" ELSE decision[k]

MappedProgress == [k \in PendingCompensation |-> ProgressOf(k)]

MappedOutcome == IF result \in Final THEN result ELSE "Open"

\* The saga's attempts and its operators on data are those of the model.
LEMMA SameData ==
    /\ Saga!Attempts = Attempts
    /\ Saga!Cardinality(Steps) = Cardinality(Steps)
    /\ \A order : Saga!IsInjective(order) <=> IsInjective(order)
  <1>1. Saga!Attempts = Attempts
    BY DEF Saga!Attempts, Attempts
  <1>2. Saga!Cardinality(Steps) = Cardinality(Steps)
    BY DEF Saga!Cardinality, Cardinality
  <1>3. \A order : Saga!IsInjective(order) <=> IsInjective(order)
    BY DEF Saga!IsInjective, IsInjective
  <1> QED
    BY <1>1, <1>2, <1>3

\* What the mapping says of an attempt.
LEMMA MappedAttempt ==
    ASSUME Inv, NEW k \in PendingCompensation
    PROVE  /\ MappedProgress[k] = ProgressOf(k)
           /\ undo[k] = "none" => ProgressOf(k) = "none"
           /\ undo[k] = "ok" => ProgressOf(k) = "undone"
           /\ undo[k] = "failed" /\ decisionSlot[k] = "empty" => ProgressOf(k) = "failed"
           /\ undo[k] = "failed" /\ decisionSlot[k] # "empty" => ProgressOf(k) = decision[k]
  BY DEF MappedProgress, ProgressOf

\* A step of the model that is settled is settled in the saga.
LEMMA MappedSettled ==
    ASSUME Inv, NEW s \in Steps, Settled(s)
    PROVE  Saga!Settled(s)
  <1>1. PICK n \in Attempts : undo[<<s, n>>] = "ok" \/ DecisionAt(s, n) = "Stop"
    BY DEF Settled
  <1>2. <<s, n>> \in PendingCompensation
    BY DEF PendingCompensation
  <1>3. MappedProgress[<<s, n>>] \in {"undone", "Stop"}
    <2>1. CASE undo[<<s, n>>] = "ok"
      BY <1>2, <2>1, MappedAttempt
    <2>2. CASE DecisionAt(s, n) = "Stop"
      <3>1. /\ decisionSlot[<<s, n>>] # "empty" /\ decision[<<s, n>>] = "Stop"
            /\ undo[<<s, n>>] = "failed"
        BY <1>2, <2>2 DEF DecisionAt, CompensationDecisionName, Inv, RecordsJustified
      <3> QED
        BY <1>2, <3>1, MappedAttempt
    <2> QED
      BY <1>1, <2>1, <2>2
  <1> QED
    BY <1>3, SameData DEF Saga!Settled, MappedProgress, ProgressOf

\* The saga begins with nothing planned and every attempt to be made.
LEMMA SagaInit == Init => Saga!Init
  <1> SUFFICES ASSUME Init PROVE Saga!Init
    OBVIOUS
  <1>1. [k \in PendingCompensation |-> "none"] = MappedProgress
    BY DEF Init, MappedProgress, ProgressOf
  <1> QED
    BY <1>1 DEF Init, Saga!Init, Saga!Attempts, Attempts, PendingCompensation, MappedProgress,
                ProgressOf, Final

\* A step that changes no reply, decision, plan or outcome is no step of it.
LEMMA SagaStutter ==
    ASSUME Inv,
           UNCHANGED <<undo, plan>>,
           planSlot' # "empty" <=> planSlot # "empty",
           \A k \in PendingCompensation :
              undo[k] = "failed" =>
                /\ decisionSlot'[k] # "empty" <=> decisionSlot[k] # "empty"
                /\ decisionSlot[k] # "empty" => decision'[k] = decision[k],
           MappedOutcome' = MappedOutcome
    PROVE  UNCHANGED Saga!vars
  <1>1. MappedProgress' = MappedProgress
    <2>1. \A k \in PendingCompensation : ProgressOf(k)' = ProgressOf(k)
      BY DEF ProgressOf, Inv, TypeOK, Reply
    <2> QED
      BY <2>1 DEF MappedProgress
  <1> QED
    BY <1>1 DEF Saga!vars, MappedProgress, ProgressOf, MappedOutcome

\* The first plan is the saga's.
LEMMA SagaPlan ==
    ASSUME IsFiniteSet(Steps), Inv, Inv', OrderInv, OrderInv', WritePlan,
           planSlot = "empty"
    PROVE  Saga!Next
  <1>1. /\ UNCHANGED <<undo, decision, decisionSlot, result>>
        /\ pc = "plan" /\ planSlot' # "empty"
    BY DEF WritePlan, engine, Written
  <1>2. /\ plan' \in Seq(Steps) /\ Len(plan') \in Nat
        /\ plan' \in [1 .. Len(plan') -> Steps]
        /\ IsInjective(plan')
        /\ \A i, j \in DOMAIN plan' : <<plan'[i], plan'[j]>> \in Before => j < i
    <2>1. plan' \in Seq(Steps)
      BY DEF Inv, TypeOK
    <2> QED
      BY <1>1, <2>1 DEF OrderInv, PlanInOrder
  <1>3. Len(plan') \in 0 .. Cardinality(Steps)
    <2>1. plan' \in Injection(1 .. Len(plan'), Steps)
      BY <1>2 DEF Injection
    <2>2. Cardinality(1 .. Len(plan')) <= Cardinality(Steps)
      BY <2>1, FS_Injection
    <2>3. Cardinality(1 .. Len(plan')) = Len(plan') /\ Cardinality(Steps) \in Nat
      <3> DEFINE n == Len(plan')
      <3>1. n \in Nat
        BY <1>2
      <3> HIDE DEF n
      <3>2. Cardinality(1 .. n) = IF 1 > n THEN 0 ELSE n - 1 + 1
        BY <3>1, FS_Interval
      <3>3. Cardinality(1 .. n) = n
        BY <3>1, <3>2
      <3> QED
        BY <3>3, FS_CardinalityType DEF n
    <2> QED
      BY <1>2, <2>2, <2>3
  <1>4. MappedProgress' = MappedProgress
    BY <1>1 DEF MappedProgress, ProgressOf
  <1>5. MappedOutcome = "Open" /\ MappedOutcome' = "Open"
    BY <1>1 DEF OrderInv, FiberRuns, MappedOutcome, Final
  <1>6. Saga!LaterFirst(plan')
    BY <1>2, SameData DEF Saga!LaterFirst
  <1>7. Saga!Plan(plan')
    BY <1>1, <1>4, <1>5, <1>6 DEF Saga!Plan, MappedProgress, ProgressOf, MappedOutcome
  <1> QED
    BY <1>2, <1>3, <1>7, SameData DEF Saga!Next

\* A reply of an undo is an attempt of the saga: what was planned before its
\* step is settled, its earlier attempts were retried.
LEMMA SagaAttempt ==
    ASSUME SequentialHandler, Inv, OrderInv, UndoReply
    PROVE  Saga!Next
  <1>0. PICK u, n : u = Head(todo) /\ n = attempt
    OBVIOUS
  <1>1. /\ pc = "undoing" /\ todo # <<>> /\ n \in Attempts
        /\ undo[UndoKey] = "none" /\ Retried(u, n)
        /\ UNCHANGED <<plan, planSlot, decision, decisionSlot, result>>
    BY <1>0 DEF UndoReply, Inv, TypeOK, FiberReached, engine
  <1>2. /\ u \in Completed /\ u \in Steps /\ u \in ToSet(plan) /\ planSlot # "empty"
        /\ UndoKey = <<u, n>> /\ <<u, n>> \in PendingCompensation
    BY <1>0, <1>1, HeadCompleted DEF Completed
  <1>3. PICK r \in {"ok", "failed"} : undo' = [undo EXCEPT ![<<u, n>>] = r]
    BY <1>2 DEF UndoReply
  <1>4. PICK i \in DOMAIN plan : plan[i] = u
    BY <1>2 DEF ToSet
  <1> DEFINE end == IF r = "ok" THEN "undone" ELSE "failed"
  <1>5. /\ MappedProgress' = [MappedProgress EXCEPT ![<<plan[i], n>>] = end]
        /\ MappedProgress[<<plan[i], n>>] = "none"
    <2>1. decisionSlot[<<u, n>>] = "empty"
      BY <1>1, <1>2 DEF Inv, RecordsJustified
    <2>2. ProgressOf(<<u, n>>)' = end /\ ProgressOf(<<u, n>>) = "none"
      BY <1>1, <1>2, <1>3, <2>1 DEF ProgressOf, Inv, TypeOK
    <2>3. \A k \in PendingCompensation : k # <<u, n>> => ProgressOf(k)' = ProgressOf(k)
      BY <1>1, <1>2, <1>3 DEF ProgressOf, Inv, TypeOK
    <2> QED
      BY <1>2, <1>4, <2>2, <2>3 DEF MappedProgress
  <1>6. \A j \in 1 .. i - 1 : Saga!Settled(plan[j])
    <2> SUFFICES ASSUME NEW j \in 1 .. i - 1 PROVE Saga!Settled(plan[j])
      OBVIOUS
    <2>1. plan \in Seq(Steps) /\ DOMAIN plan = 1 .. Len(plan) /\ Len(plan) \in Nat
      BY DEF Inv, TypeOK
    <2>2. j \in DOMAIN plan /\ j # i /\ ~(i < j) /\ plan[j] \in Steps
      BY <1>4, <2>1
    <2>3. plan[j] # plan[i] /\ <<plan[j], plan[i]>> \notin Before /\ plan[j] \in Completed
      BY <1>2, <2>2 DEF OrderInv, PlanInOrder, IsInjective, ToSet
    <2>4. <<Head(todo), plan[j]>> \in Before /\ forward[plan[j]] = "ok"
      BY <1>0, <1>2, <1>4, <2>2, <2>3 DEF SequentialHandler, Completed
    <2> QED
      BY <1>1, <2>2, <2>4, LaterSettled, MappedSettled
  <1>7. \A m \in 1 .. n - 1 : MappedProgress[<<plan[i], m>>] = "Retry"
    <2> SUFFICES ASSUME NEW m \in 1 .. n - 1
                 PROVE  MappedProgress[<<u, m>>] = "Retry"
      BY <1>4
    <2>1. m \in Attempts /\ m < n
      BY <1>1, AttemptAssumption DEF Attempts
    <2>2. undo[<<u, m>>] = "failed" /\ DecisionAt(u, m) = "Retry"
      BY <1>1, <2>1 DEF Retried
    <2>3. decisionSlot[<<u, m>>] # "empty" /\ decision[<<u, m>>] = "Retry"
      BY <2>2 DEF DecisionAt, CompensationDecisionName
    <2>4. <<u, m>> \in PendingCompensation
      BY <1>2, <2>1 DEF PendingCompensation
    <2> QED
      BY <2>2, <2>3, <2>4, MappedAttempt
  <1>8. MappedOutcome = "Open" /\ MappedOutcome' = MappedOutcome
    BY <1>1 DEF OrderInv, FiberRuns, MappedOutcome, Final
  <1>9. Saga!Attempt(i, n, end)
    BY <1>1, <1>2, <1>5, <1>6, <1>7, <1>8
    DEF Saga!Attempt, MappedProgress, ProgressOf, MappedOutcome
  <1>10. end \in {"undone", "failed"}
    BY <1>3
  <1> QED
    BY <1>1, <1>9, <1>10, SameData DEF Saga!Next

\* The decision that wins answers a failed attempt; a later one is no step.
LEMMA SagaAnswer ==
    ASSUME Inv, NEW o \in Operators, Submit(o)
    PROVE  Saga!Next \/ UNCHANGED Saga!vars
  <1>0. PICK k, choice : k = <<call[o].step, call[o].number>> /\ choice = call[o].choice
    OBVIOUS
  <1>1. /\ UNCHANGED <<undo, plan, planSlot, result>>
        /\ decision' = [decision EXCEPT ![k] =
                           IF decisionSlot[k] = "empty" THEN choice ELSE @]
        /\ decisionSlot' = [decisionSlot EXCEPT ![k] = Written(@)]
    BY <1>0 DEF Submit, CompensationDecisionName, engine
  <1>2. k \in PendingCompensation /\ choice \in CompensationDecision
    BY <1>0 DEF Inv, TypeOK, Call, PendingCompensation
  <1>3. undo[k] = "failed"
    BY <1>0, <1>2 DEF Submit, Inv, CallsReached, CallReached, FailureAt, CompensationFailureName,
                RecordsJustified
  <1>4. CASE decisionSlot[k] = "empty"
    <2>1. /\ MappedProgress[k] = "failed"
          /\ MappedProgress' = [MappedProgress EXCEPT ![k] = choice]
      <3>1. ProgressOf(k) = "failed" /\ ProgressOf(k)' = choice
        BY <1>1, <1>2, <1>3, <1>4 DEF ProgressOf, Inv, TypeOK, Written
      <3>2. \A j \in PendingCompensation : j # k => ProgressOf(j)' = ProgressOf(j)
        BY <1>1 DEF ProgressOf, Inv, TypeOK
      <3> QED
        BY <1>2, <3>1, <3>2 DEF MappedProgress
    <2>2. Saga!Answer(k, choice)
      BY <1>1, <2>1 DEF Saga!Answer, MappedProgress, ProgressOf, MappedOutcome
    <2>3. k \in Steps \X Saga!Attempts /\ choice \in {"Retry", "Stop"}
      BY <1>2, SameData DEF PendingCompensation, CompensationDecision
    <2> QED
      BY <2>2, <2>3 DEF Saga!Next
  <1>5. CASE decisionSlot[k] # "empty"
    <2>1. \A j \in PendingCompensation : UNCHANGED <<decision[j], decisionSlot[j]>>
      BY <1>1, <1>5 DEF Inv, TypeOK, Written
    <2>2. MappedOutcome' = MappedOutcome
      BY <1>1 DEF MappedOutcome
    <2> QED
      BY <1>1, <2>1, <2>2, SagaStutter
  <1> QED
    BY <1>4, <1>5

\* The ways a run ends; the interrupt of an undo may leave it open.
LEMMA SagaClose ==
    ASSUME Inv, OrderInv,
           HandlerSucceeds \/ Refail \/ Interrupt \/ UndoInterrupted
    PROVE  Saga!Next \/ UNCHANGED Saga!vars
  <1>1. UNCHANGED <<undo, plan, planSlot, decision, decisionSlot>>
    BY DEF HandlerSucceeds, Refail, Interrupt, UndoInterrupted, store
  <1>2. MappedProgress' = MappedProgress
    BY <1>1 DEF MappedProgress, ProgressOf
  <1>3. CASE HandlerSucceeds
    <2>1. planSlot = "empty"
      <3>1. Completed = Steps /\ ~bodyFails
        BY <1>3 DEF HandlerSucceeds, Finished, Completed, OrderInv, RegisteredInOrder, ToSet
      <3> QED
        BY <3>1 DEF OrderInv, ReplayAgrees, FailsWith, Completed
    <2>2. MappedOutcome = "Open" /\ MappedOutcome' = "Success"
      BY <1>3 DEF HandlerSucceeds, OrderInv, FiberRuns, MappedOutcome, Final
    <2>3. Saga!Close("Success")
      BY <1>1, <1>2, <2>1, <2>2 DEF Saga!Close, MappedProgress, ProgressOf, MappedOutcome
    <2> QED
      BY <2>3 DEF Saga!Next, Saga!Outcomes
  <1>4. CASE Refail
    <2>1. pc = "undo" /\ todo = <<>> /\ planSlot # "empty"
      BY <1>4 DEF Refail, OrderInv, ReplayAgrees
    <2>2. MappedOutcome = "Open" /\ MappedOutcome' = "Failure"
      BY <1>4 DEF Refail, OrderInv, FiberRuns, MappedOutcome, Final
    <2>3. ASSUME NEW i \in DOMAIN plan PROVE Saga!Settled(plan[i])
      <3>1. plan[i] \in Completed
        BY <2>1 DEF OrderInv, PlanInOrder, ToSet
      <3> QED
        BY <2>1, <3>1, MappedSettled DEF OrderInv, TodoInOrder, ToSet, Completed
    <2>4. Saga!Close("Failure")
      BY <1>1, <1>2, <2>1, <2>2, <2>3
      DEF Saga!Close, MappedProgress, ProgressOf, MappedOutcome
    <2> QED
      BY <2>4 DEF Saga!Next, Saga!Outcomes
  <1>5. CASE Interrupt \/ UndoInterrupted
    <2>1. /\ MappedOutcome = "Open"
          /\ MappedOutcome' \in {"Open", "Interrupted"}
      BY <1>5 DEF Interrupt, UndoInterrupted, OrderInv, FiberRuns, MappedOutcome, Final
    <2>2. CASE MappedOutcome' = "Interrupted"
      <3>1. Saga!Close("Interrupted")
        BY <1>1, <1>2, <2>1, <2>2 DEF Saga!Close, MappedProgress, ProgressOf, MappedOutcome
      <3> QED
        BY <3>1 DEF Saga!Next, Saga!Outcomes
    <2>3. CASE MappedOutcome' = "Open"
      BY <1>1, <2>1, <2>3, SagaStutter
    <2> QED
      BY <2>1, <2>2, <2>3
  <1> QED
    BY <1>3, <1>4, <1>5

\* The steps that move the result of the run.
LEMMA ResultMoves ==
    ASSUME Inv, OrderInv, [Next]_vars
    PROVE  \/ MappedOutcome' = MappedOutcome
           \/ HandlerSucceeds \/ Refail \/ Interrupt \/ UndoInterrupted
  <1> USE DEF store, engine, fiber, outside
  <1>1. CASE Handler
    <2>1. CASE AwaitSuspend
      BY <2>1 DEF AwaitSuspend, OrderInv, FiberRuns, MappedOutcome, Final
    <2>2. CASE ~AwaitSuspend /\ ~HandlerSucceeds /\ ~Refail
      <3>1. result' = result
        BY <1>1, <2>2
        DEF Handler, StartHandler, ForwardReply, Register, HandlerFails, WritePlan, StartUndo,
            UndoReply, UndoSucceeded, RecordFailure, AwaitRetry, AwaitStop
      <3> QED
        BY <3>1 DEF MappedOutcome
    <2> QED
      BY <2>1, <2>2
  <1>2. CASE Deliver \/ Resume \/ ResumeUnasked \/ Crash
    <2>1. result' = result \/ (result = "Suspended" /\ result' = "None")
      BY <1>2 DEF Deliver, DeliverPlan, DeliverFailure, DeliverDecision, Delivered, Resume,
                  ResumeUnasked, Crash
    <2> QED
      BY <2>1 DEF MappedOutcome, Final
  <1>3. CASE \E o \in Operators : Operator(o)
    <2>1. result' = result
      BY <1>3 DEF Operator, Read, Continue, Decide, DecidePending, Submit, AwaitAccepted,
                  EndCall, Timeout
    <2> QED
      BY <2>1 DEF MappedOutcome
  <1>4. CASE UNCHANGED vars
    BY <1>4 DEF vars, MappedOutcome
  <1> QED
    BY <1>1, <1>2, <1>3, <1>4 DEF Next, Disturb

\* Every step of the model is a step of the saga or none.
LEMMA SagaStep ==
    ASSUME SequentialHandler, IsFiniteSet(Steps)
    PROVE  Inv /\ Inv' /\ OrderInv /\ OrderInv' /\ [Next]_vars => [Saga!Next]_(Saga!vars)
  <1> SUFFICES ASSUME Inv, Inv', OrderInv, OrderInv', [Next]_vars
               PROVE  Saga!Next \/ UNCHANGED Saga!vars
    OBVIOUS
  <1>1. CASE WritePlan /\ planSlot = "empty"
    BY <1>1, SagaPlan
  <1>2. CASE UndoReply
    BY <1>2, SagaAttempt
  <1>3. CASE \E o \in Operators : Submit(o)
    BY <1>3, SagaAnswer
  <1>4. CASE HandlerSucceeds \/ Refail \/ Interrupt \/ UndoInterrupted
    BY <1>4, SagaClose
  <1>5. CASE /\ ~(WritePlan /\ planSlot = "empty") /\ ~UndoReply
             /\ ~\E o \in Operators : Submit(o)
             /\ ~(HandlerSucceeds \/ Refail \/ Interrupt \/ UndoInterrupted)
    <2>1. UNCHANGED <<undo, plan>> /\ (planSlot' # "empty" <=> planSlot # "empty")
      BY <1>5, StorageMoves DEF WritePlan, Written, DeliverPlan
    <2>2. \A k \in PendingCompensation :
            /\ decisionSlot'[k] # "empty" <=> decisionSlot[k] # "empty"
            /\ decisionSlot[k] # "empty" => decision'[k] = decision[k]
      BY <1>5, DeferredMoves DEF DeliverDecision, Inv, TypeOK
    <2>3. MappedOutcome' = MappedOutcome
      BY <1>5, ResultMoves
    <2> QED
      BY <2>1, <2>2, <2>3, SagaStutter
  <1> QED
    BY <1>1, <1>2, <1>3, <1>4, <1>5

\* Replays, crashes, races of operators and stale answers show nothing that
\* the saga of README.md's compensation section does not do.
THEOREM SagaIsImplemented ==
    ASSUME SequentialHandler, IsFiniteSet(Steps) PROVE Spec => ImplementsSaga
  BY Invariance, OrderInvariance, SagaInit, SagaStep, PTL DEF Spec, ImplementsSaga, Saga!Spec

=============================================================================

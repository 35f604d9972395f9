------------------------ MODULE DurableCompensation ------------------------
(***************************************************************************)
(* The durable compensation of one workflow execution, as               *)
(* src/internal/durable-compensation.ts and wrapWorkflowHandler in         *)
(* src/internal/workflow-actor.ts run it: the handler replays from the     *)
(* top, registers the undo of every step it completes, and when it fails   *)
(* writes a compensation plan and runs the undo Activities in reverse.     *)
(* An undo that fails suspends the run until an operator decides Retry or  *)
(* Stop through the compensation API of the actor.                         *)
(*                                                                         *)
(* Three kinds of process interleave: the handler fiber of the execution,  *)
(* the workflow engine's storage (which makes a durable write visible some *)
(* time after it was accepted, delivers resumes and may lose the fiber),   *)
(* and the operators that call decide and decidePending.                   *)
(***************************************************************************)
EXTENDS Integers, FiniteSets, SequencesExt

CONSTANTS
    Steps,          \* the steps of the handler that have an undo
    Before,         \* <<t, s>>: the handler starts s only after t registered
    Operators,      \* callers of the compensation API
    MaxAttempt,     \* bound: the undo of this attempt does not fail
    MaxDisruptions  \* bound: crashes, interrupted undos, unasked resumes,
                    \* calls that time out

ASSUME StepsAssumption == Steps # {}
ASSUME AttemptAssumption == MaxAttempt \in Nat \ {0}
ASSUME DisruptionAssumption == MaxDisruptions \in Nat
ASSUME BeforeAssumption == Before \subseteq Steps \X Steps

CompensationDecision == {"Retry", "Stop"}
Attempts == 1 .. MaxAttempt
PendingCompensation == Steps \X Attempts

VARIABLES
    \* the engine's durable storage
    forward,       \* reply of each step's Activity
    undo,          \* reply of each compensation Activity
    plan,          \* value of the CompensationPlan deferred
    planSlot,      \* whether that deferred is written and readable
    failureSlot,   \* the same for each CompensationFailure deferred
    decision,      \* value of each CompensationDecision deferred
    decisionSlot,  \* whether that deferred is written and readable
    result,        \* what workflow.poll finds
    exitCause,     \* the cause the execution completed with
    wake,          \* a finished deferred has asked to resume the run
    \* the handler fiber, lost by a crash, a suspension and the end
    pc, registered, todo, attempt, cause,
    \* the operators
    call,
    \* the handler's code after its steps fails, in every replay
    bodyFails,
    \* counts what MaxDisruptions bounds
    disruptions,
    \* history: the cause for which the plan was first written
    original

store == <<forward, undo, plan, planSlot, failureSlot, decision, decisionSlot>>
fiber == <<pc, registered, todo, attempt, cause>>
outside == <<bodyFails, disruptions, original>>
engine == <<result, exitCause, wake>>
vars == <<store, engine, fiber, call, outside>>

Reply == {"none", "ok", "failed"}
Slot == {"empty", "written", "visible"}
Final == {"Success", "Failure", "Interrupted"}
Causes == Steps \cup {"none", "body"}

(***************************************************************************)
(* Names of the durable records.  An Activity's storage key carries the    *)
(* attempt; the names of the deferreds have to carry it themselves.        *)
(***************************************************************************)
CompensationActivityName(s, n) == <<s, n>>
CompensationFailureName(s, n) == <<s, n>>
\* Mutant: the name of a decision does not carry the attempt.
DecisionNameWithoutAttempt(s, n) == <<s, 1>>

CompensationDecisionName(s, n) == <<s, n>>

\* readDeferredAt: only a visible write is found.
FailureAt(s, n) == failureSlot[CompensationFailureName(s, n)] = "visible"
DecisionAt(s, n) ==
    IF decisionSlot[CompensationDecisionName(s, n)] = "visible"
    THEN decision[CompensationDecisionName(s, n)]
    ELSE "none"

\* A deferred takes its first write.
Written(slot) == IF slot = "empty" THEN "written" ELSE slot

---------------------------------------------------------------------------
(* The handler: forward steps and registration.                            *)

FiberDown ==
    /\ pc' = "down"
    /\ registered' = <<>>
    /\ todo' = <<>>
    /\ attempt' = 1
    /\ cause' = "none"

\* The engine runs the handler from the top: first run, resume or restart.
StartHandler ==
    /\ pc = "down"
    /\ result = "None"
    /\ pc' = "body"
    /\ UNCHANGED <<registered, todo, attempt, cause, store, engine, call, outside>>

\* step.run(s) has been reached and has not registered its undo yet.
Reached(s) ==
    /\ s \notin ToSet(registered)
    /\ \A t \in Steps : <<t, s>> \in Before => t \in ToSet(registered)

\* The Activity of a step ends and its reply is persisted.
ForwardReply(s) ==
    /\ pc = "body"
    /\ Reached(s)
    /\ forward[s] = "none"
    /\ \E r \in {"ok", "failed"} : forward' = [forward EXCEPT ![s] = r]
    /\ UNCHANGED <<undo, plan, planSlot, failureSlot, decision, decisionSlot>>
    /\ UNCHANGED <<engine, fiber, call, outside>>

\* add: the fiber has the value, from this run or from storage.
Register(s) ==
    /\ pc = "body"
    /\ Reached(s)
    /\ forward[s] = "ok"
    /\ registered' = Append(registered, s)
    /\ UNCHANGED <<pc, todo, attempt, cause, store, engine, call, outside>>

Finished == ToSet(registered) = Steps

\* The handler fails with the cause of a failed step, or its own.  Steps
\* that run beside the failed one and have not registered are interrupted.
HandlerFails ==
    /\ pc = "body"
    /\ \/ \E s \in Steps : Reached(s) /\ forward[s] = "failed" /\ cause' = s
       \/ Finished /\ bodyFails /\ cause' = "body"
    /\ pc' = "plan"
    /\ UNCHANGED <<registered, todo, attempt, store, engine, call, outside>>

HandlerSucceeds ==
    /\ pc = "body"
    /\ Finished
    /\ ~bodyFails
    /\ result' = "Success"
    /\ FiberDown
    /\ UNCHANGED <<store, exitCause, wake, call, outside>>

---------------------------------------------------------------------------
(* compensate and run.                                                     *)

\* Mutant: the compensations are not reversed.
RegistrationOrder(steps) == steps

\* The compensations of a run, in the order it runs them.
CompensationOrder(steps) == Reverse(steps)

\* Mutant: the plan is kept in memory only.
WritePlanInMemory ==
    /\ pc = "plan"
    /\ todo' = Reverse(registered)
    /\ original' = cause
    /\ attempt' = 1
    /\ pc' = "undo"
    /\ UNCHANGED <<registered, cause, store, engine, call, bodyFails, disruptions>>

WritePlan ==
    /\ pc = "plan"
    /\ todo' = CompensationOrder(registered)
    /\ plan' = IF planSlot = "empty" THEN CompensationOrder(registered) ELSE plan
    /\ planSlot' = Written(planSlot)
    /\ original' = IF planSlot = "empty" THEN cause ELSE original
    /\ attempt' = 1
    /\ pc' = "undo"
    /\ UNCHANGED <<forward, undo, failureSlot, decision, decisionSlot>>
    /\ UNCHANGED <<registered, cause, engine, call, bodyFails, disruptions>>

UndoKey == CompensationActivityName(Head(todo), attempt)

\* Mutant: the next compensation goes on with the attempt of this one.
NextCompensationSameAttempt ==
    /\ todo' = Tail(todo)
    /\ attempt' = attempt
    /\ pc' = "undo"

\* The next compensation in this fiber's order, at its first attempt.
NextCompensation ==
    /\ todo' = Tail(todo)
    /\ attempt' = 1
    /\ pc' = "undo"

\* Mutant: a replay runs the undo again, whatever reply is stored.
StartUndoAgain ==
    /\ pc = "undo"
    /\ todo # <<>>
    /\ pc' = "undoing"
    /\ UNCHANGED <<registered, todo, attempt, cause, store, engine, call, outside>>

StartUndo ==
    /\ pc = "undo"
    /\ todo # <<>>
    /\ undo[UndoKey] = "none"
    /\ pc' = "undoing"
    /\ UNCHANGED <<registered, todo, attempt, cause, store, engine, call, outside>>

\* The undo ran and the Activity's reply is persisted.
UndoReply ==
    /\ pc = "undoing"
    /\ \E r \in {"ok", "failed"} :
        /\ r = "failed" => attempt < MaxAttempt
        /\ undo' = [undo EXCEPT ![UndoKey] = r]
    /\ pc' = "undo"
    /\ UNCHANGED <<forward, plan, planSlot, failureSlot, decision, decisionSlot>>
    /\ UNCHANGED <<registered, todo, attempt, cause, engine, call, outside>>

\* Activity result, fresh or from storage: the compensation is complete.
UndoSucceeded ==
    /\ pc = "undo"
    /\ todo # <<>>
    /\ undo[UndoKey] = "ok"
    /\ NextCompensation
    /\ UNCHANGED <<registered, cause, store, engine, call, outside>>

\* Mutant: a compensation that succeeded asks for a decision as well.
RecordOutcome ==
    /\ pc = "undo"
    /\ todo # <<>>
    /\ undo[UndoKey] # "none"
    /\ failureSlot' = [failureSlot EXCEPT ![UndoKey] = Written(@)]
    /\ pc' = "await"
    /\ UNCHANGED <<forward, undo, plan, planSlot, decision, decisionSlot>>
    /\ UNCHANGED <<registered, todo, attempt, cause, engine, call, outside>>

\* Activity result, fresh or from storage: record the attempt as pending.
RecordFailure ==
    /\ pc = "undo"
    /\ todo # <<>>
    /\ undo[UndoKey] = "failed"
    /\ failureSlot' = [failureSlot EXCEPT
                        ![CompensationFailureName(Head(todo), attempt)] = Written(@)]
    /\ pc' = "await"
    /\ UNCHANGED <<forward, undo, plan, planSlot, decision, decisionSlot>>
    /\ UNCHANGED <<registered, todo, attempt, cause, engine, call, outside>>

\* An undo whose cause has interrupts records nothing and asks nobody.
UndoInterrupted ==
    /\ pc = "undoing"
    /\ disruptions < MaxDisruptions
    /\ disruptions' = disruptions + 1
    /\ result' \in {"None", "Interrupted"}
    /\ FiberDown
    /\ UNCHANGED <<store, exitCause, wake, call, bodyFails, original>>

AwaitRetry ==
    /\ pc = "await"
    /\ DecisionAt(Head(todo), attempt) = "Retry"
    /\ attempt' = attempt + 1
    /\ pc' = "undo"
    /\ UNCHANGED <<registered, todo, cause, store, engine, call, outside>>

\* Mutant: an attempt that nobody answered is given up.
AwaitStopUnasked ==
    /\ pc = "await"
    /\ DecisionAt(Head(todo), attempt) # "Retry"
    /\ NextCompensation
    /\ UNCHANGED <<registered, cause, store, engine, call, outside>>

AwaitStop ==
    /\ pc = "await"
    /\ DecisionAt(Head(todo), attempt) = "Stop"
    /\ NextCompensation
    /\ UNCHANGED <<registered, cause, store, engine, call, outside>>

\* DurableDeferred.await without a result: the execution suspends.
AwaitSuspend ==
    /\ pc = "await"
    /\ DecisionAt(Head(todo), attempt) = "none"
    /\ result' = "Suspended"
    /\ FiberDown
    /\ UNCHANGED <<store, exitCause, wake, call, outside>>

\* Mutant: the failure is reported while compensations are left.
RefailEarly ==
    /\ pc = "undo"
    /\ result' = "Failure"
    /\ exitCause' = cause
    /\ FiberDown
    /\ UNCHANGED <<store, wake, call, outside>>

\* Every compensation ended: the handler fails again with its own cause.
Refail ==
    /\ pc = "undo"
    /\ todo = <<>>
    /\ result' = "Failure"
    /\ exitCause' = cause
    /\ FiberDown
    /\ UNCHANGED <<store, wake, call, outside>>

---------------------------------------------------------------------------
(* The engine: visibility, resume, crash; actor.interrupt, actor.resume.   *)

\* A deferred that is done becomes readable and resumes a suspended run.
Delivered ==
    /\ wake' = (wake \/ result = "Suspended")
    /\ UNCHANGED <<result, exitCause, fiber, call, outside>>

DeliverPlan ==
    /\ planSlot = "written"
    /\ planSlot' = "visible"
    /\ UNCHANGED <<forward, undo, plan, failureSlot, decision, decisionSlot>>
    /\ Delivered

DeliverFailure(k) ==
    /\ failureSlot[k] = "written"
    /\ failureSlot' = [failureSlot EXCEPT ![k] = "visible"]
    /\ UNCHANGED <<forward, undo, plan, planSlot, decision, decisionSlot>>
    /\ Delivered

DeliverDecision(k) ==
    /\ decisionSlot[k] = "written"
    /\ decisionSlot' = [decisionSlot EXCEPT ![k] = "visible"]
    /\ UNCHANGED <<forward, undo, plan, planSlot, failureSlot, decision>>
    /\ Delivered

Resume ==
    /\ result = "Suspended"
    /\ wake
    /\ result' = "None"
    /\ wake' = FALSE
    /\ UNCHANGED <<store, exitCause, fiber, call, outside>>

\* actor.resume, or the retry schedule of a suspended run.
ResumeUnasked ==
    /\ result = "Suspended"
    /\ ~wake
    /\ disruptions < MaxDisruptions
    /\ disruptions' = disruptions + 1
    /\ result' = "None"
    /\ UNCHANGED <<store, exitCause, wake, fiber, call, bodyFails, original>>

Crash ==
    /\ pc # "down"
    /\ disruptions < MaxDisruptions
    /\ disruptions' = disruptions + 1
    /\ FiberDown
    /\ UNCHANGED <<store, engine, call, bodyFails, original>>

\* actor.interrupt: an interrupt-only cause does not start compensation.
Interrupt ==
    /\ result \notin Final
    /\ result' = "Interrupted"
    /\ wake' = FALSE
    /\ FiberDown
    /\ UNCHANGED <<store, exitCause, call, outside>>

---------------------------------------------------------------------------
(* The operators.  Every durable read is a step of its own.                *)

CallPc == {"idle", "poll", "plan", "failure", "decision", "accepted",
           "commit", "submit", "await", "returned"}
Outcome == {"none", "Accepted", "Conflict", "NotPending"}

\* exact: decide(stepId, attempt, choice); otherwise decidePending(choice).
\* rest and attempt are the position of the walk over the plan that was read.
Call == [pc : CallPc, exact : BOOLEAN, step : Steps, number : Attempts,
         choice : CompensationDecision, rest : Seq(Steps), attempt : Attempts,
         outcome : Outcome]

NoCall == [pc |-> "idle", exact |-> FALSE, step |-> CHOOSE s \in Steps : TRUE,
           number |-> 1, choice |-> "Retry", rest |-> <<>>, attempt |-> 1,
           outcome |-> "none"]

Goto(c, next) == [c EXCEPT !.pc = next]
WalkEnds(c, next) == [c EXCEPT !.pc = next, !.rest = <<>>, !.attempt = 1]
Return(c, outcome) == [WalkEnds(c, "returned") EXCEPT !.outcome = outcome]

\* pendingCompensation returned none: decide still looks for its decision.
NonePending(c) ==
    IF c.exact THEN WalkEnds(c, "accepted") ELSE Return(c, "NotPending")

\* The walk goes to the first attempt of the next step, if there is one.
WalkTo(c, steps) ==
    IF steps = <<>>
    THEN NonePending(c)
    ELSE [c EXCEPT !.pc = "failure", !.rest = steps, !.attempt = 1]

\* Mutant: decide does not compare its target with the pending attempt.
PendingUnchecked(c) == WalkEnds(c, "commit")

\* pendingCompensation returned the attempt the walk stands at.
Pending(c) ==
    IF c.exact /\ <<c.step, c.number>> # <<Head(c.rest), c.attempt>>
    THEN Return(c, "Conflict")
    ELSE [WalkEnds(c, "commit") EXCEPT !.step = Head(c.rest), !.number = c.attempt]

\* A decision that was read: the caller's own, or another's.
Settle(c, accepted) == Return(c, IF accepted = c.choice THEN "Accepted" ELSE "Conflict")

PollRun(c) == IF result = "Suspended" THEN Goto(c, "plan") ELSE NonePending(c)

ReadPlan(c) == IF planSlot = "visible" THEN WalkTo(c, plan) ELSE NonePending(c)

\* Mutant: the walk ends at the first step that did not fail.
ReadFailureFirstOnly(c) ==
    IF FailureAt(Head(c.rest), c.attempt) THEN Goto(c, "decision") ELSE NonePending(c)

ReadFailure(c) ==
    IF FailureAt(Head(c.rest), c.attempt)
    THEN Goto(c, "decision")
    ELSE WalkTo(c, Tail(c.rest))

ReadDecision(c) ==
    LET found == DecisionAt(Head(c.rest), c.attempt)
    IN  CASE found = "none"  -> Pending(c)
          [] found = "Stop"  -> WalkTo(c, Tail(c.rest))
          [] found = "Retry" -> [c EXCEPT !.pc = "failure", !.attempt = @ + 1]

ReadAccepted(c) ==
    LET found == DecisionAt(c.step, c.number)
    IN  IF found = "none" THEN Return(c, "NotPending") ELSE Settle(c, found)

ReadCommitted(c) ==
    LET found == DecisionAt(c.step, c.number)
    IN  IF found = "none" THEN Goto(c, "submit") ELSE Settle(c, found)

Continue(o, next) ==
    /\ call' = [call EXCEPT ![o] = next]
    /\ UNCHANGED <<store, engine, fiber, outside>>

Decide(o, s, n, choice) ==
    /\ call[o].pc = "idle"
    /\ Continue(o, [NoCall EXCEPT !.pc = "poll", !.exact = TRUE, !.step = s,
                                  !.number = n, !.choice = choice])

DecidePending(o, choice) ==
    /\ call[o].pc = "idle"
    /\ Continue(o, [NoCall EXCEPT !.pc = "poll", !.choice = choice])

Read(o) ==
    \/ call[o].pc = "poll"     /\ Continue(o, PollRun(call[o]))
    \/ call[o].pc = "plan"     /\ Continue(o, ReadPlan(call[o]))
    \/ call[o].pc = "failure"  /\ Continue(o, ReadFailure(call[o]))
    \/ call[o].pc = "decision" /\ Continue(o, ReadDecision(call[o]))
    \/ call[o].pc = "accepted" /\ Continue(o, ReadAccepted(call[o]))
    \/ call[o].pc = "commit"   /\ Continue(o, ReadCommitted(call[o]))

\* DurableDeferred.succeed: the first decision that is written wins.
Submit(o) ==
    LET k == CompensationDecisionName(call[o].step, call[o].number)
    IN  /\ call[o].pc = "submit"
        /\ decision' = [decision EXCEPT ![k] =
                          IF decisionSlot[k] = "empty" THEN call[o].choice ELSE @]
        /\ decisionSlot' = [decisionSlot EXCEPT ![k] = Written(@)]
        /\ call' = [call EXCEPT ![o].pc = "await"]
        /\ UNCHANGED <<forward, undo, plan, planSlot, failureSlot>>
        /\ UNCHANGED <<engine, fiber, outside>>

\* Mutant: the write of the own decision counts as its acceptance.
AcceptedOnWrite(o) ==
    /\ call[o].pc = "await"
    /\ Continue(o, Return(call[o], "Accepted"))

\* Mutant: the wait ends only when the caller's decision has won.
AwaitOwnDecision(o) ==
    /\ call[o].pc = "await"
    /\ DecisionAt(call[o].step, call[o].number) = call[o].choice
    /\ Continue(o, Return(call[o], "Accepted"))

\* awaitAccepted polls until the winner is visible.
AwaitAccepted(o) ==
    /\ call[o].pc = "await"
    /\ DecisionAt(call[o].step, call[o].number) # "none"
    /\ Continue(o, Settle(call[o], DecisionAt(call[o].step, call[o].number)))

\* The caller has its answer and may call again.
EndCall(o) ==
    /\ call[o].pc = "returned"
    /\ Continue(o, NoCall)

\* The caller gives up waiting for an answer (Effect.timeout).
Timeout(o) ==
    /\ call[o].pc \notin {"idle", "returned"}
    /\ disruptions < MaxDisruptions
    /\ disruptions' = disruptions + 1
    /\ call' = [call EXCEPT ![o] = NoCall]
    /\ UNCHANGED <<store, engine, fiber, bodyFails, original>>

---------------------------------------------------------------------------
Init ==
    /\ forward = [s \in Steps |-> "none"]
    /\ undo = [k \in PendingCompensation |-> "none"]
    /\ plan = <<>>
    /\ planSlot = "empty"
    /\ failureSlot = [k \in PendingCompensation |-> "empty"]
    /\ decision = [k \in PendingCompensation |-> "none"]
    /\ decisionSlot = [k \in PendingCompensation |-> "empty"]
    /\ result = "None"
    /\ exitCause = "none"
    /\ wake = FALSE
    /\ pc = "down"
    /\ registered = <<>>
    /\ todo = <<>>
    /\ attempt = 1
    /\ cause = "none"
    /\ call = [o \in Operators |-> NoCall]
    /\ bodyFails \in BOOLEAN
    /\ disruptions = 0
    /\ original = "none"

Handler ==
    \/ StartHandler \/ HandlerFails \/ HandlerSucceeds
    \/ \E s \in Steps : ForwardReply(s) \/ Register(s)
    \/ WritePlan \/ StartUndo \/ UndoReply \/ UndoSucceeded \/ RecordFailure
    \/ AwaitRetry \/ AwaitStop \/ AwaitSuspend \/ Refail

Deliver ==
    \/ DeliverPlan
    \/ \E k \in PendingCompensation : DeliverFailure(k) \/ DeliverDecision(k)

Disturb == UndoInterrupted \/ ResumeUnasked \/ Crash \/ Interrupt

Operator(o) ==
    \/ \E s \in Steps, n \in Attempts, choice \in CompensationDecision :
        Decide(o, s, n, choice)
    \/ \E choice \in CompensationDecision : DecidePending(o, choice)
    \/ Read(o) \/ Submit(o) \/ AwaitAccepted(o) \/ EndCall(o) \/ Timeout(o)

Next ==
    \/ Handler
    \/ Deliver \/ Resume
    \/ Disturb
    \/ \E o \in Operators : Operator(o)

Spec == Init /\ [][Next]_vars

(***************************************************************************)
(* Fairness: the engine runs the handler of an execution it has not        *)
(* completed, makes every write visible and delivers every resume; a call  *)
(* in progress goes on.  Each operator keeps calling decidePending: often  *)
(* enough, though not always, as decide is another call it may choose.     *)
(* Nothing is assumed of crashes, interrupts and timeouts.                 *)
(***************************************************************************)
FairSpec ==
    /\ Spec
    /\ WF_vars(Handler) /\ WF_vars(Deliver) /\ WF_vars(Resume)
    /\ \A o \in Operators :
        /\ WF_vars(Read(o) \/ Submit(o) \/ AwaitAccepted(o) \/ EndCall(o))
        /\ SF_vars(\E choice \in CompensationDecision : DecidePending(o, choice))

---------------------------------------------------------------------------
(* Properties                                                              *)

TypeOK ==
    /\ forward \in [Steps -> Reply]
    /\ undo \in [PendingCompensation -> Reply]
    /\ plan \in Seq(Steps)
    /\ planSlot \in Slot
    /\ failureSlot \in [PendingCompensation -> Slot]
    /\ decision \in [PendingCompensation -> CompensationDecision \cup {"none"}]
    /\ decisionSlot \in [PendingCompensation -> Slot]
    /\ result \in Final \cup {"None", "Suspended"}
    /\ exitCause \in Causes
    /\ wake \in BOOLEAN
    /\ pc \in {"down", "body", "plan", "undo", "undoing", "await"}
    /\ registered \in Seq(Steps)
    /\ todo \in Seq(Steps)
    /\ attempt \in Attempts
    /\ cause \in Causes
    /\ call \in [Operators -> Call]
    /\ bodyFails \in BOOLEAN
    /\ disruptions \in 0 .. MaxDisruptions
    /\ original \in Causes

\* A decision is only ever recorded for an attempt whose undo failed and was
\* recorded as pending, however stale the pending attempt an operator read is.
DecisionAnswersFailure ==
    \A k \in PendingCompensation :
        decisionSlot[k] # "empty" =>
            undo[k] = "failed" /\ failureSlot[k] = "visible"

\* The undo of an attempt after the first runs only once an operator's Retry
\* of every attempt before it is visible: no failed undo is retried unasked,
\* in any replay.
RetriesAreDecided ==
    \A s \in Steps, m, n \in Attempts :
        m < n /\ undo[<<s, n>>] # "none" =>
            /\ undo[<<s, m>>] = "failed"
            /\ decisionSlot[<<s, m>>] = "visible" /\ decision[<<s, m>>] = "Retry"

\* An operator that is told its decision was accepted is told so of the
\* decision the run will read: of two that answer one attempt differently,
\* concurrently, at most one succeeds.
AcceptedIsDurable ==
    \A o \in Operators :
        call[o].outcome = "Accepted" =>
            DecisionAt(call[o].step, call[o].number) = call[o].choice

\* The attempt of step s needs no more work: undone, or stopped.
Settled(s) ==
    \E n \in Attempts : undo[<<s, n>>] = "ok" \/ DecisionAt(s, n) = "Stop"

\* A completed or stopped compensation never runs again: not by a replay, a
\* restart, or a retry of an older attempt.
SettledStaysSettled ==
    [][\A s \in Steps : Settled(s) =>
          \A n \in Attempts : undo'[<<s, n>>] = undo[<<s, n>>]]_vars

\* Reverse registration order, across replays: no undo runs before every
\* later step the handler had completed is settled.
UndoneInReverse ==
    \A t, s \in Steps :
        /\ <<t, s>> \in Before
        /\ forward[s] = "ok"
        /\ \E n \in Attempts : undo[<<t, n>>] # "none"
        => Settled(s)

\* At most one attempt waits for a decision, so decidePending has no choice.
OnePending ==
    \A j, k \in PendingCompensation :
        /\ failureSlot[j] # "empty" /\ decisionSlot[j] = "empty"
        /\ failureSlot[k] # "empty" /\ decisionSlot[k] = "empty"
        => j = k

\* The run reports its failure only after every step it had completed is
\* undone or stopped, and reports the failure that started the compensation.
FailureAfterCompensation ==
    result = "Failure" =>
        /\ \A s \in Steps : forward[s] = "ok" => Settled(s)
        /\ exitCause = original

\* A run that an operator has to unblock shows the operator what to decide:
\* a suspended run whose failure records are readable and which nobody is
\* about to resume has a pending attempt, in a step of the durable plan.
SuspendedIsPending ==
    result = "Suspended" /\ ~wake =>
        \E k \in PendingCompensation :
            /\ failureSlot[k] # "empty" /\ decisionSlot[k] # "visible"
            /\ k[1] \in ToSet(plan)

\* The promise of README.md's compensation section, as CompensationSaga states
\* it: every step of this model is a step of the saga or leaves it unchanged.
\* An attempt is answered when the winning decision is written.
Saga == INSTANCE CompensationSaga WITH
    planned <- planSlot # "empty",
    list <- plan,
    progress <- [k \in PendingCompensation |->
                    CASE undo[k] = "none"   -> "none"
                      [] undo[k] = "ok"     -> "undone"
                      [] undo[k] = "failed" ->
                           IF decisionSlot[k] = "empty" THEN "failed" ELSE decision[k]],
    outcome <- IF result \in Final THEN result ELSE "Open"

ImplementsSaga == Saga!Spec

\* Once compensation has started the run ends, although undos fail, the
\* fiber is lost and operators race, time out and give stale answers.
CompensationEnds == planSlot # "empty" ~> result \in Final

\* Every call to the compensation API returns: the wait for the winning
\* decision ends.
CallsReturn == \A o \in Operators : call[o].pc # "idle" ~> call[o].pc \in {"idle", "returned"}

=============================================================================

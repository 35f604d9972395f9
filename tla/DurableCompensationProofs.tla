--------------------- MODULE DurableCompensationProofs ---------------------
(***************************************************************************)
(* What TLAPS proves of DurableCompensation, for every set of steps, every *)
(* order in which the handler starts them, every set of operators and      *)
(* every bound: the inductive invariant Inv, and from it type correctness  *)
(* and the properties of decisions and replays.                            *)
(***************************************************************************)
EXTENDS DurableCompensation, TLAPS

---------------------------------------------------------------------------
(* The inductive invariant                                                 *)

\* Every attempt of s before n failed and was answered with a visible Retry.
Retried(s, n) ==
    \A m \in Attempts : m < n => undo[<<s, m>>] = "failed" /\ DecisionAt(s, m) = "Retry"

\* The bound: the last attempt does not fail.
FailuresBounded == \A s \in Steps, n \in Attempts : undo[<<s, n>>] = "failed" => n < MaxAttempt

\* A failure is recorded of an undo that failed, a decision of a failure
\* that an operator could read.
RecordsJustified ==
    \A k \in PendingCompensation :
        /\ failureSlot[k] # "empty" => undo[k] = "failed"
        /\ decisionSlot[k] # "empty" =>
              failureSlot[k] = "visible" /\ decision[k] \in CompensationDecision

\* What has been tried was reached through decided retries.
AttemptsReached ==
    \A s \in Steps, n \in Attempts : undo[<<s, n>>] # "none" => Retried(s, n)

\* So was the attempt the fiber stands at, in this replay.
FiberReached ==
    /\ pc \in {"undoing", "await"} => todo # <<>>
    /\ pc = "undoing" => undo[UndoKey] = "none"
    /\ pc = "await" => failureSlot[UndoKey] # "empty"
    /\ pc \in {"undo", "undoing", "await"} /\ todo # <<>> => Retried(Head(todo), attempt)

\* What an operator carries from its earlier reads is still so.
CallReached(c) ==
    /\ c.pc # "returned" => c.outcome = "none"
    /\ c.pc \in {"failure", "decision"} => c.rest # <<>>
    /\ c.pc = "decision" => FailureAt(Head(c.rest), c.attempt)
    /\ c.pc \in {"commit", "submit", "await"} => FailureAt(c.step, c.number)
    /\ c.outcome = "Accepted" => DecisionAt(c.step, c.number) = c.choice

CallsReached == \A o \in Operators : CallReached(call[o])

Inv ==
    /\ TypeOK
    /\ FailuresBounded
    /\ RecordsJustified
    /\ AttemptsReached
    /\ FiberReached
    /\ CallsReached

---------------------------------------------------------------------------
(* Lemmas: the steps of a call, and writes to durable slots.               *)

\* An idle operator has a well-formed call that knows nothing.
LEMMA NoCallType == NoCall \in Call /\ CallReached(NoCall)
  <1>1. (CHOOSE s \in Steps : TRUE) \in Steps
    BY StepsAssumption
  <1>2. 1 \in Attempts
    BY AttemptAssumption DEF Attempts
  <1>3. <<>> \in Seq(Steps)
    OBVIOUS
  <1> QED
    BY <1>1, <1>2, <1>3
    DEF NoCall, Call, CallReached, CallPc, Outcome, CompensationDecision

\* The fields of Return and WalkEnds.
LEMMA WalkEndsType ==
    ASSUME NEW c \in Call, NEW next \in CallPc
    PROVE  /\ WalkEnds(c, next) \in Call
           /\ WalkEnds(c, next) = [c EXCEPT !.pc = next, !.rest = <<>>, !.attempt = 1]
  <1>1. 1 \in Attempts /\ <<>> \in Seq(Steps)
    BY AttemptAssumption DEF Attempts
  <1> QED
    BY <1>1 DEF WalkEnds, Call

\* A call may return Accepted only with the decision the run will read.
LEMMA ReturnType ==
    ASSUME NEW c \in Call, NEW outcome \in Outcome,
           outcome = "Accepted" => DecisionAt(c.step, c.number) = c.choice
    PROVE  Return(c, outcome) \in Call /\ CallReached(Return(c, outcome))
  <1>1. 1 \in Attempts /\ <<>> \in Seq(Steps)
    BY AttemptAssumption DEF Attempts
  <1>2. Return(c, outcome) =
          [c EXCEPT !.pc = "returned", !.rest = <<>>, !.attempt = 1, !.outcome = outcome]
    BY DEF Return, WalkEnds, Call
  <1> QED
    BY <1>1, <1>2 DEF Call, CallReached, CallPc, Outcome

\* A walk that found nothing pending leaves a well-formed call.
LEMMA NonePendingType ==
    ASSUME NEW c \in Call, c.outcome = "none"
    PROVE  NonePending(c) \in Call /\ CallReached(NonePending(c))
  <1>1. CASE c.exact
    <2>1. /\ WalkEnds(c, "accepted") \in Call
          /\ WalkEnds(c, "accepted") =
               [c EXCEPT !.pc = "accepted", !.rest = <<>>, !.attempt = 1]
      BY WalkEndsType DEF CallPc
    <2>2. CallReached(WalkEnds(c, "accepted"))
      BY <2>1 DEF Call, CallReached
    <2> QED
      BY <1>1, <2>1, <2>2 DEF NonePending
  <1>2. CASE ~c.exact
    BY <1>2, ReturnType DEF NonePending, Outcome
  <1> QED
    BY <1>1, <1>2

\* So does a walk that goes on to the next step of the plan.
LEMMA WalkToType ==
    ASSUME NEW c \in Call, c.outcome = "none", NEW steps \in Seq(Steps)
    PROVE  WalkTo(c, steps) \in Call /\ CallReached(WalkTo(c, steps))
  <1>1. CASE steps = <<>>
    BY <1>1, NonePendingType DEF WalkTo
  <1>2. CASE steps # <<>>
    <2>1. 1 \in Attempts
      BY AttemptAssumption DEF Attempts
    <2> QED
      BY <1>2, <2>1 DEF WalkTo, Call, CallReached, CallPc
  <1> QED
    BY <1>1, <1>2

\* Settling against the decision that was read is honest.
LEMMA SettleType ==
    ASSUME NEW c \in Call
    PROVE  LET found == DecisionAt(c.step, c.number)
           IN  Settle(c, found) \in Call /\ CallReached(Settle(c, found))
  BY ReturnType DEF Settle, Outcome

\* A step of a call: what PollRun ... ReadCommitted make of it.
LEMMA ReadType ==
    ASSUME Inv, NEW o \in Operators, NEW c, c = call[o]
    PROVE  /\ c.pc = "poll"     => PollRun(c) \in Call /\ CallReached(PollRun(c))
           /\ c.pc = "plan"     => ReadPlan(c) \in Call /\ CallReached(ReadPlan(c))
           /\ c.pc = "failure"  => ReadFailure(c) \in Call /\ CallReached(ReadFailure(c))
           /\ c.pc = "decision" => ReadDecision(c) \in Call /\ CallReached(ReadDecision(c))
           /\ c.pc = "accepted" => ReadAccepted(c) \in Call /\ CallReached(ReadAccepted(c))
           /\ c.pc = "commit"   => ReadCommitted(c) \in Call /\ CallReached(ReadCommitted(c))
  <1>1. c \in Call /\ CallReached(c)
    BY DEF Inv, TypeOK, CallsReached
  <1>2. plan \in Seq(Steps)
    BY DEF Inv, TypeOK
  <1>3. ASSUME c.pc = "poll"
        PROVE  PollRun(c) \in Call /\ CallReached(PollRun(c))
    <2>1. c.outcome = "none"
      BY <1>1, <1>3 DEF CallReached
    <2>2. Goto(c, "plan") \in Call /\ CallReached(Goto(c, "plan"))
      BY <1>1, <2>1 DEF Goto, Call, CallPc, CallReached
    <2> QED
      BY <1>1, <2>1, <2>2, NonePendingType DEF PollRun
  <1>4. ASSUME c.pc = "plan"
        PROVE  ReadPlan(c) \in Call /\ CallReached(ReadPlan(c))
    <2>1. c.outcome = "none"
      BY <1>1, <1>4 DEF CallReached
    <2> QED
      BY <1>1, <1>2, <2>1, NonePendingType, WalkToType DEF ReadPlan
  <1>5. ASSUME c.pc = "failure"
        PROVE  ReadFailure(c) \in Call /\ CallReached(ReadFailure(c))
    <2>1. c.outcome = "none" /\ c.rest # <<>> /\ c.rest \in Seq(Steps)
      BY <1>1, <1>5 DEF CallReached, Call
    <2>2. Tail(c.rest) \in Seq(Steps)
      BY <2>1
    <2>3. CASE FailureAt(Head(c.rest), c.attempt)
      <3>1. Goto(c, "decision") \in Call /\ CallReached(Goto(c, "decision"))
        BY <1>1, <2>1, <2>3 DEF Goto, Call, CallPc, CallReached
      <3> QED
        BY <2>3, <3>1 DEF ReadFailure
    <2>4. CASE ~FailureAt(Head(c.rest), c.attempt)
      BY <1>1, <2>1, <2>2, <2>4, WalkToType DEF ReadFailure
    <2> QED
      BY <2>3, <2>4
  <1>6. ASSUME c.pc = "decision"
        PROVE  ReadDecision(c) \in Call /\ CallReached(ReadDecision(c))
    <2> DEFINE s == Head(c.rest)
               k == <<s, c.attempt>>
    <2>1. /\ c.outcome = "none" /\ c.rest # <<>> /\ c.rest \in Seq(Steps)
          /\ c.attempt \in Attempts
          /\ FailureAt(s, c.attempt)
      BY <1>1, <1>6 DEF CallReached, Call
    <2>2. s \in Steps /\ Tail(c.rest) \in Seq(Steps)
      BY <2>1
    <2>3. k \in PendingCompensation
      BY <2>1, <2>2 DEF PendingCompensation
    <2>4. undo[k] = "failed"
      BY <2>1, <2>3 DEF FailureAt, CompensationFailureName, Inv, RecordsJustified
    <2>5. c.attempt + 1 \in Attempts
      BY <2>1, <2>2, <2>4, AttemptAssumption DEF Inv, FailuresBounded, Attempts
    <2>6. DecisionAt(s, c.attempt) \in {"none", "Stop", "Retry"}
      BY <2>3 DEF DecisionAt, CompensationDecisionName, Inv, TypeOK, CompensationDecision
    <2>7. CASE DecisionAt(s, c.attempt) = "none"
      <3>1. CASE c.exact /\ <<c.step, c.number>> # <<s, c.attempt>>
        BY <1>1, <2>7, <3>1, ReturnType DEF ReadDecision, Pending, Outcome
      <3>2. CASE ~(c.exact /\ <<c.step, c.number>> # <<s, c.attempt>>)
        <4> DEFINE d == [c EXCEPT !.pc = "commit", !.rest = <<>>, !.attempt = 1,
                                  !.step = s, !.number = c.attempt]
        <4>1. WalkEnds(c, "commit") \in Call /\ WalkEnds(c, "commit") =
                [c EXCEPT !.pc = "commit", !.rest = <<>>, !.attempt = 1]
          BY <1>1, WalkEndsType DEF CallPc
        <4>2. ReadDecision(c) = d
          BY <1>1, <2>7, <3>2, <4>1 DEF ReadDecision, Pending, Call
        <4>3. 1 \in Attempts /\ <<>> \in Seq(Steps)
          BY AttemptAssumption DEF Attempts
        <4>4. d \in Call
          BY <1>1, <2>1, <2>2, <4>3 DEF Call, CallPc
        <4>5. CallReached(d)
          BY <1>1, <2>1 DEF Call, CallReached
        <4> QED
          BY <4>2, <4>4, <4>5
      <3> QED
        BY <3>1, <3>2
    <2>8. CASE DecisionAt(s, c.attempt) = "Stop"
      BY <1>1, <2>1, <2>2, <2>8, WalkToType DEF ReadDecision
    <2>9. CASE DecisionAt(s, c.attempt) = "Retry"
      <3>1. ReadDecision(c) = [c EXCEPT !.pc = "failure", !.attempt = c.attempt + 1]
        BY <1>1, <2>9 DEF ReadDecision, Call
      <3> QED
        BY <1>1, <2>1, <2>5, <3>1 DEF Call, CallPc, CallReached
    <2> QED
      BY <2>6, <2>7, <2>8, <2>9
  <1>7. ASSUME c.pc = "accepted"
        PROVE  ReadAccepted(c) \in Call /\ CallReached(ReadAccepted(c))
    BY <1>1, SettleType, ReturnType DEF ReadAccepted, Outcome
  <1>8. ASSUME c.pc = "commit"
        PROVE  ReadCommitted(c) \in Call /\ CallReached(ReadCommitted(c))
    <2>1. c.outcome = "none" /\ FailureAt(c.step, c.number)
      BY <1>1, <1>8 DEF CallReached
    <2>2. Goto(c, "submit") \in Call /\ CallReached(Goto(c, "submit"))
      BY <1>1, <2>1 DEF Goto, Call, CallPc, CallReached
    <2> QED
      BY <1>1, <2>2, SettleType DEF ReadCommitted
  <1> QED
    BY <1>3, <1>4, <1>5, <1>6, <1>7, <1>8

---------------------------------------------------------------------------
(* Inv is inductive.                                                       *)

\* Inv holds of a workflow that has not started.
LEMMA InitInv == Init => Inv
  <1> SUFFICES ASSUME Init PROVE Inv
    OBVIOUS
  <1> USE DEF Init
  <1>1. TypeOK
    <2>1. 1 \in Attempts /\ <<>> \in Seq(Steps)
      BY AttemptAssumption DEF Attempts
    <2>2. call \in [Operators -> Call]
      BY NoCallType
    <2>3. disruptions \in 0 .. MaxDisruptions
      BY DisruptionAssumption
    <2> QED
      BY <2>1, <2>2, <2>3 DEF TypeOK, Reply, Slot, Final, Causes
  <1>2. FailuresBounded /\ AttemptsReached
    BY DEF FailuresBounded, AttemptsReached, PendingCompensation
  <1>3. RecordsJustified
    BY DEF RecordsJustified
  <1>4. FiberReached
    BY DEF FiberReached
  <1>5. CallsReached
    BY NoCallType DEF CallsReached
  <1> QED
    BY <1>1, <1>2, <1>3, <1>4, <1>5 DEF Inv

\* A step that leaves the durable records alone keeps what they justify.
LEMMA RecordsKept ==
    ASSUME Inv, UNCHANGED store
    PROVE  /\ FailuresBounded'
           /\ RecordsJustified'
           /\ AttemptsReached'
           /\ \A s \in Steps, n \in Attempts : Retried(s, n)' = Retried(s, n)
           /\ \A s, n : FailureAt(s, n)' = FailureAt(s, n)
           /\ \A s, n : DecisionAt(s, n)' = DecisionAt(s, n)
  BY DEF Inv, store, FailuresBounded, RecordsJustified, AttemptsReached, Retried,
         FailureAt, DecisionAt

\* A step of the handler that writes no deferred keeps what the calls know.
LEMMA CallsKept ==
    ASSUME Inv, UNCHANGED <<call, failureSlot, decision, decisionSlot>>
    PROVE  CallsReached'
  BY DEF Inv, CallsReached, CallReached, FailureAt, DecisionAt

\* A fiber that is down is at no attempt.
LEMMA FiberDownReached ==
    ASSUME FiberDown
    PROVE  /\ FiberReached'
           /\ pc' = "down" /\ registered' \in Seq(Steps) /\ todo' \in Seq(Steps)
           /\ attempt' \in Attempts /\ cause' \in Causes
  <1>1. 1 \in Attempts /\ <<>> \in Seq(Steps)
    BY AttemptAssumption DEF Attempts
  <1> QED
    BY <1>1 DEF FiberDown, FiberReached, Causes

\* The first attempt of a compensation needs no decision.
LEMMA FirstAttempt ==
    ASSUME NEW s \in Steps
    PROVE  1 \in Attempts /\ Retried(s, 1)
  BY AttemptAssumption DEF Attempts, Retried

\* The handler's steps that write nothing durable: they move the fiber.
LEMMA FiberStep ==
    ASSUME Inv,
           \/ StartHandler \/ HandlerFails \/ HandlerSucceeds
           \/ \E s \in Steps : Register(s)
           \/ StartUndo \/ UndoSucceeded \/ UndoInterrupted
           \/ AwaitRetry \/ AwaitStop \/ AwaitSuspend \/ Refail
    PROVE  Inv'
  <1>1. TypeOK /\ FiberReached
    BY DEF Inv
  <1>2. UNCHANGED store /\ UNCHANGED call
    BY DEF StartHandler, HandlerFails, HandlerSucceeds, Register, StartUndo, UndoSucceeded,
           UndoInterrupted, AwaitRetry, AwaitStop, AwaitSuspend, Refail
  <1>3. RecordsJustified' /\ FailuresBounded' /\ AttemptsReached' /\ CallsReached'
    BY <1>2, RecordsKept, CallsKept DEF store
  <1>4. SUFFICES TypeOK' /\ FiberReached'
    BY <1>3 DEF Inv
  <1>5. CASE StartHandler
    BY <1>1, <1>5 DEF StartHandler, store, engine, outside, TypeOK, FiberReached
  <1>6. CASE HandlerFails
    BY <1>1, <1>6 DEF HandlerFails, store, engine, outside, TypeOK, FiberReached, Causes
  <1>7. CASE HandlerSucceeds
    <2>1. FiberDown
      BY <1>7 DEF HandlerSucceeds
    <2> QED
      BY <1>1, <1>7, <2>1, FiberDownReached
      DEF HandlerSucceeds, store, outside, TypeOK, Final
  <1>8. ASSUME NEW s \in Steps, Register(s) PROVE TypeOK' /\ FiberReached'
    BY <1>1, <1>8 DEF Register, store, engine, outside, TypeOK, FiberReached
  <1>9. CASE StartUndo
    <2>1. Retried(Head(todo), attempt)'
      BY <1>1, <1>2, <1>9, RecordsKept
      DEF StartUndo, FiberReached, store, Retried, DecisionAt
    <2>2. (undo[UndoKey] = "none")'
      BY <1>9 DEF StartUndo, UndoKey, store, CompensationActivityName
    <2> QED
      BY <1>1, <1>9, <2>1, <2>2
      DEF StartUndo, store, engine, outside, TypeOK, FiberReached
  <1>10. CASE UndoSucceeded \/ AwaitStop
    <2>1. /\ todo # <<>> /\ todo' = Tail(todo) /\ attempt' = 1 /\ pc' = "undo"
          /\ UNCHANGED <<registered, cause, store, engine, call, outside>>
      BY <1>1, <1>10 DEF UndoSucceeded, AwaitStop, NextCompensation, FiberReached
    <2>2. todo' \in Seq(Steps)
      BY <1>1, <2>1 DEF TypeOK
    <2>3. todo' # <<>> => Retried(Head(todo), attempt)'
      <3>1. \A s \in Steps : Retried(s, 1)'
        BY FirstAttempt, <1>2, RecordsKept
      <3>2. todo' # <<>> => Head(todo') \in Steps
        BY <2>2
      <3> QED
        BY <2>1, <3>1, <3>2 DEF Retried, DecisionAt
    <2>4. 1 \in Attempts
      BY AttemptAssumption DEF Attempts
    <2> QED
      BY <1>1, <2>1, <2>2, <2>3, <2>4
      DEF store, engine, outside, TypeOK, FiberReached
  <1>11. CASE AwaitRetry
    <2> DEFINE s == Head(todo)
    <2>1. todo # <<>> /\ s \in Steps /\ attempt \in Attempts
      BY <1>1, <1>11 DEF AwaitRetry, FiberReached, TypeOK
    <2>2. DecisionAt(s, attempt) = "Retry" /\ Retried(s, attempt)
      BY <1>1, <1>11, <2>1 DEF AwaitRetry, FiberReached
    <2>3. undo[<<s, attempt>>] = "failed"
      <3>1. failureSlot[<<s, attempt>>] # "empty"
        BY <1>1, <1>11 DEF AwaitRetry, FiberReached, UndoKey, CompensationActivityName
      <3>2. <<s, attempt>> \in PendingCompensation
        BY <2>1 DEF PendingCompensation
      <3> QED
        BY <3>1, <3>2 DEF Inv, RecordsJustified
    <2>4. attempt + 1 \in Attempts
      BY <2>1, <2>3, AttemptAssumption DEF Inv, FailuresBounded, Attempts
    <2>5. Retried(s, attempt + 1)
      BY <2>1, <2>2, <2>3 DEF Retried, Attempts
    <2>6. Retried(Head(todo), attempt)'
      BY <1>11, <2>5 DEF AwaitRetry, Retried, DecisionAt, store
    <2> QED
      BY <1>1, <1>11, <2>4, <2>6
      DEF AwaitRetry, store, engine, outside, TypeOK, FiberReached
  <1>12. CASE UndoInterrupted \/ AwaitSuspend \/ Refail
    <2>1. FiberDown
      BY <1>12 DEF UndoInterrupted, AwaitSuspend, Refail
    <2>2. disruptions' \in 0 .. MaxDisruptions
      BY <1>1, <1>12, DisruptionAssumption
      DEF UndoInterrupted, AwaitSuspend, Refail, outside, TypeOK
    <2>3. result' \in Final \cup {"None", "Suspended"} /\ exitCause' \in Causes
      BY <1>1, <1>12 DEF UndoInterrupted, AwaitSuspend, Refail, TypeOK, Final
    <2> QED
      BY <1>1, <1>12, <2>1, <2>2, <2>3, FiberDownReached
      DEF UndoInterrupted, AwaitSuspend, Refail, store, outside, TypeOK
  <1> QED
    BY <1>5, <1>6, <1>7, <1>8, <1>9, <1>10, <1>11, <1>12

\* The handler's steps that write to storage.
LEMMA ForwardStep ==
    ASSUME Inv, NEW s \in Steps, ForwardReply(s)
    PROVE  Inv'
  BY DEF ForwardReply, Inv, fiber, engine, outside, TypeOK, Reply, FailuresBounded,
         RecordsJustified, AttemptsReached, Retried, FiberReached, UndoKey, DecisionAt,
         CallsReached, CallReached, FailureAt

\* Writing the plan starts the fiber at a first attempt.
LEMMA WritePlanStep ==
    ASSUME Inv, WritePlan
    PROVE  Inv'
  <1>1. CompensationOrder(registered) \in Seq(Steps)
    BY DEF Inv, TypeOK, CompensationOrder, Reverse
  <1>2. TypeOK'
    <2>1. 1 \in Attempts
      BY AttemptAssumption DEF Attempts
    <2> QED
      BY <1>1, <2>1 DEF WritePlan, Inv, TypeOK, engine, Written, Slot
  <1>3. FailuresBounded' /\ RecordsJustified' /\ AttemptsReached'
    BY DEF WritePlan, Inv, FailuresBounded, RecordsJustified, AttemptsReached, Retried,
           DecisionAt
  <1>4. FiberReached'
    <2>1. todo' # <<>> => Head(todo') \in Steps
      BY <1>2 DEF TypeOK
    <2> QED
      BY <2>1, FirstAttempt DEF WritePlan, FiberReached, Retried, DecisionAt
  <1>5. CallsReached'
    BY CallsKept DEF WritePlan
  <1> QED
    BY <1>2, <1>3, <1>4, <1>5 DEF Inv

\* The reply of an undo is the first of its attempt, reached by Retries.
LEMMA UndoReplyStep ==
    ASSUME Inv, UndoReply
    PROVE  Inv'
  <1> DEFINE s == Head(todo)
  <1>1. /\ TypeOK /\ FailuresBounded /\ RecordsJustified /\ AttemptsReached
        /\ FiberReached
    BY DEF Inv
  <1>2. /\ todo # <<>> /\ s \in Steps /\ attempt \in Attempts
        /\ UndoKey = <<s, attempt>> /\ undo[<<s, attempt>>] = "none"
        /\ Retried(s, attempt)
    BY <1>1 DEF UndoReply, FiberReached, TypeOK, UndoKey, CompensationActivityName
  <1>3. PICK r \in {"ok", "failed"} :
          /\ r = "failed" => attempt < MaxAttempt
          /\ undo' = [undo EXCEPT ![<<s, attempt>>] = r]
    BY <1>2 DEF UndoReply
  <1>4. <<s, attempt>> \in PendingCompensation
    BY <1>2 DEF PendingCompensation
  <1>5. \A k \in PendingCompensation : undo[k] # "none" => undo'[k] = undo[k]
    BY <1>1, <1>2, <1>3 DEF TypeOK
  <1>6. \A t \in Steps, n \in Attempts : Retried(t, n) => Retried(t, n)'
    <2> SUFFICES ASSUME NEW t \in Steps, NEW n \in Attempts, Retried(t, n),
                        NEW m \in Attempts, m < n
                 PROVE  undo'[<<t, m>>] = "failed" /\ DecisionAt(t, m)' = "Retry"
      BY DEF Retried
    <2>1. undo[<<t, m>>] = "failed" /\ DecisionAt(t, m) = "Retry"
      BY DEF Retried
    <2>2. <<t, m>> \in PendingCompensation
      BY DEF PendingCompensation
    <2> QED
      BY <1>5, <2>1, <2>2 DEF UndoReply, DecisionAt
  <1>7. TypeOK'
    BY <1>1, <1>3, <1>4 DEF UndoReply, TypeOK, Reply, engine, outside
  <1>8. FailuresBounded'
    BY <1>1, <1>3, <1>4 DEF FailuresBounded, TypeOK, PendingCompensation
  <1>9. RecordsJustified'
    BY <1>1, <1>5 DEF RecordsJustified, UndoReply
  <1>10. AttemptsReached'
    <2> SUFFICES ASSUME NEW t \in Steps, NEW n \in Attempts, undo'[<<t, n>>] # "none"
                 PROVE  Retried(t, n)'
      BY DEF AttemptsReached
    <2>1. CASE <<t, n>> = <<s, attempt>>
      BY <1>2, <1>6, <2>1
    <2>2. CASE <<t, n>> # <<s, attempt>>
      <3>1. undo[<<t, n>>] # "none"
        BY <1>1, <1>3, <2>2 DEF TypeOK, PendingCompensation
      <3> QED
        BY <1>1, <1>6, <3>1 DEF AttemptsReached
    <2> QED
      BY <2>1, <2>2
  <1>11. FiberReached'
    <2>1. Retried(s, attempt)'
      BY <1>2, <1>6 DEF UndoReply, Retried, DecisionAt
    <2> QED
      BY <2>1 DEF UndoReply, FiberReached, Retried, DecisionAt
  <1>12. CallsReached'
    BY CallsKept DEF UndoReply
  <1> QED
    BY <1>7, <1>8, <1>9, <1>10, <1>11, <1>12 DEF Inv

\* A deferred that is written or read by more, never unwritten or changed.
LEMMA SlotStep ==
    ASSUME Inv,
           UNCHANGED <<undo, call>>,
           \A k \in PendingCompensation :
              /\ failureSlot[k] # "empty" => failureSlot'[k] # "empty"
              /\ failureSlot[k] = "visible" => failureSlot'[k] = "visible"
              /\ decisionSlot[k] = "visible" =>
                    decisionSlot'[k] = "visible" /\ decision'[k] = decision[k]
    PROVE  /\ \A s \in Steps, n \in Attempts : Retried(s, n) => Retried(s, n)'
           /\ AttemptsReached' /\ FailuresBounded' /\ CallsReached'
  <1>1. \A s \in Steps, n \in Attempts : <<s, n>> \in PendingCompensation
    BY DEF PendingCompensation
  <1>2. \A s \in Steps, n \in Attempts :
          /\ FailureAt(s, n) => FailureAt(s, n)'
          /\ DecisionAt(s, n) # "none" => DecisionAt(s, n)' = DecisionAt(s, n)
    BY <1>1 DEF FailureAt, DecisionAt, CompensationFailureName, CompensationDecisionName
  <1>3. \A s \in Steps, n \in Attempts : Retried(s, n) => Retried(s, n)'
    BY <1>2 DEF Retried
  <1>4. AttemptsReached' /\ FailuresBounded'
    BY <1>3 DEF Inv, AttemptsReached, FailuresBounded
  <1>5. CallsReached'
    <2> SUFFICES ASSUME NEW o \in Operators PROVE CallReached(call[o])'
      BY DEF CallsReached
    <2>1. call[o] \in Call /\ CallReached(call[o]) /\ call'[o] = call[o]
      BY DEF Inv, TypeOK, CallsReached
    <2>2. /\ call[o].step \in Steps /\ call[o].number \in Attempts
          /\ call[o].attempt \in Attempts /\ call[o].choice \in {"Retry", "Stop"}
          /\ call[o].rest # <<>> => Head(call[o].rest) \in Steps
      BY <2>1 DEF Call, CompensationDecision
    <2> QED
      BY <1>2, <2>1, <2>2 DEF CallReached
  <1> QED
    BY <1>3, <1>4, <1>5

\* The record of a failure is justified by the reply the fiber found.
LEMMA RecordFailureStep ==
    ASSUME Inv, RecordFailure
    PROVE  Inv'
  <1> DEFINE s == Head(todo)
             k == <<s, attempt>>
  <1>1. todo # <<>> /\ s \in Steps /\ attempt \in Attempts /\ Retried(s, attempt)
    BY DEF RecordFailure, Inv, TypeOK, FiberReached
  <1>2. k \in PendingCompensation /\ undo[k] = "failed"
    BY <1>1 DEF RecordFailure, PendingCompensation, UndoKey, CompensationActivityName
  <1>3. failureSlot' = [failureSlot EXCEPT ![k] = Written(failureSlot[k])]
    BY DEF RecordFailure, CompensationFailureName
  <1>4. /\ failureSlot'[k] # "empty"
        /\ \A j \in PendingCompensation :
              /\ failureSlot'[j] \in Slot
              /\ j # k => failureSlot'[j] = failureSlot[j]
              /\ failureSlot[j] # "empty" => failureSlot'[j] = failureSlot[j]
    BY <1>2, <1>3 DEF Inv, TypeOK, Written, Slot
  <1>5. TypeOK'
    BY <1>2, <1>3, <1>4 DEF RecordFailure, Inv, TypeOK, engine, outside
  <1>6. RecordsJustified'
    BY <1>2, <1>4 DEF RecordFailure, Inv, RecordsJustified
  <1>7. /\ Retried(s, attempt)'
        /\ AttemptsReached' /\ FailuresBounded' /\ CallsReached'
    <2>1. UNCHANGED <<undo, call>> /\ UNCHANGED <<decision, decisionSlot>>
      BY DEF RecordFailure
    <2>2. UNCHANGED <<todo, attempt>>
      BY DEF RecordFailure
    <2>3. /\ \A t \in Steps, n \in Attempts : Retried(t, n) => Retried(t, n)'
          /\ AttemptsReached' /\ FailuresBounded' /\ CallsReached'
      BY <1>4, <2>1, SlotStep
    <2> QED
      BY <1>1, <2>1, <2>2, <2>3 DEF Retried, DecisionAt
  <1>8. FiberReached'
    <2>1. failureSlot'[UndoKey'] # "empty"
      BY <1>4 DEF RecordFailure, UndoKey, CompensationActivityName
    <2> QED
      BY <1>1, <1>7, <2>1 DEF RecordFailure, FiberReached
  <1> QED
    BY <1>5, <1>6, <1>7, <1>8 DEF Inv

\* A deferred that becomes visible shows what was written and no more.
LEMMA DeliverStep ==
    ASSUME Inv, Deliver
    PROVE  Inv'
  <1>1. UNCHANGED <<undo, call, pc, registered, todo, attempt, cause>>
    BY DEF Deliver, DeliverPlan, DeliverFailure, DeliverDecision, Delivered, fiber
  <1>2. UNCHANGED <<forward, plan, decision, result, exitCause, bodyFails, disruptions, original>>
    BY DEF Deliver, DeliverPlan, DeliverFailure, DeliverDecision, Delivered, outside
  <1>3. wake' \in BOOLEAN /\ planSlot' \in Slot
    BY DEF Deliver, DeliverPlan, DeliverFailure, DeliverDecision, Delivered, Inv, TypeOK, Slot
  <1>4. /\ failureSlot' \in [PendingCompensation -> Slot]
        /\ decisionSlot' \in [PendingCompensation -> Slot]
    BY DEF Deliver, DeliverPlan, DeliverFailure, DeliverDecision, Inv, TypeOK, Slot
  <1>5. \A k \in PendingCompensation :
          /\ (failureSlot'[k] # "empty") <=> (failureSlot[k] # "empty")
          /\ (decisionSlot'[k] # "empty") <=> (decisionSlot[k] # "empty")
          /\ failureSlot[k] = "visible" => failureSlot'[k] = "visible"
          /\ decisionSlot[k] = "visible" => decisionSlot'[k] = "visible"
    BY DEF Deliver, DeliverPlan, DeliverFailure, DeliverDecision, Inv, TypeOK
  <1>6. TypeOK'
    BY <1>1, <1>2, <1>3, <1>4 DEF Inv, TypeOK
  <1>7. RecordsJustified'
    BY <1>1, <1>2, <1>5 DEF Inv, RecordsJustified
  <1>8. /\ \A s \in Steps, n \in Attempts : Retried(s, n) => Retried(s, n)'
        /\ AttemptsReached' /\ FailuresBounded' /\ CallsReached'
    BY <1>1, <1>2, <1>5, SlotStep
  <1>9. FiberReached'
    <2>1. pc \in {"undo", "undoing", "await"} /\ todo # <<>> => Retried(Head(todo), attempt)'
      <3>1. todo # <<>> => Head(todo) \in Steps
        BY DEF Inv, TypeOK
      <3>2. attempt \in Attempts
        BY DEF Inv, TypeOK
      <3> QED
        BY <1>1, <1>8, <3>1, <3>2 DEF Inv, FiberReached, Retried, DecisionAt
    <2>2. pc = "await" => failureSlot'[UndoKey'] # "empty"
      <3>1. UndoKey' = UndoKey
        BY <1>1 DEF UndoKey, CompensationActivityName
      <3>2. pc = "await" => UndoKey \in PendingCompensation
        BY DEF Inv, TypeOK, FiberReached, UndoKey, CompensationActivityName, PendingCompensation
      <3> QED
        BY <1>5, <3>1, <3>2 DEF Inv, FiberReached
    <2> QED
      BY <1>1, <2>1, <2>2
      DEF Inv, FiberReached, UndoKey, CompensationActivityName
  <1> QED
    BY <1>6, <1>7, <1>8, <1>9 DEF Inv

\* Resumes, crashes and interrupts.
LEMMA EngineStep ==
    ASSUME Inv, Resume \/ ResumeUnasked \/ Crash \/ Interrupt
    PROVE  Inv'
  <1>1. UNCHANGED store /\ UNCHANGED call
    BY DEF Resume, ResumeUnasked, Crash, Interrupt
  <1>2. RecordsJustified' /\ FailuresBounded' /\ AttemptsReached' /\ CallsReached'
    BY <1>1, RecordsKept, CallsKept DEF store
  <1>3. /\ result' \in Final \cup {"None", "Suspended"}
        /\ exitCause' \in Causes /\ wake' \in BOOLEAN
    BY DEF Resume, ResumeUnasked, Crash, Interrupt, Inv, TypeOK, Final, engine
  <1>4. disruptions' \in 0 .. MaxDisruptions
    BY DisruptionAssumption
    DEF Resume, ResumeUnasked, Crash, Interrupt, Inv, TypeOK, outside
  <1>5. UNCHANGED <<bodyFails, original>>
    BY DEF Resume, ResumeUnasked, Crash, Interrupt, outside
  <1>6. FiberReached' /\ TypeOK'
    <2>1. CASE FiberDown
      BY <1>1, <1>3, <1>4, <1>5, <2>1, FiberDownReached DEF Inv, TypeOK, store
    <2>2. CASE UNCHANGED fiber
      BY <1>1, <1>3, <1>4, <1>5, <2>2
      DEF Inv, TypeOK, store, fiber, FiberReached, Retried, DecisionAt, UndoKey,
          CompensationActivityName
    <2> QED
      BY <2>1, <2>2 DEF Resume, ResumeUnasked, Crash, Interrupt
  <1> QED
    BY <1>2, <1>6 DEF Inv

\* A call that only changes its own position.
LEMMA CallStep ==
    ASSUME Inv, NEW o \in Operators, NEW next \in Call, CallReached(next),
           call' = [call EXCEPT ![o] = next],
           UNCHANGED <<store, engine, fiber, bodyFails, original>>,
           disruptions' \in 0 .. MaxDisruptions
    PROVE  Inv'
  <1>1. TypeOK'
    BY DEF Inv, TypeOK, store, engine, fiber
  <1>2. RecordsJustified' /\ FailuresBounded' /\ AttemptsReached'
    BY RecordsKept
  <1>3. FiberReached'
    BY DEF Inv, FiberReached, store, fiber, Retried, DecisionAt, UndoKey,
           CompensationActivityName
  <1>4. CallsReached'
    <2>1. \A p \in Operators : CallReached(call'[p])
      BY DEF Inv, TypeOK, CallsReached
    <2> QED
      BY <2>1 DEF CallsReached, CallReached, FailureAt, DecisionAt, store
  <1> QED
    BY <1>1, <1>2, <1>3, <1>4 DEF Inv

\* A call that goes on to a well-formed position disturbs nothing else.
LEMMA ContinueStep ==
    ASSUME Inv, NEW o \in Operators, NEW next \in Call, CallReached(next), Continue(o, next)
    PROVE  Inv'
  <1>1. disruptions' \in 0 .. MaxDisruptions
    BY DEF Continue, outside, Inv, TypeOK
  <1> QED
    BY <1>1, CallStep DEF Continue, outside

\* A decision is written for an attempt whose failure the caller had read,
\* and never over another decision.
LEMMA SubmitStep ==
    ASSUME Inv, NEW o \in Operators, Submit(o)
    PROVE  Inv'
  <1> DEFINE c == call[o]
             k == <<c.step, c.number>>
             next == [c EXCEPT !.pc = "await"]
  <1>1. c \in Call /\ CallReached(c) /\ c.pc = "submit"
    BY DEF Submit, Inv, TypeOK, CallsReached
  <1>2. k \in PendingCompensation /\ c.choice \in CompensationDecision
    BY <1>1 DEF Call, PendingCompensation
  <1>3. failureSlot[k] = "visible"
    BY <1>1 DEF CallReached, FailureAt, CompensationFailureName
  <1>4. /\ decision' = [decision EXCEPT ![k] =
                          IF decisionSlot[k] = "empty" THEN c.choice ELSE decision[k]]
        /\ decisionSlot' = [decisionSlot EXCEPT ![k] = Written(decisionSlot[k])]
        /\ call' = [call EXCEPT ![o] = next]
    BY DEF Submit, CompensationDecisionName
  <1>5. /\ UNCHANGED <<forward, undo, plan, planSlot, failureSlot>>
        /\ UNCHANGED <<result, exitCause, wake, pc, registered, todo, attempt, cause>>
        /\ UNCHANGED <<bodyFails, disruptions, original>>
    BY DEF Submit, engine, fiber, outside
  <1>6. next \in Call /\ CallReached(next)
    BY <1>1 DEF Call, CallPc, CallReached
  <1>7. \A j \in PendingCompensation :
          /\ decisionSlot'[j] \in Slot
          /\ decision'[j] \in CompensationDecision \cup {"none"}
          /\ decisionSlot[j] # "empty" =>
                decisionSlot'[j] = decisionSlot[j] /\ decision'[j] = decision[j]
          /\ j # k => decisionSlot'[j] = decisionSlot[j] /\ decision'[j] = decision[j]
    BY <1>2, <1>4 DEF Inv, TypeOK, Written, Slot
  <1>8. decision'[k] \in CompensationDecision
    BY <1>2, <1>4 DEF Inv, TypeOK, RecordsJustified
  <1>9. TypeOK'
    <2>1. call' \in [Operators -> Call]
      BY <1>4, <1>6 DEF Inv, TypeOK
    <2>2. /\ decisionSlot' \in [PendingCompensation -> Slot]
          /\ decision' \in [PendingCompensation -> CompensationDecision \cup {"none"}]
      BY <1>4, <1>7 DEF Inv, TypeOK
    <2> QED
      BY <1>5, <2>1, <2>2 DEF Inv, TypeOK
  <1>10. RecordsJustified'
    BY <1>3, <1>5, <1>7, <1>8 DEF Inv, RecordsJustified
  <1>11. /\ \A s \in Steps, n \in Attempts :
              /\ FailureAt(s, n)' = FailureAt(s, n)
              /\ DecisionAt(s, n) # "none" => DecisionAt(s, n)' = DecisionAt(s, n)
              /\ Retried(s, n) => Retried(s, n)'
    <2>1. \A s \in Steps, n \in Attempts :
            /\ FailureAt(s, n)' = FailureAt(s, n)
            /\ DecisionAt(s, n) # "none" => DecisionAt(s, n)' = DecisionAt(s, n)
      BY <1>5, <1>7 DEF FailureAt, DecisionAt, CompensationFailureName,
                        CompensationDecisionName, PendingCompensation
    <2> QED
      BY <1>5, <2>1 DEF Retried
  <1>12. AttemptsReached' /\ FailuresBounded'
    BY <1>5, <1>11 DEF Inv, AttemptsReached, FailuresBounded
  <1>13. FiberReached'
    <2>1. todo # <<>> => Head(todo) \in Steps
      BY DEF Inv, TypeOK
    <2>2. attempt \in Attempts
      BY DEF Inv, TypeOK
    <2>3. pc \in {"undo", "undoing", "await"} /\ todo # <<>> => Retried(Head(todo), attempt)'
      BY <1>5, <1>11, <2>1, <2>2 DEF Inv, FiberReached, Retried, DecisionAt
    <2> QED
      BY <1>5, <2>3 DEF Inv, FiberReached, UndoKey, CompensationActivityName
  <1>14. CallsReached'
    <2> SUFFICES ASSUME NEW p \in Operators PROVE CallReached(call[p])'
      BY DEF CallsReached
    <2> DEFINE d == call'[p]
    <2>1. d \in Call /\ CallReached(d)
      BY <1>4, <1>6 DEF Inv, TypeOK, CallsReached
    <2>2. /\ d.step \in Steps /\ d.number \in Attempts /\ d.attempt \in Attempts
          /\ d.choice # "none"
          /\ d.rest # <<>> => Head(d.rest) \in Steps
      BY <2>1 DEF Call, CompensationDecision
    <2> QED
      BY <1>11, <2>1, <2>2 DEF CallReached
  <1> QED
    BY <1>9, <1>10, <1>12, <1>13, <1>14 DEF Inv

\* Every step of an operator keeps Inv.
LEMMA OperatorStep ==
    ASSUME Inv, NEW o \in Operators, Operator(o)
    PROVE  Inv'
  <1>1. call[o] \in Call /\ CallReached(call[o])
    BY DEF Inv, TypeOK, CallsReached
  <1>2. ASSUME NEW s \in Steps, NEW n \in Attempts, NEW choice \in CompensationDecision,
               Decide(o, s, n, choice)
        PROVE  Inv'
    <2> DEFINE next == [NoCall EXCEPT !.pc = "poll", !.exact = TRUE, !.step = s,
                                      !.number = n, !.choice = choice]
    <2>1. next \in Call /\ CallReached(next)
      BY NoCallType DEF NoCall, Call, CallPc, CallReached
    <2> QED
      BY <1>2, <2>1, ContinueStep DEF Decide
  <1>3. ASSUME NEW choice \in CompensationDecision, DecidePending(o, choice)
        PROVE  Inv'
    <2> DEFINE next == [NoCall EXCEPT !.pc = "poll", !.choice = choice]
    <2>1. next \in Call /\ CallReached(next)
      BY NoCallType DEF NoCall, Call, CallPc, CallReached
    <2> QED
      BY <1>3, <2>1, ContinueStep DEF DecidePending
  <1>4. CASE Read(o)
    BY <1>4, ReadType, ContinueStep DEF Read
  <1>5. CASE AwaitAccepted(o)
    BY <1>1, <1>5, SettleType, ContinueStep DEF AwaitAccepted
  <1>6. CASE EndCall(o)
    BY <1>6, NoCallType, ContinueStep DEF EndCall
  <1>7. CASE Timeout(o)
    <2>1. disruptions' \in 0 .. MaxDisruptions
      BY <1>7, DisruptionAssumption DEF Timeout, Inv, TypeOK
    <2> QED
      BY <1>7, <2>1, NoCallType, CallStep DEF Timeout
  <1>8. CASE Submit(o)
    BY <1>8, SubmitStep
  <1> QED
    BY <1>2, <1>3, <1>4, <1>5, <1>6, <1>7, <1>8 DEF Operator

\* Inv is inductive: every step of the handler, the engine and the operators.
LEMMA NextInv == Inv /\ [Next]_vars => Inv'
  <1> SUFFICES ASSUME Inv, [Next]_vars PROVE Inv'
    OBVIOUS
  <1>1. CASE Handler
    BY <1>1, FiberStep, ForwardStep, WritePlanStep, UndoReplyStep, RecordFailureStep DEF Handler
  <1>2. CASE Deliver
    BY <1>2, DeliverStep
  <1>3. CASE Resume \/ Disturb
    BY <1>3, EngineStep, FiberStep DEF Disturb
  <1>4. CASE \E o \in Operators : Operator(o)
    BY <1>4, OperatorStep
  <1>5. CASE UNCHANGED vars
    <2>1. UNCHANGED store /\ UNCHANGED call
      BY <1>5 DEF vars
    <2>2. RecordsJustified' /\ FailuresBounded' /\ AttemptsReached' /\ CallsReached'
      BY <2>1, RecordsKept, CallsKept DEF store
    <2>3. TypeOK' /\ FiberReached'
      BY <1>5 DEF vars, store, engine, fiber, outside, Inv, TypeOK, FiberReached, Retried,
                  DecisionAt, UndoKey, CompensationActivityName
    <2> QED
      BY <2>2, <2>3 DEF Inv
  <1> QED
    BY <1>1, <1>2, <1>3, <1>4, <1>5 DEF Next

\* In every reachable state attempts are tried only through decided retries,
\* records are justified by replies, and what the calls carry is still true.
THEOREM Invariance == Spec => []Inv
  BY InitInv, NextInv, PTL DEF Spec

---------------------------------------------------------------------------
(* What follows from Inv                                                   *)

\* Type correctness, of the storage, the fiber and the operators' calls.
THEOREM TypeCorrect == Spec => []TypeOK
  <1>1. Inv => TypeOK
    BY DEF Inv
  <1> QED
    BY <1>1, Invariance, PTL

\* decide and decidePending record a decision only for an attempt whose undo
\* failed and was recorded, however many operators race.
THEOREM DecisionsAnswerFailures == Spec => []DecisionAnswersFailure
  <1>1. Inv => DecisionAnswersFailure
    BY DEF Inv, RecordsJustified, DecisionAnswersFailure
  <1> QED
    BY <1>1, Invariance, PTL

\* No replay, crash or race runs a further attempt without visible Retries of
\* all the attempts before it.
THEOREM RetriesDecided == Spec => []RetriesAreDecided
  <1>1. Inv => RetriesAreDecided
    BY DEF Inv, AttemptsReached, Retried, DecisionAt, CompensationDecisionName,
           RetriesAreDecided
  <1> QED
    BY <1>1, Invariance, PTL

\* A caller of decide that succeeds has decided: nobody was told otherwise.
THEOREM AcceptedDecisionsDurable == Spec => []AcceptedIsDurable
  <1>1. Inv => AcceptedIsDurable
    BY DEF Inv, CallsReached, CallReached, AcceptedIsDurable
  <1> QED
    BY <1>1, Invariance, PTL

\* The undo that is about to reply belongs to a step that is not settled.
LEMMA RunningIsUnsettled ==
    ASSUME Inv, pc = "undoing"
    PROVE  ~Settled(Head(todo))
  <1> DEFINE s == Head(todo)
  <1>1. s \in Steps /\ attempt \in Attempts /\ undo[<<s, attempt>>] = "none"
    BY DEF Inv, TypeOK, FiberReached, UndoKey, CompensationActivityName
  <1>2. Retried(s, attempt)
    BY DEF Inv, FiberReached
  <1> SUFFICES ASSUME NEW n \in Attempts, undo[<<s, n>>] = "ok" \/ DecisionAt(s, n) = "Stop"
               PROVE  FALSE
    BY DEF Settled
  <1>3. <<s, n>> \in PendingCompensation
    BY <1>1 DEF PendingCompensation
  <1>4. undo[<<s, n>>] # "none"
    <2>1. CASE DecisionAt(s, n) = "Stop"
      <3>1. decisionSlot[<<s, n>>] # "empty"
        BY <2>1 DEF DecisionAt, CompensationDecisionName
      <3> QED
        BY <1>3, <3>1 DEF Inv, RecordsJustified
    <2> QED
      BY <2>1
  <1>5. Retried(s, n)
    BY <1>1, <1>4 DEF Inv, AttemptsReached
  <1>6. n < attempt \/ n = attempt \/ attempt < n
    BY <1>1 DEF Attempts
  <1>7. CASE n < attempt
    BY <1>2, <1>7 DEF Retried
  <1>8. CASE attempt < n
    BY <1>1, <1>5, <1>8 DEF Retried
  <1> QED
    BY <1>1, <1>4, <1>6, <1>7, <1>8

\* A completed or stopped compensation does not run again after replay or
\* restart (README.md), whatever order the replays register the steps in.
THEOREM SettledStepsStaySettled == Spec => SettledStaysSettled
  <1> DEFINE Kept == \A s \in Steps : Settled(s) =>
                        \A n \in Attempts : undo'[<<s, n>>] = undo[<<s, n>>]
  <1>1. ASSUME Inv, [Next]_vars PROVE [Kept]_vars
    <2>1. CASE UndoReply
      <3> SUFFICES ASSUME NEW s \in Steps, Settled(s), NEW n \in Attempts
                   PROVE  undo'[<<s, n>>] = undo[<<s, n>>]
        OBVIOUS
      <3>1. s # Head(todo)
        BY <2>1, <1>1, RunningIsUnsettled DEF UndoReply
      <3>2. PICK r : undo' = [undo EXCEPT ![<<Head(todo), attempt>>] = r]
        BY <2>1 DEF UndoReply, UndoKey, CompensationActivityName
      <3>3. undo \in [PendingCompensation -> Reply] /\ <<s, n>> \in PendingCompensation
        BY <1>1 DEF Inv, TypeOK, PendingCompensation
      <3> QED
        BY <3>1, <3>2, <3>3
    <2>2. CASE ~UndoReply
      <3>1. undo' = undo
        BY <1>1, <2>2
        DEF Next, Handler, Deliver, Disturb, Operator, Read, Continue, vars, store,
            StartHandler, ForwardReply, Register, HandlerFails, HandlerSucceeds, WritePlan,
            StartUndo, UndoSucceeded, RecordFailure, UndoInterrupted, AwaitRetry, AwaitStop,
            AwaitSuspend, Refail, DeliverPlan, DeliverFailure, DeliverDecision, Resume,
            ResumeUnasked, Crash, Interrupt, Decide, DecidePending, Submit, AwaitAccepted,
            EndCall, Timeout
      <3> QED
        BY <3>1
    <2> QED
      BY <2>1, <2>2
  <1>2. Spec => [][Kept]_vars
    BY <1>1, Invariance, PTL DEF Spec
  <1> QED
    BY <1>2 DEF SettledStaysSettled

=============================================================================

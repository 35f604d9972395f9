-------------------------- MODULE CompensationSaga --------------------------
(***************************************************************************)
(* What durable compensation promises, without fibers, storage slots or    *)
(* concurrent calls (README.md, "Compensations run in reverse registration *)
(* order"): a failed run fixes the list of steps to compensate once, later *)
(* steps first, and works through it.  Each attempt of a step is undone,   *)
(* or fails and is answered by one decision; Retry starts the next attempt *)
(* and Stop gives the step up.  The run ends with its failure when the     *)
(* whole list is settled, and an interrupt may end it at any moment.       *)
(***************************************************************************)
EXTENDS Integers, SequencesExt

CONSTANTS Steps, Before, MaxAttempt

Attempts == 1 .. MaxAttempt
Outcomes == {"Success", "Failure", "Interrupted"}
Progress == {"none", "undone", "failed", "Retry", "Stop"}

VARIABLES
    planned,   \* the list to compensate is fixed
    list,      \* that list, in the order of compensation
    progress,  \* what became of each attempt
    outcome    \* how the run ended

vars == <<planned, list, progress, outcome>>

TypeOK ==
    /\ planned \in BOOLEAN
    /\ list \in Seq(Steps)
    /\ progress \in [Steps \X Attempts -> Progress]
    /\ outcome \in Outcomes \cup {"Open"}

Init ==
    /\ planned = FALSE
    /\ list = <<>>
    /\ progress = [k \in Steps \X Attempts |-> "none"]
    /\ outcome = "Open"

Settled(s) == \E n \in Attempts : progress[<<s, n>>] \in {"undone", "Stop"}

\* Every step at most once, and each before the steps it was run after.
LaterFirst(order) ==
    /\ IsInjective(order)
    /\ \A i, j \in DOMAIN order : <<order[i], order[j]>> \in Before => j < i

Plan(order) ==
    /\ outcome = "Open"
    /\ ~planned
    /\ LaterFirst(order)
    /\ planned' = TRUE
    /\ list' = order
    /\ UNCHANGED <<progress, outcome>>

\* Attempt n of the i-th step of the list: the steps before it are settled,
\* its own earlier attempts failed and were retried.
Attempt(i, n, end) ==
    /\ outcome = "Open"
    /\ progress[<<list[i], n>>] = "none"
    /\ \A j \in 1 .. i - 1 : Settled(list[j])
    /\ \A m \in 1 .. n - 1 : progress[<<list[i], m>>] = "Retry"
    /\ progress' = [progress EXCEPT ![<<list[i], n>>] = end]
    /\ UNCHANGED <<planned, list, outcome>>

\* A failed attempt takes one decision; a late one is kept after an interrupt.
Answer(k, choice) ==
    /\ progress[k] = "failed"
    /\ progress' = [progress EXCEPT ![k] = choice]
    /\ UNCHANGED <<planned, list, outcome>>

Close(end) ==
    /\ outcome = "Open"
    /\ end = "Success" => ~planned
    /\ end = "Failure" => planned /\ \A i \in DOMAIN list : Settled(list[i])
    /\ outcome' = end
    /\ UNCHANGED <<planned, list, progress>>

Next ==
    \/ \E m \in 0 .. Cardinality(Steps) : \E order \in [1 .. m -> Steps] : Plan(order)
    \/ \E i \in DOMAIN list, n \in Attempts, end \in {"undone", "failed"} : Attempt(i, n, end)
    \/ \E k \in Steps \X Attempts, choice \in {"Retry", "Stop"} : Answer(k, choice)
    \/ \E end \in Outcomes : Close(end)

Spec == Init /\ [][Next]_vars

=============================================================================

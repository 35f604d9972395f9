---------------------------- MODULE AtomicCell ----------------------------
(***************************************************************************)
(* What State promises its callers, without fibers or locks: each call of  *)
(* set, update, updateAndGet or modify takes effect at one instant, on the *)
(* value the cell has at that instant, and its result is of that instant.  *)
(* A call that fails or is interrupted may have no effect.                 *)
(*                                                                         *)
(* A value is the set of the calls whose effect it contains.               *)
(***************************************************************************)
CONSTANTS Calls, Kind

VARIABLES
    cell,     \* the value
    applied,  \* the calls that took effect
    reply     \* what each of them returns: no value, or a set of one

vars == <<cell, applied, reply>>

\* set replaces the value, the others apply their function to it.
Effect(c, value) == IF Kind[c] = "set" THEN {c} ELSE value \cup {c}

\* updateAndGet returns the new value; modify's function returns what it was
\* applied to; set and update return nothing.
Result(c, value) ==
    CASE Kind[c] = "updateAndGet" -> {Effect(c, value)}
      [] Kind[c] = "modify"       -> {value}
      [] OTHER                    -> {}

Init ==
    /\ cell = {}
    /\ applied = {}
    /\ reply = [c \in Calls |-> {}]

Perform(c) ==
    /\ c \notin applied
    /\ applied' = applied \cup {c}
    /\ cell' = Effect(c, cell)
    /\ reply' = [reply EXCEPT ![c] = Result(c, cell)]

Next == \E c \in Calls : Perform(c)

Spec == Init /\ [][Next]_vars

=============================================================================

-------------------------- MODULE MCMessageClient --------------------------
(***************************************************************************)
(* Instances of MessageClient for TLC: callers and operators of one        *)
(* persisted operation, and a send of one that is not persisted.           *)
(***************************************************************************)
EXTENDS MessageClient, TLC

CONSTANTS order, live                  \* identities, the first persisted
CONSTANTS place, again, await, wait    \* send, send, sendAndAwait, waitFor
CONSTANTS look, redo, retry            \* peek, rerun, rerun
CONSTANTS clear, reset, notify         \* flush, redeliver, send of live

KindOfEach == [c \in Calls |->
    CASE c \in {place, again, notify} -> "send"
      [] c = await -> "sendAndAwait"
      [] c = wait -> "waitFor"
      [] c = look -> "peek"
      [] c \in {redo, retry} -> "rerun"
      [] c = clear -> "flush"
      [] c = reset -> "redeliver"]

OfEach == [c \in Calls |-> IF c = notify THEN live ELSE order]

\* The two sends and the two reruns differ in nothing.
CallSymmetry == Permutations({place, again}) \cup Permutations({redo, retry})

=============================================================================

----------------------- MODULE MCActorStateRegistry -----------------------
(***************************************************************************)
(* An instance of ActorStateRegistry for TLC: one entity with two          *)
(* activations, whose state is read by a call that materializes it and by  *)
(* one that does not, and waited for.                                      *)
(***************************************************************************)
EXTENDS ActorStateRegistry

CONSTANTS entity, get, peek, waitFor

AllOfEntity == [a \in Activations |-> entity]
EveryKind == [r \in Readers |-> IF r = waitFor THEN "waitFor" ELSE "get"]
AllAskEntity == [r \in Readers |-> entity]

=============================================================================

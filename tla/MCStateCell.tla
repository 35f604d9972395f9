---------------------------- MODULE MCStateCell ----------------------------
(***************************************************************************)
(* Instances of StateCell for TLC: one call of every kind that mutates, or *)
(* an owner that feeds its own writes beside a set.                        *)
(***************************************************************************)
EXTENDS StateCell

EveryMutator == {"s", "u", "g", "m"}
KindOfEach == [c \in EveryMutator |->
    CASE c = "s" -> "set" [] c = "u" -> "update" [] c = "g" -> "updateAndGet" [] c = "m" -> "modify"]

ThreeMutators == {"s", "g", "m"}
KindOfThree == [c \in ThreeMutators |-> KindOfEach[c]]

OwnerAndMutators == {"o", "p", "s", "u"}
KindOfOwnerAndMutators == [c \in OwnerAndMutators |->
    CASE c = "o" -> "publish" [] c = "p" -> "publishUnsafe" [] c = "s" -> "set" [] c = "u" -> "update"]

OwnerAndSet == {"o", "s"}
KindOfOwnerAndSet == [c \in OwnerAndSet |-> IF c = "o" THEN "publish" ELSE "set"]

=============================================================================

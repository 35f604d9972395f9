---------------------- MODULE MCDurableCompensation ----------------------
(***************************************************************************)
(* Instances of DurableCompensation for TLC.  A sequential handler runs    *)
(* its steps one after the other; a concurrent one starts them together.   *)
(***************************************************************************)
EXTENDS DurableCompensation

CONSTANTS first, second, third

OneStep == {first}
ThreeSteps == {first, second, third}

NoOrder == {}
ThreeInOrder == {<<first, second>>, <<second, third>>, <<first, third>>}

OperatorSymmetry == Permutations(Operators)

=============================================================================

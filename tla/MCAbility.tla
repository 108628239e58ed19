------------------------------ MODULE MCAbility ------------------------------
(* Ability for TLC, with an int of four bits and a cap within its range.    *)
(* With bonuses of up to 24 the sum leaves the range and comes back.        *)
EXTENDS Ability

MCMinInt == -8
MCInputs == {-8, 4, 7}
=============================================================================

--------------------------- MODULE MCCharacterFile ---------------------------
(* CharacterFile with scores of one and of two digits, and a penalty. *)
EXTENDS CharacterFile

SomeScores == {[value |-> 20, temp |-> 0], [value |-> 7, temp |-> -11]}
=============================================================================

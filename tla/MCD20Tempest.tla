---------------------------- MODULE MCD20Tempest ----------------------------
(***************************************************************************)
(* A small instance of D20Tempest: two clients; three names, one of which  *)
(* cannot be written; two ids; and four directories to start from.         *)
(***************************************************************************)
EXTENDS D20Tempest

CONSTANTS aldor, brienne, cedric, strength, wisdom

MCNames     == {aldor, brienne, cedric}
MCIds       == {0, 1}
MCAbilities == {strength, wisdom}

(* A file that was edited: its id is another than 0, its modifier not the   *)
(* one the script gives, and, where name is not the one it is kept under,   *)
(* it was renamed.                                                          *)
Edited(name) ==
  [name |-> name, id |-> 1,
   abilities |-> [a \in MCAbilities |->
                   IF a = strength THEN [value |-> 9, temp |-> 1, modifier |-> 3]
                                   ELSE Null]]

Holding(aldors, briennes) ==
  [name \in MCNames |-> CASE name = aldor   -> aldors
                          [] name = brienne -> briennes
                          [] OTHER          -> Absent]

MCProvisioned ==
  {Holding(Absent, Absent), Holding(Edited(aldor), Absent),
   Holding(Edited(brienne), Absent), Holding(Absent, Malformed)}
=============================================================================

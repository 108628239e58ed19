-------------------------- MODULE CharacterArchive --------------------------
(***************************************************************************)
(* What the directory of save files promises to whoever keeps characters   *)
(* in it: a file, once there, stays as it is, and only a fresh character   *)
(* is ever added, at most one while the program runs.  It knows nothing of *)
(* connections, objects or handlers; D20Tempest is shown to implement it.  *)
(***************************************************************************)
CONSTANTS Names, Abilities, Provisioned, Absent, Null

VARIABLES archive,      \* what is kept under each name
          sealed        \* this run has made its character

Blank(name) ==
  [name |-> name, id |-> 0, abilities |-> [ability \in Abilities |-> Null]]

Init == archive \in Provisioned /\ sealed = FALSE

(* The character of this run is made, under a name that was free. *)
Create(name) ==
  /\ ~sealed /\ sealed' = TRUE
  /\ archive[name] = Absent
  /\ archive' = [archive EXCEPT ![name] = Blank(name)]

(* It is made, but its file could not be written. *)
CreateUnsaved == ~sealed /\ sealed' = TRUE /\ UNCHANGED archive

(* The next run may make another one. *)
Reopen == sealed /\ sealed' = FALSE /\ UNCHANGED archive

Next == (\E name \in Names : Create(name)) \/ CreateUnsaved \/ Reopen

Spec == Init /\ [][Next]_<<archive, sealed>>
=============================================================================

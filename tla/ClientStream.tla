----------------------------- MODULE ClientStream -----------------------------
(***************************************************************************)
(* What uvw promises the owner of a connection's handle, and TCPClient     *)
(* takes for granted: DataEvents come until one EndEvent or one error ends *)
(* the reading, and each write is called back once, written or failed.     *)
(***************************************************************************)
EXTENDS Naturals

CONSTANT MaxWrites

VARIABLES reading,      \* "open" until the EndEvent or the error of a read
          outcome       \* of each write: "unused", then what was called back

vars == <<reading, outcome>>

Init == reading = "open" /\ outcome = [i \in 1..MaxWrites |-> "unused"]

(* A DataEvent, whose handler may write. *)
Data ==
  /\ reading = "open"
  /\ \/ UNCHANGED outcome
     \/ \E i \in 1..MaxWrites :
          /\ outcome[i] = "unused"
          /\ \A j \in 1..(i - 1) : outcome[j] # "unused"
          /\ outcome' = [outcome EXCEPT ![i] = "pending"]
  /\ UNCHANGED reading

End == reading = "open" /\ reading' \in {"ended", "broken"} /\ UNCHANGED outcome

CallBack(i) ==
  /\ outcome[i] = "pending"
  /\ \E event \in {"WriteEvent", "ErrorEvent"} : outcome' = [outcome EXCEPT ![i] = event]
  /\ UNCHANGED reading

Next == Data \/ End \/ \E i \in 1..MaxWrites : CallBack(i)

Spec == Init /\ [][Next]_vars
=============================================================================

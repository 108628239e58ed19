------------------------------- MODULE SaveFile -------------------------------
(***************************************************************************)
(* Dump, one file operation at a time (character_manager.cpp): the file of *)
(* the registered character while the loop thread creates, loads or dumps  *)
(* the character, main dumps every character before it stops the server    *)
(* (main.cpp), and the process may be killed between any two operations.   *)
(*                                                                         *)
(* D20Tempest takes Dump for one step and has shown that there is one      *)
(* character to dump; here are the steps, for that character's file.  The  *)
(* program is built for Windows: a file that is open cannot be removed,    *)
(* std::filesystem::remove throws, and nothing catches it.                 *)
(*                                                                         *)
(* The two threads share ms_characters without a lock.  While the loop     *)
(* thread links the one node, made before, into the empty map, main's      *)
(* iteration may come upon the node or not (the stores of an insert are in *)
(* program order on x86); nothing else ever changes the map.               *)
(***************************************************************************)

VARIABLES file,         \* what is on disk under the character's name
          registered,   \* ms_characters holds the character
          pc,           \* what each thread does next
          process,
          written,      \* history: the file was whole once
          cut           \* history: a process ended during a Dump

vars == <<file, registered, pc, process, written, cut>>

Threads == {"loop", "main"}

Runs == process \in {"serving", "dumped"}

(* A thread is between the start and the end of Dump. *)
Dumping(t) == pc[t] \in {"exists", "remove", "open", "flush", "close"}

(* A thread has the file open. *)
HasOpen(t) == pc[t] \in {"flush", "close", "parse"}

Goto(t, label) == pc' = [pc EXCEPT ![t] = label]

(* An exception no one catches ends the process. *)
Fault ==
  /\ process' = "faulted"
  /\ cut' = (cut \/ \E t \in Threads : Dumping(t))
  /\ UNCHANGED <<file, registered, pc, written>>

Init ==
  /\ file = "absent" /\ registered = FALSE
  /\ pc = [t \in Threads |-> "idle"]
  /\ process = "serving" /\ written = FALSE /\ cut = FALSE

-----------------------------------------------------------------------------
(* Dump of the registered character. *)

At(t, label) == Runs /\ pc[t] = label

Check(t) ==
  /\ At(t, "exists")
  /\ Goto(t, IF file = "absent" THEN "open" ELSE "remove")
  /\ UNCHANGED <<file, registered, process, written, cut>>

NotOpened == "idle"

AfterRemove == "open"

(* remove of a file that is gone already is no error. *)
Remove(t) ==
  /\ At(t, "remove")
  /\ ~\E other \in Threads : HasOpen(other)
  /\ file' = "absent"
  /\ Goto(t, AfterRemove)
  /\ UNCHANGED <<registered, process, written, cut>>

RemoveThrows(t) ==
  /\ At(t, "remove")
  /\ \E other \in Threads : HasOpen(other)
  /\ Fault

(* std::ofstream creates the file, or truncates it. *)
Open(t) ==
  /\ At(t, "open")
  /\ file' = "empty"
  /\ Goto(t, "flush")
  /\ UNCHANGED <<registered, process, written, cut>>

Unflushed == "empty"

HalfFlushed == "half"

Flushed == "whole"

(* Both threads write the same bytes, each from the start of the file. *)
Flush(t) ==
  /\ At(t, "flush")
  /\ file' = Flushed
  /\ written' = TRUE
  /\ Goto(t, "close")
  /\ UNCHANGED <<registered, process, cut>>

DumpAgain(t) == "exists"

AfterClose(t) == IF t = "main" THEN "done" ELSE "idle"

Close(t) ==
  /\ At(t, "close")
  /\ Goto(t, AfterClose(t))
  /\ UNCHANGED <<file, registered, process, written, cut>>

DumpStep(t) == Check(t) \/ Remove(t) \/ RemoveThrows(t) \/ Open(t) \/ Flush(t) \/ Close(t)

-----------------------------------------------------------------------------
(* The handlers of the loop thread. *)

(* CREATE finds the name free. *)
Create ==
  /\ At("loop", "idle")
  /\ file = "absent"
  /\ Goto("loop", "insert")
  /\ UNCHANGED <<file, registered, process, written, cut>>

(* insert does nothing when the character is registered. *)
Insert ==
  /\ At("loop", "insert")
  /\ registered' = TRUE
  /\ Goto("loop", "exists")
  /\ UNCHANGED <<file, process, written, cut>>

(* A client left, or made a character of another name, which the registry  *)
(* did not take: Dump of the id that all characters have.                   *)
Leave ==
  /\ At("loop", "idle")
  /\ registered
  /\ Goto("loop", "exists")
  /\ UNCHANGED <<file, registered, process, written, cut>>

(* LOAD: the null pointer is dereferenced if the file does not exist. *)
LoadUnknown == At("loop", "idle") /\ file = "absent" /\ Fault

LoadFound ==
  /\ At("loop", "idle")
  /\ file # "absent"
  /\ Goto("loop", "load")
  /\ UNCHANGED <<file, registered, process, written, cut>>

LoadOpen ==
  /\ At("loop", "load")
  /\ file # "absent"
  /\ Goto("loop", "parse")
  /\ UNCHANGED <<file, registered, process, written, cut>>

LoadGone == At("loop", "load") /\ file = "absent" /\ Fault

Parse ==
  /\ At("loop", "parse")
  /\ file = "whole"
  /\ Goto("loop", "idle")
  /\ UNCHANGED <<file, registered, process, written, cut>>

(* An empty file is no JSON: the parser throws. *)
ParseThrows == At("loop", "parse") /\ file # "whole" /\ Fault

LoopStep == Insert \/ LoadOpen \/ LoadGone \/ Parse \/ ParseThrows \/ DumpStep("loop")

-----------------------------------------------------------------------------
(* main: Dump() of what is registered, then the server's destructor, which *)
(* joins the loop thread once its handler is done.                          *)

(* main's iteration: it finds the node, or the map empty.                   *)
MayFind == registered \/ At("loop", "insert")

MayFindEmpty == ~registered

MainDump ==
  /\ At("main", "idle")
  /\ \/ MayFind /\ Goto("main", "exists")
     \/ MayFindEmpty /\ Goto("main", "done")
  /\ UNCHANGED <<file, registered, process, written, cut>>

MainDumped ==
  /\ At("main", "done")
  /\ process = "serving" /\ process' = "dumped"
  /\ UNCHANGED <<file, registered, pc, written, cut>>

Join ==
  /\ process = "dumped" /\ pc["loop"] = "idle"
  /\ process' = "stopped"
  /\ UNCHANGED <<file, registered, pc, written, cut>>

MainStep == MainDumped \/ DumpStep("main")

Kill ==
  /\ Runs
  /\ process' = "killed"
  /\ cut' = (cut \/ \E t \in Threads : Dumping(t))
  /\ UNCHANGED <<file, registered, pc, written>>

Restart ==
  /\ ~Runs
  /\ process' = "serving" /\ registered' = FALSE
  /\ pc' = [t \in Threads |-> "idle"]
  /\ UNCHANGED <<file, written, cut>>

Next ==
  \/ LoopStep \/ Create \/ Leave \/ LoadUnknown \/ LoadFound
  \/ MainStep \/ MainDump \/ Join
  \/ Kill \/ Restart

(* Each thread is scheduled: an operation it is in the middle of goes on. *)
Spec == Init /\ [][Next]_vars /\ WF_vars(LoopStep) /\ WF_vars(MainStep)

-----------------------------------------------------------------------------
(* Types of the file, of the two threads and of the process. *)
TypeOK ==
  /\ file \in {"absent", "empty", "whole"}
  /\ registered \in BOOLEAN /\ written \in BOOLEAN /\ cut \in BOOLEAN
  /\ pc \in [Threads -> {"idle", "insert", "load", "parse", "exists", "remove",
                         "open", "flush", "close", "done"}]
  /\ process \in {"serving", "dumped", "stopped", "faulted", "killed"}

(* In whatever order the operations of the two threads interleave: when     *)
(* neither is in Dump, the file of the registered character is whole.       *)
WholeAfterDumps ==
  Runs /\ registered /\ (\A t \in Threads : ~Dumping(t)) => file = "whole"

(* A file that was whole once is missing or truncated only while a Dump     *)
(* runs, or because a process ended in the midst of one.                    *)
LossExplained ==
  written /\ file # "whole" /\ ~cut => Runs /\ \E t \in Threads : Dumping(t)

(* Unless a Dump was cut before, a handler or main faults on a file that    *)
(* was once whole only because main dumps while the server still serves.    *)
FaultExplained ==
  [][process # "faulted" /\ process' = "faulted" /\ written /\ ~cut
       => Dumping("main")]_vars

(* main gets through its Dump, or the process ends before. *)
DumpEnds == Dumping("main") ~> (pc["main"] = "done" \/ ~Runs)
=============================================================================

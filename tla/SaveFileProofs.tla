---------------------------- MODULE SaveFileProofs ----------------------------
(***************************************************************************)
(* Theorems about SaveFile.  Who has the file open keeps it there, as an   *)
(* open file cannot be removed, and a thread that is about to close it has *)
(* made it whole, unless the other one has truncated it since and is about *)
(* to write it (FileHeld).  From this follow all properties of the file.   *)
(***************************************************************************)
EXTENDS SaveFile, TLAPS

(* main handles no requests of clients, and is through when it says so. *)
MainOnlyDumps ==
  /\ pc["main"] \notin {"insert", "load", "parse"}
  /\ process = "dumped" => pc["main"] = "done"

FileHeld ==
  Runs => /\ (\E t \in Threads : HasOpen(t)) => file # "absent"
          /\ (\E t \in Threads : pc[t] = "close")
               => (file = "whole" \/ \E t \in Threads : pc[t] = "flush")

SaveFileInv ==
  /\ TypeOK
  /\ MainOnlyDumps
  /\ FileHeld
  /\ WholeAfterDumps
  /\ LossExplained

LEMMA SaveFileInvInit ==
  ASSUME Init
  PROVE  SaveFileInv
BY DEF Init, SaveFileInv, TypeOK, MainOnlyDumps, FileHeld, WholeAfterDumps, LossExplained,
       Threads, HasOpen, Dumping, Runs

-----------------------------------------------------------------------------
(* The steps of Dump. *)
LEMMA DumpStepKeeps ==
  ASSUME SaveFileInv, NEW t \in Threads, DumpStep(t)
  PROVE  SaveFileInv'
<1> USE DEF SaveFileInv, TypeOK, MainOnlyDumps, FileHeld, WholeAfterDumps, LossExplained,
            Threads, HasOpen, Dumping, Runs, At, Goto
<1>1. CASE Check(t)
  BY <1>1 DEF Check
<1>2. CASE Remove(t)
  BY <1>2 DEF Remove, AfterRemove
<1>3. CASE RemoveThrows(t)
  BY <1>3 DEF RemoveThrows, Fault
<1>4. CASE Open(t)
  BY <1>4 DEF Open
<1>5. CASE Flush(t)
  BY <1>5 DEF Flush, Flushed
<1>6. CASE Close(t)
  BY <1>6 DEF Close, AfterClose
<1> QED
  BY <1>1, <1>2, <1>3, <1>4, <1>5, <1>6 DEF DumpStep

(* The other steps of the loop thread and of main, kills and restarts. *)
LEMMA OtherStepKeeps ==
  ASSUME SaveFileInv,
         \/ Insert \/ LoadOpen \/ LoadGone \/ Parse \/ ParseThrows
         \/ Create \/ Leave \/ LoadUnknown \/ LoadFound
         \/ MainDumped \/ MainDump \/ Join \/ Kill \/ Restart
  PROVE  SaveFileInv'
<1> USE DEF SaveFileInv, TypeOK, MainOnlyDumps, FileHeld, WholeAfterDumps, LossExplained,
            Threads, HasOpen, Dumping, Runs, At, Goto
<1>1. CASE Insert
  BY <1>1 DEF Insert
<1>2. CASE LoadOpen
  BY <1>2 DEF LoadOpen
<1>3. CASE LoadGone \/ ParseThrows \/ LoadUnknown
  <2>1. process \in {"serving", "dumped"}
    BY <1>3 DEF LoadGone, ParseThrows, LoadUnknown
  <2>2. /\ process' = "faulted" /\ UNCHANGED <<file, registered, pc, written>>
        /\ cut' = (cut \/ \E t \in Threads : Dumping(t))
    BY <1>3 DEF LoadGone, ParseThrows, LoadUnknown, Fault
  <2> QED
    BY <2>1, <2>2
<1>4. CASE Parse
  BY <1>4 DEF Parse
<1>5. CASE Create
  BY <1>5 DEF Create
<1>6. CASE Leave
  BY <1>6 DEF Leave
<1>7. CASE LoadFound
  BY <1>7 DEF LoadFound
<1>8. CASE MainDumped
  BY <1>8 DEF MainDumped
<1>9. CASE MainDump
  BY <1>9 DEF MainDump
<1>10. CASE Join
  BY <1>10 DEF Join
<1>11. CASE Kill
  BY <1>11 DEF Kill
<1>12. CASE Restart
  BY <1>12 DEF Restart
<1> QED
  BY <1>1, <1>2, <1>3, <1>4, <1>5, <1>6, <1>7, <1>8, <1>9, <1>10, <1>11, <1>12

LEMMA SaveFileInvStep ==
  ASSUME SaveFileInv, [Next]_vars
  PROVE  SaveFileInv'
<1>1. CASE DumpStep("loop") \/ DumpStep("main")
  BY <1>1, DumpStepKeeps DEF Threads
<1>2. CASE \/ Insert \/ LoadOpen \/ LoadGone \/ Parse \/ ParseThrows
           \/ Create \/ Leave \/ LoadUnknown \/ LoadFound
           \/ MainDumped \/ MainDump \/ Join \/ Kill \/ Restart
  BY <1>2, OtherStepKeeps
<1>3. CASE UNCHANGED vars
  BY <1>3 DEF vars, SaveFileInv, TypeOK, MainOnlyDumps, FileHeld, WholeAfterDumps,
              LossExplained, HasOpen, Dumping, Runs
<1> QED
  BY <1>1, <1>2, <1>3 DEF Next, LoopStep, MainStep

THEOREM SaveFileInvariant == Spec => []SaveFileInv
<1>1. Init => SaveFileInv
  BY SaveFileInvInit
<1>2. SaveFileInv /\ [Next]_vars => SaveFileInv'
  BY SaveFileInvStep
<1> QED
  BY <1>1, <1>2, PTL DEF Spec

-----------------------------------------------------------------------------
(* File, threads and process keep their types. *)
THEOREM SaveFileTypes == Spec => []TypeOK
<1>1. SaveFileInv => TypeOK
  BY DEF SaveFileInv
<1> QED
  BY <1>1, SaveFileInvariant, PTL

(* However the file operations of two Dumps interleave (Dump of             *)
(* character_manager.cpp), they leave the file of the character whole.      *)
THEOREM FileWhole == Spec => []WholeAfterDumps
<1>1. SaveFileInv => WholeAfterDumps
  BY DEF SaveFileInv
<1> QED
  BY <1>1, SaveFileInvariant, PTL

(* A file that was whole is lost or truncated only during a Dump, or by a   *)
(* process that ended in the midst of one.                                  *)
THEOREM LossOnlyByCut == Spec => []LossExplained
<1>1. SaveFileInv => LossExplained
  BY DEF SaveFileInv
<1> QED
  BY <1>1, SaveFileInvariant, PTL

(* A fault names the thread to blame: the handlers fault on a file that was *)
(* whole once, and on no other cause, only while main dumps (main.cpp).     *)
THEOREM FaultOnlyByMain == Spec => FaultExplained
<1>1. ASSUME SaveFileInv, Next, process # "faulted", process' = "faulted", written, ~cut
      PROVE  Dumping("main")
  <2>1. \/ LoadUnknown \/ LoadGone \/ ParseThrows
        \/ RemoveThrows("loop") \/ RemoveThrows("main")
    BY <1>1 DEF Next, LoopStep, MainStep, DumpStep, Check, Remove, Open, Flush, Close,
                Insert, LoadOpen, Parse, Create, Leave, LoadFound, MainDumped, MainDump,
                Join, Kill, Restart
  <2>2. CASE LoadUnknown \/ LoadGone \/ ParseThrows
    BY <1>1, <2>2 DEF SaveFileInv, LossExplained, LoadUnknown, LoadGone, ParseThrows, At,
                      Threads, Dumping
  <2>3. CASE RemoveThrows("loop") \/ RemoveThrows("main")
    BY <1>1, <2>3 DEF SaveFileInv, MainOnlyDumps, RemoveThrows, At, Threads, HasOpen, Dumping
  <2> QED
    BY <2>1, <2>2, <2>3
<1>2. SaveFileInv /\ [Next]_vars
        => [process # "faulted" /\ process' = "faulted" /\ written /\ ~cut
              => Dumping("main")]_vars
  BY <1>1
<1> QED
  BY <1>2, SaveFileInvariant, PTL DEF Spec, FaultExplained
=============================================================================

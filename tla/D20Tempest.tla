----------------------------- MODULE D20Tempest -----------------------------
(***************************************************************************)
(* The program: the server accepting connections (tcp_server.cpp), the     *)
(* handlers of its clients (TCPClient) over the registry and the save      *)
(* files (CharacterManager), and main, which dumps every character and     *)
(* ends (main.cpp).  It may also be killed at any time, and be started     *)
(* again; only the files survive.                                          *)
(*                                                                         *)
(* process is "serving" until main's Dump, "dumped" until the loop thread  *)
(* is joined, "stopped" after a return from main, and "faulted" after an   *)
(* uncaught exception, an invalid memory access or a kill.                 *)
(*                                                                         *)
(* A handler and main's Dump are each one step: what their interleaving,   *)
(* or a kill inside of Dump, does to a file is left to a model of Dump     *)
(* itself.                                                                 *)
(***************************************************************************)
EXTENDS TCPClient

vars == <<storeVars, process, clientVars, reply>>

Init == StoreInit /\ ClientInit /\ process = "serving"

(* ListenEvent: a client connects; its handle starts reading. *)
Accept(c) ==
  /\ LoopRuns
  /\ connection[c] = "unused"
  /\ connection' = [connection EXCEPT ![c] = "open"]
  /\ UNCHANGED <<storeVars, process, m_heloParsed, m_disconnectionHandlers, reply>>

(* A key was pressed: manager.Dump(). *)
MainDump ==
  /\ process = "serving"
  /\ process' = "dumped"
  /\ files' = Dumped(files, ms_characters, heap, Ids)
  /\ UNCHANGED <<ms_characters, heap, clientVars, reply>>

(* The server is destroyed, its loop thread joined, main returns. *)
MainExit ==
  /\ process = "dumped"
  /\ process' = "stopped"
  /\ UNCHANGED <<storeVars, clientVars, reply>>

Kill ==
  /\ LoopRuns
  /\ process' = "faulted"
  /\ UNCHANGED <<storeVars, clientVars, reply>>

(* A new process on the files the last one left. *)
Restart ==
  /\ ~LoopRuns
  /\ process' = "serving"
  /\ ms_characters' = [id \in Ids |-> Null]
  /\ heap' = [address \in Addresses |-> Null]
  /\ connection' = [c \in Clients |-> "unused"]
  /\ m_heloParsed' = [c \in Clients |-> FALSE]
  /\ m_disconnectionHandlers' = [c \in Clients |-> <<>>]
  /\ reply' = NoReply
  /\ UNCHANGED files

Next ==
  \/ \E c \in Clients : Accept(c) \/ ClientStep(c)
  \/ MainDump \/ MainExit \/ Kill \/ Restart

Spec == Init /\ [][Next]_vars

-----------------------------------------------------------------------------
(* Types of the whole state: handlers, registry and files never leave the  *)
(* shapes the classes give them.                                            *)
TypeOK ==
  /\ process \in {"serving", "dumped", "stopped", "faulted"}
  /\ StoreTypeOK
  /\ ClientTypeOK

(* CreateCharacterID gives every character id 0, and the registry keeps the first of     *)
(* equal keys: a run registers one character at most, under its own id.     *)
OneCharacterPerRun ==
  \A id \in Ids : ms_characters[id] # Null =>
    /\ id = 0
    /\ heap[ms_characters[id]] # Null
    /\ heap[ms_characters[id]].m_characterID = id

(* Whatever handlers, dumps through dangling captures, or main's dump ran   *)
(* since, the file of a registered character is what saving it now would    *)
(* write, if its file can be written at all.                                *)
RegisteredPersisted ==
  \A address \in Registered :
    heap[address].m_name \notin Unwritable =>
      files[heap[address].m_name] = Save(heap[address])

(* Only a client that said HELO makes characters: no handler is captured,   *)
(* and no character registered, for one that did not.                       *)
OwnersSaidHelo ==
  /\ \A c \in Clients : m_disconnectionHandlers[c] # <<>> => m_heloParsed[c]
  /\ \A address \in Registered : m_heloParsed[heap[address].m_client]

(* The departure of the client a registered character belongs to dumps it:  *)
(* the character's address is among those its client's handlers captured.   *)
OwnerCapturesRegistered ==
  \A address \in Registered :
    \E i \in DOMAIN m_disconnectionHandlers[heap[address].m_client] :
      m_disconnectionHandlers[heap[address].m_client][i] = address

(* The answer to a LOAD is and goes on being what the file says: its name,  *)
(* id and scores, with the modifiers its scripts give now; nothing the      *)
(* server does later rewrites the file with something else.                 *)
LoadedAsOnFile ==
  reply.kind = "loaded" =>
    LET saved == files[reply.name] IN
    /\ saved \in SaveData
    /\ reply.body.name = saved.name /\ reply.body.id = saved.id
    /\ \A ability \in Abilities :
         LET score == saved.abilities[ability] IN
         reply.body.abilities[ability] =
           IF score = Null THEN Null
           ELSE [score EXCEPT !.modifier = (score.value \div 2) - 5 + score.temp]

(* No step, of any client, of main or of a restart, changes or removes a    *)
(* save file that exists (Dump removes and rewrites: with the same data).   *)
NoClobber ==
  [][\A name \in Names : files[name] # Absent => files'[name] = files[name]]_vars

(* The only step that writes is a CREATE, and it writes what it answers:    *)
(* the Dumps of a departure, whatever ids it reads through captures that    *)
(* dangle, and main's at the end, find nothing left to save.                *)
OnlyCreateWrites ==
  [][files' # files =>
       /\ reply'.kind = "created"
       /\ files' = [files EXCEPT ![reply'.name] = reply'.body]
       /\ UNCHANGED <<connection, process>>]_vars

(* The whole program implements the archive of save files. *)
Archive == INSTANCE CharacterArchive WITH archive <- files, sealed <- Registered # {}

ImplementsArchive == Archive!Spec

-----------------------------------------------------------------------------
(* What the repository says of the program and the program does not do.     *)

(* A CREATE that was answered with the character is not "already exist?"    *)
(* and its character is kept: its file exists, if it can be written.        *)
CreatedIsSaved ==
  reply.kind = "created" /\ reply.name \notin Unwritable => Exists(reply.name)

(* "Unknown entity" is an answer, after which the server goes on.           *)
UnknownIsAnswered ==
  [][reply' # reply /\ reply'.kind = "404 Unknown entity" => process' = process]_vars
=============================================================================

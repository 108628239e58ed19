------------------------------ MODULE TCPClient ------------------------------
(***************************************************************************)
(* The connections of the server (tcp_client.cpp): what one DataEvent,     *)
(* EndEvent or ErrorEvent of a client does to the client's own state, to   *)
(* the registry of characters and to the save files.                       *)
(*                                                                         *)
(* The loop thread runs one handler at a time and a handler never waits,   *)
(* so each branch of a handler is one action.  What a DataEvent carries is *)
(* abstracted to the branch it selects: which chunks TCP makes of a        *)
(* client's messages is the business of MessageStream.                     *)
(*                                                                         *)
(* The Character constructor gives the client a disconnection handler and  *)
(* a handler of "CHARACTER/ABILITY" messages, both of which capture the    *)
(* Character's address; m_disconnectionHandlers[c] is the sequence of      *)
(* these addresses and stands for both vectors.  Nothing removes a handler *)
(* when its Character is freed, so an address of it may be dangling, and,  *)
(* as memory is used again, may come to be another Character's.            *)
(***************************************************************************)
EXTENDS CharacterManager, Sequences

CONSTANT MaxHandlers    \* bound: handlers a client has before we stop adding

ASSUME HandlersAssumption == MaxHandlers \in Nat

VARIABLES process,                  \* of the whole program, see D20Tempest
          connection,               \* what the socket of a client is known to be
          m_heloParsed,
          m_disconnectionHandlers,
          reply                     \* the last message handed to Send

clientVars == <<connection, m_heloParsed, m_disconnectionHandlers>>

ConnectionStates == {"unused", "open", "ended", "error"}

Replies ==
  [to : Clients \cup {Null},
   kind : {"none", "helo", "400 HELO was not received", "400 JSON malformed",
           "400 Missing elements in JSON", "404 Unknown entity",
           "409 Unable to create character", "created", "loaded"},
   name : Names \cup {Null},
   body : SaveData \cup {Null}]

NoReply == [to |-> Null, kind |-> "none", name |-> Null, body |-> Null]

(* Send to an active handle: every DataEvent comes from one. *)
Send(c, kind, name, body) ==
  reply' = [to |-> c, kind |-> kind, name |-> name, body |-> body]

SendNotice(c, kind) == Send(c, kind, Null, Null)

-----------------------------------------------------------------------------
(* The loop thread runs until the process stops or faults; main's Dump on   *)
(* the other thread does not stop it.                                       *)
LoopRuns == process \in {"serving", "dumped"}

DataEvent(c) == LoopRuns /\ connection[c] = "open"

AcceptsUngreeted(c) == DataEvent(c)

(* A DataEvent that is let through to ParseMsg. *)
ParsedData(c) == DataEvent(c) /\ m_heloParsed[c]

(* 0x00C0FFEE, at any time; what follows it in the chunk is discarded. *)
Helo(c) ==
  /\ DataEvent(c)
  /\ m_heloParsed' = [m_heloParsed EXCEPT ![c] = TRUE]
  /\ SendNotice(c, "helo")
  /\ UNCHANGED <<storeVars, process, connection, m_disconnectionHandlers>>

DataBeforeHelo(c) ==
  /\ DataEvent(c)
  /\ ~m_heloParsed[c]
  /\ SendNotice(c, "400 HELO was not received")
  /\ UNCHANGED <<storeVars, process, clientVars>>

JsonMalformed(c) ==
  /\ ParsedData(c)
  /\ SendNotice(c, "400 JSON malformed")
  /\ UNCHANGED <<storeVars, process, clientVars>>

(* "name", "action" or "entity" is missing, or "data" of any message that  *)
(* is not CREATE or LOAD of a CHARACTER.                                    *)
MissingElements(c) ==
  /\ ParsedData(c)
  /\ SendNotice(c, "400 Missing elements in JSON")
  /\ UNCHANGED <<storeVars, process, clientVars>>

(* One of the three is not a string: get<std::string> throws, nothing      *)
(* catches it below uvw::Loop::run, which is noexcept.                      *)
FieldNotAString(c) ==
  /\ ParsedData(c)
  /\ process' = "faulted"
  /\ UNCHANGED <<storeVars, clientVars, reply>>

CaptureNothing(c, address) == UNCHANGED m_disconnectionHandlers

(* What the Character constructor leaves with the client it is given. *)
Capture(c, address) ==
  /\ Len(m_disconnectionHandlers[c]) < MaxHandlers
  /\ m_disconnectionHandlers' =
       [m_disconnectionHandlers EXCEPT ![c] = Append(@, address)]

IsFree(address) == heap[address] = Null

CreateExisting(c, name) ==
  /\ ParsedData(c)
  /\ Exists(name)
  /\ Send(c, "409 Unable to create character", name, Null)
  /\ UNCHANGED <<storeVars, process, clientVars>>

(* The reply is the Character just made, whichever one Dump wrote. *)
CreateNew(c, name, address) ==
  /\ ParsedData(c)
  /\ ~Exists(name)
  /\ IsFree(address)
  /\ CreateAndDump(name, c, address)
  /\ Capture(c, address)
  /\ Send(c, "created", name, Save(NewCharacter(CreateCharacterID, name, c)))
  /\ UNCHANGED <<process, connection, m_heloParsed>>

CreateCharacterHandler(c, name) ==
  \/ CreateExisting(c, name)
  \/ \E address \in Addresses : CreateNew(c, name, address)

(* The 404 reply is sent and the null pointer dereferenced. *)
LoadUnknown(c, name) ==
  /\ ParsedData(c)
  /\ ~Exists(name)
  /\ Send(c, "404 Unknown entity", name, Null)
  /\ process' = "faulted"
  /\ UNCHANGED <<storeVars, clientVars>>

(* The JSON parser or Character::Load throws. *)
LoadMalformed(c, name) ==
  /\ ParsedData(c)
  /\ files[name] = Malformed
  /\ process' = "faulted"
  /\ UNCHANGED <<storeVars, clientVars, reply>>

LoadedFrom(name, c) == Load(NewCharacter(CreateCharacterID, name, c), files[name])

(* The loaded Character is not registered: it is freed with the handler,    *)
(* and leaves its address captured.                                         *)
LoadExisting(c, name, address) ==
  /\ ParsedData(c)
  /\ files[name] \in SaveData
  /\ IsFree(address)
  /\ Capture(c, address)
  /\ Send(c, "loaded", name, Save(LoadedFrom(name, c)))
  /\ UNCHANGED <<storeVars, process, connection, m_heloParsed>>

LoadCharacterHandler(c, name) ==
  \/ LoadUnknown(c, name)
  \/ LoadMalformed(c, name)
  \/ \E address \in Addresses : LoadExisting(c, name, address)

(* Any other entity: 404 unless a Character has left its handler, of        *)
(* "CHARACTER/ABILITY", whose branches are all empty.                       *)
DataUnknown(c, entity) ==
  /\ ParsedData(c)
  /\ entity = "CHARACTER/ABILITY" => m_disconnectionHandlers[c] = <<>>
  /\ SendNotice(c, "404 Unknown entity")
  /\ UNCHANGED <<storeVars, process, clientVars>>

DataHandled(c, entity) ==
  /\ ParsedData(c)
  /\ entity = "CHARACTER/ABILITY" /\ m_disconnectionHandlers[c] # <<>>
  /\ UNCHANGED <<storeVars, process, clientVars, reply>>

DataCharacterHandler(c, entity) == DataUnknown(c, entity) \/ DataHandled(c, entity)

-----------------------------------------------------------------------------
(* What a handler may read as m_characterID through an address it captured: *)
(* the id of the Character there, or any value if there is none any more.   *)
ReadableIDs(address) ==
  IF IsFree(address) THEN Ids ELSE {heap[address].m_characterID}

Dangling(c) == \E i \in DOMAIN m_disconnectionHandlers[c] :
                  IsFree(m_disconnectionHandlers[c][i])

(* The client closed its side: the handle stops reading, the disconnection *)
(* handlers run, each Dump(m_characterID).  Nobody closes the handle.       *)
EndEvent(c) ==
  /\ LoopRuns /\ connection[c] = "open"
  /\ connection' = [connection EXCEPT ![c] = "ended"]
  /\ \E read \in [DOMAIN m_disconnectionHandlers[c] -> Ids] :
       /\ \A i \in DOMAIN read : read[i] \in ReadableIDs(m_disconnectionHandlers[c][i])
       /\ files' = Dumped(files, ms_characters, heap, {read[i] : i \in DOMAIN read})
  /\ UNCHANGED <<ms_characters, heap, process, m_heloParsed,
                 m_disconnectionHandlers, reply>>

(* Reading through a dangling address may also end the process; the Dumps   *)
(* of the handlers before it left the files as they are (DumpedIsSame).     *)
EndEventFaults(c) ==
  /\ LoopRuns /\ connection[c] = "open"
  /\ Dangling(c)
  /\ process' = "faulted"
  /\ UNCHANGED <<storeVars, clientVars, reply>>

(* The connection broke: the handler is empty, nothing is dumped. *)
ErrorEvent(c) ==
  /\ LoopRuns /\ connection[c] = "open"
  /\ connection' = [connection EXCEPT ![c] = "error"]
  /\ UNCHANGED <<storeVars, process, m_heloParsed, m_disconnectionHandlers, reply>>

ClientInit ==
  /\ connection = [c \in Clients |-> "unused"]
  /\ m_heloParsed = [c \in Clients |-> FALSE]
  /\ m_disconnectionHandlers = [c \in Clients |-> <<>>]
  /\ reply = NoReply

ClientStep(c) ==
  \/ Helo(c) \/ DataBeforeHelo(c)
  \/ JsonMalformed(c) \/ MissingElements(c) \/ FieldNotAString(c)
  \/ \E name \in Names : CreateCharacterHandler(c, name) \/ LoadCharacterHandler(c, name)
  \/ \E entity \in {"CHARACTER/ABILITY", "OTHER"} : DataCharacterHandler(c, entity)
  \/ EndEvent(c) \/ EndEventFaults(c) \/ ErrorEvent(c)

ClientTypeOK ==
  /\ connection \in [Clients -> ConnectionStates]
  /\ m_heloParsed \in [Clients -> BOOLEAN]
  /\ m_disconnectionHandlers \in [Clients -> Seq(Addresses)]
  /\ reply \in Replies
=============================================================================

--------------------------- MODULE D20TempestProofs ---------------------------
(***************************************************************************)
(* Theorems about D20Tempest, for any clients, names, ids, addresses and   *)
(* directories.  The argument: only CreateAndDump and Restart change the   *)
(* registry (lemma CreateEffect says what the first does), so the registry *)
(* has one character at most, whose file is already what Dump would write; *)
(* so Dump, for whatever ids, changes no file (lemma DumpedIsSame).        *)
(***************************************************************************)
EXTENDS D20Tempest, TLAPS

(* Between two handlers the registered Characters are alive, and no other. *)
LiveAreRegistered ==
  \A address \in Addresses : heap[address] # Null <=> address \in Registered

(* The inductive invariant of the store. *)
StoreInv ==
  /\ TypeOK
  /\ OneCharacterPerRun
  /\ LiveAreRegistered
  /\ RegisteredPersisted

-----------------------------------------------------------------------------
(* Characters and save files are what Save, Load and NewCharacter make. *)
LEMMA SaveType ==
  ASSUME NEW ch \in Character
  PROVE  Save(ch) \in SaveData
<1>1. ASSUME NEW a \in Abilities
      PROVE  SaveAbility(ch.m_abilities[a]) \in SavedScore \cup {Null}
  <2>1. ch.m_abilities[a] \in Score \cup {Null}
    BY DEF Character, Sheet
  <2>2. CASE ch.m_abilities[a] = Null
    BY <2>2 DEF SaveAbility
  <2>3. CASE ch.m_abilities[a] # Null
    <3>1. /\ ch.m_abilities[a].value \in Int
          /\ ch.m_abilities[a].temp \in Int
      BY <2>1, <2>3 DEF Score
    <3>2. Modifier(ch.m_abilities[a]) \in Int
      BY <3>1 DEF Modifier
    <3> QED
      BY <2>3, <3>1, <3>2 DEF SaveAbility, SavedScore
  <2> QED
    BY <2>2, <2>3
<1> QED
  BY <1>1 DEF Save, SaveData, SavedSheet, Character

LEMMA NewCharacterType ==
  ASSUME NEW name \in Names, NEW c \in Clients
  PROVE  NewCharacter(CreateCharacterID, name, c) \in Character
BY StoreAssumption DEF NewCharacter, CreateCharacterID, Character, Sheet, EmptySheet

LEMMA LoadType ==
  ASSUME NEW ch \in Character, NEW root \in SaveData
  PROVE  Load(ch, root) \in Character
<1>1. ASSUME NEW a \in Abilities
      PROVE  LoadAbility(root.abilities[a]) \in Score \cup {Null}
  BY DEF LoadAbility, SaveData, SavedSheet, SavedScore, Score
<1> QED
  BY <1>1 DEF Load, Character, SaveData, Sheet

-----------------------------------------------------------------------------
(* Dump of any ids, when the one registered character is saved. *)
LEMMA DumpedIsSame ==
  ASSUME StoreInv, NEW ids \in SUBSET Ids
  PROVE  Dumped(files, ms_characters, heap, ids) = files
<1> USE DEF StoreInv, TypeOK, StoreTypeOK
<1> SUFFICES ASSUME NEW name \in Names
             PROVE  Dumped(files, ms_characters, heap, ids)[name] = files[name]
  BY DEF Dumped
<1> DEFINE W == WritersOf(name, ms_characters, heap, ids)
<1>1. CASE name \in Unwritable \/ W = {}
  BY <1>1 DEF Dumped
<1>2. CASE name \notin Unwritable /\ W # {}
  <2>1. W = {0}
    <3>1. \A id \in W : id = 0
      BY DEF WritersOf, OneCharacterPerRun
    <3> QED
      BY <1>2, <3>1
  <2>2. LastOf(W) = 0
    BY <2>1 DEF LastOf
  <2>3. /\ ms_characters[0] \in Registered
        /\ heap[ms_characters[0]].m_name = name
    BY <2>1, StoreAssumption DEF WritersOf, Registered
  <2>4. ms_characters[0] \in Addresses
    BY <2>3, StoreAssumption DEF Registered
  <2>5. files[name] = Save(heap[ms_characters[0]])
    BY <1>2, <2>3, <2>4 DEF RegisteredPersisted
  <2> QED
    BY <1>2, <2>2, <2>5 DEF Dumped
<1> QED
  BY <1>1, <1>2

(* CreateAndDump either registers a new character and writes its file, or, *)
(* when one is registered already, changes nothing at all.                 *)
LEMMA CreateEffect ==
  ASSUME StoreInv,
         NEW name \in Names, NEW c \in Clients, NEW address \in Addresses,
         IsFree(address), CreateAndDump(name, c, address)
  PROVE  \/ /\ ms_characters[0] = Null
            /\ ms_characters' = [ms_characters EXCEPT ![0] = address]
            /\ heap' = [heap EXCEPT ![address] = NewCharacter(0, name, c)]
            /\ files' = IF name \in Unwritable THEN files
                        ELSE [files EXCEPT ![name] = Save(NewCharacter(0, name, c))]
         \/ /\ ms_characters[0] # Null
            /\ UNCHANGED storeVars
<1> USE StoreAssumption DEF StoreInv, TypeOK, StoreTypeOK
<1> DEFINE created  == NewCharacter(0, name, c)
           chars    == Insert(ms_characters, 0, address)
           allotted == [heap EXCEPT ![address] = created]
<1>1. /\ created.m_characterID = 0
      /\ created.m_name = name
      /\ created = NewCharacter(CreateCharacterID, name, c)
  BY DEF NewCharacter, CreateCharacterID
<1>2. /\ ms_characters' = chars
      /\ heap' = Held(allotted, chars)
      /\ files' = Dumped(files, chars, allotted, {0})
  BY <1>1 DEF CreateAndDump
<1>3. CASE ms_characters[0] = Null
  <2>1. chars = [ms_characters EXCEPT ![0] = address]
    BY <1>3 DEF Insert
  <2>2. chars[0] = address /\ chars[0] # Null
    BY <2>1
  <2>3. allotted[chars[0]] = created
    BY <2>2
  <2>4. ASSUME NEW n \in Names
        PROVE  Dumped(files, chars, allotted, {0})[n]
                 = IF n = name /\ n \notin Unwritable THEN Save(created) ELSE files[n]
    <3>1. WritersOf(n, chars, allotted, {0}) = IF n = name THEN {0} ELSE {}
      BY <1>1, <2>2, <2>3 DEF WritersOf
    <3>2. LastOf({0}) = 0
      BY DEF LastOf
    <3>3. CASE n = name
      <4>1. LastOf(WritersOf(n, chars, allotted, {0})) = 0
        BY <3>1, <3>2, <3>3
      <4>2. Save(allotted[chars[LastOf(WritersOf(n, chars, allotted, {0}))]]) = Save(created)
        BY <4>1, <2>3
      <4>3. WritersOf(n, chars, allotted, {0}) # {}
        BY <3>1, <3>3
      <4> HIDE DEF chars, allotted, created
      <4> QED
        BY <3>3, <4>2, <4>3 DEF Dumped
    <3>4. CASE n # name
      <4>1. WritersOf(n, chars, allotted, {0}) = {}
        BY <3>1, <3>4
      <4> HIDE DEF chars, allotted, created
      <4> QED
        BY <3>4, <4>1 DEF Dumped
    <3> QED
      BY <3>3, <3>4
  <2>5. files' = [n \in Names |-> IF n = name /\ n \notin Unwritable
                                  THEN Save(created) ELSE files[n]]
    BY <1>2, <2>4 DEF Dumped
  <2>6. files' = IF name \in Unwritable THEN files
                 ELSE [files EXCEPT ![name] = Save(created)]
    BY <2>5
  <2>7. heap' = allotted
    <3>1. \A a \in Addresses : (\E id \in Ids : chars[id] = a) <=> a = address
      BY <2>1 DEF OneCharacterPerRun
    <3>2. \A a \in Addresses : a # address => allotted[a] = Null
      BY <1>3 DEF LiveAreRegistered, Registered, OneCharacterPerRun
    <3>3. allotted = [a \in Addresses |-> allotted[a]]
      OBVIOUS
    <3> HIDE DEF chars, allotted
    <3>4. Held(allotted, chars) = [a \in Addresses |-> allotted[a]]
      BY <3>1, <3>2 DEF Held
    <3> QED
      BY <1>2, <3>3, <3>4
  <2> QED
    BY <1>2, <1>3, <2>1, <2>6, <2>7
<1>4. CASE ms_characters[0] # Null
  <2>1. chars = ms_characters
    BY <1>4 DEF Insert
  <2>2. ms_characters[0] # address
    BY <1>4 DEF OneCharacterPerRun, IsFree
  <2>3. allotted[ms_characters[0]] = heap[ms_characters[0]]
    BY <2>2, <1>4
  <2>4. Dumped(files, chars, allotted, {0}) = Dumped(files, ms_characters, heap, {0})
    <3>1. ASSUME NEW n
          PROVE  WritersOf(n, chars, allotted, {0}) = WritersOf(n, ms_characters, heap, {0})
      BY <2>1, <2>3 DEF WritersOf
    <3>2. ASSUME NEW n, WritersOf(n, ms_characters, heap, {0}) # {}
          PROVE  LastOf(WritersOf(n, ms_characters, heap, {0})) = 0
      <4>1. WritersOf(n, ms_characters, heap, {0}) = {0}
        BY <3>2 DEF WritersOf
      <4> QED
        BY <4>1 DEF LastOf
    <3>3. ASSUME NEW n, WritersOf(n, ms_characters, heap, {0}) # {}
          PROVE  Save(allotted[chars[LastOf(WritersOf(n, chars, allotted, {0}))]])
                   = Save(heap[ms_characters[LastOf(WritersOf(n, ms_characters, heap, {0}))]])
      <4>1. /\ LastOf(WritersOf(n, ms_characters, heap, {0})) = 0
            /\ LastOf(WritersOf(n, chars, allotted, {0})) = 0
        BY <3>1, <3>2, <3>3
      <4>2. allotted[chars[0]] = heap[ms_characters[0]]
        BY <2>1, <2>3
      <4> HIDE DEF chars, allotted
      <4> QED
        BY <4>1, <4>2
    <3>4. ASSUME NEW n \in Names
          PROVE  Dumped(files, chars, allotted, {0})[n]
                   = Dumped(files, ms_characters, heap, {0})[n]
      BY <3>1, <3>3 DEF Dumped
    <3> HIDE DEF chars, allotted
    <3> QED
      BY <3>4 DEF Dumped
  <2>5. files' = files
    BY <1>2, <2>4, DumpedIsSame
  <2>6. heap' = heap
    <3>1. \A a \in Addresses : (\E id \in Ids : chars[id] = a) <=> a \in Registered
      BY <2>1 DEF Registered
    <3>2. \A a \in Addresses : a \in Registered => allotted[a] = heap[a]
      BY DEF LiveAreRegistered, IsFree
    <3>3. \A a \in Addresses : a \notin Registered => heap[a] = Null
      BY DEF LiveAreRegistered
    <3> HIDE DEF chars, allotted
    <3>4. Held(allotted, chars) = [a \in Addresses |-> heap[a]]
      BY <3>1, <3>2, <3>3 DEF Held
    <3> QED
      BY <1>2, <3>4
  <2> QED
    BY <1>2, <1>4, <2>1, <2>5, <2>6 DEF storeVars
<1> QED
  BY <1>3, <1>4

-----------------------------------------------------------------------------
(* What a step does to the store: nothing, a new character, or a restart. *)
Registers(name, c, address) ==
  /\ reply'.kind = "created"
  /\ reply'.name = name
  /\ reply'.body = Save(NewCharacter(0, name, c))
  /\ UNCHANGED <<connection, process>>
  /\ IsFree(address)
  /\ ~Exists(name)
  /\ ms_characters[0] = Null
  /\ ms_characters' = [ms_characters EXCEPT ![0] = address]
  /\ heap' = [heap EXCEPT ![address] = NewCharacter(0, name, c)]
  /\ files' = IF name \in Unwritable THEN files
              ELSE [files EXCEPT ![name] = Save(NewCharacter(0, name, c))]

Emptied ==
  /\ ms_characters' = [id \in Ids |-> Null]
  /\ heap' = [address \in Addresses |-> Null]
  /\ files' = files

LEMMA CreateNewStep ==
  ASSUME StoreInv, NEW c \in Clients, NEW name \in Names, NEW address \in Addresses,
         CreateNew(c, name, address)
  PROVE  Registers(name, c, address) \/ UNCHANGED storeVars
<1>1. IsFree(address) /\ ~Exists(name) /\ CreateAndDump(name, c, address)
  BY DEF CreateNew
<1>2. /\ reply'.kind = "created"
      /\ reply'.name = name
      /\ reply'.body = Save(NewCharacter(0, name, c))
      /\ UNCHANGED <<connection, process>>
  BY DEF CreateNew, Send, CreateCharacterID
<1> QED
  BY <1>1, <1>2, CreateEffect DEF Registers

LEMMA StoreStep ==
  ASSUME StoreInv, [Next]_vars
  PROVE  \/ UNCHANGED storeVars
         \/ \E name \in Names, c \in Clients, address \in Addresses :
              Registers(name, c, address)
         \/ Emptied
<1>1. CASE UNCHANGED vars
  BY <1>1 DEF vars
<1>2. ASSUME NEW c \in Clients, Accept(c)
      PROVE  UNCHANGED storeVars
  BY <1>2 DEF Accept
<1>3. ASSUME NEW c \in Clients, ClientStep(c)
      PROVE  \/ UNCHANGED storeVars
             \/ \E name \in Names, address \in Addresses : Registers(name, c, address)
  <2>1. CASE \/ Helo(c) \/ DataBeforeHelo(c) \/ JsonMalformed(c) \/ MissingElements(c)
             \/ FieldNotAString(c) \/ EndEventFaults(c) \/ ErrorEvent(c)
    BY <2>1 DEF Helo, DataBeforeHelo, JsonMalformed, MissingElements,
                FieldNotAString, EndEventFaults, ErrorEvent
  <2>2. ASSUME NEW name \in Names, CreateCharacterHandler(c, name)
        PROVE  \/ UNCHANGED storeVars
               \/ \E address \in Addresses : Registers(name, c, address)
    BY <2>2, CreateNewStep DEF CreateCharacterHandler, CreateExisting
  <2>3. ASSUME NEW name \in Names, LoadCharacterHandler(c, name)
        PROVE  UNCHANGED storeVars
    BY <2>3 DEF LoadCharacterHandler, LoadUnknown, LoadMalformed, LoadExisting
  <2>4. ASSUME NEW entity, DataCharacterHandler(c, entity)
        PROVE  UNCHANGED storeVars
    BY <2>4 DEF DataCharacterHandler, DataUnknown, DataHandled
  <2>5. CASE EndEvent(c)
    <3>1. PICK read \in [DOMAIN m_disconnectionHandlers[c] -> Ids] :
            files' = Dumped(files, ms_characters, heap, {read[i] : i \in DOMAIN read})
      BY <2>5 DEF EndEvent
    <3>2. {read[i] : i \in DOMAIN read} \in SUBSET Ids
      OBVIOUS
    <3> QED
      BY <2>5, <3>1, <3>2, DumpedIsSame DEF EndEvent, storeVars
  <2> QED
    BY <1>3, <2>1, <2>2, <2>3, <2>4, <2>5 DEF ClientStep
<1>4. CASE MainDump
  BY <1>4, DumpedIsSame DEF MainDump, storeVars
<1>5. CASE MainExit \/ Kill
  BY <1>5 DEF MainExit, Kill
<1>6. CASE Restart
  BY <1>6 DEF Restart, Emptied
<1> QED
  BY <1>1, <1>2, <1>3, <1>4, <1>5, <1>6 DEF Next

-----------------------------------------------------------------------------
(* The clients' own state keeps its types, whatever the handler. *)
LEMMA ReplyType ==
  ASSUME NEW c \in Clients, NEW name \in Names \cup {Null},
         NEW body \in SaveData \cup {Null},
         NEW kind \in {"none", "helo", "400 HELO was not received",
                       "400 JSON malformed", "400 Missing elements in JSON",
                       "404 Unknown entity", "409 Unable to create character",
                       "created", "loaded"},
         Send(c, kind, name, body)
  PROVE  reply' \in Replies
BY DEF Send, Replies

LEMMA CaptureType ==
  ASSUME TypeOK, NEW c \in Clients, NEW address \in Addresses, Capture(c, address)
  PROVE  m_disconnectionHandlers' \in [Clients -> Seq(Addresses)]
<1>1. Append(m_disconnectionHandlers[c], address) \in Seq(Addresses)
  BY DEF TypeOK, ClientTypeOK
<1> QED
  BY <1>1 DEF Capture, TypeOK, ClientTypeOK

LEMMA ClientTypeStep ==
  ASSUME TypeOK, [Next]_vars
  PROVE  process' \in {"serving", "dumped", "stopped", "faulted"} /\ ClientTypeOK'
<1> USE DEF TypeOK, ClientTypeOK, ConnectionStates
<1>1. CASE UNCHANGED vars
  BY <1>1 DEF vars, clientVars
<1>2. ASSUME NEW c \in Clients, Accept(c) \/ ErrorEvent(c)
      PROVE  process' = process /\ ClientTypeOK'
  BY <1>2 DEF Accept, ErrorEvent
<1>3. ASSUME NEW c \in Clients, EndEvent(c)
      PROVE  process' = process /\ ClientTypeOK'
  BY <1>3 DEF EndEvent
<1>4. ASSUME NEW c \in Clients,
             \/ Helo(c) \/ DataBeforeHelo(c) \/ JsonMalformed(c) \/ MissingElements(c)
      PROVE  process' = process /\ ClientTypeOK'
  <2>1. reply' \in Replies
    BY <1>4, ReplyType
       DEF Helo, DataBeforeHelo, JsonMalformed, MissingElements, SendNotice
  <2> QED
    BY <1>4, <2>1 DEF Helo, DataBeforeHelo, JsonMalformed, MissingElements, clientVars
<1>5. ASSUME NEW c \in Clients, FieldNotAString(c) \/ EndEventFaults(c)
      PROVE  process' = "faulted" /\ ClientTypeOK'
  BY <1>5 DEF FieldNotAString, EndEventFaults, clientVars
<1>6. ASSUME NEW c \in Clients, NEW name \in Names, CreateExisting(c, name)
      PROVE  process' = process /\ ClientTypeOK'
  BY <1>6, ReplyType DEF CreateExisting, clientVars
<1>7. ASSUME NEW c \in Clients, NEW name \in Names, NEW address \in Addresses,
             CreateNew(c, name, address)
      PROVE  process' = process /\ ClientTypeOK'
  <2>1. reply' \in Replies
    BY <1>7, ReplyType, SaveType, NewCharacterType DEF CreateNew
  <2>2. m_disconnectionHandlers' \in [Clients -> Seq(Addresses)]
    BY <1>7, CaptureType DEF CreateNew
  <2> QED
    BY <1>7, <2>1, <2>2 DEF CreateNew
<1>8. ASSUME NEW c \in Clients, NEW name \in Names, LoadUnknown(c, name)
      PROVE  process' = "faulted" /\ ClientTypeOK'
  BY <1>8, ReplyType DEF LoadUnknown, clientVars
<1>9. ASSUME NEW c \in Clients, NEW name \in Names, LoadMalformed(c, name)
      PROVE  process' = "faulted" /\ ClientTypeOK'
  BY <1>9 DEF LoadMalformed, clientVars
<1>10. ASSUME NEW c \in Clients, NEW name \in Names, NEW address \in Addresses,
              LoadExisting(c, name, address)
       PROVE  process' = process /\ ClientTypeOK'
  <2>1. LoadedFrom(name, c) \in Character
    BY <1>10, LoadType, NewCharacterType DEF LoadExisting, LoadedFrom
  <2>2. reply' \in Replies
    BY <1>10, <2>1, ReplyType, SaveType DEF LoadExisting
  <2>3. m_disconnectionHandlers' \in [Clients -> Seq(Addresses)]
    BY <1>10, CaptureType DEF LoadExisting
  <2> QED
    BY <1>10, <2>2, <2>3 DEF LoadExisting
<1>11. ASSUME NEW c \in Clients, NEW entity, DataCharacterHandler(c, entity)
       PROVE  process' = process /\ ClientTypeOK'
  BY <1>11, ReplyType
     DEF DataCharacterHandler, DataUnknown, DataHandled, SendNotice, clientVars
<1>12. CASE MainDump \/ MainExit \/ Kill
  BY <1>12 DEF MainDump, MainExit, Kill, clientVars
<1>13. CASE Restart
  <2>1. reply' \in Replies
    BY <1>13 DEF Restart, NoReply, Replies
  <2>2. m_disconnectionHandlers' \in [Clients -> Seq(Addresses)]
    <3>1. <<>> \in Seq(Addresses)
      OBVIOUS
    <3> QED
      BY <1>13, <3>1 DEF Restart
  <2> QED
    BY <1>13, <2>1, <2>2 DEF Restart
<1>14. ASSUME NEW c \in Clients, ClientStep(c)
       PROVE  process' \in {process, "faulted"} /\ ClientTypeOK'
  <2>1. ASSUME NEW name \in Names,
               CreateCharacterHandler(c, name) \/ LoadCharacterHandler(c, name)
        PROVE  process' \in {process, "faulted"} /\ ClientTypeOK'
    BY <2>1, <1>6, <1>7, <1>8, <1>9, <1>10
       DEF CreateCharacterHandler, LoadCharacterHandler
  <2> HIDE DEF ClientTypeOK
  <2> QED
    BY <1>14, <2>1, <1>2, <1>3, <1>4, <1>5, <1>11 DEF ClientStep
<1> QED
  <2> HIDE DEF ClientTypeOK
  <2> QED
    BY <1>1, <1>2, <1>12, <1>13, <1>14 DEF Next

-----------------------------------------------------------------------------
(* The invariant of the store is inductive. *)
LEMMA StoreInvInit ==
  ASSUME Init
  PROVE  StoreInv
<1> USE StoreAssumption DEF Init, StoreInit, ClientInit
<1>1. StoreTypeOK
  BY DEF StoreTypeOK
<1>2. reply \in Replies
  BY DEF NoReply, Replies
<1>3. m_disconnectionHandlers \in [Clients -> Seq(Addresses)]
  <2>1. <<>> \in Seq(Addresses)
    OBVIOUS
  <2> QED
    BY <2>1
<1>4. TypeOK
  BY <1>1, <1>2, <1>3 DEF TypeOK, ClientTypeOK, ConnectionStates
<1>5. Registered = {}
  BY DEF Registered
<1> QED
  BY <1>4, <1>5 DEF StoreInv, OneCharacterPerRun, LiveAreRegistered, RegisteredPersisted

LEMMA StoreInvStep ==
  ASSUME StoreInv, [Next]_vars
  PROVE  StoreInv'
<1> USE StoreAssumption DEF StoreInv
<1>1. process' \in {"serving", "dumped", "stopped", "faulted"} /\ ClientTypeOK'
  BY ClientTypeStep
<1>2. CASE UNCHANGED storeVars
  BY <1>1, <1>2 DEF storeVars, TypeOK, StoreTypeOK, OneCharacterPerRun,
                    LiveAreRegistered, RegisteredPersisted, Registered
<1>3. ASSUME NEW name \in Names, NEW c \in Clients, NEW address \in Addresses,
             Registers(name, c, address)
      PROVE  StoreInv'
  <2> DEFINE created == NewCharacter(0, name, c)
  <2>1. /\ created \in Character
        /\ created # Null
        /\ created.m_name = name
        /\ created.m_characterID = 0
        /\ Save(created) \in SaveData
    BY NewCharacterType, SaveType DEF CreateCharacterID, NewCharacter
  <2> HIDE DEF created
  <2>2. /\ IsFree(address)
        /\ ms_characters[0] = Null
        /\ ms_characters' = [ms_characters EXCEPT ![0] = address]
        /\ heap' = [heap EXCEPT ![address] = created]
        /\ files' = IF name \in Unwritable THEN files
                    ELSE [files EXCEPT ![name] = Save(created)]
    BY <1>3 DEF Registers, created
  <2>3. StoreTypeOK'
    BY <2>1, <2>2 DEF TypeOK, StoreTypeOK, File
  <2>4. ms_characters' = [id \in Ids |-> IF id = 0 THEN address ELSE Null]
    BY <2>2 DEF TypeOK, StoreTypeOK, OneCharacterPerRun
  <2>5. OneCharacterPerRun'
    BY <2>1, <2>2, <2>4 DEF OneCharacterPerRun, TypeOK, StoreTypeOK
  <2>6. Registered' = {address} /\ Registered = {}
    BY <2>2, <2>4 DEF Registered, OneCharacterPerRun, TypeOK, StoreTypeOK
  <2>7. LiveAreRegistered'
    BY <2>1, <2>2, <2>6 DEF LiveAreRegistered, TypeOK, StoreTypeOK
  <2>8. RegisteredPersisted'
    BY <2>1, <2>2, <2>6 DEF RegisteredPersisted, TypeOK, StoreTypeOK
  <2> QED
    BY <1>1, <2>3, <2>5, <2>7, <2>8 DEF TypeOK
<1>4. CASE Emptied
  <2>1. StoreTypeOK'
    BY <1>4 DEF Emptied, TypeOK, StoreTypeOK
  <2>2. Registered' = {}
    BY <1>4 DEF Emptied, Registered
  <2> QED
    BY <1>1, <1>4, <2>1, <2>2 DEF Emptied, TypeOK, OneCharacterPerRun,
                                  LiveAreRegistered, RegisteredPersisted
<1> QED
  BY <1>2, <1>3, <1>4, StoreStep

(* The invariant holds in every behaviour of the program. *)
THEOREM StoreInvariant == Spec => []StoreInv
<1>1. Init => StoreInv
  BY StoreInvInit
<1>2. StoreInv /\ [Next]_vars => StoreInv'
  BY StoreInvStep
<1> QED
  BY <1>1, <1>2, PTL DEF Spec

(* Type correctness. *)
THEOREM TypeCorrect == Spec => []TypeOK
<1>1. StoreInv => TypeOK
  BY DEF StoreInv
<1> QED
  BY <1>1, StoreInvariant, PTL

(* A run registers one character at most, under id 0. *)
THEOREM OneCharacter == Spec => []OneCharacterPerRun
<1>1. StoreInv => OneCharacterPerRun
  BY DEF StoreInv
<1> QED
  BY <1>1, StoreInvariant, PTL

(* The file of a registered character is always up to date. *)
THEOREM Persisted == Spec => []RegisteredPersisted
<1>1. StoreInv => RegisteredPersisted
  BY DEF StoreInv
<1> QED
  BY <1>1, StoreInvariant, PTL

(* No step changes or removes a file that exists. *)
LEMMA FilesKept ==
  ASSUME StoreInv, [Next]_vars, NEW name \in Names, files[name] # Absent
  PROVE  files'[name] = files[name]
<1>1. CASE UNCHANGED storeVars \/ Emptied
  BY <1>1 DEF storeVars, Emptied
<1>2. ASSUME NEW n \in Names, NEW c \in Clients, NEW address \in Addresses,
             Registers(n, c, address)
      PROVE  files'[name] = files[name]
  <2>1. n # name
    BY <1>2 DEF Registers, Exists
  <2> QED
    BY <1>2, <2>1 DEF Registers
<1> QED
  BY <1>1, <1>2, StoreStep

(* No step of any behaviour changes or removes a save file that exists. *)
THEOREM FilesNeverClobbered == Spec => NoClobber
<1>1. StoreInv /\ [Next]_vars
        => [\A name \in Names : files[name] # Absent => files'[name] = files[name]]_vars
  BY FilesKept
<1> QED
  BY <1>1, StoreInvariant, PTL DEF Spec, NoClobber

(* Only a CREATE writes, and what it answers. *)
LEMMA FilesWritten ==
  ASSUME StoreInv, [Next]_vars, files' # files
  PROVE  /\ reply'.kind = "created"
         /\ files' = [files EXCEPT ![reply'.name] = reply'.body]
         /\ UNCHANGED <<connection, process>>
<1>1. PICK name \in Names, c \in Clients, address \in Addresses : Registers(name, c, address)
  BY StoreStep DEF storeVars, Emptied
<1> QED
  BY <1>1 DEF Registers

(* No Dump but that of a CREATE changes a file, in any behaviour. *)
THEOREM CreateWritesOnly == Spec => OnlyCreateWrites
<1>1. StoreInv /\ [Next]_vars
        => [files' # files =>
              /\ reply'.kind = "created"
              /\ files' = [files EXCEPT ![reply'.name] = reply'.body]
              /\ UNCHANGED <<connection, process>>]_vars
  BY FilesWritten
<1> QED
  BY <1>1, StoreInvariant, PTL DEF Spec, OnlyCreateWrites

-----------------------------------------------------------------------------
(* The clients and the registry: who owns a character said HELO, and its   *)
(* handlers captured the character.                                        *)
ClientInv == OwnersSaidHelo /\ OwnerCapturesRegistered

(* A step that changes neither the registry nor the captures keeps both,   *)
(* as no client that said HELO comes not to have said it.                  *)
LEMMA ClientInvKept ==
  ASSUME StoreInv, ClientInv,
         UNCHANGED <<ms_characters, heap, m_disconnectionHandlers>>,
         \A c \in Clients : m_heloParsed[c] => m_heloParsed'[c]
  PROVE  ClientInv'
<1>1. Registered' = Registered
  BY DEF Registered
<1>2. \A address \in Registered : heap[address].m_client \in Clients
  BY StoreAssumption DEF StoreInv, TypeOK, StoreTypeOK, Registered, LiveAreRegistered,
                         Character
<1> QED
  BY <1>1, <1>2 DEF ClientInv, OwnersSaidHelo, OwnerCapturesRegistered

(* Capturing another address loses none that was captured. *)
LEMMA Captured ==
  ASSUME TypeOK, NEW c \in Clients, NEW address \in Addresses, Capture(c, address)
  PROVE  /\ \A d \in Clients : d # c => m_disconnectionHandlers'[d] = m_disconnectionHandlers[d]
         /\ m_disconnectionHandlers'[c] # <<>>
         /\ \E i \in DOMAIN m_disconnectionHandlers'[c] :
              m_disconnectionHandlers'[c][i] = address
         /\ \A d \in Clients : \A i \in DOMAIN m_disconnectionHandlers[d] :
              /\ i \in DOMAIN m_disconnectionHandlers'[d]
              /\ m_disconnectionHandlers'[d][i] = m_disconnectionHandlers[d][i]
<1> DEFINE h == m_disconnectionHandlers[c]
<1>1. h \in Seq(Addresses)
  BY DEF TypeOK, ClientTypeOK
<1>2. m_disconnectionHandlers' = [m_disconnectionHandlers EXCEPT ![c] = Append(h, address)]
  BY DEF Capture
<1>3. m_disconnectionHandlers'[c] = Append(h, address)
  BY <1>2 DEF TypeOK, ClientTypeOK
<1>4. /\ Append(h, address) # <<>>
      /\ Len(h) + 1 \in DOMAIN Append(h, address)
      /\ Append(h, address)[Len(h) + 1] = address
      /\ \A i \in DOMAIN h : i \in DOMAIN Append(h, address) /\ Append(h, address)[i] = h[i]
  BY <1>1
<1>5. \A d \in Clients : d # c => m_disconnectionHandlers'[d] = m_disconnectionHandlers[d]
  BY <1>2 DEF TypeOK, ClientTypeOK
<1> HIDE DEF h
<1> QED
  BY <1>3, <1>4, <1>5 DEF h

LEMMA ClientInvCaptured ==
  ASSUME StoreInv, ClientInv, NEW c \in Clients, NEW address \in Addresses,
         m_heloParsed[c], Capture(c, address), UNCHANGED m_heloParsed,
         \/ UNCHANGED storeVars
         \/ \E name \in Names : Registers(name, c, address)
  PROVE  ClientInv'
<1> USE DEF StoreInv
<1>1. \A d \in Clients : m_disconnectionHandlers'[d] # <<>> => m_heloParsed'[d]
  BY Captured DEF ClientInv, OwnersSaidHelo
<1>2. CASE UNCHANGED storeVars
  <2>1. Registered' = Registered /\ heap' = heap
    BY <1>2 DEF Registered, storeVars
  <2>2. \A a \in Registered : heap[a].m_client \in Clients
    BY StoreAssumption DEF TypeOK, StoreTypeOK, Registered, LiveAreRegistered, Character
  <2>3. OwnerCapturesRegistered'
    BY <2>1, <2>2, Captured DEF ClientInv, OwnerCapturesRegistered
  <2> QED
    BY <1>1, <2>1, <2>3 DEF ClientInv, OwnersSaidHelo
<1>3. ASSUME NEW name \in Names, Registers(name, c, address)
      PROVE  ClientInv'
  <2>1. Registered' = {address}
    <3>1. ms_characters' = [id \in Ids |-> IF id = 0 THEN address ELSE Null]
      BY <1>3, StoreAssumption DEF Registers, TypeOK, StoreTypeOK, OneCharacterPerRun
    <3> QED
      BY <3>1, StoreAssumption DEF Registered
  <2>2. heap'[address].m_client = c
    BY <1>3 DEF Registers, NewCharacter, TypeOK, StoreTypeOK
  <2>3. OwnerCapturesRegistered'
    BY <2>1, <2>2, Captured DEF OwnerCapturesRegistered
  <2> QED
    BY <1>1, <2>1, <2>2, <2>3 DEF ClientInv, OwnersSaidHelo
<1> QED
  BY <1>2, <1>3

LEMMA ClientInvStep ==
  ASSUME StoreInv, ClientInv, [Next]_vars
  PROVE  ClientInv'
<1> USE DEF StoreInv
<1>1. CASE UNCHANGED vars
  BY <1>1, ClientInvKept DEF vars, storeVars, clientVars
<1>2. ASSUME NEW c \in Clients,
             Accept(c) \/ ErrorEvent(c) \/ EndEvent(c) \/ EndEventFaults(c)
      PROVE  ClientInv'
  BY <1>2, ClientInvKept
     DEF Accept, ErrorEvent, EndEvent, EndEventFaults, storeVars, clientVars
<1>3. ASSUME NEW c \in Clients, Helo(c)
      PROVE  ClientInv'
  BY <1>3, ClientInvKept DEF Helo, storeVars, TypeOK, ClientTypeOK
<1>4. ASSUME NEW c \in Clients,
             \/ DataBeforeHelo(c) \/ JsonMalformed(c) \/ MissingElements(c)
             \/ FieldNotAString(c)
      PROVE  ClientInv'
  BY <1>4, ClientInvKept DEF DataBeforeHelo, JsonMalformed, MissingElements,
                             FieldNotAString, storeVars, clientVars
<1>5. ASSUME NEW c \in Clients, NEW name \in Names,
             CreateExisting(c, name) \/ LoadUnknown(c, name) \/ LoadMalformed(c, name)
      PROVE  ClientInv'
  BY <1>5, ClientInvKept DEF CreateExisting, LoadUnknown, LoadMalformed, storeVars, clientVars
<1>6. ASSUME NEW c \in Clients, NEW name \in Names, NEW address \in Addresses,
             CreateNew(c, name, address)
      PROVE  ClientInv'
  <2>1. m_heloParsed[c] /\ Capture(c, address) /\ UNCHANGED m_heloParsed
    BY <1>6 DEF CreateNew, ParsedData
  <2> QED
    BY <1>6, <2>1, CreateNewStep, ClientInvCaptured
<1>7. ASSUME NEW c \in Clients, NEW name \in Names, NEW address \in Addresses,
             LoadExisting(c, name, address)
      PROVE  ClientInv'
  BY <1>7, ClientInvCaptured DEF LoadExisting, ParsedData
<1>8. ASSUME NEW c \in Clients, NEW entity, DataCharacterHandler(c, entity)
      PROVE  ClientInv'
  BY <1>8, ClientInvKept
     DEF DataCharacterHandler, DataUnknown, DataHandled, storeVars, clientVars
<1>9. CASE MainDump \/ MainExit \/ Kill
  BY <1>9, ClientInvKept DEF MainDump, MainExit, Kill, storeVars, clientVars
<1>10. CASE Restart
  <2>1. Registered' = {}
    BY <1>10 DEF Restart, Registered
  <2> QED
    BY <1>10, <2>1 DEF Restart, ClientInv, OwnersSaidHelo, OwnerCapturesRegistered
<1>11. ASSUME NEW c \in Clients, ClientStep(c)
       PROVE  ClientInv'
  <2>1. ASSUME NEW name \in Names,
               CreateCharacterHandler(c, name) \/ LoadCharacterHandler(c, name)
        PROVE  ClientInv'
    BY <2>1, <1>5, <1>6, <1>7 DEF CreateCharacterHandler, LoadCharacterHandler
  <2> QED
    BY <1>11, <2>1, <1>2, <1>3, <1>4, <1>8 DEF ClientStep
<1> QED
  BY <1>1, <1>2, <1>9, <1>10, <1>11 DEF Next

LEMMA ClientInvariant == Spec => []ClientInv
<1>1. Init => ClientInv
  <2> SUFFICES ASSUME Init
               PROVE  ClientInv
    OBVIOUS
  <2>1. Registered = {}
    BY DEF Init, StoreInit, Registered
  <2> QED
    BY <2>1 DEF Init, ClientInit, ClientInv, OwnersSaidHelo, OwnerCapturesRegistered
<1>2. StoreInv /\ ClientInv /\ [Next]_vars => ClientInv'
  BY ClientInvStep
<1> QED
  BY <1>1, <1>2, StoreInvariant, PTL DEF Spec

(* No client that did not say HELO has a handler or a character. *)
THEOREM HeloFirst == Spec => []OwnersSaidHelo
<1>1. ClientInv => OwnersSaidHelo
  BY DEF ClientInv
<1> QED
  BY <1>1, ClientInvariant, PTL

(* The handlers of its own client captured the registered character. *)
THEOREM OwnerCaptures == Spec => []OwnerCapturesRegistered
<1>1. ClientInv => OwnerCapturesRegistered
  BY DEF ClientInv
<1> QED
  BY <1>1, ClientInvariant, PTL

-----------------------------------------------------------------------------
(* What LOAD answers is what the file says, and stays so: the answer is    *)
(* right when it is given, and the file is not changed after.              *)
LoadedInv ==
  /\ LoadedAsOnFile
  /\ reply.kind = "loaded" => reply.name \in Names

LEMMA LoadAnswer ==
  ASSUME StoreInv, NEW c \in Clients, NEW name \in Names, NEW address \in Addresses,
         LoadExisting(c, name, address)
  PROVE  LoadedInv'
<1> DEFINE root == files[name]
           ch   == LoadedFrom(name, c)
<1>1. root \in SaveData /\ files' = files
  BY DEF LoadExisting, storeVars
<1>2. reply'.name = name /\ reply'.body = Save(ch)
  BY DEF LoadExisting, Send
<1>3. NewCharacter(CreateCharacterID, name, c) \in Character
  BY NewCharacterType
<1>4. /\ ch.m_name = root.name /\ ch.m_characterID = root.id
      /\ \A a \in Abilities : ch.m_abilities[a] = LoadAbility(root.abilities[a])
  BY <1>3 DEF LoadedFrom, Load, Character
<1>5. ASSUME NEW a \in Abilities
      PROVE  SaveAbility(LoadAbility(root.abilities[a])) =
               IF root.abilities[a] = Null THEN Null
               ELSE [root.abilities[a] EXCEPT
                       !.modifier = (root.abilities[a].value \div 2) - 5 + root.abilities[a].temp]
  <2>1. CASE root.abilities[a] = Null
    BY <2>1 DEF LoadAbility, SaveAbility
  <2>2. CASE root.abilities[a] # Null
    <3>1. PICK score \in SavedScore : score = root.abilities[a]
      BY <1>1, <2>2 DEF SaveData, SavedSheet
    <3>2. LoadAbility(score) = [value |-> score.value, temp |-> score.temp]
      BY <2>2, <3>1 DEF LoadAbility
    <3>3. LoadAbility(score) # Null
      BY <3>2, StoreAssumption DEF Score, SavedScore
    <3>4. SaveAbility(LoadAbility(score)) =
            [value |-> score.value, temp |-> score.temp,
             modifier |-> (score.value \div 2) - 5 + score.temp]
      BY <3>2, <3>3 DEF SaveAbility, Modifier
    <3> QED
      BY <2>2, <3>1, <3>4 DEF SavedScore
  <2> QED
    BY <2>1, <2>2
<1> HIDE DEF ch, root
<1>6. /\ reply'.body.name = root.name /\ reply'.body.id = root.id
      /\ \A a \in Abilities :
           reply'.body.abilities[a] = SaveAbility(LoadAbility(root.abilities[a]))
  BY <1>2, <1>4 DEF Save
<1> QED
  BY <1>1, <1>2, <1>5, <1>6 DEF LoadedInv, LoadedAsOnFile, root

LEMMA LoadedKept ==
  ASSUME StoreInv, LoadedInv, [Next]_vars, UNCHANGED reply
  PROVE  LoadedInv'
<1> SUFFICES ASSUME reply.kind = "loaded"
             PROVE  files'[reply.name] = files[reply.name]
  BY DEF LoadedInv, LoadedAsOnFile
<1>1. /\ files[reply.name] \in SaveData /\ files[reply.name] # Absent
      /\ reply.name \in Names
  BY StoreAssumption DEF LoadedInv, LoadedAsOnFile
<1> QED
  BY <1>1, FilesKept

LEMMA SentOther ==
  ASSUME NEW c, NEW kind, NEW name, NEW body, Send(c, kind, name, body),
         kind # "loaded"
  PROVE  reply'.kind # "loaded"
BY DEF Send

LEMMA LoadedInvStep ==
  ASSUME StoreInv, LoadedInv, [Next]_vars
  PROVE  LoadedInv'
<1>1. CASE UNCHANGED reply
  BY <1>1, LoadedKept
<1>2. CASE reply'.kind # "loaded"
  BY <1>2 DEF LoadedInv, LoadedAsOnFile
<1>3. ASSUME NEW c \in Clients, ClientStep(c)
      PROVE  UNCHANGED reply \/ reply'.kind # "loaded" \/ LoadedInv'
  <2>1. CASE Helo(c) \/ DataBeforeHelo(c) \/ JsonMalformed(c) \/ MissingElements(c)
    BY <2>1, SentOther DEF Helo, DataBeforeHelo, JsonMalformed, MissingElements, SendNotice
  <2>2. CASE FieldNotAString(c) \/ EndEvent(c) \/ EndEventFaults(c) \/ ErrorEvent(c)
    BY <2>2 DEF FieldNotAString, EndEvent, EndEventFaults, ErrorEvent
  <2>3. ASSUME NEW name \in Names, CreateCharacterHandler(c, name)
        PROVE  reply'.kind # "loaded"
    BY <2>3, SentOther DEF CreateCharacterHandler, CreateExisting, CreateNew
  <2>4. ASSUME NEW name \in Names, LoadCharacterHandler(c, name)
        PROVE  UNCHANGED reply \/ reply'.kind # "loaded" \/ LoadedInv'
    BY <2>4, LoadAnswer, SentOther DEF LoadCharacterHandler, LoadUnknown, LoadMalformed
  <2>5. ASSUME NEW entity, DataCharacterHandler(c, entity)
        PROVE  UNCHANGED reply \/ reply'.kind # "loaded"
    BY <2>5, SentOther DEF DataCharacterHandler, DataUnknown, DataHandled, SendNotice
  <2> QED
    BY <1>3, <2>1, <2>2, <2>3, <2>4, <2>5 DEF ClientStep
<1>4. CASE \/ UNCHANGED vars \/ MainDump \/ MainExit \/ Kill
           \/ \E c \in Clients : Accept(c)
  BY <1>1, <1>4 DEF vars, MainDump, MainExit, Kill, Accept
<1>5. CASE Restart
  BY <1>2, <1>5 DEF Restart, NoReply
<1> QED
  BY <1>1, <1>2, <1>3, <1>4, <1>5 DEF Next

(* Answers to LOAD agree with the files, now and later. *)
THEOREM LoadedAgrees == Spec => []LoadedAsOnFile
<1>1. Init => LoadedInv
  BY DEF Init, ClientInit, NoReply, LoadedInv, LoadedAsOnFile
<1>2. StoreInv /\ LoadedInv /\ [Next]_vars => LoadedInv'
  BY LoadedInvStep
<1>3. LoadedInv => LoadedAsOnFile
  BY DEF LoadedInv
<1> QED
  BY <1>1, <1>2, <1>3, StoreInvariant, PTL DEF Spec

-----------------------------------------------------------------------------
(* Refinement: the program implements CharacterArchive. *)
LEMMA BlankIsSaved ==
  ASSUME NEW name \in Names, NEW c \in Clients
  PROVE  Save(NewCharacter(0, name, c)) = Archive!Blank(name)
BY DEF Save, NewCharacter, EmptySheet, SaveAbility, Archive!Blank

LEMMA ArchiveStep ==
  ASSUME StoreInv, [Next]_vars
  PROVE  [Archive!Next]_<<files, Registered # {}>>
<1> USE StoreAssumption DEF StoreInv
<1>1. CASE UNCHANGED storeVars
  BY <1>1 DEF storeVars, Registered
<1>2. ASSUME NEW name \in Names, NEW c \in Clients, NEW address \in Addresses,
             Registers(name, c, address)
      PROVE  Archive!Create(name) \/ Archive!CreateUnsaved
  <2>1. Registered = {}
    BY <1>2 DEF Registers, Registered, OneCharacterPerRun
  <2>2. ms_characters'[0] = address /\ address # Null
    BY <1>2 DEF Registers, TypeOK, StoreTypeOK
  <2>3. (Registered # {})'
    BY <2>2 DEF Registered
  <2>4. CASE name \in Unwritable
    BY <1>2, <2>1, <2>3, <2>4 DEF Registers, Archive!CreateUnsaved
  <2>5. CASE name \notin Unwritable
    <3>1. files' = [files EXCEPT ![name] = Archive!Blank(name)]
      BY <1>2, <2>5, BlankIsSaved DEF Registers
    <3>2. files[name] = Absent
      BY <1>2 DEF Registers, Exists
    <3> QED
      BY <2>1, <2>3, <3>1, <3>2 DEF Archive!Create
  <2> QED
    BY <2>4, <2>5
<1>3. CASE Emptied
  <2>1. (Registered = {})'
    BY <1>3 DEF Emptied, Registered
  <2> QED
    BY <1>3, <2>1 DEF Emptied, Archive!Next, Archive!Reopen
<1> QED
  BY <1>1, <1>2, <1>3, StoreStep DEF Archive!Next

THEOREM ArchiveImplemented == Spec => ImplementsArchive
<1>1. Init => Archive!Init
  BY StoreAssumption DEF Init, StoreInit, Archive!Init, Registered
<1>2. StoreInv /\ [Next]_vars => [Archive!Next]_<<files, Registered # {}>>
  BY ArchiveStep
<1> QED
  BY <1>1, <1>2, StoreInvariant, PTL DEF Spec, ImplementsArchive, Archive!Spec
=============================================================================

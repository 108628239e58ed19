-------------------------- MODULE CharacterManager --------------------------
(***************************************************************************)
(* The registry of characters of the server and the directory of save      *)
(* files behind it (character_manager.cpp), with the Character objects     *)
(* they hold (character.cpp).                                              *)
(*                                                                         *)
(* ms_characters is the static std::map of the registered characters, heap *)
(* the Character objects that are alive, by address, and files the content *)
(* of the directory ./characters/.  The operations below are the bodies of *)
(* the manager's methods; TCPClient calls them from its handlers and       *)
(* D20Tempest from main.                                                   *)
(***************************************************************************)
EXTENDS Integers, FiniteSets

CONSTANTS Names,        \* names a character, or a save file, may have
          Ids,          \* values a uint64_t character id may have
          Addresses,    \* addresses std::make_shared may give a Character
          Clients,      \* the connections clients may make
          Abilities,    \* names of the ability scripts
          Unwritable,   \* names std::ofstream cannot open (see Dumped)
          Provisioned,  \* contents ./characters/ may have at the first start
          Null,         \* no such object, nullptr
          Absent,       \* no such file
          Malformed     \* something exists that does not load (see File)

VARIABLES ms_characters, heap, files

storeVars == <<ms_characters, heap, files>>

-----------------------------------------------------------------------------
(* Ability scores, as a character holds them and as a file holds them.  A   *)
(* file has the modifier too, which Load does not read back.  A sheet maps  *)
(* an ability a character does not have to Null.                            *)

Score      == [value : Int, temp : Int]
SavedScore == [value : Int, temp : Int, modifier : Int]

Sheet      == [Abilities -> Score \cup {Null}]
SavedSheet == [Abilities -> SavedScore \cup {Null}]

EmptySheet == [ability \in Abilities |-> Null]

(* getModifier() of every ability script. *)
Modifier(score) == (score.value \div 2) - 5 + score.temp

(* Ability::Save of a score whose modifier is not cached, and Ability::Load. *)
SaveAbility(score) ==
  IF score = Null THEN Null
  ELSE [value |-> score.value, temp |-> score.temp, modifier |-> Modifier(score)]

LoadAbility(saved) ==
  IF saved = Null THEN Null ELSE [value |-> saved.value, temp |-> saved.temp]

-----------------------------------------------------------------------------
(* A Character object, what it saves, and what a save file may hold.        *)
(* Malformed stands for every existing path LoadCharacter throws on: a file *)
(* that is not JSON or lacks a field, and the directory itself (name "").   *)

Character == [m_characterID : Ids, m_name : Names, m_client : Clients,
              m_abilities : Sheet]

SaveData == [name : Names, id : Ids, abilities : SavedSheet]
File     == SaveData \cup {Absent, Malformed}

NewCharacter(id, name, client) ==
  [m_characterID |-> id, m_name |-> name, m_client |-> client,
   m_abilities |-> EmptySheet]

SaveSwapped(ch) ==
  [name |-> ch.m_characterID, id |-> ch.m_name,
   abilities |-> [a \in Abilities |-> SaveAbility(ch.m_abilities[a])]]

Save(ch) ==
  [name |-> ch.m_name, id |-> ch.m_characterID,
   abilities |-> [a \in Abilities |-> SaveAbility(ch.m_abilities[a])]]

LoadKeepingID(ch, root) ==
  [ch EXCEPT !.m_name      = root.name,
             !.m_abilities = [a \in Abilities |-> LoadAbility(root.abilities[a])]]

(* Load takes the id and the name of the file over those of the object. *)
Load(ch, root) ==
  [ch EXCEPT !.m_characterID = root.id,
             !.m_name        = root.name,
             !.m_abilities   = [a \in Abilities |-> LoadAbility(root.abilities[a])]]

ASSUME StoreAssumption ==
  /\ 0 \in Ids /\ Ids \subseteq Nat
  /\ Unwritable \subseteq Names
  /\ \A fs \in Provisioned : fs \in [Names -> File]
  /\ Null \notin Addresses /\ Null \notin Character
  /\ Null \notin Score /\ Null \notin SavedScore
  /\ Absent \notin SaveData /\ Malformed \notin SaveData /\ Absent # Malformed

-----------------------------------------------------------------------------
(* The addresses the registry holds. *)
Registered == {ms_characters[id] : id \in Ids} \ {Null}

CountedID == Cardinality(Registered)

(* CreateCharacterID returns the same id for every character. *)
CreateCharacterID == 0

(* std::map::insert: a key that is present keeps its value.  Operations on  *)
(* ms_characters treat the map as a function that is Null off its keys.     *)
InsertOverwriting(chars, id, address) == [chars EXCEPT ![id] = address]

Insert(chars, id, address) ==
  IF chars[id] = Null THEN [chars EXCEPT ![id] = address] ELSE chars

ExistsNever(name) == FALSE

(* fs::exists of the path of a character. *)
Exists(name) == files[name] # Absent

(***************************************************************************)
(* The files after Dump(id) was run for every id of ids (Dump() runs it    *)
(* for all of them), when nothing else runs meanwhile: each registered     *)
(* character among them has its file removed, if it exists, and written    *)
(* again.  An id that is not registered is skipped.  A file std::ofstream  *)
(* cannot open is silently not written.  Of two characters of one name the *)
(* one of the larger id would be written last, as Dump() follows the order *)
(* of the keys; D20Tempest!OneCharacterPerRun shows there are never two.   *)
(***************************************************************************)
WritersOf(name, chars, hp, ids) ==
  {id \in ids : chars[id] # Null /\ hp[chars[id]].m_name = name}

LastOf(ids) == CHOOSE id \in ids : \A other \in ids : other <= id

DumpedRemovedOnly(fs, chars, hp, ids) ==
  [name \in Names |->
     IF WritersOf(name, chars, hp, ids) = {} THEN fs[name] ELSE Absent]

Dumped(fs, chars, hp, ids) ==
  [name \in Names |->
     IF name \in Unwritable \/ WritersOf(name, chars, hp, ids) = {}
     THEN fs[name]
     ELSE Save(hp[chars[LastOf(WritersOf(name, chars, hp, ids))]])]

(* Once a handler returns, the registry has the last pointer to a Character. *)
Held(hp, chars) ==
  [address \in Addresses |-> IF \E id \in Ids : chars[id] = address THEN hp[address] ELSE Null]

CreateOnly(name, client, address) ==
  LET created == NewCharacter(CreateCharacterID, name, client)
      chars   == Insert(ms_characters, created.m_characterID, address)
  IN  /\ ms_characters' = chars
      /\ heap' = Held([heap EXCEPT ![address] = created], chars)
      /\ files' = files

(***************************************************************************)
(* CreateCharacter once the name was found free, and the Dump(ID()) the    *)
(* handler runs on its result, for a Character allocated at address.  As   *)
(* the handler returns, the objects ms_characters does not hold are freed. *)
(***************************************************************************)
CreateAndDump(name, client, address) ==
  LET created  == NewCharacter(CreateCharacterID, name, client)
      chars    == Insert(ms_characters, created.m_characterID, address)
      allotted == [heap EXCEPT ![address] = created]
  IN  /\ ms_characters' = chars
      /\ heap' = Held(allotted, chars)
      /\ files' = Dumped(files, chars, allotted, {created.m_characterID})

StoreInit ==
  /\ ms_characters = [id \in Ids |-> Null]
  /\ heap = [address \in Addresses |-> Null]
  /\ files \in Provisioned

StoreTypeOK ==
  /\ ms_characters \in [Ids -> Addresses \cup {Null}]
  /\ heap \in [Addresses -> Character \cup {Null}]
  /\ files \in [Names -> File]
=============================================================================

----------------------------- MODULE CharacterFile -----------------------------
(***************************************************************************)
(* What a save file says: Save of a Character and of its Abilities, the    *)
(* text Dump makes of it, the library's parser over that text and Load     *)
(* (character.cpp, ability.hpp, LoadCharacter of character_manager.cpp).   *)
(*                                                                         *)
(* A kill during Dump leaves any beginning of the text; someone may have   *)
(* edited the file.  D20Tempest and SaveFile take a file for something     *)
(* that loads as it was saved, or does not load; here is why.              *)
(***************************************************************************)
EXTENDS JsonText

CONSTANTS Names, Ids,
          Scripts,      \* names of the ability scripts there are
          Scores        \* values and bonuses an ability may have

(* A value and a bonus are ints; what the language makes of a large one is  *)
(* the business of Ability.                                                 *)
ASSUME ScoresAssumption == Scores \subseteq [value : Int, temp : Int]

VARIABLES character,    \* the one to save
          origin,       \* history: who writes the file, or how it came to be
          outcome,      \* how LoadCharacter ended
          loaded        \* the Character that it returned

vars == <<dump, file, parserVars, character, origin, outcome, loaded>>

NoCharacter == [id |-> 0, name |-> "", abilities |-> <<>>]

Characters ==
  [id : Ids, name : Names,
   abilities : UNION {[known -> Scores] : known \in SUBSET Scripts}]

(* Ability::Save *)
SavedAbility(script, score) ==
  ObjectOf([value      |-> NumberOf(score.value),
            modifier   |-> NumberOf((score.value \div 2) - 5 + score.temp),
            temp       |-> NumberOf(score.temp),
            name       |-> StringOf(script),
            short_name |-> StringOf(script)])

(* Character::Save *)
Save(c) ==
  ObjectOf([name      |-> StringOf(c.name),
            id        |-> NumberOf(c.id),
            abilities |-> ObjectOf([script \in DOMAIN c.abilities |->
                                      SavedAbility(script, c.abilities[script])])])

-----------------------------------------------------------------------------
(* How a file comes to be. *)

Init ==
  /\ character \in Characters
  /\ dump = WriteOf(Save(character)) /\ file = <<>> /\ origin = "dump"
  /\ pc = "idle" /\ position = 0 /\ ref_stack = <<>> /\ root = NullValue
  /\ outcome = "none" /\ loaded = NoCharacter

Write ==
  /\ origin \in {"dump", "editor"} /\ ~Written(dump)
  /\ dump' = Continued(dump)
  /\ UNCHANGED <<file, parserVars, character, origin, outcome, loaded>>

Becomes(text, how) ==
  /\ file' = text /\ origin' = how
  /\ UNCHANGED <<parserVars, character, outcome, loaded>>

(* The file is flushed and closed. *)
Dump ==
  /\ origin = "dump" /\ Written(dump)
  /\ Becomes(dump.text, "saved") /\ UNCHANGED dump

(* A token of which the end is missing: what is left of a number, of at     *)
(* most ten digits, is one or its sign.                                     *)
CutNumbers(n) ==
  {IF n < 0 THEN -((-n) \div 10^digits) ELSE n \div 10^digits : digits \in 1..9} \ {0}

CutTokens(token) ==
  IF token.type = "value_string" THEN {Token("parse_error")}
  ELSE IF token.type = "value_number"
  THEN {ScalarToken(NumberOf(n)) : n \in CutNumbers(token.value.number)}
         \cup IF token.value.number < 0 THEN {Token("parse_error")} ELSE {}
  ELSE {}

Beginnings(text) ==
  LET whole == {SubSeq(text, 1, n) : n \in 0..(Len(text) - 1)}
  IN whole \cup UNION {{Append(beginning, cut) : cut \in CutTokens(text[Len(beginning) + 1])}
                         : beginning \in whole}

(* Of what is written any beginning may have reached the file. *)
Kill ==
  /\ origin = "dump"
  /\ \E text \in Beginnings(dump.text) : Becomes(text, "torn")
  /\ dump' = WriteOf(NullValue)

OddValues ==
  {NullValue, NumberOf(7), StringOf("odd"), ObjectOf(<<>>), ArrayOf(<<>>),
   ArrayOf(<<NumberOf(7), NullValue>>)}

(* A member is left out, or has an odd value. *)
EditedMembers(object) ==
  {ObjectOf([k \in DOMAIN object.members \ {gone} |-> object.members[k]])
     : gone \in DOMAIN object.members}
  \cup {ObjectOf([object.members EXCEPT ![k] = odd])
          : k \in DOMAIN object.members, odd \in OddValues}

WithAbilities(object, members) ==
  ObjectOf([object.members EXCEPT !["abilities"] = ObjectOf(members)])

EditedAbilities(object) ==
  LET abilities == object.members["abilities"].members IN
  UNION {{WithAbilities(object, [abilities EXCEPT ![s] = edited])
            : edited \in EditedMembers(abilities[s])} : s \in DOMAIN abilities}
  \cup {WithAbilities(object, [unknown |-> NumberOf(7)])}

(* An editor writes JSON, whatever it says. *)
Edit ==
  /\ origin = "saved" /\ pc = "idle"
  /\ \E value \in OddValues \cup EditedMembers(Save(character))
                            \cup EditedAbilities(Save(character)) :
       dump' = WriteOf(value)
  /\ origin' = "editor"
  /\ UNCHANGED <<file, parserVars, character, outcome, loaded>>

EditSaved ==
  /\ origin = "editor" /\ Written(dump)
  /\ Becomes(dump.text, "edited") /\ UNCHANGED dump

-----------------------------------------------------------------------------
(* LoadCharacter. *)

Read ==
  /\ pc = "idle" /\ origin \in {"saved", "torn", "edited"}
  /\ StartParsing
  /\ UNCHANGED <<dump, file, character, origin, outcome, loaded>>

Parse == ParseStep /\ UNCHANGED <<dump, file, character, origin, outcome, loaded>>

(* const operator[] with a key, and the conversion that follows.  Of a key  *)
(* that is not there it dereferences the end of a map.                      *)
MemberAs(value, key, kind) ==
  IF value.kind # "object" THEN "type_error"
  ELSE IF key \notin DOMAIN value.members THEN "undefined"
  ELSE IF value.members[key].kind = kind THEN "good" ELSE "type_error"

FirstBad(results) ==
  IF \A n \in DOMAIN results : results[n] = "good" THEN "good"
  ELSE results[CHOOSE n \in DOMAIN results :
                 results[n] # "good" /\ \A m \in 1..(n - 1) : results[m] = "good"]

(* The constructor of Ability runs the script, then Ability::Load. *)
LoadAbility(script, value) ==
  FirstBad(<<IF script \in Scripts THEN "good" ELSE "no script",
             MemberAs(value, "value", "number"), MemberAs(value, "temp", "number")>>)

(* items() of an array has its indices for keys, of a number or a string    *)
(* one empty key: neither names a script.  null has no items.               *)
NoItems(value) == value \in {NullValue, ArrayOf(<<>>), ObjectOf(<<>>)}

LoadAbilities(value) ==
  IF value.kind = "object"
  THEN {LoadAbility(s, value.members[s]) : s \in DOMAIN value.members}
  ELSE IF NoItems(value) THEN {} ELSE {"no script"}

(* is_discarded() is false of every value operator>> returns, and so of the *)
(* three members only "id" is looked for.                                   *)
GoodFormat(value) == value.kind = "object" /\ "id" \in DOMAIN value.members

ReadMembers(value) ==
  FirstBad(<<MemberAs(value, "id", "number"), MemberAs(value, "name", "string"),
             IF "abilities" \in DOMAIN value.members THEN "good" ELSE "undefined">>)

(* How Character::Load may end: one of the abilities is the first to fail. *)
Ends(value) ==
  IF ~GoodFormat(value) THEN {"invalid_argument"}
  ELSE IF ReadMembers(value) # "good" THEN {ReadMembers(value)}
  ELSE LET bad == LoadAbilities(value.members["abilities"]) \ {"good"}
       IN IF bad = {} THEN {"loaded"} ELSE bad

LoadedSwapped(value) ==
  [value |-> value.members["temp"].number, temp |-> value.members["value"].number]

LoadedScore(value) ==
  [value |-> value.members["value"].number, temp |-> value.members["temp"].number]

LoadedCharacter(value) ==
  LET abilities == value.members["abilities"] IN
  [id        |-> value.members["id"].number,
   name      |-> value.members["name"].text,
   abilities |-> [s \in IF abilities.kind = "object" THEN DOMAIN abilities.members ELSE {}
                    |-> LoadedScore(abilities.members[s])]]

Load ==
  /\ pc = "parsed" /\ outcome = "none"
  /\ \E end \in Ends(root) :
       /\ outcome' = end
       /\ loaded' = IF end = "loaded" THEN LoadedCharacter(root) ELSE loaded
  /\ UNCHANGED <<dump, file, parserVars, character, origin>>

ParseThrows ==
  /\ pc = "parse_error" /\ outcome = "none"
  /\ outcome' = "parse_error"
  /\ UNCHANGED <<dump, file, parserVars, character, origin, loaded>>

(* The file is there still, and is loaded again. *)
Again ==
  /\ outcome # "none"
  /\ pc' = "idle" /\ position' = 0 /\ ref_stack' = <<>> /\ root' = NullValue
  /\ outcome' = "none" /\ loaded' = NoCharacter
  /\ UNCHANGED <<dump, file, character, origin>>

Next == Write \/ Dump \/ Kill \/ Edit \/ EditSaved \/ Read \/ Parse \/ Load \/ ParseThrows \/ Again

Spec == Init /\ [][Next]_vars

-----------------------------------------------------------------------------
(* The beginning of a file, cut wherever a kill during Dump may cut it,     *)
(* never loads, not even as a character with less in it, and never reaches  *)
(* the members Load reads without looking: the parser throws.               *)
TornRefused == origin = "torn" => outcome \in {"none", "parse_error"}

(* A file that Dump wrote always loads, as the very character that was      *)
(* saved, although Load checks for less than it reads.                      *)
SavedLoadsSame ==
  origin = "saved" =>
    /\ outcome \in {"none", "loaded"}
    /\ outcome = "loaded" => loaded = character
=============================================================================

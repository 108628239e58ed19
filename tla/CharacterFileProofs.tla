-------------------------- MODULE CharacterFileProofs --------------------------
(***************************************************************************)
(* What CharacterFile promises of save files, for all characters.          *)
(*                                                                         *)
(* The parser runs after the writer: where the file has the text, the      *)
(* parser's place and stack are a function (Follows) of a state the writer *)
(* was in, and a step of the parser takes what the writer's next step had  *)
(* written (KeptStep).  At the end of a whole text this makes the value    *)
(* that was written.  A torn text ends before, and what the parser finds   *)
(* there is an error, or a number it reads before the error.               *)
(***************************************************************************)
EXTENDS CharacterFile, SequenceTheorems, TLAPS

-----------------------------------------------------------------------------
(* What is written, as a set of objects that is closed: a member of one is  *)
(* another one, a string or a number.                                       *)

MembersOf(objects) ==
  UNION {{v.members[k] : k \in DOMAIN v.members} : v \in objects}

KeysOf(objects) == UNION {DOMAIN v.members : v \in objects}

Closed(objects) ==
  /\ \A v \in objects : v = ObjectOf([k \in DOMAIN v.members |-> v.members[k]])
  /\ \A v \in MembersOf(objects) : v \in objects \/ v.kind \in {"string", "number"}

ObjectsOf(c) ==
  {Save(c), Save(c).members["abilities"]}
    \cup {SavedAbility(s, c.abilities[s]) : s \in DOMAIN c.abilities}

-----------------------------------------------------------------------------
(* The states of a writer. *)

CallsOn(objects) ==
  [value : objects, key : KeysOf(objects), left : SUBSET KeysOf(objects)]

TokensOf(objects) ==
  {Token(type) : type \in {"begin_object", "end_object", "name_separator", "value_separator"}}
    \cup {StringToken(k) : k \in KeysOf(objects)}
    \cup {ScalarToken(v) : v \in {v \in MembersOf(objects) : v.kind \in {"string", "number"}}}

(* What the call after the first i is at, with value for the writer itself. *)
InHand(calls, value, i) == IF i < Len(calls) THEN calls[i + 1].value ELSE value

(* Each call is at a member of what it writes, the first at the document. *)
LeadTo(calls, value, document) ==
  /\ InHand(calls, value, 0) = document
  /\ \A i \in 1..Len(calls) :
       /\ calls[i].key \in DOMAIN calls[i].value.members
       /\ calls[i].left \subseteq DOMAIN calls[i].value.members \ {calls[i].key}
       /\ InHand(calls, value, i) = calls[i].value.members[calls[i].key]

GoodWriter(w, document, objects) ==
  /\ w \in [at : {"value", "return"}, value : objects \cup MembersOf(objects),
            calls : Seq(CallsOn(objects)), text : Seq(TokensOf(objects))]
  /\ LeadTo(w.calls, w.value, document)

Begins(s, t) == Len(s) <= Len(t) /\ \A i \in 1..Len(s) : t[i] = s[i]

(* The writer went through states and has come to last. *)
Wrote(states, last, document, objects) ==
  /\ WriteOf(document) \in states /\ last \in states
  /\ \A w \in states :
       /\ GoodWriter(w, document, objects)
       /\ Begins(w.text, last.text)
       /\ w # last => ~Written(w) /\ Continued(w) \in states

-----------------------------------------------------------------------------
(* The parser that has taken what the writer had written. *)

(* The frame of a call of which the keys in unread are not there yet. *)
Frame(call, unread) ==
  [value |-> ObjectOf([k \in DOMAIN call.value.members \ unread |-> call.value.members[k]]),
   key   |-> call.key]

FramesOf(objects) ==
  {Frame(call, unread) : call \in CallsOn(objects), unread \in SUBSET KeysOf(objects)}

(* The member in hand is not there either, of the last call only while busy. *)
Stack(calls, busy) ==
  [i \in 1..Len(calls) |->
     Frame(calls[i], calls[i].left \cup IF i < Len(calls) \/ busy THEN {calls[i].key} ELSE {})]

Follows(w) ==
  /\ position = Len(w.text)
  /\ pc = IF w.at = "value" THEN "value" ELSE "evaluate"
  /\ ref_stack = IF w.at = "value" THEN Stack(w.calls, TRUE) ELSE Stack(w.calls, FALSE)
  /\ Written(w) => root = w.value

-----------------------------------------------------------------------------
(* The values that Save makes. *)

LEMMA SavedShape ==
  ASSUME NEW c
  PROVE  /\ Save(c).kind = "object"
         /\ Save(c) = ObjectOf([k \in DOMAIN Save(c).members |-> Save(c).members[k]])
         /\ DOMAIN Save(c).members = {"name", "id", "abilities"}
         /\ Save(c).members["name"] = StringOf(c.name)
         /\ Save(c).members["id"] = NumberOf(c.id)
         /\ Save(c).members["abilities"] =
              ObjectOf([s \in DOMAIN c.abilities |-> SavedAbility(s, c.abilities[s])])
  BY DEF Save, ObjectOf

LEMMA AbilityShape ==
  ASSUME NEW s, NEW score
  PROVE  /\ SavedAbility(s, score) =
              ObjectOf([k \in DOMAIN SavedAbility(s, score).members
                          |-> SavedAbility(s, score).members[k]])
         /\ \A k \in DOMAIN SavedAbility(s, score).members :
              SavedAbility(s, score).members[k].kind \in {"string", "number"}
  BY DEF SavedAbility, ObjectOf, NumberOf, StringOf

LEMMA AbilityMembers ==
  ASSUME NEW s, NEW score
  PROVE  /\ SavedAbility(s, score).kind = "object"
         /\ "value" \in DOMAIN SavedAbility(s, score).members
         /\ "temp" \in DOMAIN SavedAbility(s, score).members
         /\ SavedAbility(s, score).members["value"] = NumberOf(score.value)
         /\ SavedAbility(s, score).members["temp"] = NumberOf(score.temp)
  BY DEF SavedAbility, ObjectOf

LEMMA ObjectShape ==
  ASSUME NEW members
  PROVE  ObjectOf(members).kind = "object" /\ ObjectOf(members).members = members
  BY DEF ObjectOf

LEMMA ScalarShape ==
  ASSUME NEW x
  PROVE  /\ NumberOf(x).kind = "number" /\ NumberOf(x).number = x
         /\ StringOf(x).kind = "string" /\ StringOf(x).text = x
  BY DEF NumberOf, StringOf

LEMMA SavedClosed == ASSUME NEW c PROVE Closed(ObjectsOf(c))
<1> DEFINE D == ObjectsOf(c)
           V == Save(c)
           A == V.members["abilities"]
           S(s) == SavedAbility(s, c.abilities[s])
<1>1. A = ObjectOf([s \in DOMAIN c.abilities |-> S(s)])
  BY SavedShape
<1>2. A.members = [s \in DOMAIN c.abilities |-> S(s)]
  BY <1>1, ObjectShape
<1>3. A = ObjectOf([k \in DOMAIN A.members |-> A.members[k]])
  <2>1. [k \in DOMAIN A.members |-> A.members[k]] = A.members
    BY <1>2
  <2> QED
    BY <1>1, <1>2, <2>1
<1>4. V = ObjectOf([k \in DOMAIN V.members |-> V.members[k]])
  BY SavedShape
<1>5. \A k \in DOMAIN V.members : V.members[k] = A \/ V.members[k].kind \in {"string", "number"}
  <2>1. DOMAIN V.members = {"name", "id", "abilities"}
    BY SavedShape
  <2>2. V.members["name"] = StringOf(c.name)
    BY SavedShape
  <2>3. V.members["id"] = NumberOf(c.id)
    BY SavedShape
  <2> HIDE DEF V
  <2> QED
    BY <2>1, <2>2, <2>3, ScalarShape
<1>6. ASSUME NEW s \in DOMAIN c.abilities
      PROVE  /\ S(s) = ObjectOf([k \in DOMAIN S(s).members |-> S(s).members[k]])
             /\ \A k \in DOMAIN S(s).members : S(s).members[k].kind \in {"string", "number"}
  BY AbilityShape
<1>7. ASSUME NEW k \in DOMAIN A.members
      PROVE  k \in DOMAIN c.abilities /\ A.members[k] = S(k)
  BY <1>2
<1>8. D = {V, A} \cup {S(s) : s \in DOMAIN c.abilities}
  BY DEF ObjectsOf
<1> HIDE DEF V, S, D
<1>9. ASSUME NEW v \in D
      PROVE  v = ObjectOf([k \in DOMAIN v.members |-> v.members[k]])
  <2>1. CASE v = V
    BY <1>4, <2>1
  <2>2. CASE v = A
    BY <1>3, <2>2
  <2>3. ASSUME NEW s \in DOMAIN c.abilities, v = S(s)
        PROVE  v = ObjectOf([k \in DOMAIN v.members |-> v.members[k]])
    BY <1>6, <2>3
  <2>4. v = V \/ v = A \/ \E s \in DOMAIN c.abilities : v = S(s)
    BY <1>8
  <2> QED
    BY <2>1, <2>2, <2>3, <2>4
<1>10. ASSUME NEW v \in D, NEW k \in DOMAIN v.members
       PROVE  v.members[k] \in D \/ v.members[k].kind \in {"string", "number"}
  <2>1. CASE v = V
    BY <1>5, <1>8, <2>1
  <2>2. CASE v = A
    <3>1. k \in DOMAIN c.abilities /\ v.members[k] = S(k)
      BY <1>7, <2>2
    <3> QED
      BY <1>8, <3>1
  <2>3. ASSUME NEW s \in DOMAIN c.abilities, v = S(s)
        PROVE  v.members[k].kind \in {"string", "number"}
    BY <1>6, <2>3
  <2>4. v = V \/ v = A \/ \E s \in DOMAIN c.abilities : v = S(s)
    BY <1>8
  <2> QED
    BY <2>1, <2>2, <2>3, <2>4
<1>11. \A v \in MembersOf(D) : v \in D \/ v.kind \in {"string", "number"}
  BY <1>10 DEF MembersOf
<1> QED
  BY <1>9, <1>11 DEF Closed, D

LEMMA AllGood ==
  /\ \A a, b : a = "good" /\ b = "good" => FirstBad(<<a, b>>) = "good"
  /\ \A a, b, c : a = "good" /\ b = "good" /\ c = "good" => FirstBad(<<a, b, c>>) = "good"
  BY DEF FirstBad

LEMMA AsGood ==
  ASSUME NEW value, NEW key, NEW kind, value.kind = "object",
         key \in DOMAIN value.members, value.members[key].kind = kind
  PROVE  MemberAs(value, key, kind) = "good"
  BY DEF MemberAs

(* Load reads from what Save made the character that was saved. *)
LEMMA LoadOfSave ==
  ASSUME NEW c \in Characters
  PROVE  Ends(Save(c)) = {"loaded"} /\ LoadedCharacter(Save(c)) = c
<1> DEFINE V == Save(c)
           A == V.members["abilities"]
           S(s) == SavedAbility(s, c.abilities[s])
<1>1. /\ V.kind = "object"
      /\ DOMAIN V.members = {"name", "id", "abilities"}
      /\ V.members["name"] = StringOf(c.name) /\ V.members["id"] = NumberOf(c.id)
      /\ A = ObjectOf([s \in DOMAIN c.abilities |-> S(s)])
  BY SavedShape
<1>2. A.kind = "object" /\ A.members = [s \in DOMAIN c.abilities |-> S(s)]
  BY <1>1, ObjectShape
<1>3. PICK known \in SUBSET Scripts : c.abilities \in [known -> Scores]
  BY DEF Characters
<1>4. ASSUME NEW s \in DOMAIN c.abilities
      PROVE  /\ S(s).kind = "object" /\ "value" \in DOMAIN S(s).members /\ "temp" \in DOMAIN S(s).members
             /\ S(s).members["value"] = NumberOf(c.abilities[s].value)
             /\ S(s).members["temp"] = NumberOf(c.abilities[s].temp)
  BY AbilityMembers
<1> HIDE DEF V, S
<1>5. ASSUME NEW s \in DOMAIN c.abilities
      PROVE  LoadAbility(s, S(s)) = "good"
  <2>1. s \in Scripts
    BY <1>3
  <2>2. MemberAs(S(s), "value", "number") = "good"
    BY <1>4, ScalarShape, AsGood
  <2>3. MemberAs(S(s), "temp", "number") = "good"
    BY <1>4, ScalarShape, AsGood
  <2> QED
    BY <2>1, <2>2, <2>3 DEF LoadAbility, FirstBad
<1>6. LoadAbilities(A) \ {"good"} = {}
  <2>1. \A s \in DOMAIN A.members : LoadAbility(s, A.members[s]) = "good"
    BY <1>2, <1>5
  <2> HIDE DEF A
  <2> QED
    BY <1>2, <2>1 DEF LoadAbilities
<1>7. GoodFormat(V)
  BY <1>1 DEF GoodFormat
<1>8. ReadMembers(V) = "good"
  <2>1. MemberAs(V, "id", "number") = "good"
    BY <1>1, ScalarShape, AsGood
  <2>2. MemberAs(V, "name", "string") = "good"
    BY <1>1, ScalarShape, AsGood
  <2>3. "abilities" \in DOMAIN V.members
    BY <1>1
  <2> QED
    BY <2>1, <2>2, <2>3 DEF ReadMembers, FirstBad
<1>9. Ends(V) = {"loaded"}
  BY <1>6, <1>7, <1>8 DEF Ends
<1>10. ASSUME NEW s \in DOMAIN c.abilities
       PROVE  LoadedScore(S(s)) = c.abilities[s]
  <2>1. c.abilities[s] \in [value : Int, temp : Int]
    BY <1>3, ScoresAssumption
  <2>2. LoadedScore(S(s)) = [value |-> c.abilities[s].value, temp |-> c.abilities[s].temp]
    <3>1. S(s).members["value"].number = c.abilities[s].value
      BY <1>4, ScalarShape
    <3>2. S(s).members["temp"].number = c.abilities[s].temp
      BY <1>4, ScalarShape
    <3> QED
      BY <3>1, <3>2 DEF LoadedScore
  <2> QED
    BY <2>1, <2>2
<1>11. LoadedCharacter(V) = c
  <2>1. V.members["id"].number = c.id /\ V.members["name"].text = c.name
    BY <1>1, ScalarShape
  <2>2. \A s \in DOMAIN c.abilities : LoadedScore(A.members[s]) = c.abilities[s]
    BY <1>2, <1>10
  <2>3. DOMAIN A.members = DOMAIN c.abilities
    BY <1>2
  <2>4. c.abilities = [s \in DOMAIN c.abilities |-> c.abilities[s]]
    BY <1>3
  <2>5. [s \in DOMAIN A.members |-> LoadedScore(A.members[s])] = c.abilities
    BY <2>2, <2>3, <2>4
  <2>6. LoadedCharacter(V) = [id |-> c.id, name |-> c.name, abilities |-> c.abilities]
    BY <1>2, <2>1, <2>5 DEF LoadedCharacter
  <2>7. c = [id |-> c.id, name |-> c.name, abilities |-> c.abilities]
    BY DEF Characters
  <2> QED
    BY <2>6, <2>7
<1> QED
  BY <1>9, <1>11 DEF V

-----------------------------------------------------------------------------
(* A step of the writer. *)

WritesScalar(w, n) ==
  /\ w.at = "value" /\ w.value.kind \in {"string", "number"}
  /\ n = [at |-> "return", value |-> w.value, calls |-> w.calls,
          text |-> Append(w.text, ScalarToken(w.value))]

WritesEmpty(w, n) ==
  /\ w.at = "value" /\ w.value.kind = "object" /\ DOMAIN w.value.members = {}
  /\ n = [at |-> "return", value |-> w.value, calls |-> w.calls,
          text |-> w.text \o <<Token("begin_object"), Token("end_object")>>]

Enters(w, n) ==
  \E key \in DOMAIN w.value.members :
    /\ w.at = "value" /\ w.value.kind = "object"
    /\ n = [at    |-> "value",
            value |-> w.value.members[key],
            calls |-> Append(w.calls, [value |-> w.value, key |-> key,
                                       left  |-> DOMAIN w.value.members \ {key}]),
            text  |-> Append(w.text, Token("begin_object"))
                        \o <<StringToken(key), Token("name_separator")>>]

Leaves(w, n) ==
  LET call == w.calls[Len(w.calls)] IN
  /\ w.at = "return" /\ w.calls # <<>> /\ call.left = {}
  /\ n = [at |-> "return", value |-> call.value, calls |-> Front(w.calls),
          text |-> Append(w.text, Token("end_object"))]

Advances(w, n) ==
  LET call == w.calls[Len(w.calls)] IN
  \E key \in call.left :
    /\ w.at = "return" /\ w.calls # <<>>
    /\ n = [at    |-> "value",
            value |-> call.value.members[key],
            calls |-> Append(Front(w.calls), [value |-> call.value, key |-> key,
                                              left  |-> call.left \ {key}]),
            text  |-> Append(w.text, Token("value_separator"))
                        \o <<StringToken(key), Token("name_separator")>>]

LEMMA ObjectKind ==
  ASSUME NEW objects, Closed(objects)
  PROVE  /\ \A v \in objects : v.kind = "object"
         /\ \A v \in MembersOf(objects) :
              (v.kind = "object" /\ v \in objects) \/ v.kind \in {"string", "number"}
<1>1. ASSUME NEW v \in objects PROVE v.kind = "object"
  BY DEF Closed, ObjectOf
<1> QED
  BY <1>1 DEF Closed

LEMMA NextKeyLeft ==
  ASSUME NEW value, value.kind = "object", NEW left, left # {}
  PROVE  NextKey(value, left) \in left
  BY DEF NextKey

LEMMA WriterCases ==
  ASSUME NEW objects, NEW document, NEW w,
         Closed(objects), GoodWriter(w, document, objects), ~Written(w)
  PROVE  \/ WritesScalar(w, Continued(w)) \/ WritesEmpty(w, Continued(w))
         \/ Enters(w, Continued(w)) \/ Leaves(w, Continued(w)) \/ Advances(w, Continued(w))
<1> DEFINE call == w.calls[Len(w.calls)]
<1>1. w \in [at : {"value", "return"}, value : objects \cup MembersOf(objects),
             calls : Seq(CallsOn(objects)), text : Seq(TokensOf(objects))]
  BY DEF GoodWriter
<1>2. w.value.kind \in {"object", "string", "number"}
  BY <1>1, ObjectKind
<1>3. CASE w.at = "value" /\ w.value.kind \in {"string", "number"}
  <2>1. Continued(w) = [w EXCEPT !.at = "return", !.text = Append(@, ScalarToken(w.value))]
    BY <1>3 DEF Continued, Entered, ScalarKinds
  <2> QED
    BY <1>1, <1>3, <2>1 DEF WritesScalar
<1>4. CASE w.at = "value" /\ w.value.kind = "object"
  <2>1. Parts(w.value) = w.value.members
    BY <1>4 DEF Parts
  <2>2. /\ BeginOf(w.value.kind) = Token("begin_object")
        /\ EndType(w.value.kind) = "end_object"
    BY <1>4 DEF BeginOf, EndType
  <2>3. CASE DOMAIN w.value.members = {}
    <3>1. Continued(w) = [w EXCEPT !.at = "return",
             !.text = @ \o <<Token("begin_object"), Token("end_object")>>]
      BY <1>4, <2>1, <2>2, <2>3 DEF Continued, Entered, ScalarKinds
    <3> QED
      BY <1>1, <1>4, <2>3, <3>1 DEF WritesEmpty
  <2>4. CASE DOMAIN w.value.members # {}
    <3> DEFINE key == NextKey(w.value, DOMAIN w.value.members)
    <3>1. Continued(w) = AtMember(w.calls, w.value, DOMAIN w.value.members,
                                  Append(w.text, Token("begin_object")))
      BY <1>4, <2>1, <2>2, <2>4 DEF Continued, Entered, ScalarKinds
    <3>2. key \in DOMAIN w.value.members
      BY <1>4, <2>4, NextKeyLeft
    <3>3. Enters(w, Continued(w))
      BY <1>4, <2>1, <3>1, <3>2 DEF AtMember, Enters
    <3> QED
      BY <3>3
  <2> QED
    BY <2>3, <2>4
<1>5. CASE w.at = "return"
  <2>1. w.calls # <<>> /\ Last(w.calls) = call
    BY <1>5 DEF Written, Last
  <2>2. call \in CallsOn(objects)
    BY <1>1, <2>1
  <2>3. call.value.kind = "object" /\ Parts(call.value) = call.value.members
    BY <2>2, ObjectKind DEF CallsOn, Parts
  <2>4. EndType(call.value.kind) = "end_object"
    BY <2>3 DEF EndType
  <2>5. CASE call.left = {}
    <3>1. Continued(w) = [w EXCEPT !.value = call.value, !.calls = Front(@),
                                   !.text = Append(@, Token("end_object"))]
      BY <1>5, <2>1, <2>4, <2>5 DEF Continued, Returned
    <3> QED
      BY <1>1, <1>5, <2>1, <2>5, <3>1 DEF Leaves
  <2>6. CASE call.left # {}
    <3> DEFINE key == NextKey(call.value, call.left)
    <3>1. Continued(w) = AtMember(Front(w.calls), call.value, call.left,
                                  Append(w.text, Token("value_separator")))
      BY <1>5, <2>1, <2>6 DEF Continued, Returned
    <3>2. key \in call.left
      BY <2>3, <2>6, NextKeyLeft
    <3>3. Advances(w, Continued(w))
      BY <1>5, <2>1, <2>3, <3>1, <3>2 DEF AtMember, Advances
    <3> QED
      BY <3>3
  <2> QED
    BY <2>5, <2>6
<1> QED
  BY <1>1, <1>2, <1>3, <1>4, <1>5

-----------------------------------------------------------------------------
(* Sequences of calls and of tokens. *)

LEMMA Pushed ==
  ASSUME NEW S, NEW s \in Seq(S), NEW e \in S
  PROVE  /\ Append(s, e) \in Seq(S) /\ Len(Append(s, e)) = Len(s) + 1
         /\ \A i \in 1..Len(s) : Append(s, e)[i] = s[i]
         /\ Append(s, e)[Len(s) + 1] = e
  OBVIOUS

LEMMA NoneLeft == ASSUME NEW S, NEW s \in Seq(S) PROVE s = <<>> <=> Len(s) = 0
  OBVIOUS

LEMMA Popped ==
  ASSUME NEW S, NEW s \in Seq(S), s # <<>>
  PROVE  /\ Len(s) \in Nat \ {0} /\ s[Len(s)] \in S
         /\ Front(s) \in Seq(S) /\ Len(Front(s)) = Len(s) - 1
         /\ \A i \in 1..(Len(s) - 1) : Front(s)[i] = s[i]
<1>1. Len(s) \in Nat \ {0} /\ \A i \in 1..Len(s) : s[i] \in S
  OBVIOUS
<1> DEFINE n == Len(s) - 1
<1>2. n \in Int /\ 1 \in Int /\ \A i \in 1..n : s[i] \in S
  BY <1>1
<1>3. /\ SubSeq(s, 1, n) \in Seq(S)
      /\ Len(SubSeq(s, 1, n)) = IF 1 <= n THEN n - 1 + 1 ELSE 0
      /\ \A i \in 1..(n - 1 + 1) : SubSeq(s, 1, n)[i] = s[1 + i - 1]
  <2> HIDE DEF n
  <2> QED
    BY <1>2, SubSeqProperties
<1>4. Len(SubSeq(s, 1, n)) = n
  <2>1. n \in Nat
    BY <1>1
  <2> HIDE DEF n
  <2> QED
    BY <1>3, <2>1
<1>5. \A i \in 1..n : SubSeq(s, 1, n)[i] = s[i]
  BY <1>1, <1>3
<1> QED
  BY <1>1, <1>3, <1>4, <1>5 DEF Front

(* What a step of the writer appends to the text. *)
Extends(t, s, tokens) ==
  /\ Len(t) = Len(s) + Len(tokens)
  /\ \A i \in 1..Len(s) : t[i] = s[i]
  /\ \A i \in 1..Len(tokens) : t[Len(s) + i] = tokens[i]

LEMMA BeginsOf ==
  ASSUME NEW T, NEW s \in Seq(T), NEW t \in Seq(T), NEW tokens, Len(tokens) \in Nat,
         Extends(t, s, tokens)
  PROVE  Begins(s, t)
  BY DEF Extends, Begins

LEMMA OneMore ==
  ASSUME NEW T, NEW s \in Seq(T), NEW a \in T
  PROVE  Append(s, a) \in Seq(T) /\ Extends(Append(s, a), s, <<a>>)
  BY DEF Extends

LEMMA TwoMore ==
  ASSUME NEW T, NEW s \in Seq(T), NEW a \in T, NEW b \in T
  PROVE  s \o <<a, b>> \in Seq(T) /\ Extends(s \o <<a, b>>, s, <<a, b>>)
<1>1. /\ s \o <<a, b>> \in Seq(T) /\ Len(s \o <<a, b>>) = Len(s) + 2
      /\ \A i \in 1..Len(s) : (s \o <<a, b>>)[i] = s[i]
      /\ (s \o <<a, b>>)[Len(s) + 1] = a /\ (s \o <<a, b>>)[Len(s) + 2] = b
  OBVIOUS
<1> QED
  BY <1>1 DEF Extends

LEMMA ThreeMore ==
  ASSUME NEW T, NEW s \in Seq(T), NEW a \in T, NEW b \in T, NEW c \in T
  PROVE  /\ Append(s, a) \o <<b, c>> \in Seq(T)
         /\ Extends(Append(s, a) \o <<b, c>>, s, <<a, b, c>>)
         /\ Begins(s, Append(s, a) \o <<b, c>>)
<1> DEFINE t == Append(s, a)
<1>1. /\ t \in Seq(T) /\ Len(t) = Len(s) + 1
      /\ \A i \in 1..Len(s) : t[i] = s[i]
      /\ t[Len(s) + 1] = a
  OBVIOUS
<1> HIDE DEF t
<1>2. /\ t \o <<b, c>> \in Seq(T) /\ Len(t \o <<b, c>>) = Len(t) + 2
      /\ \A i \in 1..Len(t) : (t \o <<b, c>>)[i] = t[i]
      /\ (t \o <<b, c>>)[Len(t) + 1] = b /\ (t \o <<b, c>>)[Len(t) + 2] = c
  BY <1>1
<1>3. \A i \in 1..Len(s) : (t \o <<b, c>>)[i] = s[i]
  BY <1>1, <1>2
<1>4. /\ (t \o <<b, c>>)[Len(s) + 1] = a /\ (t \o <<b, c>>)[Len(s) + 2] = b
      /\ (t \o <<b, c>>)[Len(s) + 3] = c
  BY <1>1, <1>2
<1>5. \A i \in 1..Len(<<a, b, c>>) : (t \o <<b, c>>)[Len(s) + i] = <<a, b, c>>[i]
  <2>1. Len(<<a, b, c>>) = 3 /\ \A i \in 1..3 : i = 1 \/ i = 2 \/ i = 3
    OBVIOUS
  <2>2. /\ <<a, b, c>>[1] = a /\ <<a, b, c>>[2] = b /\ <<a, b, c>>[3] = c
    OBVIOUS
  <2> QED
    BY <1>4, <2>1, <2>2
<1>6. Extends(t \o <<b, c>>, s, <<a, b, c>>)
  <2>1. Len(t \o <<b, c>>) = Len(s) + Len(<<a, b, c>>)
    BY <1>1, <1>2
  <2> QED
    BY <1>3, <1>5, <2>1 DEF Extends
<1>7. Begins(s, t \o <<b, c>>)
  BY <1>1, <1>2, <1>3 DEF Begins
<1> QED
  BY <1>2, <1>6, <1>7 DEF t

-----------------------------------------------------------------------------
(* The writer stays good, and only ever adds to its text. *)

LEMMA TokensWritten ==
  ASSUME NEW objects
  PROVE  /\ \A type \in {"begin_object", "end_object", "name_separator", "value_separator"} :
              Token(type) \in TokensOf(objects)
         /\ \A k \in KeysOf(objects) : StringToken(k) \in TokensOf(objects)
         /\ \A v \in MembersOf(objects) : v.kind \in {"string", "number"} =>
              ScalarToken(v) \in TokensOf(objects)
  BY DEF TokensOf

LEMMA MemberOf ==
  ASSUME NEW objects, NEW v \in objects, NEW k \in DOMAIN v.members
  PROVE  k \in KeysOf(objects) /\ v.members[k] \in MembersOf(objects)
  BY DEF KeysOf, MembersOf

(* The text of each step. *)
OneToken(w, n, a) == Extends(n.text, w.text, <<a>>) /\ Begins(w.text, n.text)

TwoTokens(w, n, a, b) == Extends(n.text, w.text, <<a, b>>) /\ Begins(w.text, n.text)

ThreeTokens(w, n, a, b, c) == Extends(n.text, w.text, <<a, b, c>>) /\ Begins(w.text, n.text)

LEMMA ScalarStep ==
  ASSUME NEW objects, NEW document, NEW w, NEW n,
         Closed(objects), GoodWriter(w, document, objects), document \in objects,
         WritesScalar(w, n)
  PROVE  /\ GoodWriter(n, document, objects)
         /\ OneToken(w, n, ScalarToken(w.value))
<1>1. /\ w.value \in objects \cup MembersOf(objects) /\ w.calls \in Seq(CallsOn(objects))
      /\ w.text \in Seq(TokensOf(objects))
  BY DEF GoodWriter
<1>2. w.value \in MembersOf(objects)
  BY <1>1, ObjectKind DEF WritesScalar
<1>3. ScalarToken(w.value) \in TokensOf(objects)
  BY <1>2, TokensWritten DEF WritesScalar
<1>4. n.text \in Seq(TokensOf(objects)) /\ Extends(n.text, w.text, <<ScalarToken(w.value)>>)
  BY <1>1, <1>3, OneMore DEF WritesScalar
<1>5. n \in [at : {"value", "return"}, value : objects \cup MembersOf(objects),
             calls : Seq(CallsOn(objects)), text : Seq(TokensOf(objects))]
  BY <1>1, <1>4 DEF WritesScalar
<1>6. n.calls = w.calls /\ n.value = w.value
  BY DEF WritesScalar
<1>7. GoodWriter(n, document, objects)
  BY <1>5, <1>6 DEF GoodWriter
<1> QED
  BY <1>1, <1>4, <1>7, BeginsOf DEF OneToken

LEMMA EmptyStep ==
  ASSUME NEW objects, NEW document, NEW w, NEW n,
         Closed(objects), GoodWriter(w, document, objects), document \in objects,
         WritesEmpty(w, n)
  PROVE  /\ GoodWriter(n, document, objects)
         /\ TwoTokens(w, n, Token("begin_object"), Token("end_object"))
<1>1. /\ w.value \in objects \cup MembersOf(objects) /\ w.calls \in Seq(CallsOn(objects))
      /\ w.text \in Seq(TokensOf(objects))
  BY DEF GoodWriter
<1>2. Token("begin_object") \in TokensOf(objects) /\ Token("end_object") \in TokensOf(objects)
  BY TokensWritten
<1>3. /\ n.text \in Seq(TokensOf(objects))
      /\ Extends(n.text, w.text, <<Token("begin_object"), Token("end_object")>>)
  BY <1>1, <1>2, TwoMore DEF WritesEmpty
<1>4. n \in [at : {"value", "return"}, value : objects \cup MembersOf(objects),
             calls : Seq(CallsOn(objects)), text : Seq(TokensOf(objects))]
  BY <1>1, <1>3 DEF WritesEmpty
<1>5. n.calls = w.calls /\ n.value = w.value
  BY DEF WritesEmpty
<1>6. GoodWriter(n, document, objects)
  BY <1>4, <1>5 DEF GoodWriter
<1> QED
  BY <1>1, <1>3, <1>6, BeginsOf DEF TwoTokens

(* One more call, and one less. *)
LEMMA LeadOn ==
  ASSUME NEW objects, NEW document, NEW calls \in Seq(CallsOn(objects)),
         NEW value \in objects, NEW key \in DOMAIN value.members,
         NEW left \in SUBSET (DOMAIN value.members \ {key}),
         LeadTo(calls, value, document),
         NEW call, call = [value |-> value, key |-> key, left |-> left]
  PROVE  /\ Append(calls, call) \in Seq(CallsOn(objects))
         /\ LeadTo(Append(calls, call), value.members[key], document)
<1> DEFINE more == Append(calls, call)
           member == value.members[key]
<1>1. call \in CallsOn(objects)
  BY MemberOf DEF CallsOn
<1>2. /\ more \in Seq(CallsOn(objects)) /\ Len(more) = Len(calls) + 1
      /\ \A i \in 1..Len(calls) : more[i] = calls[i]
      /\ more[Len(calls) + 1] = call
  BY <1>1, Pushed
<1>3. call.value = value /\ call.key = key /\ call.left = left /\ Len(calls) \in Nat
  OBVIOUS
<1>4. ASSUME NEW i \in 0..Len(calls)
      PROVE  InHand(more, member, i) = InHand(calls, value, i)
  <2>1. CASE i < Len(calls)
    <3>1. i + 1 \in 1..Len(calls) /\ i < Len(more)
      BY <1>2, <1>3, <2>1
    <3> HIDE DEF more
    <3> QED
      BY <1>2, <2>1, <3>1 DEF InHand
  <2>2. CASE i = Len(calls)
    <3> HIDE DEF more
    <3> QED
      BY <1>2, <1>3, <2>2 DEF InHand
  <2> QED
    BY <1>3, <2>1, <2>2
<1> HIDE DEF more, member
<1>5. InHand(more, member, 0) = document
  BY <1>3, <1>4 DEF LeadTo
<1>6. ASSUME NEW i \in 1..Len(more)
      PROVE  /\ more[i].key \in DOMAIN more[i].value.members
             /\ more[i].left \subseteq DOMAIN more[i].value.members \ {more[i].key}
             /\ InHand(more, member, i) = more[i].value.members[more[i].key]
  <2>1. CASE i = Len(calls) + 1
    <3>1. more[i] = call /\ InHand(more, member, i) = member
      BY <1>2, <1>3, <2>1 DEF InHand
    <3> QED
      BY <1>3, <3>1 DEF member
  <2>2. CASE i \in 1..Len(calls)
    <3>1. more[i] = calls[i] /\ InHand(more, member, i) = InHand(calls, value, i)
      BY <1>2, <1>3, <1>4, <2>2
    <3> QED
      BY <2>2, <3>1 DEF LeadTo
  <2> QED
    BY <1>2, <1>3, <2>1, <2>2
<1> QED
  BY <1>2, <1>5, <1>6 DEF LeadTo, more, member

GoodCall(call, value, objects) ==
  /\ call \in CallsOn(objects)
  /\ call.key \in DOMAIN call.value.members
  /\ call.left \subseteq DOMAIN call.value.members \ {call.key}
  /\ value = call.value.members[call.key]

LEMMA LeadBack ==
  ASSUME NEW objects, NEW document, NEW calls \in Seq(CallsOn(objects)), calls # <<>>,
         NEW value, LeadTo(calls, value, document)
  PROVE  /\ Front(calls) \in Seq(CallsOn(objects))
         /\ GoodCall(calls[Len(calls)], value, objects)
         /\ LeadTo(Front(calls), calls[Len(calls)].value, document)
<1> DEFINE less == Front(calls)
           call == calls[Len(calls)]
<1>1. /\ Len(calls) \in Nat \ {0} /\ call \in CallsOn(objects)
      /\ less \in Seq(CallsOn(objects)) /\ Len(less) = Len(calls) - 1
      /\ \A i \in 1..(Len(calls) - 1) : less[i] = calls[i]
  BY Popped
<1>2. /\ call.key \in DOMAIN call.value.members
      /\ call.left \subseteq DOMAIN call.value.members \ {call.key}
      /\ value = call.value.members[call.key]
  BY <1>1 DEF LeadTo, InHand
<1> HIDE DEF less
<1>3. ASSUME NEW i \in 0..Len(less)
      PROVE  InHand(less, call.value, i) = InHand(calls, value, i)
  <2>1. CASE i < Len(less)
    <3>1. i + 1 \in 1..(Len(calls) - 1) /\ i < Len(calls)
      BY <1>1, <2>1
    <3> QED
      BY <1>1, <2>1, <3>1 DEF InHand
  <2>2. CASE i = Len(less)
    BY <1>1, <2>2 DEF InHand
  <2> QED
    BY <1>1, <2>1, <2>2
<1>4. InHand(less, call.value, 0) = document
  BY <1>1, <1>3 DEF LeadTo
<1>5. ASSUME NEW i \in 1..Len(less)
      PROVE  /\ less[i].key \in DOMAIN less[i].value.members
             /\ less[i].left \subseteq DOMAIN less[i].value.members \ {less[i].key}
             /\ InHand(less, call.value, i) = less[i].value.members[less[i].key]
  <2>1. less[i] = calls[i] /\ i \in 1..Len(calls)
    BY <1>1
  <2>2. InHand(less, call.value, i) = InHand(calls, value, i)
    BY <1>1, <1>3
  <2> QED
    BY <2>1, <2>2 DEF LeadTo
<1> QED
  BY <1>1, <1>2, <1>4, <1>5 DEF LeadTo, GoodCall, less

LEMMA EnterStep ==
  ASSUME NEW objects, NEW document, NEW w, NEW n,
         Closed(objects), GoodWriter(w, document, objects), document \in objects,
         NEW key \in DOMAIN w.value.members, w.at = "value", w.value.kind = "object",
         n = [at    |-> "value",
              value |-> w.value.members[key],
              calls |-> Append(w.calls, [value |-> w.value, key |-> key,
                                         left  |-> DOMAIN w.value.members \ {key}]),
              text  |-> Append(w.text, Token("begin_object"))
                          \o <<StringToken(key), Token("name_separator")>>]
  PROVE  /\ GoodWriter(n, document, objects)
         /\ ThreeTokens(w, n, Token("begin_object"), StringToken(key), Token("name_separator"))
<1>1. /\ w.value \in objects \cup MembersOf(objects) /\ w.calls \in Seq(CallsOn(objects))
      /\ w.text \in Seq(TokensOf(objects)) /\ LeadTo(w.calls, w.value, document)
  BY DEF GoodWriter
<1>2. w.value \in objects
  BY <1>1, ObjectKind
<1>3. /\ Token("begin_object") \in TokensOf(objects) /\ StringToken(key) \in TokensOf(objects)
      /\ Token("name_separator") \in TokensOf(objects)
  BY <1>2, TokensWritten, MemberOf
<1>4. /\ n.text \in Seq(TokensOf(objects))
      /\ Extends(n.text, w.text,
                 <<Token("begin_object"), StringToken(key), Token("name_separator")>>)
      /\ Begins(w.text, n.text)
  BY <1>1, <1>3, ThreeMore
<1>5. ThreeTokens(w, n, Token("begin_object"), StringToken(key), Token("name_separator"))
  BY <1>4 DEF ThreeTokens
<1>6. n.calls \in Seq(CallsOn(objects)) /\ LeadTo(n.calls, n.value, document)
  BY <1>1, <1>2, LeadOn
<1>7. n.value \in MembersOf(objects)
  BY <1>2, MemberOf
<1>8. n \in [at : {"value", "return"}, value : objects \cup MembersOf(objects),
             calls : Seq(CallsOn(objects)), text : Seq(TokensOf(objects))]
  BY <1>4, <1>6, <1>7
<1> QED
  BY <1>5, <1>6, <1>8 DEF GoodWriter

LEMMA LeaveStep ==
  ASSUME NEW objects, NEW document, NEW w, NEW n,
         Closed(objects), GoodWriter(w, document, objects), document \in objects,
         Leaves(w, n)
  PROVE  /\ GoodWriter(n, document, objects)
         /\ OneToken(w, n, Token("end_object"))
<1> DEFINE call == w.calls[Len(w.calls)]
<1>1. /\ w.calls \in Seq(CallsOn(objects)) /\ w.calls # <<>> /\ w.text \in Seq(TokensOf(objects))
      /\ LeadTo(w.calls, w.value, document)
  BY DEF Leaves, GoodWriter
<1>2. /\ Front(w.calls) \in Seq(CallsOn(objects)) /\ GoodCall(call, w.value, objects)
      /\ LeadTo(Front(w.calls), call.value, document)
  BY <1>1, LeadBack
<1>3. /\ n = [at |-> n.at, value |-> n.value, calls |-> n.calls, text |-> n.text]
      /\ n.at = "return" /\ n.value = call.value /\ n.calls = Front(w.calls)
      /\ n.text = Append(w.text, Token("end_object"))
  BY DEF Leaves
<1>4. Token("end_object") \in TokensOf(objects)
  BY TokensWritten
<1>5. n.text \in Seq(TokensOf(objects)) /\ Extends(n.text, w.text, <<Token("end_object")>>)
  BY <1>1, <1>3, <1>4, OneMore
<1>6. call.value \in objects
  BY <1>2 DEF GoodCall, CallsOn
<1>7. n \in [at : {"value", "return"}, value : objects \cup MembersOf(objects),
             calls : Seq(CallsOn(objects)), text : Seq(TokensOf(objects))]
  BY <1>2, <1>3, <1>5, <1>6
<1>8. GoodWriter(n, document, objects)
  BY <1>2, <1>3, <1>7 DEF GoodWriter
<1> QED
  BY <1>1, <1>5, <1>8, BeginsOf DEF OneToken

LEMMA AdvanceStep ==
  ASSUME NEW objects, NEW document, NEW w, NEW n,
         Closed(objects), GoodWriter(w, document, objects), document \in objects,
         NEW key \in w.calls[Len(w.calls)].left, w.calls # <<>>,
         n = [at    |-> "value",
              value |-> w.calls[Len(w.calls)].value.members[key],
              calls |-> Append(Front(w.calls),
                               [value |-> w.calls[Len(w.calls)].value, key |-> key,
                                left  |-> w.calls[Len(w.calls)].left \ {key}]),
              text  |-> Append(w.text, Token("value_separator"))
                          \o <<StringToken(key), Token("name_separator")>>]
  PROVE  /\ GoodWriter(n, document, objects)
         /\ ThreeTokens(w, n, Token("value_separator"), StringToken(key), Token("name_separator"))
<1> DEFINE call == w.calls[Len(w.calls)]
<1>1. /\ w.calls \in Seq(CallsOn(objects)) /\ w.text \in Seq(TokensOf(objects))
      /\ LeadTo(w.calls, w.value, document)
  BY DEF GoodWriter
<1>2. /\ Front(w.calls) \in Seq(CallsOn(objects)) /\ GoodCall(call, w.value, objects)
      /\ LeadTo(Front(w.calls), call.value, document)
  BY <1>1, LeadBack
<1>3. /\ n = [at |-> n.at, value |-> n.value, calls |-> n.calls, text |-> n.text]
      /\ n.at = "value" /\ n.value = call.value.members[key]
      /\ n.calls = Append(Front(w.calls), [value |-> call.value, key |-> key,
                                           left |-> call.left \ {key}])
      /\ n.text = Append(w.text, Token("value_separator"))
                    \o <<StringToken(key), Token("name_separator")>>
      /\ key \in call.left
  OBVIOUS
<1> HIDE DEF call
<1>4. /\ call.value \in objects /\ key \in DOMAIN call.value.members
      /\ call.left \ {key} \in SUBSET (DOMAIN call.value.members \ {key})
  BY <1>2, <1>3 DEF GoodCall, CallsOn
<1>5. /\ Token("value_separator") \in TokensOf(objects)
      /\ StringToken(key) \in TokensOf(objects)
      /\ Token("name_separator") \in TokensOf(objects)
  BY <1>4, TokensWritten, MemberOf
<1>6. /\ n.text \in Seq(TokensOf(objects))
      /\ Extends(n.text, w.text,
                 <<Token("value_separator"), StringToken(key), Token("name_separator")>>)
      /\ Begins(w.text, n.text)
  BY <1>1, <1>3, <1>5, ThreeMore
<1>7. ThreeTokens(w, n, Token("value_separator"), StringToken(key), Token("name_separator"))
  BY <1>6 DEF ThreeTokens
<1>8. n.calls \in Seq(CallsOn(objects)) /\ LeadTo(n.calls, n.value, document)
  <2> DEFINE calls == Front(w.calls)
             more  == [value |-> call.value, key |-> key, left |-> call.left \ {key}]
  <2>1. calls \in Seq(CallsOn(objects)) /\ LeadTo(calls, call.value, document)
    BY <1>2
  <2> HIDE DEF calls
  <2>2. /\ Append(calls, more) \in Seq(CallsOn(objects))
        /\ LeadTo(Append(calls, more), call.value.members[key], document)
    BY <1>4, <2>1, LeadOn
  <2> QED
    BY <1>3, <2>2 DEF calls
<1>9. n.value \in MembersOf(objects)
  BY <1>3, <1>4, MemberOf
<1>10. n \in [at : {"value", "return"}, value : objects \cup MembersOf(objects),
              calls : Seq(CallsOn(objects)), text : Seq(TokensOf(objects))]
  BY <1>3, <1>6, <1>8, <1>9
<1> QED
  BY <1>7, <1>8, <1>10 DEF GoodWriter

LEMMA GoodStep ==
  ASSUME NEW objects, NEW document, NEW w, Closed(objects), document \in objects,
         GoodWriter(w, document, objects), ~Written(w)
  PROVE  GoodWriter(Continued(w), document, objects) /\ Begins(w.text, Continued(w).text)
<1> DEFINE n == Continued(w)
<1>1. CASE WritesScalar(w, n)
  BY <1>1, ScalarStep DEF OneToken
<1>2. CASE WritesEmpty(w, n)
  BY <1>2, EmptyStep DEF TwoTokens
<1>3. CASE Enters(w, n)
  BY <1>3, EnterStep DEF Enters, ThreeTokens
<1>4. CASE Leaves(w, n)
  BY <1>4, LeaveStep DEF OneToken
<1>5. CASE Advances(w, n)
  BY <1>5, AdvanceStep DEF Advances, ThreeTokens
<1> HIDE DEF n
<1> QED
  BY <1>1, <1>2, <1>3, <1>4, <1>5, WriterCases DEF n

(* What the writer went through, from its first state on. *)
LEMMA WroteNothing ==
  ASSUME NEW objects, NEW document \in objects, Closed(objects)
  PROVE  Wrote({WriteOf(document)}, WriteOf(document), document, objects)
<1> DEFINE w == WriteOf(document)
<1>1. /\ w \in [at : {"value", "return"}, value : objects \cup MembersOf(objects),
                calls : Seq(CallsOn(objects)), text : Seq(TokensOf(objects))]
      /\ w.calls = <<>> /\ w.value = document
  BY DEF WriteOf
<1>2. LeadTo(w.calls, w.value, document)
  BY <1>1 DEF LeadTo, InHand
<1>3. Begins(w.text, w.text)
  BY <1>1 DEF Begins
<1> QED
  BY <1>1, <1>2, <1>3 DEF Wrote, GoodWriter

LEMMA BeginsTransitive ==
  ASSUME NEW T, NEW r \in Seq(T), NEW s \in Seq(T), NEW t \in Seq(T),
         Begins(r, s), Begins(s, t)
  PROVE  Begins(r, t)
  BY DEF Begins

LEMMA WroteMore ==
  ASSUME NEW objects, NEW document \in objects, Closed(objects),
         NEW states, NEW last, Wrote(states, last, document, objects), ~Written(last)
  PROVE  Wrote(states \cup {Continued(last)}, Continued(last), document, objects)
<1> DEFINE n == Continued(last)
<1>1. last \in states /\ GoodWriter(last, document, objects) /\ WriteOf(document) \in states
  BY DEF Wrote
<1>2. GoodWriter(n, document, objects) /\ Begins(last.text, n.text)
  BY <1>1, GoodStep
<1> HIDE DEF n
<1>3. n.text \in Seq(TokensOf(objects)) /\ last.text \in Seq(TokensOf(objects))
  BY <1>1, <1>2 DEF GoodWriter
<1>4. ASSUME NEW w \in states
      PROVE  GoodWriter(w, document, objects) /\ Begins(w.text, n.text)
  <2>1. GoodWriter(w, document, objects) /\ Begins(w.text, last.text)
    BY DEF Wrote
  <2>2. w.text \in Seq(TokensOf(objects))
    BY <2>1 DEF GoodWriter
  <2> QED
    BY <1>2, <1>3, <2>1, <2>2, BeginsTransitive
<1>5. Begins(n.text, n.text)
  BY <1>3 DEF Begins
<1>6. ASSUME NEW w \in states
      PROVE  ~Written(w) /\ Continued(w) \in states \cup {n}
  <2>1. CASE w = last
    BY <2>1 DEF n
  <2>2. CASE w # last
    BY <2>2 DEF Wrote
  <2> QED
    BY <2>1, <2>2
<1>7. Wrote(states \cup {n}, n, document, objects)
  BY <1>1, <1>2, <1>4, <1>5, <1>6 DEF Wrote
<1> QED
  BY <1>7 DEF n

-----------------------------------------------------------------------------
(* The parser's stack while it follows the writer. *)

LEMMA StackSeq ==
  ASSUME NEW objects, NEW calls \in Seq(CallsOn(objects)), NEW busy \in BOOLEAN
  PROVE  /\ Stack(calls, busy) \in Seq(FramesOf(objects)) /\ Len(Stack(calls, busy)) = Len(calls)
         /\ \A i \in 1..Len(calls) : Stack(calls, busy)[i] =
              Frame(calls[i], calls[i].left
                                \cup IF i < Len(calls) \/ busy THEN {calls[i].key} ELSE {})
<1> DEFINE U(i) == calls[i].left \cup IF i < Len(calls) \/ busy THEN {calls[i].key} ELSE {}
<1>1. Len(calls) \in Nat /\ \A i \in 1..Len(calls) : calls[i] \in CallsOn(objects)
  OBVIOUS
<1>2. \A i \in 1..Len(calls) : U(i) \in SUBSET KeysOf(objects)
  BY <1>1 DEF CallsOn
<1>3. Stack(calls, busy) = [i \in 1..Len(calls) |-> Frame(calls[i], U(i))]
  BY DEF Stack
<1> HIDE DEF U
<1>4. \A i \in 1..Len(calls) : Frame(calls[i], U(i)) \in FramesOf(objects)
  BY <1>1, <1>2 DEF FramesOf
<1>5. Stack(calls, busy) \in [1..Len(calls) -> FramesOf(objects)]
  BY <1>3, <1>4
<1>6. /\ Stack(calls, busy) \in Seq(FramesOf(objects))
      /\ Len(Stack(calls, busy)) = Len(calls)
  BY <1>1, <1>5
<1>7. \A i \in 1..Len(calls) : Stack(calls, busy)[i] = Frame(calls[i], U(i))
  BY <1>3
<1> QED
  BY <1>6, <1>7 DEF U

LEMMA BusyStack ==
  ASSUME NEW objects, NEW calls \in Seq(CallsOn(objects))
  PROVE  /\ Stack(calls, TRUE) \in Seq(FramesOf(objects)) /\ Len(Stack(calls, TRUE)) = Len(calls)
         /\ \A i \in 1..Len(calls) : Stack(calls, TRUE)[i] =
              Frame(calls[i], calls[i].left \cup {calls[i].key})
<1>1. \A i \in 1..Len(calls) : Stack(calls, TRUE)[i] =
        Frame(calls[i], calls[i].left \cup IF i < Len(calls) \/ TRUE THEN {calls[i].key} ELSE {})
  BY StackSeq
<1>2. Stack(calls, TRUE) \in Seq(FramesOf(objects)) /\ Len(Stack(calls, TRUE)) = Len(calls)
  BY StackSeq
<1> QED
  BY <1>1, <1>2

LEMMA DoneStack ==
  ASSUME NEW objects, NEW calls \in Seq(CallsOn(objects)), calls # <<>>
  PROVE  /\ Stack(calls, FALSE) \in Seq(FramesOf(objects)) /\ Len(Stack(calls, FALSE)) = Len(calls)
         /\ \A i \in 1..(Len(calls) - 1) : Stack(calls, FALSE)[i] =
              Frame(calls[i], calls[i].left \cup {calls[i].key})
         /\ Stack(calls, FALSE)[Len(calls)] = Frame(calls[Len(calls)], calls[Len(calls)].left)
<1>1. \A i \in 1..Len(calls) : Stack(calls, FALSE)[i] =
        Frame(calls[i], calls[i].left \cup IF i < Len(calls) \/ FALSE THEN {calls[i].key} ELSE {})
  BY StackSeq
<1>2. Stack(calls, FALSE) \in Seq(FramesOf(objects)) /\ Len(Stack(calls, FALSE)) = Len(calls)
  BY StackSeq
<1>3. Len(calls) \in Nat \ {0}
  BY Popped
<1>4. \A i \in 1..(Len(calls) - 1) : Stack(calls, FALSE)[i] =
        Frame(calls[i], calls[i].left \cup {calls[i].key})
  <2> SUFFICES ASSUME NEW i \in 1..(Len(calls) - 1)
               PROVE  Stack(calls, FALSE)[i] = Frame(calls[i], calls[i].left \cup {calls[i].key})
    OBVIOUS
  <2>1. i \in 1..Len(calls)
    BY <1>3
  <2>2. (IF i < Len(calls) \/ FALSE THEN {calls[i].key} ELSE {}) = {calls[i].key}
    BY <1>3
  <2> QED
    BY <1>1, <2>1, <2>2
<1>5. Stack(calls, FALSE)[Len(calls)] = Frame(calls[Len(calls)], calls[Len(calls)].left)
  <2> DEFINE n == Len(calls)
  <2>1. n \in 1..n /\ ~(n < n)
    BY <1>3
  <2>2. calls[n].left \cup (IF n < n \/ FALSE THEN {calls[n].key} ELSE {}) = calls[n].left
    BY <2>1
  <2> QED
    BY <1>1, <2>1, <2>2
<1> QED
  BY <1>2, <1>4, <1>5

LEMMA MembersReplaced ==
  ASSUME NEW m, NEW o, NEW key
  PROVE  [[value |-> [kind |-> "object", members |-> m], key |-> key] EXCEPT !.value.members = o]
           = [value |-> [kind |-> "object", members |-> o], key |-> key]
  OBVIOUS

LEMMA WithMember ==
  ASSUME NEW objects, NEW call, NEW value, GoodCall(call, value, objects)
  PROVE  With(Frame(call, call.left \cup {call.key}), value) = Frame(call, call.left)
<1> DEFINE D == DOMAIN call.value.members
           f == Frame(call, call.left \cup {call.key})
           m == [k \in D \ (call.left \cup {call.key}) |-> call.value.members[k]]
           o == [k \in D \ call.left |-> call.value.members[k]]
<1>1. f = [value |-> [kind |-> "object", members |-> m], key |-> call.key]
  BY DEF Frame, ObjectOf
<1>2. Frame(call, call.left) = [value |-> [kind |-> "object", members |-> o], key |-> call.key]
  BY DEF Frame, ObjectOf
<1>3. [k \in DOMAIN m \cup {call.key} |-> IF k = call.key THEN value ELSE m[k]] = o
  <2>1. DOMAIN m \cup {call.key} = D \ call.left
    BY DEF GoodCall
  <2>2. \A k \in D \ call.left : (IF k = call.key THEN value ELSE m[k]) = call.value.members[k]
    BY DEF GoodCall
  <2> HIDE DEF m
  <2> QED
    BY <2>1, <2>2
<1> HIDE DEF m, o, f
<1>4. f.value.kind = "object" /\ f.value.members = m /\ f.key = call.key
  BY <1>1
<1>5. With(f, value) = [f EXCEPT !.value.members =
                          [k \in DOMAIN f.value.members \cup {f.key} |->
                             IF k = f.key THEN value ELSE f.value.members[k]]]
  BY <1>4 DEF With
<1>6. With(f, value) = [f EXCEPT !.value.members = o]
  BY <1>3, <1>4, <1>5
<1> QED
  BY <1>1, <1>2, <1>6, MembersReplaced DEF f

(* Two sequences of frames, one frame after the other. *)
LEMMA SameFrames ==
  ASSUME NEW S, NEW s \in Seq(S), NEW T, NEW t \in Seq(T), Len(s) = Len(t),
         \A i \in 1..Len(s) : s[i] = t[i]
  PROVE  s = t
  OBVIOUS

LEMMA NoFrames ==
  ASSUME NEW objects, NEW calls \in Seq(CallsOn(objects)), NEW busy \in BOOLEAN
  PROVE  Stack(calls, busy) = <<>> <=> calls = <<>>
<1>1. Stack(calls, busy) \in Seq(FramesOf(objects)) /\ Len(Stack(calls, busy)) = Len(calls)
  BY StackSeq
<1> QED
  BY <1>1, NoneLeft

(* All frames but the last, and the last. *)
LEMMA StackFront ==
  ASSUME NEW objects, NEW calls \in Seq(CallsOn(objects)), calls # <<>>, NEW busy \in BOOLEAN
  PROVE  /\ Front(Stack(calls, busy)) = Stack(Front(calls), TRUE)
         /\ Last(Stack(calls, busy)) =
              Frame(calls[Len(calls)], calls[Len(calls)].left
                                         \cup IF busy THEN {calls[Len(calls)].key} ELSE {})
<1> DEFINE frames == FramesOf(objects)
           s == Stack(calls, busy)
           less == Front(calls)
<1>1. /\ s \in Seq(frames) /\ Len(s) = Len(calls)
      /\ \A i \in 1..Len(calls) : s[i] =
           Frame(calls[i], calls[i].left
                             \cup IF i < Len(calls) \/ busy THEN {calls[i].key} ELSE {})
  BY StackSeq
<1>2. /\ Len(calls) \in Nat \ {0} /\ less \in Seq(CallsOn(objects))
      /\ Len(less) = Len(calls) - 1
      /\ \A i \in 1..(Len(calls) - 1) : less[i] = calls[i]
  BY Popped
<1>3. s # <<>>
  BY NoFrames
<1>4. /\ Stack(less, TRUE) \in Seq(frames) /\ Len(Stack(less, TRUE)) = Len(less)
      /\ \A i \in 1..Len(less) : Stack(less, TRUE)[i] =
           Frame(less[i], less[i].left \cup IF i < Len(less) \/ TRUE THEN {less[i].key} ELSE {})
  BY <1>2, StackSeq
<1> HIDE DEF s, less, frames
<1>5. /\ Front(s) \in Seq(frames) /\ Len(Front(s)) = Len(s) - 1
      /\ \A i \in 1..(Len(s) - 1) : Front(s)[i] = s[i]
  BY <1>1, <1>3, Popped
<1>6. ASSUME NEW i \in 1..Len(Front(s))
      PROVE  Front(s)[i] = Stack(less, TRUE)[i]
  <2>1. i \in 1..(Len(calls) - 1) /\ i < Len(calls) /\ i \in 1..Len(calls) /\ i \in 1..Len(less)
    BY <1>1, <1>2, <1>5
  <2>2. Front(s)[i] = Frame(calls[i], calls[i].left \cup {calls[i].key})
    BY <1>1, <1>5, <2>1
  <2>3. Stack(less, TRUE)[i] = Frame(less[i], less[i].left \cup {less[i].key})
    BY <1>4, <2>1
  <2>4. less[i] = calls[i]
    BY <1>2, <2>1
  <2> QED
    BY <2>2, <2>3, <2>4
<1>7. Front(s) = Stack(less, TRUE)
  <2>1. Len(Front(s)) = Len(Stack(less, TRUE))
    BY <1>1, <1>2, <1>4, <1>5
  <2> QED
    BY <1>4, <1>5, <1>6, <2>1, SameFrames
<1>8. Last(s) = Frame(calls[Len(calls)], calls[Len(calls)].left
                                           \cup IF busy THEN {calls[Len(calls)].key} ELSE {})
  <2>1. Len(calls) \in 1..Len(calls) /\ ~(Len(calls) < Len(calls))
    BY <1>2
  <2> QED
    BY <1>1, <2>1 DEF Last
<1> QED
  BY <1>7, <1>8 DEF s, less

(* A value is read that the writer had in hand. *)
LEMMA HandledStack ==
  ASSUME NEW objects, NEW document, NEW calls \in Seq(CallsOn(objects)), NEW value,
         LeadTo(calls, value, document), HandleValue(value, Stack(calls, TRUE))
  PROVE  ref_stack' = Stack(calls, FALSE) /\ (calls = <<>> => root' = value)
<1>1. CASE calls = <<>>
  <2>1. Stack(calls, TRUE) = <<>> /\ Stack(calls, FALSE) = <<>>
    BY <1>1, NoFrames
  <2> QED
    BY <2>1 DEF HandleValue
<1>2. CASE calls # <<>>
  <2> DEFINE frames == FramesOf(objects)
             call == calls[Len(calls)]
             f == Frame(call, call.left)
             done == Stack(calls, FALSE)
  <2>1. GoodCall(call, value, objects)
    BY <1>2, LeadBack
  <2>2. /\ Front(Stack(calls, TRUE)) = Stack(Front(calls), TRUE)
        /\ Last(Stack(calls, TRUE)) = Frame(call, call.left \cup {call.key})
    BY <1>2, StackFront
  <2>3. /\ Front(done) = Stack(Front(calls), TRUE)
        /\ Last(done) = f
    <3>1. call.left \cup {} = call.left
      OBVIOUS
    <3> HIDE DEF call
    <3>2. /\ Front(done) = Stack(Front(calls), TRUE)
          /\ Last(done) = Frame(call, call.left \cup {})
      BY <1>2, StackFront DEF call
    <3> QED
      BY <3>1, <3>2
  <2>4. Stack(calls, TRUE) # <<>>
    BY <1>2, NoFrames
  <2> HIDE DEF call, f
  <2>5. ref_stack' = Append(Stack(Front(calls), TRUE), f)
    <3>1. With(Last(Stack(calls, TRUE)), value) = f
      BY <2>1, <2>2, WithMember DEF f
    <3>2. ref_stack' = Append(Front(Stack(calls, TRUE)), With(Last(Stack(calls, TRUE)), value))
      BY <2>4 DEF HandleValue
    <3> QED
      BY <2>2, <3>1, <3>2
  <2>6. done \in Seq(frames) /\ done # <<>>
    BY <1>2, StackSeq, NoFrames
  <2> HIDE DEF frames, done
  <2>7. Append(Front(done), Last(done)) = done
    <3>1. /\ Len(done) \in Nat \ {0} /\ Last(done) \in frames /\ Last(done) = done[Len(done)]
          /\ Front(done) \in Seq(frames) /\ Len(Front(done)) = Len(done) - 1
          /\ \A i \in 1..(Len(done) - 1) : Front(done)[i] = done[i]
      BY <2>6, Popped DEF Last
    <3> DEFINE again == Append(Front(done), Last(done))
    <3>2. /\ again \in Seq(frames) /\ Len(again) = Len(done)
          /\ \A i \in 1..(Len(done) - 1) : again[i] = done[i]
          /\ again[Len(done)] = done[Len(done)]
      <4> DEFINE h == Front(done)
      <4>1. h \in Seq(frames) /\ Len(h) = Len(done) - 1 /\ Last(done) \in frames
        BY <3>1
      <4> HIDE DEF h
      <4>2. /\ Append(h, Last(done)) \in Seq(frames) /\ Len(Append(h, Last(done))) = Len(h) + 1
            /\ \A i \in 1..Len(h) : Append(h, Last(done))[i] = h[i]
            /\ Append(h, Last(done))[Len(h) + 1] = Last(done)
        BY <4>1, Pushed
      <4> QED
        BY <3>1, <4>1, <4>2 DEF h
    <3> HIDE DEF again
    <3>3. \A i \in 1..Len(again) : again[i] = done[i]
      BY <3>1, <3>2
    <3>4. again = done
      BY <2>6, <3>2, <3>3, SameFrames
    <3> QED
      BY <3>4 DEF again
  <2> QED
    BY <1>2, <2>3, <2>5, <2>7 DEF done
<1> QED
  BY <1>1, <1>2

(* An object is opened, with its first key. *)
LEMMA PushedStack ==
  ASSUME NEW objects, NEW calls \in Seq(CallsOn(objects)),
         NEW value \in objects, NEW key \in DOMAIN value.members
  PROVE  Append(Stack(calls, TRUE), [value |-> ObjectOf(<<>>), key |-> key]) =
           Stack(Append(calls, [value |-> value, key |-> key,
                                left |-> DOMAIN value.members \ {key}]), TRUE)
<1> DEFINE call == [value |-> value, key |-> key, left |-> DOMAIN value.members \ {key}]
           more == Append(calls, call)
           f == [value |-> ObjectOf(<<>>), key |-> key]
           s == Stack(calls, TRUE)
           t == Stack(more, TRUE)
<1>1. call \in CallsOn(objects)
  BY MemberOf DEF CallsOn
<1>2. call.value = value /\ call.key = key /\ call.left = DOMAIN value.members \ {key}
  OBVIOUS
<1> HIDE DEF call
<1>3. /\ more \in Seq(CallsOn(objects)) /\ Len(more) = Len(calls) + 1
      /\ \A i \in 1..Len(calls) : more[i] = calls[i]
      /\ more[Len(calls) + 1] = call
  BY <1>1, Pushed
<1>4. f = Frame(call, call.left \cup {call.key})
  <2>1. DOMAIN call.value.members \ (call.left \cup {call.key}) = {}
    BY <1>2
  <2>2. [k \in DOMAIN call.value.members \ (call.left \cup {call.key}) |-> call.value.members[k]]
          = <<>>
    BY <2>1
  <2> QED
    BY <1>2, <2>2 DEF Frame
<1> HIDE DEF more, f
<1>5. f \in FramesOf(objects)
  <2>1. call.left \cup {call.key} \in SUBSET KeysOf(objects)
    BY <1>1 DEF CallsOn
  <2> QED
    BY <1>1, <1>4, <2>1 DEF FramesOf
<1>6. /\ s \in Seq(FramesOf(objects)) /\ Len(s) = Len(calls)
      /\ \A i \in 1..Len(calls) : s[i] =
           Frame(calls[i], calls[i].left \cup {calls[i].key})
  BY BusyStack
<1>7. /\ t \in Seq(FramesOf(objects)) /\ Len(t) = Len(more)
      /\ \A i \in 1..Len(more) : t[i] =
           Frame(more[i], more[i].left \cup {more[i].key})
  BY <1>3, BusyStack
<1> HIDE DEF s, t
<1>8. /\ Append(s, f) \in Seq(FramesOf(objects)) /\ Len(Append(s, f)) = Len(s) + 1
      /\ \A i \in 1..Len(s) : Append(s, f)[i] = s[i]
      /\ Append(s, f)[Len(s) + 1] = f
  BY <1>5, <1>6, Pushed
<1>9. Len(calls) \in Nat
  OBVIOUS
<1>10. ASSUME NEW i \in 1..Len(Append(s, f))
       PROVE  Append(s, f)[i] = t[i]
  <2>1. i \in 1..Len(more) /\ t[i] = Frame(more[i], more[i].left \cup {more[i].key})
    BY <1>3, <1>6, <1>7, <1>8
  <2>2. CASE i = Len(calls) + 1
    BY <1>3, <1>4, <1>6, <1>8, <2>1, <2>2
  <2>3. CASE i \in 1..Len(calls)
    BY <1>3, <1>6, <1>8, <2>1, <2>3
  <2> QED
    BY <1>3, <1>9, <2>1, <2>2, <2>3
<1>11. Append(s, f) = t
  <2>1. Len(Append(s, f)) = Len(t)
    BY <1>3, <1>6, <1>7, <1>8
  <2> QED
    BY <1>7, <1>8, <1>10, <2>1, SameFrames
<1> QED
  BY <1>11 DEF s, t, f, more, call

(* The last frame gets its next key. *)
LEMMA NextStack ==
  ASSUME NEW objects, NEW document, NEW calls \in Seq(CallsOn(objects)), calls # <<>>,
         NEW value, LeadTo(calls, value, document), NEW key \in calls[Len(calls)].left
  PROVE  [Stack(calls, FALSE) EXCEPT ![Len(calls)].key = key] =
           Stack(Append(Front(calls), [value |-> calls[Len(calls)].value, key |-> key,
                                       left  |-> calls[Len(calls)].left \ {key}]), TRUE)
<1> DEFINE call == calls[Len(calls)]
           next == [value |-> call.value, key |-> key, left |-> call.left \ {key}]
           less == Front(calls)
           more == Append(less, next)
           s == Stack(calls, FALSE)
           t == Stack(more, TRUE)
           e == [s EXCEPT ![Len(calls)].key = key]
           f == Frame(call, call.left)
<1>1. /\ less \in Seq(CallsOn(objects)) /\ Len(less) = Len(calls) - 1
      /\ Len(calls) \in Nat \ {0}
      /\ \A i \in 1..(Len(calls) - 1) : less[i] = calls[i]
  BY Popped
<1>2. GoodCall(call, value, objects)
  BY LeadBack
<1>3. key \in call.left
  OBVIOUS
<1> HIDE DEF call
<1>4. next \in CallsOn(objects)
  <2>1. call.value \in objects /\ call.left \in SUBSET KeysOf(objects)
    BY <1>2 DEF GoodCall, CallsOn
  <2> QED
    BY <1>3, <2>1 DEF CallsOn
<1>5. next.value = call.value /\ next.key = key /\ next.left = call.left \ {key}
  OBVIOUS
<1> HIDE DEF less, next
<1>6. /\ more \in Seq(CallsOn(objects)) /\ Len(more) = Len(less) + 1
      /\ \A i \in 1..Len(less) : more[i] = less[i]
      /\ more[Len(less) + 1] = next
  BY <1>1, <1>4, Pushed
<1> HIDE DEF more, s
<1>7. /\ s \in Seq(FramesOf(objects)) /\ Len(s) = Len(calls)
      /\ \A i \in 1..(Len(calls) - 1) : s[i] =
           Frame(calls[i], calls[i].left \cup {calls[i].key})
      /\ s[Len(s)] = f
  BY DoneStack DEF s, f, call
<1> HIDE DEF t
<1>8. /\ t \in Seq(FramesOf(objects)) /\ Len(t) = Len(more)
      /\ \A i \in 1..Len(more) : t[i] =
           Frame(more[i], more[i].left \cup {more[i].key})
  BY <1>6, BusyStack DEF t
<1>9. [f EXCEPT !.key = key] = Frame(next, next.left \cup {next.key})
  <2>1. next.left \cup {next.key} = call.left
    BY <1>5, <1>3
  <2> DEFINE v == ObjectOf([k \in DOMAIN call.value.members \ call.left
                              |-> call.value.members[k]])
  <2>2. f = [value |-> v, key |-> call.key]
    BY DEF f, Frame
  <2>3. Frame(next, next.left \cup {next.key}) = [value |-> v, key |-> key]
    BY <1>5, <2>1 DEF Frame
  <2> HIDE DEF v, f
  <2> QED
    BY <2>2, <2>3
<1> HIDE DEF f
<1>10. [f EXCEPT !.key = key] \in FramesOf(objects)
  <2>1. next.left \cup {next.key} \in SUBSET KeysOf(objects)
    BY <1>4 DEF CallsOn
  <2> QED
    BY <1>4, <1>9, <2>1 DEF FramesOf
<1>11. e = [s EXCEPT ![Len(s)] = [f EXCEPT !.key = key]]
  BY <1>7
<1> HIDE DEF e
<1>12. /\ e \in Seq(FramesOf(objects)) /\ Len(e) = Len(s)
       /\ \A i \in 1..Len(s) : e[i] = IF i = Len(s) THEN [f EXCEPT !.key = key] ELSE s[i]
  <2>1. Len(s) \in 1..Len(s)
    BY <1>1, <1>7
  <2> QED
    BY <1>7, <1>10, <1>11, <2>1, ExceptSeq
<1>13. ASSUME NEW i \in 1..Len(e)
       PROVE  e[i] = t[i]
  <2>1. i \in 1..Len(more)
    BY <1>1, <1>6, <1>7, <1>12
  <2>2. t[i] = Frame(more[i], more[i].left \cup {more[i].key})
    BY <1>8, <2>1
  <2>3. CASE i = Len(s)
    <3>1. more[i] = next /\ e[i] = [f EXCEPT !.key = key]
      BY <1>1, <1>6, <1>7, <1>12, <2>3
    <3> QED
      BY <1>9, <2>2, <3>1
  <2>4. CASE i \in 1..(Len(s) - 1)
    <3>1. more[i] = calls[i] /\ e[i] = s[i]
      BY <1>1, <1>6, <1>7, <1>12, <2>4
    <3>2. s[i] = Frame(calls[i], calls[i].left \cup {calls[i].key})
      BY <1>1, <1>7, <2>4
    <3> QED
      BY <2>2, <3>1, <3>2
  <2> QED
    BY <1>1, <1>7, <1>12, <2>3, <2>4
<1>14. e = t
  <2>1. Len(e) = Len(t)
    BY <1>1, <1>6, <1>7, <1>8, <1>12
  <2> QED
    BY <1>8, <1>12, <1>13, <2>1, SameFrames
<1> QED
  BY <1>14 DEF e, s, t, more, less, next, call

-----------------------------------------------------------------------------
(* Which step the parser takes. *)

Missing(n) == Ahead(n).type \in {"end_of_input", "parse_error"}

LEMMA AreTokens ==
  /\ \A a : Are(<<a>>) <=> Ahead(1).type = a
  /\ \A a, b : Are(<<a, b>>) <=> Ahead(1).type = a /\ Ahead(2).type = b
  /\ \A a, b, c : Are(<<a, b, c>>) <=>
       Ahead(1).type = a /\ Ahead(2).type = b /\ Ahead(3).type = c
<1>1. ASSUME NEW a PROVE Are(<<a>>) <=> Ahead(1).type = a
  BY DEF Are
<1>2. ASSUME NEW a, NEW b
      PROVE  Are(<<a, b>>) <=> Ahead(1).type = a /\ Ahead(2).type = b
  <2>1. /\ DOMAIN <<a, b>> = 1..2 /\ <<a, b>>[1] = a /\ <<a, b>>[2] = b
        /\ \A i \in 1..2 : i = 1 \/ i = 2
    OBVIOUS
  <2> QED
    BY <2>1 DEF Are
<1>3. ASSUME NEW a, NEW b, NEW c
      PROVE  Are(<<a, b, c>>) <=> Ahead(1).type = a /\ Ahead(2).type = b /\ Ahead(3).type = c
  <2>1. /\ DOMAIN <<a, b, c>> = 1..3
        /\ <<a, b, c>>[1] = a /\ <<a, b, c>>[2] = b /\ <<a, b, c>>[3] = c
        /\ \A i \in 1..3 : i = 1 \/ i = 2 \/ i = 3
    OBVIOUS
  <2> QED
    BY <2>1 DEF Are
<1> QED
  BY <1>1, <1>2, <1>3

LEMMA AtValue ==
  ASSUME ParseStep, pc = "value"
  PROVE  Scalar \/ EmptyValue \/ BeginObject \/ BeginArray \/ NoValue
  BY DEF ParseStep, Parsed, Within, NextElement, NextMember, Close, Unclosed

LEMMA AtScalar ==
  ASSUME ParseStep, pc = "value", Ahead(1).type \in {"value_string", "value_number"}
  PROVE  Scalar
<1>1. ~EmptyValue /\ ~BeginObject
  BY AreTokens DEF EmptyValue, BeginObject
<1>2. ~BeginArray /\ ~NoValue
  BY DEF BeginArray, NoValue
<1> QED
  BY <1>1, <1>2, AtValue

LEMMA AtEmpty ==
  ASSUME ParseStep, pc = "value",
         Ahead(1).type = "begin_object", Ahead(2).type = "end_object"
  PROVE  HandleValue(ObjectOf(<<>>), ref_stack) /\ Take(2) /\ pc' = "evaluate"
  BY AreTokens DEF ParseStep, Scalar, EmptyValue, BeginObject, BeginArray, NoValue, Parsed,
                   Within, NextElement, NextMember, Close, Unclosed

LEMMA AtBegin ==
  ASSUME ParseStep, pc = "value", Ahead(1).type = "begin_object",
         Ahead(2).type = "value_string", Ahead(3).type = "name_separator"
  PROVE  BeginObject
<1>1. ~Scalar /\ ~BeginArray
  BY DEF Scalar, BeginArray
<1>2. ~EmptyValue /\ ~NoValue
  BY AreTokens DEF EmptyValue, NoValue
<1> QED
  BY <1>1, <1>2, AtValue

LEMMA AtNoValue ==
  ASSUME ParseStep, pc = "value",
         \/ Missing(1)
         \/ Ahead(1).type = "begin_object" /\ Missing(2)
         \/ Ahead(1).type = "begin_object" /\ Ahead(2).type = "value_string" /\ Missing(3)
  PROVE  NoValue
<1>1. ~Scalar /\ ~BeginArray
  BY DEF Missing, Scalar, BeginArray
<1>2. ~EmptyValue /\ ~BeginObject
  BY AreTokens DEF Missing, EmptyValue, BeginObject
<1> QED
  BY <1>1, <1>2, AtValue

LEMMA AtOutermost ==
  ASSUME ParseStep, pc = "evaluate", ref_stack = <<>>
  PROVE  Parsed
  BY DEF ParseStep, Scalar, EmptyValue, BeginObject, BeginArray, NoValue, Parsed,
         Within, NextElement, NextMember, Close, Unclosed

LEMMA AtNext ==
  ASSUME ParseStep, pc = "evaluate", ref_stack # <<>>, Last(ref_stack).value.kind = "object",
         Ahead(1).type = "value_separator", Ahead(2).type = "value_string",
         Ahead(3).type = "name_separator"
  PROVE  NextMember
  BY AreTokens DEF ParseStep, Scalar, EmptyValue, BeginObject, BeginArray, NoValue, Parsed,
                   Within, NextElement, NextMember, Close, Closes, EndType, Unclosed

LEMMA AtEnd ==
  ASSUME ParseStep, pc = "evaluate", ref_stack # <<>>, Last(ref_stack).value.kind = "object",
         Ahead(1).type = "end_object"
  PROVE  Close
  BY AreTokens DEF ParseStep, Scalar, EmptyValue, BeginObject, BeginArray, NoValue, Parsed,
                   Within, NextElement, NextMember, Close, Closes, EndType, Unclosed

LEMMA AtUnclosed ==
  ASSUME ParseStep, pc = "evaluate", ref_stack # <<>>, Last(ref_stack).value.kind = "object",
         \/ Missing(1)
         \/ Ahead(1).type = "value_separator" /\ Missing(2)
         \/ Ahead(1).type = "value_separator" /\ Ahead(2).type = "value_string" /\ Missing(3)
  PROVE  Unclosed
  BY AreTokens DEF Missing, ParseStep, Scalar, EmptyValue, BeginObject, BeginArray, NoValue,
                   Parsed, Within, NextElement, NextMember, Close, Closes, EndType, Unclosed

-----------------------------------------------------------------------------
(* What the parser finds of what the writer wrote next. *)

(* Of text the first n tokens are in the file, and at most a cut one. *)
Holds(text, n) ==
  /\ n \in 0..Len(text) /\ Len(file) \in {n, n + 1}
  /\ \A i \in 1..n : file[i] = text[i]
  /\ Len(file) = n + 1 =>
       \/ file[n + 1].type = "parse_error"
       \/ n < Len(text) /\ file[n + 1].type = "value_number" /\ text[n + 1].type = "value_number"

LEMMA TokensAhead ==
  ASSUME NEW T, NEW text \in Seq(T), NEW s \in Seq(T), NEW t \in Seq(T),
         NEW tokens, Len(tokens) \in Nat, Extends(t, s, tokens), Begins(t, text),
         NEW n, Holds(text, n), position = Len(s)
  PROVE  /\ \A i \in 1..Len(tokens) : position + i <= n => Ahead(i) = tokens[i]
         /\ \A i \in 1..Len(tokens) : position + i = n + 1 =>
              \/ Missing(i)
              \/ /\ Ahead(i).type = "value_number" /\ tokens[i].type = "value_number"
                 /\ Len(file) = n + 1
<1>1. Len(s) \in Nat /\ n \in Nat /\ Len(file) \in Nat /\ Len(text) \in Nat
  BY DEF Holds
<1>2. ASSUME NEW i \in 1..Len(tokens)
      PROVE  position + i \in 1..Len(text) /\ text[position + i] = tokens[i]
  BY <1>1 DEF Extends, Begins
<1>3. ASSUME NEW i \in 1..Len(tokens), position + i <= n
      PROVE  Ahead(i) = tokens[i]
  <2>1. position + i \in 1..n /\ position + i <= Len(file)
    BY <1>1, <1>3 DEF Holds
  <2>2. file[position + i] = text[position + i]
    BY <2>1 DEF Holds
  <2> QED
    BY <1>2, <2>1, <2>2 DEF Ahead
<1>4. ASSUME NEW i \in 1..Len(tokens), position + i = n + 1
      PROVE  \/ Missing(i)
             \/ /\ Ahead(i).type = "value_number" /\ tokens[i].type = "value_number"
                /\ Len(file) = n + 1
  <2>1. CASE Len(file) = n
    <3>1. Ahead(i) = Token("end_of_input")
      BY <1>1, <1>4, <2>1 DEF Ahead
    <3> QED
      BY <3>1 DEF Missing, Token
  <2>2. CASE Len(file) = n + 1
    <3>1. Ahead(i) = file[n + 1]
      BY <1>1, <1>4, <2>2 DEF Ahead
    <3>2. text[n + 1] = tokens[i]
      BY <1>2, <1>4
    <3> QED
      BY <2>2, <3>1, <3>2 DEF Holds, Missing
  <2> QED
    BY <2>1, <2>2 DEF Holds
<1> QED
  BY <1>3, <1>4

LEMMA OneAhead ==
  ASSUME NEW T, NEW text \in Seq(T), NEW w, w.text \in Seq(T), NEW next, next.text \in Seq(T),
         NEW a, OneToken(w, next, a), Begins(next.text, text),
         NEW n, Holds(text, n), position = Len(w.text), Len(w.text) <= n
  PROVE  /\ position \in Nat /\ n \in Nat /\ Len(next.text) = position + 1
         /\ Len(next.text) <= n => Ahead(1) = a
         /\ ~(Len(next.text) <= n) =>
              /\ position = n
              /\ \/ Missing(1)
                 \/ /\ Ahead(1).type = "value_number" /\ a.type = "value_number"
                    /\ Len(file) = n + 1
<1> DEFINE tokens == <<a>>
<1>1. Len(tokens) = 1 /\ tokens[1] = a /\ Len(tokens) \in Nat /\ 1 \in 1..Len(tokens)
  OBVIOUS
<1>2. Extends(next.text, w.text, tokens)
  BY DEF OneToken
<1> HIDE DEF tokens
<1>3. position \in Nat /\ n \in Nat /\ Len(next.text) = position + 1
  BY <1>1, <1>2 DEF Holds, Extends
<1> DEFINE S == w.text
           N == next.text
<1>4. S \in Seq(T) /\ N \in Seq(T) /\ Begins(N, text) /\ position = Len(S)
  OBVIOUS
<1>5. Extends(N, S, tokens)
  BY <1>2
<1>6. Len(tokens) \in Nat
  BY <1>1
<1> HIDE DEF S, N
<1>7. \A i \in 1..Len(tokens) : position + i <= n => Ahead(i) = tokens[i]
  BY <1>4, <1>5, <1>6, TokensAhead
<1>8. \A i \in 1..Len(tokens) : position + i = n + 1 =>
        \/ Missing(i)
        \/ /\ Ahead(i).type = "value_number" /\ tokens[i].type = "value_number"
           /\ Len(file) = n + 1
  BY <1>4, <1>5, <1>6, TokensAhead
<1>9. /\ position + 1 <= n => Ahead(1) = a
      /\ position + 1 = n + 1 =>
           \/ Missing(1)
           \/ Ahead(1).type = "value_number" /\ a.type = "value_number" /\ Len(file) = n + 1
  BY <1>1, <1>7, <1>8
<1>10. ~(Len(next.text) <= n) => position = n
  BY <1>3
<1> QED
  BY <1>3, <1>9, <1>10

LEMMA TwoAhead ==
  ASSUME NEW T, NEW text \in Seq(T), NEW w, w.text \in Seq(T), NEW next, next.text \in Seq(T),
         NEW a, NEW b, TwoTokens(w, next, a, b), Begins(next.text, text),
         a.type # "value_number", b.type # "value_number",
         NEW n, Holds(text, n), position = Len(w.text), Len(w.text) <= n
  PROVE  /\ position \in Nat /\ n \in Nat /\ Len(next.text) = position + 2
         /\ Len(next.text) <= n => Ahead(1) = a /\ Ahead(2) = b
         /\ ~(Len(next.text) <= n) => Missing(1) \/ (Ahead(1) = a /\ Missing(2))
<1> DEFINE tokens == <<a, b>>
<1>1. /\ Len(tokens) = 2 /\ tokens[1] = a /\ tokens[2] = b /\ Len(tokens) \in Nat
      /\ 1 \in 1..Len(tokens) /\ 2 \in 1..Len(tokens)
  OBVIOUS
<1>2. Extends(next.text, w.text, tokens)
  BY DEF TwoTokens
<1> HIDE DEF tokens
<1>3. position \in Nat /\ n \in Nat /\ Len(next.text) = position + 2
  BY <1>1, <1>2 DEF Holds, Extends
<1> DEFINE S == w.text
           N == next.text
<1>4. S \in Seq(T) /\ N \in Seq(T) /\ Begins(N, text) /\ position = Len(S)
  OBVIOUS
<1>5. Extends(N, S, tokens)
  BY <1>2
<1>6. Len(tokens) \in Nat
  BY <1>1
<1> HIDE DEF S, N
<1>7. \A i \in 1..Len(tokens) : position + i <= n => Ahead(i) = tokens[i]
  BY <1>4, <1>5, <1>6, TokensAhead
<1>8. \A i \in 1..Len(tokens) : position + i = n + 1 =>
        \/ Missing(i)
        \/ /\ Ahead(i).type = "value_number" /\ tokens[i].type = "value_number"
           /\ Len(file) = n + 1
  BY <1>4, <1>5, <1>6, TokensAhead
<1>9. /\ position + 1 <= n => Ahead(1) = a
      /\ position + 2 <= n => Ahead(2) = b
      /\ position + 1 = n + 1 => Missing(1)
      /\ position + 2 = n + 1 => Missing(2)
  BY <1>1, <1>7, <1>8
<1>10. Len(next.text) <= n => Ahead(1) = a /\ Ahead(2) = b
  BY <1>3, <1>9
<1>11. ASSUME ~(Len(next.text) <= n)
       PROVE  Missing(1) \/ (Ahead(1) = a /\ Missing(2))
  <2>1. n = position \/ n = position + 1
    BY <1>3, <1>11
  <2>2. n = position => Missing(1)
    BY <1>9
  <2>3. n = position + 1 => Ahead(1) = a /\ Missing(2)
    BY <1>3, <1>9
  <2> QED
    BY <2>1, <2>2, <2>3
<1> QED
  BY <1>3, <1>10, <1>11

LEMMA ThreeAhead ==
  ASSUME NEW T, NEW text \in Seq(T), NEW w, w.text \in Seq(T), NEW next, next.text \in Seq(T),
         NEW a, NEW b, NEW c, ThreeTokens(w, next, a, b, c), Begins(next.text, text),
         a.type # "value_number", b.type # "value_number", c.type # "value_number",
         NEW n, Holds(text, n), position = Len(w.text), Len(w.text) <= n
  PROVE  /\ position \in Nat /\ n \in Nat /\ Len(next.text) = position + 3
         /\ Len(next.text) <= n => Ahead(1) = a /\ Ahead(2) = b /\ Ahead(3) = c
         /\ ~(Len(next.text) <= n) => \/ Missing(1)
                                      \/ Ahead(1) = a /\ Missing(2)
                                      \/ Ahead(1) = a /\ Ahead(2) = b /\ Missing(3)
<1> DEFINE tokens == <<a, b, c>>
<1>1. /\ Len(tokens) = 3 /\ tokens[1] = a /\ tokens[2] = b /\ tokens[3] = c
      /\ Len(tokens) \in Nat
      /\ 1 \in 1..Len(tokens) /\ 2 \in 1..Len(tokens) /\ 3 \in 1..Len(tokens)
  OBVIOUS
<1>2. Extends(next.text, w.text, tokens)
  BY DEF ThreeTokens
<1> HIDE DEF tokens
<1>3. position \in Nat /\ n \in Nat /\ Len(next.text) = position + 3
  BY <1>1, <1>2 DEF Holds, Extends
<1> DEFINE S == w.text
           N == next.text
<1>4. S \in Seq(T) /\ N \in Seq(T) /\ Begins(N, text) /\ position = Len(S)
  OBVIOUS
<1>5. Extends(N, S, tokens)
  BY <1>2
<1>6. Len(tokens) \in Nat
  BY <1>1
<1> HIDE DEF S, N
<1>7. \A i \in 1..Len(tokens) : position + i <= n => Ahead(i) = tokens[i]
  BY <1>4, <1>5, <1>6, TokensAhead
<1>8. \A i \in 1..Len(tokens) : position + i = n + 1 =>
        \/ Missing(i)
        \/ /\ Ahead(i).type = "value_number" /\ tokens[i].type = "value_number"
           /\ Len(file) = n + 1
  BY <1>4, <1>5, <1>6, TokensAhead
<1>9. /\ position + 1 <= n => Ahead(1) = a
      /\ position + 2 <= n => Ahead(2) = b
      /\ position + 3 <= n => Ahead(3) = c
      /\ position + 1 = n + 1 => Missing(1)
      /\ position + 2 = n + 1 => Missing(2)
      /\ position + 3 = n + 1 => Missing(3)
  BY <1>1, <1>7, <1>8
<1>10. Len(next.text) <= n => Ahead(1) = a /\ Ahead(2) = b /\ Ahead(3) = c
  BY <1>3, <1>9
<1>11. ASSUME ~(Len(next.text) <= n)
       PROVE  \/ Missing(1)
              \/ Ahead(1) = a /\ Missing(2)
              \/ Ahead(1) = a /\ Ahead(2) = b /\ Missing(3)
  <2>1. n = position \/ n = position + 1 \/ n = position + 2
    BY <1>3, <1>11
  <2>2. n = position => Missing(1)
    BY <1>9
  <2>3. n = position + 1 => Ahead(1) = a /\ Missing(2)
    BY <1>3, <1>9
  <2>4. n = position + 2 => Ahead(1) = a /\ Ahead(2) = b /\ Missing(3)
    BY <1>3, <1>9
  <2> QED
    BY <2>1, <2>2, <2>3, <2>4
<1> QED
  BY <1>3, <1>10, <1>11

(* The parser read what is left of a number, and finds nothing after it. *)
Lost ==
  /\ pc = "evaluate" /\ position = Len(file)
  /\ ref_stack # <<>> /\ Last(ref_stack).value.kind = "object"

(* After a step next the parser follows the writer if its tokens are there. *)
Kept(next, n) ==
  IF Len(next.text) <= n THEN Follows(next)' ELSE pc' = "parse_error" \/ Lost'

LEMMA FrameKind ==
  ASSUME NEW call, NEW unread
  PROVE  /\ Frame(call, unread).value.kind = "object"
         /\ \A value : With(Frame(call, unread), value).value.kind = "object"
<1>1. Frame(call, unread).value.kind = "object"
  BY DEF Frame, ObjectOf
<1>2. ASSUME NEW value
      PROVE  With(Frame(call, unread), value).value.kind = "object"
  <2> DEFINE m == [k \in DOMAIN call.value.members \ unread |-> call.value.members[k]]
             f == Frame(call, unread)
             o == [k \in DOMAIN f.value.members \cup {f.key} |->
                     IF k = f.key THEN value ELSE f.value.members[k]]
  <2>1. f = [value |-> [kind |-> "object", members |-> m], key |-> call.key]
    BY DEF Frame, ObjectOf
  <2>2. With(f, value) = [f EXCEPT !.value.members = o]
    BY <1>1 DEF With
  <2> HIDE DEF f, m, o
  <2>3. With(f, value) = [value |-> [kind |-> "object", members |-> o], key |-> call.key]
    BY <2>1, <2>2, MembersReplaced
  <2> QED
    BY <2>3 DEF f
<1> QED
  BY <1>1, <1>2

LEMMA LostHandled ==
  ASSUME NEW objects, NEW calls \in Seq(CallsOn(objects)), calls # <<>>, NEW value,
         HandleValue(value, Stack(calls, TRUE))
  PROVE  ref_stack' # <<>> /\ Last(ref_stack').value.kind = "object"
<1> DEFINE s == Stack(calls, TRUE)
           f == With(Last(s), value)
<1>1. s \in Seq(FramesOf(objects)) /\ Len(s) = Len(calls)
  BY BusyStack
<1>2. s # <<>> /\ s \in Seq(FramesOf(objects))
  <2>1. Len(calls) # 0
    BY NoneLeft
  <2> HIDE DEF s
  <2> QED
    BY <1>1, <2>1
<1>3. f.value.kind = "object"
  <2> DEFINE call == calls[Len(calls)]
  <2>1. Len(calls) \in 1..Len(calls)
    BY Popped
  <2>2. s[Len(calls)] = Frame(call, call.left \cup {call.key})
    BY <2>1, BusyStack
  <2>3. Last(s) = Frame(call, call.left \cup {call.key})
    BY <1>1, <2>2 DEF Last
  <2> HIDE DEF call, s
  <2> QED
    BY <2>3, FrameKind
<1> HIDE DEF s, f
<1>4. ref_stack' = Append(Front(s), f)
  BY <1>2 DEF HandleValue, s, f
<1>5. Front(s) \in Seq(FramesOf(objects))
  BY <1>2, Popped
<1>6. Front(s) \in Seq(FramesOf(objects) \cup {f})
  BY <1>5
<1> DEFINE h == Front(s)
<1> HIDE DEF h
<1>7. h \in Seq(FramesOf(objects) \cup {f}) /\ ref_stack' = Append(h, f)
  BY <1>4, <1>6 DEF h
<1>8. ref_stack' # <<>> /\ Last(ref_stack') = f
  BY <1>7 DEF Last
<1> QED
  BY <1>3, <1>8

LEMMA KeptScalar ==
  ASSUME NEW objects, NEW document \in objects, Closed(objects),
         NEW w, GoodWriter(w, document, objects), NEW next, WritesScalar(w, next),
         NEW text \in Seq(TokensOf(objects)), Begins(next.text, text),
         NEW n, Holds(text, n), Follows(w), Len(w.text) <= n,
         ParseStep, UNCHANGED file
  PROVE  Kept(next, n)
<1>1. /\ w.at = "value" /\ w.value.kind \in {"string", "number"}
      /\ next.at = "return" /\ next.value = w.value /\ next.calls = w.calls
  BY DEF WritesScalar
<1>2. /\ w.calls \in Seq(CallsOn(objects)) /\ LeadTo(w.calls, w.value, document)
      /\ w.text \in Seq(TokensOf(objects))
  BY DEF GoodWriter
<1>3. /\ GoodWriter(next, document, objects)
      /\ OneToken(w, next, ScalarToken(w.value))
  BY ScalarStep
<1>4. next.text \in Seq(TokensOf(objects))
  BY <1>3 DEF GoodWriter
<1>5. pc = "value" /\ position = Len(w.text) /\ ref_stack = Stack(w.calls, TRUE)
  BY <1>1 DEF Follows
<1> DEFINE a == ScalarToken(w.value)
<1>6. OneToken(w, next, a)
  BY <1>3
<1> HIDE DEF a
<1>7. /\ position \in Nat /\ n \in Nat /\ Len(next.text) = position + 1
      /\ Len(next.text) <= n => Ahead(1) = a
      /\ ~(Len(next.text) <= n) =>
           /\ position = n
           /\ \/ Missing(1)
              \/ /\ Ahead(1).type = "value_number" /\ a.type = "value_number"
                 /\ Len(file) = n + 1
  BY <1>2, <1>4, <1>5, <1>6, OneAhead
<1>8. CASE Len(next.text) <= n
  <2>1. Ahead(1) = ScalarToken(w.value)
    BY <1>7, <1>8 DEF a
  <2>2. Ahead(1).type \in {"value_string", "value_number"} /\ Ahead(1).value = w.value
    BY <1>1, <2>1 DEF ScalarToken
  <2>3. Scalar
    BY <1>5, <2>2, AtScalar
  <2>4. /\ HandleValue(w.value, Stack(w.calls, TRUE))
        /\ position' = position + 1 /\ pc' = "evaluate"
    BY <1>5, <2>2, <2>3 DEF Scalar, Take
  <2>5. ref_stack' = Stack(w.calls, FALSE) /\ (w.calls = <<>> => root' = w.value)
    BY <1>2, <2>4, HandledStack
  <2>6. Follows(next)'
    BY <1>1, <1>7, <2>4, <2>5 DEF Follows, Written
  <2> QED
    BY <1>7, <1>8, <2>6 DEF Kept
<1>9. CASE ~(Len(next.text) <= n)
  <2>1. CASE Missing(1)
    <3>1. NoValue
      BY <1>5, <2>1, AtNoValue
    <3> QED
      BY <1>7, <1>9, <3>1 DEF NoValue, Kept
  <2>2. CASE Ahead(1).type = "value_number" /\ Len(file) = n + 1
    <3>1. Scalar
      BY <1>5, <2>2, AtScalar
    <3>2. /\ HandleValue(Ahead(1).value, Stack(w.calls, TRUE))
          /\ position' = position + 1 /\ pc' = "evaluate"
      BY <1>5, <3>1 DEF Scalar, Take
    <3>3. w.calls # <<>>
      <4>1. document.kind = "object"
        BY ObjectKind
      <4> QED
        BY <1>1, <1>2, <4>1 DEF LeadTo, InHand
    <3>4. ref_stack' # <<>> /\ Last(ref_stack').value.kind = "object"
      BY <1>2, <3>2, <3>3, LostHandled
    <3>5. position' = Len(file')
      BY <1>7, <1>9, <2>2, <3>2
    <3>6. Lost'
      BY <3>2, <3>4, <3>5 DEF Lost
    <3> QED
      BY <1>7, <1>9, <3>6 DEF Kept
  <2> QED
    BY <1>7, <1>9, <2>1, <2>2
<1> QED
  BY <1>8, <1>9


LEMMA KeptEmpty ==
  ASSUME NEW objects, NEW document \in objects, Closed(objects),
         NEW w, GoodWriter(w, document, objects), NEW next, WritesEmpty(w, next),
         NEW text \in Seq(TokensOf(objects)), Begins(next.text, text),
         NEW n, Holds(text, n), Follows(w), Len(w.text) <= n,
         ParseStep, UNCHANGED file
  PROVE  Kept(next, n)
<1> DEFINE a == Token("begin_object")
           b == Token("end_object")
<1>1. /\ w.at = "value" /\ w.value.kind = "object" /\ DOMAIN w.value.members = {}
      /\ next.at = "return" /\ next.value = w.value /\ next.calls = w.calls
  BY DEF WritesEmpty
<1>2. /\ w.calls \in Seq(CallsOn(objects)) /\ LeadTo(w.calls, w.value, document)
      /\ w.text \in Seq(TokensOf(objects)) /\ w.value \in objects \cup MembersOf(objects)
  BY DEF GoodWriter
<1>3. GoodWriter(next, document, objects) /\ TwoTokens(w, next, a, b)
  BY EmptyStep
<1>4. next.text \in Seq(TokensOf(objects))
  BY <1>3 DEF GoodWriter
<1>5. pc = "value" /\ position = Len(w.text) /\ ref_stack = Stack(w.calls, TRUE)
  BY <1>1 DEF Follows
<1>6. a.type = "begin_object" /\ b.type = "end_object"
  BY DEF Token
<1>7. w.value = ObjectOf(<<>>)
  <2>1. w.value \in objects
    BY <1>1, <1>2, ObjectKind
  <2>2. w.value = ObjectOf([k \in DOMAIN w.value.members |-> w.value.members[k]])
    BY <2>1 DEF Closed
  <2>3. [k \in DOMAIN w.value.members |-> w.value.members[k]] = <<>>
    BY <1>1
  <2> QED
    BY <2>2, <2>3
<1> HIDE DEF a, b
<1>8. /\ position \in Nat /\ n \in Nat /\ Len(next.text) = position + 2
      /\ Len(next.text) <= n => Ahead(1) = a /\ Ahead(2) = b
      /\ ~(Len(next.text) <= n) => Missing(1) \/ (Ahead(1) = a /\ Missing(2))
  BY <1>2, <1>3, <1>4, <1>5, <1>6, TwoAhead
<1>9. CASE Len(next.text) <= n
  <2>1. Ahead(1).type = "begin_object" /\ Ahead(2).type = "end_object"
    BY <1>6, <1>8, <1>9
  <2>2. HandleValue(ObjectOf(<<>>), ref_stack) /\ Take(2) /\ pc' = "evaluate"
    BY <1>5, <2>1, AtEmpty
  <2>3. /\ HandleValue(w.value, Stack(w.calls, TRUE))
        /\ position' = position + 2 /\ pc' = "evaluate"
    BY <1>5, <1>7, <2>2 DEF Take
  <2>4. ref_stack' = Stack(w.calls, FALSE) /\ (w.calls = <<>> => root' = w.value)
    BY <1>2, <2>3, HandledStack
  <2>5. Follows(next)'
    BY <1>1, <1>8, <2>3, <2>4 DEF Follows, Written
  <2> QED
    BY <1>8, <1>9, <2>5 DEF Kept
<1>10. CASE ~(Len(next.text) <= n)
  <2>1. NoValue
    BY <1>5, <1>6, <1>8, <1>10, AtNoValue
  <2> QED
    BY <1>8, <1>10, <2>1 DEF NoValue, Kept
<1> QED
  BY <1>9, <1>10

LEMMA KeptEnter ==
  ASSUME NEW objects, NEW document \in objects, Closed(objects),
         NEW w, GoodWriter(w, document, objects), NEW next, Enters(w, next),
         NEW text \in Seq(TokensOf(objects)), Begins(next.text, text),
         NEW n, Holds(text, n), Follows(w), Len(w.text) <= n,
         ParseStep, UNCHANGED file
  PROVE  Kept(next, n)
<1>1. PICK key \in DOMAIN w.value.members :
        /\ w.at = "value" /\ w.value.kind = "object"
        /\ next = [at    |-> "value",
                   value |-> w.value.members[key],
                   calls |-> Append(w.calls, [value |-> w.value, key |-> key,
                                              left  |-> DOMAIN w.value.members \ {key}]),
                   text  |-> Append(w.text, Token("begin_object"))
                               \o <<StringToken(key), Token("name_separator")>>]
  BY DEF Enters
<1> DEFINE a == Token("begin_object")
           b == StringToken(key)
           c == Token("name_separator")
           more == Append(w.calls, [value |-> w.value, key |-> key,
                                    left  |-> DOMAIN w.value.members \ {key}])
<1>2. /\ w.calls \in Seq(CallsOn(objects)) /\ w.text \in Seq(TokensOf(objects))
      /\ w.value \in objects \cup MembersOf(objects)
  BY DEF GoodWriter
<1>3. w.value \in objects
  BY <1>1, <1>2, ObjectKind
<1>4. GoodWriter(next, document, objects) /\ ThreeTokens(w, next, a, b, c)
  BY <1>1, EnterStep
<1>5. next.text \in Seq(TokensOf(objects))
  BY <1>4 DEF GoodWriter
<1>6. pc = "value" /\ position = Len(w.text) /\ ref_stack = Stack(w.calls, TRUE)
  BY <1>1 DEF Follows
<1>7. /\ a.type = "begin_object" /\ b.type = "value_string" /\ c.type = "name_separator"
      /\ b.value.text = key
  BY DEF Token, StringToken, StringOf
<1>8. Append(Stack(w.calls, TRUE), [value |-> ObjectOf(<<>>), key |-> key]) = Stack(more, TRUE)
  <2> DEFINE v == w.value
             calls == w.calls
  <2>1. calls \in Seq(CallsOn(objects)) /\ v \in objects /\ key \in DOMAIN v.members
    BY <1>2, <1>3
  <2>2. /\ Stack(w.calls, TRUE) = Stack(calls, TRUE)
        /\ more = Append(calls, [value |-> v, key |-> key, left |-> DOMAIN v.members \ {key}])
    OBVIOUS
  <2> HIDE DEF v, calls, more
  <2>3. Append(Stack(calls, TRUE), [value |-> ObjectOf(<<>>), key |-> key]) =
          Stack(Append(calls, [value |-> v, key |-> key,
                               left |-> DOMAIN v.members \ {key}]), TRUE)
    BY <2>1, PushedStack
  <2> QED
    BY <2>2, <2>3
<1>9. next.at = "value" /\ next.calls = more
  BY <1>1
<1> HIDE DEF a, b, c, more
<1>10. /\ position \in Nat /\ n \in Nat /\ Len(next.text) = position + 3
       /\ Len(next.text) <= n => Ahead(1) = a /\ Ahead(2) = b /\ Ahead(3) = c
       /\ ~(Len(next.text) <= n) => \/ Missing(1)
                                    \/ Ahead(1) = a /\ Missing(2)
                                    \/ Ahead(1) = a /\ Ahead(2) = b /\ Missing(3)
  BY <1>2, <1>4, <1>5, <1>6, <1>7, ThreeAhead
<1>11. CASE Len(next.text) <= n
  <2>1. /\ Ahead(1).type = "begin_object" /\ Ahead(2).type = "value_string"
        /\ Ahead(3).type = "name_separator" /\ Ahead(2).value.text = key
    BY <1>7, <1>10, <1>11
  <2>2. BeginObject
    BY <1>6, <2>1, AtBegin
  <2>3. /\ ref_stack' = Append(Stack(w.calls, TRUE), [value |-> ObjectOf(<<>>), key |-> key])
        /\ position' = position + 3 /\ pc' = "value"
    BY <1>6, <2>1, <2>2 DEF BeginObject, Opened, Take
  <2>4. ref_stack' = Stack(next.calls, TRUE)
    BY <1>8, <1>9, <2>3
  <2>5. Follows(next)'
    BY <1>9, <1>10, <2>3, <2>4 DEF Follows, Written
  <2> QED
    BY <1>10, <1>11, <2>5 DEF Kept
<1>12. CASE ~(Len(next.text) <= n)
  <2>1. NoValue
    BY <1>6, <1>7, <1>10, <1>12, AtNoValue
  <2> QED
    BY <1>10, <1>12, <2>1 DEF NoValue, Kept
<1> QED
  BY <1>11, <1>12

(* The frame of the innermost open value, when one of its members is read. *)
LEMMA LastDone ==
  ASSUME NEW objects, NEW document, NEW calls \in Seq(CallsOn(objects)), calls # <<>>,
         NEW value, LeadTo(calls, value, document), ref_stack = Stack(calls, FALSE)
  PROVE  /\ ref_stack # <<>> /\ Len(ref_stack) = Len(calls)
         /\ Last(ref_stack) = Frame(calls[Len(calls)], calls[Len(calls)].left)
         /\ Last(ref_stack).value.kind = "object"
         /\ Front(ref_stack) = Stack(Front(calls), TRUE)
<1> DEFINE call == calls[Len(calls)]
<1>1. ref_stack # <<>>
  BY NoFrames
<1>2. Len(ref_stack) = Len(calls)
  BY StackSeq
<1>3. call.left \cup {} = call.left
  OBVIOUS
<1> HIDE DEF call
<1>4. /\ Front(Stack(calls, FALSE)) = Stack(Front(calls), TRUE)
      /\ Last(Stack(calls, FALSE)) = Frame(call, call.left \cup {})
  BY StackFront DEF call
<1>5. Last(ref_stack) = Frame(call, call.left)
  BY <1>3, <1>4
<1>6. Last(ref_stack).value.kind = "object"
  BY <1>5, FrameKind
<1> QED
  BY <1>1, <1>2, <1>4, <1>5, <1>6 DEF call

(* A frame that has all members is the frame of what is written. *)
LEMMA WholeFrame ==
  ASSUME NEW objects, Closed(objects), NEW call \in CallsOn(objects), call.left = {}
  PROVE  Frame(call, call.left).value = call.value
<1>1. call.value \in objects
  BY DEF CallsOn
<1>2. call.value = ObjectOf([k \in DOMAIN call.value.members |-> call.value.members[k]])
  BY <1>1 DEF Closed
<1>3. DOMAIN call.value.members \ {} = DOMAIN call.value.members
  OBVIOUS
<1>4. Frame(call, {}).value =
        ObjectOf([k \in DOMAIN call.value.members \ {} |-> call.value.members[k]])
  BY DEF Frame
<1> QED
  BY <1>2, <1>3, <1>4

LEMMA KeptLeave ==
  ASSUME NEW objects, NEW document \in objects, Closed(objects),
         NEW w, GoodWriter(w, document, objects), NEW next, Leaves(w, next),
         NEW text \in Seq(TokensOf(objects)), Begins(next.text, text),
         NEW n, Holds(text, n), Follows(w), Len(w.text) <= n,
         ParseStep, UNCHANGED file
  PROVE  Kept(next, n)
<1> DEFINE call == w.calls[Len(w.calls)]
           a == Token("end_object")
<1>1. /\ w.at = "return" /\ w.calls # <<>> /\ call.left = {}
      /\ next.at = "return" /\ next.value = call.value /\ next.calls = Front(w.calls)
  BY DEF Leaves
<1>2. /\ w.calls \in Seq(CallsOn(objects)) /\ LeadTo(w.calls, w.value, document)
      /\ w.text \in Seq(TokensOf(objects))
  BY DEF GoodWriter
<1>3. GoodWriter(next, document, objects) /\ OneToken(w, next, a)
  BY LeaveStep
<1>4. next.text \in Seq(TokensOf(objects))
  BY <1>3 DEF GoodWriter
<1>5. pc = "evaluate" /\ position = Len(w.text) /\ ref_stack = Stack(w.calls, FALSE)
  BY <1>1 DEF Follows
<1>6. a.type = "end_object"
  BY DEF Token
<1>7. /\ Front(w.calls) \in Seq(CallsOn(objects)) /\ GoodCall(call, w.value, objects)
      /\ LeadTo(Front(w.calls), call.value, document)
  BY <1>1, <1>2, LeadBack
<1>8. /\ ref_stack # <<>> /\ Last(ref_stack) = Frame(call, call.left)
      /\ Last(ref_stack).value.kind = "object"
      /\ Front(ref_stack) = Stack(Front(w.calls), TRUE)
  BY <1>1, <1>2, <1>5, LastDone
<1>9. Last(ref_stack).value = call.value
  <2>1. call \in CallsOn(objects)
    BY <1>7 DEF GoodCall
  <2> HIDE DEF call
  <2> QED
    BY <1>1, <1>8, <2>1, WholeFrame
<1> HIDE DEF a, call
<1>10. /\ position \in Nat /\ n \in Nat /\ Len(next.text) = position + 1
       /\ Len(next.text) <= n => Ahead(1) = a
       /\ ~(Len(next.text) <= n) =>
            /\ position = n
            /\ \/ Missing(1)
               \/ /\ Ahead(1).type = "value_number" /\ a.type = "value_number"
                  /\ Len(file) = n + 1
  BY <1>2, <1>3, <1>4, <1>5, OneAhead
<1>11. CASE Len(next.text) <= n
  <2>1. Ahead(1).type = "end_object"
    BY <1>6, <1>10, <1>11
  <2>2. Close
    BY <1>5, <1>8, <2>1, AtEnd
  <2>3. /\ HandleValue(call.value, Stack(Front(w.calls), TRUE))
        /\ position' = position + 1 /\ pc' = "evaluate"
    BY <1>5, <1>8, <1>9, <2>2 DEF Close, Take
  <2>4. /\ ref_stack' = Stack(Front(w.calls), FALSE)
        /\ Front(w.calls) = <<>> => root' = call.value
    BY <1>7, <2>3, HandledStack
  <2>5. Follows(next)'
    BY <1>1, <1>10, <2>3, <2>4 DEF Follows, Written
  <2> QED
    BY <1>10, <1>11, <2>5 DEF Kept
<1>12. CASE ~(Len(next.text) <= n)
  <2>1. Missing(1)
    BY <1>6, <1>10, <1>12
  <2>2. Unclosed
    BY <1>5, <1>8, <2>1, AtUnclosed
  <2> QED
    BY <1>10, <1>12, <2>2 DEF Unclosed, Kept
<1> QED
  BY <1>11, <1>12

LEMMA KeptAdvance ==
  ASSUME NEW objects, NEW document \in objects, Closed(objects),
         NEW w, GoodWriter(w, document, objects), NEW next, Advances(w, next),
         NEW text \in Seq(TokensOf(objects)), Begins(next.text, text),
         NEW n, Holds(text, n), Follows(w), Len(w.text) <= n,
         ParseStep, UNCHANGED file
  PROVE  Kept(next, n)
<1>1. PICK key \in w.calls[Len(w.calls)].left :
        /\ w.at = "return" /\ w.calls # <<>>
        /\ next = [at    |-> "value",
                   value |-> w.calls[Len(w.calls)].value.members[key],
                   calls |-> Append(Front(w.calls),
                                    [value |-> w.calls[Len(w.calls)].value, key |-> key,
                                     left  |-> w.calls[Len(w.calls)].left \ {key}]),
                   text  |-> Append(w.text, Token("value_separator"))
                               \o <<StringToken(key), Token("name_separator")>>]
  BY DEF Advances
<1> DEFINE a == Token("value_separator")
           b == StringToken(key)
           c == Token("name_separator")
           more == Append(Front(w.calls),
                          [value |-> w.calls[Len(w.calls)].value, key |-> key,
                           left  |-> w.calls[Len(w.calls)].left \ {key}])
<1>2. /\ w.calls \in Seq(CallsOn(objects)) /\ LeadTo(w.calls, w.value, document)
      /\ w.text \in Seq(TokensOf(objects))
  BY DEF GoodWriter
<1>3. GoodWriter(next, document, objects) /\ ThreeTokens(w, next, a, b, c)
  BY <1>1, AdvanceStep
<1>4. next.text \in Seq(TokensOf(objects))
  BY <1>3 DEF GoodWriter
<1>5. pc = "evaluate" /\ position = Len(w.text) /\ ref_stack = Stack(w.calls, FALSE)
  BY <1>1 DEF Follows
<1>6. /\ a.type = "value_separator" /\ b.type = "value_string" /\ c.type = "name_separator"
      /\ b.value.text = key
  BY DEF Token, StringToken, StringOf
<1>7. [Stack(w.calls, FALSE) EXCEPT ![Len(w.calls)].key = key] = Stack(more, TRUE)
  BY <1>1, <1>2, NextStack
<1>8. next.at = "value" /\ next.calls = more
  BY <1>1
<1>9. ref_stack # <<>> /\ Len(ref_stack) = Len(w.calls) /\ Last(ref_stack).value.kind = "object"
  BY <1>1, <1>2, <1>5, LastDone
<1> HIDE DEF a, b, c, more
<1>10. /\ position \in Nat /\ n \in Nat /\ Len(next.text) = position + 3
       /\ Len(next.text) <= n => Ahead(1) = a /\ Ahead(2) = b /\ Ahead(3) = c
       /\ ~(Len(next.text) <= n) => \/ Missing(1)
                                    \/ Ahead(1) = a /\ Missing(2)
                                    \/ Ahead(1) = a /\ Ahead(2) = b /\ Missing(3)
  BY <1>2, <1>3, <1>4, <1>5, <1>6, ThreeAhead
<1>11. CASE Len(next.text) <= n
  <2>1. /\ Ahead(1).type = "value_separator" /\ Ahead(2).type = "value_string"
        /\ Ahead(3).type = "name_separator" /\ Ahead(2).value.text = key
    BY <1>6, <1>10, <1>11
  <2>2. NextMember
    BY <1>9, <1>5, <2>1, AtNext
  <2>3. /\ ref_stack' = [ref_stack EXCEPT ![Len(ref_stack)].key = key]
        /\ position' = position + 3 /\ pc' = "value"
    BY <2>1, <2>2 DEF NextMember, Take
  <2>4. ref_stack' = Stack(next.calls, TRUE)
    BY <1>9, <1>5, <1>7, <1>8, <2>3
  <2>5. Follows(next)'
    BY <1>8, <1>10, <2>3, <2>4 DEF Follows, Written
  <2> QED
    BY <1>10, <1>11, <2>5 DEF Kept
<1>12. CASE ~(Len(next.text) <= n)
  <2>1. Unclosed
    BY <1>9, <1>5, <1>6, <1>10, <1>12, AtUnclosed
  <2> QED
    BY <1>10, <1>12, <2>1 DEF Unclosed, Kept
<1> QED
  BY <1>11, <1>12

-----------------------------------------------------------------------------
(* A step of the parser, wherever it is in the text. *)

LEMMA KeptStep ==
  ASSUME NEW objects, NEW document \in objects, Closed(objects),
         NEW w, GoodWriter(w, document, objects), ~Written(w),
         NEW text \in Seq(TokensOf(objects)), Begins(Continued(w).text, text),
         NEW n, Holds(text, n), Follows(w), Len(w.text) <= n,
         ParseStep, UNCHANGED file
  PROVE  Kept(Continued(w), n)
<1> DEFINE next == Continued(w)
<1>1. \/ WritesScalar(w, next) \/ WritesEmpty(w, next)
      \/ Enters(w, next) \/ Leaves(w, next) \/ Advances(w, next)
  BY WriterCases
<1>2. Begins(next.text, text)
  OBVIOUS
<1> HIDE DEF next
<1>3. WritesScalar(w, next) => Kept(next, n)
  BY <1>2, KeptScalar
<1>4. WritesEmpty(w, next) => Kept(next, n)
  BY <1>2, KeptEmpty
<1>5. Enters(w, next) => Kept(next, n)
  BY <1>2, KeptEnter
<1>6. Leaves(w, next) => Kept(next, n)
  BY <1>2, KeptLeave
<1>7. Advances(w, next) => Kept(next, n)
  BY <1>2, KeptAdvance
<1>8. Kept(next, n)
  BY <1>1, <1>3, <1>4, <1>5, <1>6, <1>7
<1> QED
  BY <1>8 DEF next

LEMMA StatesWritten ==
  ASSUME NEW objects, NEW document, NEW states, NEW last,
         Wrote(states, last, document, objects)
  PROVE  /\ last.text \in Seq(TokensOf(objects)) /\ Len(last.text) \in Nat
         /\ \A w \in states : Len(w.text) \in Nat /\ Len(w.text) <= Len(last.text)
<1>1. \A w \in states : w.text \in Seq(TokensOf(objects)) /\ Begins(w.text, last.text)
  BY DEF Wrote, GoodWriter
<1>2. last \in states
  BY DEF Wrote
<1>3. last.text \in Seq(TokensOf(objects))
  BY <1>1, <1>2
<1>4. Len(last.text) \in Nat
  BY <1>3, LenProperties
<1>5. ASSUME NEW w \in states
      PROVE  Len(w.text) \in Nat /\ Len(w.text) <= Len(last.text)
  <2>1. w.text \in Seq(TokensOf(objects)) /\ Begins(w.text, last.text)
    BY <1>1
  <2>2. Len(w.text) \in Nat
    BY <2>1, LenProperties
  <2> QED
    BY <2>1, <2>2 DEF Begins
<1> QED
  BY <1>3, <1>4, <1>5

(* The parser goes on along the states of the writer, as far as the file has *)
(* their text.                                                               *)
LEMMA FollowsOn ==
  ASSUME NEW objects, NEW document \in objects, Closed(objects),
         NEW states, NEW last, Wrote(states, last, document, objects),
         NEW w \in states, w # last, Follows(w), NEW n, Len(w.text) <= n,
         Holds(last.text, n), ParseStep, UNCHANGED file
  PROVE  \/ \E v \in states : Follows(v)' /\ Len(v.text) <= n
         \/ n < Len(last.text) /\ (pc' = "parse_error" \/ Lost')
<1> DEFINE next == Continued(w)
           text == last.text
<1>1. GoodWriter(w, document, objects) /\ ~Written(w) /\ next \in states
  BY DEF Wrote
<1>2. Begins(next.text, text)
  BY <1>1 DEF Wrote
<1>3. /\ text \in Seq(TokensOf(objects)) /\ Len(text) \in Nat
      /\ Len(next.text) \in Nat /\ Len(next.text) <= Len(text)
  BY <1>1, StatesWritten
<1>4. n \in Nat
  BY <1>3 DEF Holds
<1> HIDE DEF text
<1>5. Kept(next, n)
  <2>1. Holds(text, n)
    BY DEF text
  <2> QED
    BY <1>1, <1>2, <1>3, <2>1, KeptStep
<1> HIDE DEF next
<1>6. CASE Len(next.text) <= n
  <2>1. Follows(next)'
    BY <1>5, <1>6 DEF Kept
  <2> QED
    BY <1>1, <1>6, <2>1
<1>7. CASE ~(Len(next.text) <= n)
  <2>1. pc' = "parse_error" \/ Lost'
    BY <1>5, <1>7 DEF Kept
  <2>2. n < Len(text)
    BY <1>3, <1>4, <1>7
  <2> QED
    BY <2>1, <2>2 DEF text
<1> QED
  BY <1>6, <1>7

LEMMA LostFails ==
  ASSUME Lost, Len(file) \in Nat, ParseStep
  PROVE  pc' = "parse_error"
<1>1. Ahead(1) = Token("end_of_input")
  BY DEF Lost, Ahead
<1>2. Missing(1)
  BY <1>1 DEF Missing, Token
<1>3. Unclosed
  BY <1>2, AtUnclosed DEF Lost
<1> QED
  BY <1>3 DEF Unclosed

LEMMA WholeRead ==
  ASSUME NEW objects, NEW document, NEW w, GoodWriter(w, document, objects),
         Written(w), Follows(w), ParseStep
  PROVE  pc' = "parsed" /\ root' = document
<1>1. w.at = "return" /\ w.calls = <<>> /\ w.calls \in Seq(CallsOn(objects))
  BY DEF Written, GoodWriter
<1>2. pc = "evaluate" /\ ref_stack = Stack(w.calls, FALSE) /\ root = w.value
  BY <1>1 DEF Follows
<1>3. ref_stack = <<>>
  BY <1>1, <1>2, NoFrames
<1>4. w.value = document
  BY <1>1 DEF GoodWriter, LeadTo, InHand
<1>5. Parsed
  BY <1>2, <1>3, AtOutermost
<1> QED
  BY <1>2, <1>4, <1>5 DEF Parsed

-----------------------------------------------------------------------------
(* Every state: a file that Dump wrote holds all of the text, and the parser *)
(* follows the writer to the end of it; a torn one ends before, and there    *)
(* the parser loses the writer.                                              *)

ReadsOn(states, n) ==
  /\ outcome = "none"
  /\ pc = "idle" \/ \E w \in states : Follows(w) /\ Len(w.text) <= n

SavedText(c, states, last) ==
  /\ Wrote(states, last, Save(c), ObjectsOf(c)) /\ Written(last)
  /\ Holds(last.text, Len(last.text)) /\ Len(file) = Len(last.text)
  /\ \/ ReadsOn(states, Len(last.text))
     \/ /\ pc = "parsed" /\ root = Save(c)
        /\ outcome \in {"none", "loaded"} /\ (outcome = "loaded" => loaded = c)

TornText(c, states, last, n) ==
  /\ Wrote(states, last, Save(c), ObjectsOf(c))
  /\ Holds(last.text, n) /\ n < Len(last.text)
  /\ \/ ReadsOn(states, n)
     \/ Lost /\ outcome = "none"
     \/ pc = "parse_error" /\ outcome \in {"none", "parse_error"}

FileOf(c) ==
  /\ character = c
  /\ origin = "dump" =>
       /\ pc = "idle" /\ outcome = "none"
       /\ \E states : Wrote(states, dump, Save(c), ObjectsOf(c))
  /\ origin = "saved" => \E states, last : SavedText(c, states, last)
  /\ origin = "torn" => \E states, last, n : TornText(c, states, last, n)

FileInv == \E c \in Characters : FileOf(c)

LEMMA CutType ==
  ASSUME NEW token, NEW cut \in CutTokens(token)
  PROVE  \/ cut.type = "parse_error"
         \/ cut.type = "value_number" /\ token.type = "value_number"
<1>1. \A k : ScalarToken(NumberOf(k)).type = "value_number"
  BY DEF ScalarToken, NumberOf
<1>2. Token("parse_error").type = "parse_error"
  BY DEF Token
<1>3. CASE token.type = "value_string"
  BY <1>2, <1>3 DEF CutTokens
<1>4. CASE token.type = "value_number"
  <2>1. \/ \E k \in CutNumbers(token.value.number) : cut = ScalarToken(NumberOf(k))
        \/ cut = Token("parse_error")
    BY <1>4 DEF CutTokens
  <2> QED
    BY <1>1, <1>2, <1>4, <2>1
<1> QED
  BY <1>3, <1>4 DEF CutTokens

LEMMA BeginningHeld ==
  ASSUME NEW T, NEW text \in Seq(T), file' \in Beginnings(text)
  PROVE  \E n \in Nat : n < Len(text) /\ Holds(text, n)'
<1> DEFINE whole == {SubSeq(text, 1, n) : n \in 0..(Len(text) - 1)}
<1>1. Len(text) \in Nat
  OBVIOUS
<1>2. ASSUME NEW n \in 0..(Len(text) - 1)
      PROVE  /\ SubSeq(text, 1, n) \in Seq(T) /\ Len(SubSeq(text, 1, n)) = n
             /\ \A i \in 1..n : SubSeq(text, 1, n)[i] = text[i]
  BY <1>1
<1>3. ASSUME file' \in whole
      PROVE  \E n \in Nat : n < Len(text) /\ Holds(text, n)'
  <2>1. PICK n \in 0..(Len(text) - 1) : file' = SubSeq(text, 1, n)
    BY <1>3
  <2>2. Len(file') = n /\ \A i \in 1..n : file'[i] = text[i]
    BY <1>2, <2>1
  <2>3. Holds(text, n)'
    BY <1>1, <2>2 DEF Holds
  <2> QED
    BY <1>1, <2>3
<1>4. ASSUME NEW beginning \in whole, NEW cut \in CutTokens(text[Len(beginning) + 1]),
             file' = Append(beginning, cut)
      PROVE  \E n \in Nat : n < Len(text) /\ Holds(text, n)'
  <2>1. PICK n \in 0..(Len(text) - 1) : beginning = SubSeq(text, 1, n)
    OBVIOUS
  <2>2. /\ beginning \in Seq(T) /\ Len(beginning) = n
        /\ \A i \in 1..n : beginning[i] = text[i]
    BY <1>2, <2>1
  <2>3. beginning \in Seq(T \cup {cut}) /\ cut \in T \cup {cut}
    BY <2>2
  <2>4. /\ Len(Append(beginning, cut)) = Len(beginning) + 1
        /\ \A i \in 1..Len(beginning) : Append(beginning, cut)[i] = beginning[i]
        /\ Append(beginning, cut)[Len(beginning) + 1] = cut
    BY <2>3, Pushed
  <2>5. Len(file') = n + 1 /\ file'[n + 1] = cut /\ \A i \in 1..n : file'[i] = text[i]
    BY <1>4, <2>2, <2>4
  <2>6. \/ cut.type = "parse_error"
        \/ cut.type = "value_number" /\ text[n + 1].type = "value_number"
    BY <2>2, CutType
  <2>7. Holds(text, n)'
    BY <1>1, <2>5, <2>6 DEF Holds
  <2> QED
    BY <1>1, <2>7
<1>5. \/ file' \in whole
      \/ \E beginning \in whole : \E cut \in CutTokens(text[Len(beginning) + 1]) :
           file' = Append(beginning, cut)
  BY DEF Beginnings
<1> QED
  BY <1>3, <1>4, <1>5

LEMMA SaveWritten ==
  ASSUME NEW c
  PROVE  Save(c) \in ObjectsOf(c) /\ Closed(ObjectsOf(c))
  BY SavedClosed DEF ObjectsOf

LEMMA ReadBegins ==
  ASSUME NEW objects, NEW document, NEW states, NEW last,
         Wrote(states, last, document, objects), NEW n \in Nat, StartParsing
  PROVE  \E w \in states : Follows(w)' /\ Len(w.text) <= n
<1> DEFINE w == WriteOf(document)
<1>1. w \in states
  BY DEF Wrote
<1>2. w.at = "value" /\ w.calls = <<>> /\ w.text = <<>>
  BY DEF WriteOf
<1>3. Stack(<<>>, TRUE) = <<>>
  BY DEF Stack
<1> HIDE DEF w
<1>4. Follows(w)'
  BY <1>2, <1>3 DEF Follows, Written, StartParsing
<1>5. Len(w.text) = 0
  BY <1>2
<1> QED
  BY <1>1, <1>4, <1>5

LEMMA WriteKeeps == ASSUME NEW c, FileOf(c), Write PROVE FileOf(c)'
<1>1. CASE origin = "dump"
  <2>1. PICK states : Wrote(states, dump, Save(c), ObjectsOf(c))
    BY <1>1 DEF FileOf
  <2>2. ~Written(dump) /\ dump' = Continued(dump)
    BY DEF Write
  <2>3. Wrote(states \cup {Continued(dump)}, Continued(dump), Save(c), ObjectsOf(c))
    BY <2>1, <2>2, SaveWritten, WroteMore
  <2>4. pc' = "idle" /\ outcome' = "none" /\ character' = c /\ origin' = "dump"
    BY <1>1 DEF FileOf, Write, parserVars
  <2> QED
    BY <2>2, <2>3, <2>4 DEF FileOf
<1>2. CASE origin = "editor"
  BY <1>2 DEF FileOf, Write
<1> QED
  BY <1>1, <1>2 DEF Write

LEMMA DumpKeeps == ASSUME NEW c, FileOf(c), Dump PROVE FileOf(c)'
<1>1. PICK states : Wrote(states, dump, Save(c), ObjectsOf(c))
  BY DEF FileOf, Dump
<1> DEFINE last == dump
<1>2. /\ Written(dump) /\ file' = dump.text /\ origin' = "saved" /\ character' = c
      /\ pc' = "idle" /\ outcome' = "none"
  BY DEF FileOf, Dump, Becomes, parserVars
<1>3. PICK text : text = dump
  OBVIOUS
<1>4. /\ Wrote(states, text, Save(c), ObjectsOf(c)) /\ Written(text) /\ file' = text.text
      /\ Len(text.text) \in Nat
  BY <1>1, <1>2, <1>3, StatesWritten
<1>5. Holds(text.text, Len(text.text))'
  BY <1>4 DEF Holds
<1>6. ReadsOn(states, Len(text.text))'
  BY <1>2 DEF ReadsOn
<1>7. SavedText(c, states, text)'
  BY <1>4, <1>5, <1>6 DEF SavedText
<1> QED
  BY <1>2, <1>7 DEF FileOf

LEMMA KillKeeps == ASSUME NEW c, FileOf(c), Kill PROVE FileOf(c)'
<1>1. PICK states : Wrote(states, dump, Save(c), ObjectsOf(c))
  BY DEF FileOf, Kill
<1>2. /\ file' \in Beginnings(dump.text) /\ origin' = "torn" /\ character' = c
      /\ pc' = "idle" /\ outcome' = "none"
  BY DEF FileOf, Kill, Becomes, parserVars
<1>3. PICK last : last = dump
  OBVIOUS
<1>4. /\ Wrote(states, last, Save(c), ObjectsOf(c)) /\ file' \in Beginnings(last.text)
      /\ last.text \in Seq(TokensOf(ObjectsOf(c)))
  BY <1>1, <1>2, <1>3, StatesWritten
<1>5. PICK n \in Nat : n < Len(last.text) /\ Holds(last.text, n)'
  BY <1>4, BeginningHeld
<1>6. ReadsOn(states, n)'
  BY <1>2 DEF ReadsOn
<1>7. TornText(c, states, last, n)'
  BY <1>4, <1>5, <1>6 DEF TornText
<1> QED
  BY <1>2, <1>7 DEF FileOf

LEMMA ReadKeeps == ASSUME NEW c, FileOf(c), Read PROVE FileOf(c)'
<1>1. /\ StartParsing /\ pc = "idle" /\ origin \in {"saved", "torn", "edited"}
      /\ character' = c /\ origin' = origin /\ file' = file /\ outcome' = outcome
  BY DEF FileOf, Read
<1>2. ASSUME origin = "saved"
      PROVE  \E states, last : SavedText(c, states, last)'
  <2>1. PICK states, last : SavedText(c, states, last)
    BY <1>2 DEF FileOf
  <2>2. outcome = "none"
    BY <1>1, <2>1 DEF SavedText, ReadsOn
  <2>3. /\ Wrote(states, last, Save(c), ObjectsOf(c)) /\ Written(last)
        /\ Len(file') = Len(last.text)
    BY <1>1, <2>1 DEF SavedText
  <2>4. Holds(last.text, Len(last.text))'
    BY <1>1, <2>1 DEF SavedText, Holds
  <2>5. Len(last.text) \in Nat
    BY <2>3, StatesWritten
  <2>6. ReadsOn(states, Len(last.text))'
    BY <1>1, <2>2, <2>3, <2>5, ReadBegins DEF ReadsOn
  <2> QED
    BY <2>3, <2>4, <2>6 DEF SavedText
<1>3. ASSUME origin = "torn"
      PROVE  \E states, last, n : TornText(c, states, last, n)'
  <2>1. PICK states, last, n : TornText(c, states, last, n)
    BY <1>3 DEF FileOf
  <2>2. outcome = "none"
    BY <1>1, <2>1 DEF TornText, ReadsOn, Lost
  <2>3. Wrote(states, last, Save(c), ObjectsOf(c)) /\ n < Len(last.text) /\ n \in Nat
    BY <2>1 DEF TornText, Holds
  <2>4. Holds(last.text, n)'
    BY <1>1, <2>1 DEF TornText, Holds
  <2>5. ReadsOn(states, n)'
    BY <1>1, <2>2, <2>3, ReadBegins DEF ReadsOn
  <2> QED
    BY <2>3, <2>4, <2>5 DEF TornText
<1> QED
  BY <1>1, <1>2, <1>3 DEF FileOf

LEMMA StepAt ==
  /\ ParseStep => pc \in {"value", "evaluate"}
  /\ \A w : Follows(w) => pc \in {"value", "evaluate"}
<1>1. ParseStep => pc \in {"value", "evaluate"}
  BY DEF ParseStep, Scalar, EmptyValue, BeginObject, BeginArray, NoValue, Parsed,
         Within, NextElement, NextMember, Close, Unclosed
<1>2. \A w : Follows(w) => pc \in {"value", "evaluate"}
  BY DEF Follows
<1> QED
  BY <1>1, <1>2

LEMMA ParseSaved ==
  ASSUME NEW c, NEW states, NEW last, SavedText(c, states, last), Parse
  PROVE  SavedText(c, states, last)'
<1>1. ParseStep /\ file' = file /\ outcome' = outcome
  BY DEF Parse
<1>2. /\ Wrote(states, last, Save(c), ObjectsOf(c)) /\ Written(last)
      /\ Len(file') = Len(last.text) /\ Holds(last.text, Len(last.text))
  BY <1>1 DEF SavedText
<1>3. Holds(last.text, Len(last.text))'
  BY <1>1, <1>2 DEF Holds
<1>4. pc \in {"value", "evaluate"}
  BY <1>1, StepAt
<1>5. PICK w \in states : Follows(w) /\ Len(w.text) <= Len(last.text) /\ outcome = "none"
  BY <1>4 DEF SavedText, ReadsOn
<1>6. CASE w = last
  <2>1. GoodWriter(w, Save(c), ObjectsOf(c))
    BY <1>2 DEF Wrote
  <2>2. pc' = "parsed" /\ root' = Save(c)
    BY <1>1, <1>2, <1>5, <1>6, <2>1, WholeRead
  <2> QED
    BY <1>1, <1>2, <1>3, <1>5, <2>2 DEF SavedText
<1>7. CASE w # last
  <2>1. Len(last.text) \in Nat
    BY <1>2, StatesWritten
  <2>2. PICK n : n = Len(last.text)
    OBVIOUS
  <2>3. Holds(last.text, n) /\ Len(w.text) <= n
    BY <1>2, <1>5, <2>2
  <2>4. \/ \E v \in states : Follows(v)' /\ Len(v.text) <= n
        \/ n < Len(last.text) /\ (pc' = "parse_error" \/ Lost')
    BY <1>1, <1>2, <1>5, <1>7, <2>3, SaveWritten, FollowsOn
  <2>5. ReadsOn(states, Len(last.text))'
    BY <1>1, <1>5, <2>1, <2>2, <2>4 DEF ReadsOn
  <2> QED
    BY <1>2, <1>3, <2>5 DEF SavedText
<1> QED
  BY <1>6, <1>7

LEMMA ParseTorn ==
  ASSUME NEW c, NEW states, NEW last, NEW n, TornText(c, states, last, n), Parse
  PROVE  TornText(c, states, last, n)'
<1>1. ParseStep /\ file' = file /\ outcome' = outcome
  BY DEF Parse
<1>2. /\ Wrote(states, last, Save(c), ObjectsOf(c))
      /\ Holds(last.text, n) /\ n < Len(last.text)
  BY DEF TornText
<1>3. Holds(last.text, n)'
  BY <1>1, <1>2 DEF Holds
<1>4. pc \in {"value", "evaluate"}
  BY <1>1, StepAt
<1>5. \/ \E w \in states : Follows(w) /\ Len(w.text) <= n /\ outcome = "none"
      \/ Lost /\ outcome = "none"
  BY <1>4 DEF TornText, ReadsOn
<1>6. ASSUME NEW w \in states, Follows(w), Len(w.text) <= n, outcome = "none"
      PROVE  TornText(c, states, last, n)'
  <2>1. w # last
    <3>1. Len(last.text) \in Nat /\ n \in Nat
      BY <1>2, StatesWritten DEF Holds
    <3> QED
      BY <1>2, <1>6, <3>1
  <2>2. \/ \E v \in states : Follows(v)' /\ Len(v.text) <= n
        \/ n < Len(last.text) /\ (pc' = "parse_error" \/ Lost')
    BY <1>1, <1>2, <1>6, <2>1, SaveWritten, FollowsOn
  <2>3. CASE \E v \in states : Follows(v)' /\ Len(v.text) <= n
    <3>1. ReadsOn(states, n)'
      BY <1>1, <1>6, <2>3 DEF ReadsOn
    <3> QED
      BY <1>2, <1>3, <3>1 DEF TornText
  <2>4. CASE pc' = "parse_error" \/ Lost'
    BY <1>1, <1>2, <1>3, <1>6, <2>4 DEF TornText
  <2> QED
    BY <2>2, <2>3, <2>4
<1>7. ASSUME Lost, outcome = "none"
      PROVE  TornText(c, states, last, n)'
  <2>1. Len(file) \in Nat
    BY <1>2 DEF Holds
  <2>2. pc' = "parse_error"
    BY <1>1, <1>7, <2>1, LostFails
  <2> QED
    BY <1>1, <1>2, <1>3, <1>7, <2>2 DEF TornText
<1> QED
  BY <1>5, <1>6, <1>7

LEMMA ParseKeeps == ASSUME NEW c, FileOf(c), Parse PROVE FileOf(c)'
<1>1. character' = c /\ origin' = origin /\ origin # "dump"
  <2>1. pc # "idle"
    BY StepAt DEF Parse
  <2> QED
    BY <2>1 DEF FileOf, Parse
<1>2. origin = "saved" => \E states, last : SavedText(c, states, last)'
  BY ParseSaved DEF FileOf
<1>3. origin = "torn" => \E states, last, n : TornText(c, states, last, n)'
  BY ParseTorn DEF FileOf
<1> QED
  BY <1>1, <1>2, <1>3 DEF FileOf

LEMMA LoadKeeps == ASSUME NEW c \in Characters, FileOf(c), Load PROVE FileOf(c)'
<1>1. /\ pc = "parsed" /\ outcome = "none" /\ character' = c /\ origin' = origin
      /\ file' = file /\ pc' = pc /\ root' = root /\ origin # "dump"
  BY DEF FileOf, Load, parserVars
<1>2. /\ ~\E states, n : ReadsOn(states, n)
      /\ ~Lost
  BY <1>1, StepAt DEF ReadsOn, Lost
<1>3. origin # "torn"
  BY <1>1, <1>2 DEF FileOf, TornText
<1>4. ASSUME NEW states, NEW last, SavedText(c, states, last)
      PROVE  SavedText(c, states, last)'
  <2>1. root = Save(c)
    BY <1>2, <1>4 DEF SavedText
  <2>2. outcome' = "loaded" /\ loaded' = c
    BY <2>1, LoadOfSave DEF Load
  <2>3. Holds(last.text, Len(last.text))'
    BY <1>1, <1>4 DEF SavedText, Holds
  <2> QED
    BY <1>1, <1>4, <2>1, <2>2, <2>3 DEF SavedText
<1>5. origin = "saved" => \E states, last : SavedText(c, states, last)'
  BY <1>4 DEF FileOf
<1> QED
  BY <1>1, <1>3, <1>5 DEF FileOf

LEMMA ParseThrowsKeeps == ASSUME NEW c, FileOf(c), ParseThrows PROVE FileOf(c)'
<1>1. /\ pc = "parse_error" /\ outcome' = "parse_error" /\ character' = c /\ origin' = origin
      /\ file' = file /\ pc' = pc /\ origin # "dump"
  BY DEF FileOf, ParseThrows, parserVars
<1>2. ~\E states, n : ReadsOn(states, n)
  BY <1>1, StepAt DEF ReadsOn
<1>3. origin # "saved"
  BY <1>1, <1>2 DEF FileOf, SavedText
<1>4. ASSUME NEW states, NEW last, NEW n, TornText(c, states, last, n)
      PROVE  TornText(c, states, last, n)'
  <2>1. Holds(last.text, n)'
    BY <1>1, <1>4 DEF TornText, Holds
  <2> QED
    BY <1>1, <1>4, <2>1 DEF TornText
<1>5. origin = "torn" => \E states, last, n : TornText(c, states, last, n)'
  BY <1>4 DEF FileOf
<1> QED
  BY <1>1, <1>3, <1>5 DEF FileOf

LEMMA AgainKeeps == ASSUME NEW c, FileOf(c), Again PROVE FileOf(c)'
<1>1. /\ character' = c /\ origin' = origin /\ file' = file /\ dump' = dump
      /\ pc' = "idle" /\ outcome' = "none"
  BY DEF FileOf, Again
<1>2. \A states, n : ReadsOn(states, n)'
  BY <1>1 DEF ReadsOn
<1>3. ASSUME NEW states, NEW last, SavedText(c, states, last)
      PROVE  SavedText(c, states, last)'
  <2>1. Holds(last.text, Len(last.text))'
    BY <1>1, <1>3 DEF SavedText, Holds
  <2> QED
    BY <1>1, <1>2, <1>3, <2>1 DEF SavedText
<1>4. ASSUME NEW states, NEW last, NEW n, TornText(c, states, last, n)
      PROVE  TornText(c, states, last, n)'
  <2>1. Holds(last.text, n)'
    BY <1>1, <1>4 DEF TornText, Holds
  <2> QED
    BY <1>1, <1>2, <1>4, <2>1 DEF TornText
<1> QED
  BY <1>1, <1>3, <1>4 DEF FileOf

LEMMA StutterKeeps == ASSUME NEW c, FileOf(c), UNCHANGED vars PROVE FileOf(c)'
<1>1. /\ character' = c /\ origin' = origin /\ file' = file /\ dump' = dump
      /\ pc' = pc /\ position' = position /\ ref_stack' = ref_stack /\ root' = root
      /\ outcome' = outcome /\ loaded' = loaded
  BY DEF FileOf, vars, parserVars
<1>2. ASSUME NEW w, Follows(w)
      PROVE  Follows(w)'
  BY <1>1, <1>2 DEF Follows
<1>3. ASSUME NEW states, NEW n, ReadsOn(states, n)
      PROVE  ReadsOn(states, n)'
  BY <1>1, <1>2, <1>3 DEF ReadsOn
<1>4. Lost => Lost'
  BY <1>1 DEF Lost
<1>5. ASSUME NEW text, NEW n, Holds(text, n)
      PROVE  Holds(text, n)'
  BY <1>1, <1>5 DEF Holds
<1>6. ASSUME NEW states, NEW last, SavedText(c, states, last)
      PROVE  SavedText(c, states, last)'
  BY <1>1, <1>3, <1>5, <1>6 DEF SavedText
<1>7. ASSUME NEW states, NEW last, NEW n, TornText(c, states, last, n)
      PROVE  TornText(c, states, last, n)'
  BY <1>1, <1>3, <1>4, <1>5, <1>7 DEF TornText
<1> QED
  BY <1>1, <1>6, <1>7 DEF FileOf

(* FileInv holds of every reachable state. *)
THEOREM FileInvariant == Spec => []FileInv
<1>1. Init => FileInv
  <2> SUFFICES ASSUME Init
               PROVE  FileInv
    OBVIOUS
  <2>1. PICK c \in Characters : c = character
    BY DEF Init
  <2>2. Wrote({WriteOf(Save(c))}, WriteOf(Save(c)), Save(c), ObjectsOf(c))
    BY SaveWritten, WroteNothing
  <2>3. dump = WriteOf(Save(c)) /\ origin = "dump" /\ pc = "idle" /\ outcome = "none"
    BY <2>1 DEF Init
  <2>4. FileOf(c)
    BY <2>1, <2>2, <2>3 DEF FileOf
  <2> QED
    BY <2>4 DEF FileInv
<1>2. FileInv /\ [Next]_vars => FileInv'
  <2> SUFFICES ASSUME FileInv, [Next]_vars
               PROVE  FileInv'
    OBVIOUS
  <2>1. PICK c \in Characters : FileOf(c)
    BY DEF FileInv
  <2>2. CASE Edit \/ EditSaved
    BY <2>1, <2>2 DEF FileOf, FileInv, Edit, EditSaved, Becomes
  <2>3. CASE Write \/ Dump \/ Kill
    BY <2>1, <2>3, WriteKeeps, DumpKeeps, KillKeeps DEF FileInv
  <2>4. CASE Read \/ Parse
    BY <2>1, <2>4, ReadKeeps, ParseKeeps DEF FileInv
  <2>5. CASE Load \/ ParseThrows \/ Again
    BY <2>1, <2>5, LoadKeeps, ParseThrowsKeeps, AgainKeeps DEF FileInv
  <2>6. CASE UNCHANGED vars
    BY <2>1, <2>6, StutterKeeps DEF FileInv
  <2> QED
    BY <2>2, <2>3, <2>4, <2>5, <2>6 DEF Next
<1> QED
  BY <1>1, <1>2, PTL DEF Spec

(* Whatever characters there are: a file of which a kill during Dump left   *)
(* only a beginning never loads, nor does Load touch what it says.          *)
THEOREM TornNeverLoads == Spec => []TornRefused
<1>1. FileInv => TornRefused
  BY DEF FileInv, FileOf, TornText, ReadsOn, TornRefused
<1> QED
  BY <1>1, FileInvariant, PTL

(* A file that Dump wrote to its end loads as the character that was saved. *)
THEOREM SavedAlwaysLoads == Spec => []SavedLoadsSame
<1>1. FileInv => SavedLoadsSame
  BY DEF FileInv, FileOf, SavedText, ReadsOn, SavedLoadsSame
<1> QED
  BY <1>1, FileInvariant, PTL
=============================================================================

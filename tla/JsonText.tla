------------------------------- MODULE JsonText -------------------------------
(***************************************************************************)
(* JSON as nlohmann's library writes it (serializer::dump) and reads it    *)
(* back (parser::sax_parse_internal, feeding a json_sax_dom_parser).       *)
(*                                                                         *)
(* A text is a sequence of tokens: white space, escapes and digits are the *)
(* lexer's business.  Numbers are integers, and null is the one literal.   *)
(*                                                                         *)
(* The parser recurses with a stack of its own, one loop iteration a step  *)
(* here.  That stack (states) says what each open value is; the builder's  *)
(* (ref_stack) refers to the same values, so that one stack of frames      *)
(* stands for both.                                                        *)
(***************************************************************************)
EXTENDS Integers, Sequences, SequencesExt

VARIABLES dump,         \* serializer::dump: a state of the writer, see WriteOf
          file,         \* the text that is parsed
          pc,           \* where sax_parse_internal is, or was left
          position,     \* how much of file it took; at "value" last_token follows
          ref_stack,    \* the open values, each with its last key
          root

parserVars == <<pc, position, ref_stack, root>>

ObjectOf(members) == [kind |-> "object", members |-> members]
ArrayOf(elements) == [kind |-> "array", elements |-> elements]
StringOf(text)    == [kind |-> "string", text |-> text]
NumberOf(number)  == [kind |-> "number", number |-> number]
NullValue         == [kind |-> "null"]

Token(type) == [type |-> type]

StringToken(text) == [type |-> "value_string", value |-> StringOf(text)]

ScalarKinds == {"string", "number", "null"}

ScalarToken(value) ==
  [type |-> IF value.kind = "string" THEN "value_string"
            ELSE IF value.kind = "number" THEN "value_number" ELSE "value_null",
   value |-> value]

BeginOf(kind) == Token(IF kind = "object" THEN "begin_object" ELSE "begin_array")

EndType(kind) == IF kind = "object" THEN "end_object" ELSE "end_array"

-----------------------------------------------------------------------------
(* Writing.  dump calls itself for each member of an object, in the order   *)
(* of the keys, and for each element of an array.  The writer is at a value *)
(* or returns from it, to calls with a member in hand and others left.      *)

WriteOf(value) == [at |-> "value", value |-> value, calls |-> <<>>, text |-> <<>>]

Written(w) == w.at = "return" /\ w.calls = <<>>

Parts(value) == IF value.kind = "object" THEN value.members ELSE value.elements

NextKey(value, left) ==
  CHOOSE k \in left : value.kind = "array" => \A j \in left : k <= j

AtMember(calls, value, left, text) ==
  LET key == NextKey(value, left) IN
  [at    |-> "value",
   value |-> Parts(value)[key],
   calls |-> Append(calls, [value |-> value, key |-> key, left |-> left \ {key}]),
   text  |-> IF value.kind = "object"
             THEN text \o <<StringToken(key), Token("name_separator")>> ELSE text]

Entered(w) ==
  IF w.value.kind \in ScalarKinds
  THEN [w EXCEPT !.at = "return", !.text = Append(@, ScalarToken(w.value))]
  ELSE IF DOMAIN Parts(w.value) = {}
  THEN [w EXCEPT !.at = "return",
                 !.text = @ \o <<BeginOf(w.value.kind), Token(EndType(w.value.kind))>>]
  ELSE AtMember(w.calls, w.value, DOMAIN Parts(w.value),
                Append(w.text, BeginOf(w.value.kind)))

Returned(w) ==
  LET call == Last(w.calls) IN
  IF call.left = {}
  THEN [w EXCEPT !.value = call.value, !.calls = Front(@),
                 !.text = Append(@, Token(EndType(call.value.kind)))]
  ELSE AtMember(Front(w.calls), call.value, call.left,
                Append(w.text, Token("value_separator")))

Continued(w) == IF w.at = "value" THEN Entered(w) ELSE Returned(w)

-----------------------------------------------------------------------------
(* Reading. *)

StartParsing ==
  /\ pc' = "value" /\ position' = 0
  /\ ref_stack' = <<>> /\ root' = NullValue

(* get_token, n tokens ahead *)
Ahead(n) ==
  IF position + n <= Len(file) THEN file[position + n] ELSE Token("end_of_input")

Are(types) == \A n \in DOMAIN types : Ahead(n).type = types[n]

Take(n) == position' = position + n

(* handle_value, with frames the stack then: the new root, or an element of *)
(* the innermost open value.                                                *)
With(frame, value) ==
  IF frame.value.kind = "array"
  THEN [frame EXCEPT !.value.elements = Append(@, value)]
  ELSE [frame EXCEPT !.value.members =
          [k \in DOMAIN @ \cup {frame.key} |-> IF k = frame.key THEN value ELSE @[k]]]

HandleValue(value, frames) ==
  IF frames = <<>>
  THEN root' = value /\ ref_stack' = frames
  ELSE ref_stack' = Append(Front(frames), With(Last(frames), value)) /\ UNCHANGED root

Opened(value, key) ==
  ref_stack' = Append(ref_stack, [value |-> value, key |-> key]) /\ UNCHANGED root

Scalar ==
  /\ pc = "value" /\ Ahead(1).type \in {"value_string", "value_number", "value_null"}
  /\ HandleValue(Ahead(1).value, ref_stack)
  /\ Take(1) /\ pc' = "evaluate"

EmptyValue ==
  /\ pc = "value"
  /\ \/ Are(<<"begin_object", "end_object">>) /\ HandleValue(ObjectOf(<<>>), ref_stack)
     \/ Are(<<"begin_array", "end_array">>) /\ HandleValue(ArrayOf(<<>>), ref_stack)
  /\ Take(2) /\ pc' = "evaluate"

BeginObject ==
  /\ pc = "value" /\ Are(<<"begin_object", "value_string", "name_separator">>)
  /\ Opened(ObjectOf(<<>>), Ahead(2).value.text)
  /\ Take(3) /\ UNCHANGED pc

BeginArray ==
  /\ pc = "value" /\ Ahead(1).type = "begin_array" /\ Ahead(2).type # "end_array"
  /\ Opened(ArrayOf(<<>>), "")
  /\ Take(1) /\ UNCHANGED pc

(* Anything else is an error, as is an object without a key. *)
NoValue ==
  /\ pc = "value"
  /\ Ahead(1).type \notin {"value_string", "value_number", "value_null", "begin_array"}
  /\ ~Are(<<"begin_object", "end_object">>)
  /\ ~Are(<<"begin_object", "value_string", "name_separator">>)
  /\ pc' = "parse_error"
  /\ UNCHANGED <<position, ref_stack, root>>

(* The value just read was the outermost; what follows it stays unread, as  *)
(* operator>> does not parse strictly.                                      *)
Parsed ==
  /\ pc = "evaluate" /\ ref_stack = <<>>
  /\ pc' = "parsed"
  /\ UNCHANGED <<position, ref_stack, root>>

Within(kind) == pc = "evaluate" /\ ref_stack # <<>> /\ Last(ref_stack).value.kind = kind

NextElement ==
  /\ Within("array") /\ Are(<<"value_separator">>)
  /\ Take(1) /\ pc' = "value"
  /\ UNCHANGED <<ref_stack, root>>

NextMember ==
  /\ Within("object") /\ Are(<<"value_separator", "value_string", "name_separator">>)
  /\ ref_stack' = [ref_stack EXCEPT ![Len(ref_stack)].key = Ahead(2).value.text]
  /\ Take(3) /\ pc' = "value"
  /\ UNCHANGED root

ClosesAtEnd(token, kind) == token.type \in {EndType(kind), "end_of_input"}

Closes(token, kind) == token.type = EndType(kind)

(* skip_to_state_evaluation: the closed value is itself an element. *)
Close ==
  /\ \E kind \in {"array", "object"} : Within(kind) /\ Closes(Ahead(1), kind)
  /\ HandleValue(Last(ref_stack).value, Front(ref_stack))
  /\ Take(1) /\ UNCHANGED pc

Unclosed ==
  /\ \/ Within("array") /\ ~Are(<<"value_separator">>)
     \/ Within("object") /\ ~Are(<<"value_separator", "value_string", "name_separator">>)
  /\ ~\E kind \in {"array", "object"} : Within(kind) /\ Closes(Ahead(1), kind)
  /\ pc' = "parse_error"
  /\ UNCHANGED <<position, ref_stack, root>>

ParseStep ==
  \/ Scalar \/ EmptyValue \/ BeginObject \/ BeginArray \/ NoValue
  \/ Parsed \/ NextElement \/ NextMember \/ Close \/ Unclosed
=============================================================================

---------------------------- MODULE MessageStream ----------------------------
(***************************************************************************)
(* One connection, from the bytes a client writes to the messages the      *)
(* server makes of them (the DataEvent handler of tcp_client.cpp).         *)
(*                                                                         *)
(* TCP carries a stream: a DataEvent holds whatever prefix of the unread   *)
(* bytes one read returned.  The handler takes each for a whole message:   *)
(* it keeps no remainder, and does not look for a second message.          *)
(*                                                                         *)
(* A message is Parts pieces, each unlike any other.  A read that cuts a   *)
(* message, or joins two, does so between pieces.  Every message is        *)
(* well-formed: the HELO, which is no JSON, or a request, one JSON object, *)
(* that the server answers once.                                           *)
(***************************************************************************)
EXTENDS Integers, Sequences, SequencesExt

CONSTANTS Parts,        \* pieces of a message: a read may end after any
          MaxRead,      \* pieces the buffer of one read holds
          MaxMessages   \* bound: messages the client writes

ASSUME StreamAssumption ==
  /\ Parts \in Nat \ {0} /\ MaxMessages \in Nat
  /\ MaxRead \in Nat /\ MaxRead >= Parts

VARIABLES kinds,        \* kind of each message written so far
          wire,         \* pieces written and not read yet
          m_heloParsed,
          handled,      \* messages handed to a request handler
          answers,      \* what was sent back: kind, and the first and last
                        \* message of which the read had pieces
          disciplined,  \* the client waits for each answer, and no message
                        \* is cut on the way (it may be, TCP does not promise)
          hasty         \* messages written while a HELO was still unread

vars == <<kinds, wire, m_heloParsed, handled, answers, disciplined, hasty>>

Piece  == [message : 1..MaxMessages, part : 1..Parts]
Answer == [kind : {"helo", "400 HELO was not received", "400 JSON malformed",
                   "answered"},
           first : 1..MaxMessages, read : 1..MaxMessages]

Init ==
  /\ kinds = <<>> /\ wire = <<>>
  /\ m_heloParsed = FALSE
  /\ handled = <<>> /\ answers = <<>>
  /\ disciplined \in BOOLEAN
  /\ hasty = {}

PiecesShifted(message) == [p \in 1..Parts |-> [message |-> message - 1, part |-> p]]

PiecesOf(message) == [p \in 1..Parts |-> [message |-> message, part |-> p]]

HeloUnread == \E k \in 1..Len(wire) : kinds[wire[k].message] = "helo"

(* The client writes a message. *)
Write(kind) ==
  /\ Len(kinds) < MaxMessages
  /\ disciplined => Len(answers) = Len(kinds)
  /\ kinds' = Append(kinds, kind)
  /\ wire' = wire \o PiecesOf(Len(kinds) + 1)
  /\ hasty' = hasty \cup (IF HeloUnread THEN {Len(kinds) + 1} ELSE {})
  /\ UNCHANGED <<m_heloParsed, handled, answers, disciplined>>

-----------------------------------------------------------------------------
AnswerWith(kind, data) ==
  answers' = Append(answers, [kind  |-> kind,
                              first |-> Head(data).message, read |-> Last(data).message])

NothingIsHelo(data) == FALSE

HoldsHelo(data) == \E k \in 1..Len(data) : kinds[data[k].message] = "helo"

(* length >= 4, and the first four bytes are 0x00C0FFEE *)
StartsWithHelo(data) ==
  /\ kinds[Head(data).message] = "helo"
  /\ IsPrefix(PiecesOf(Head(data).message), data)

IsSomeRequest(data) == kinds[Head(data).message] = "request"

(* JSON::parse accepts one object and nothing after it. *)
IsOneRequest(data) ==
  /\ kinds[Head(data).message] = "request"
  /\ data = PiecesOf(Head(data).message)

Greet(data) ==
  /\ StartsWithHelo(data)
  /\ m_heloParsed' = TRUE
  /\ AnswerWith("helo", data)
  /\ UNCHANGED handled

MustGreetNever(data) == FALSE

MustGreet(data) == ~m_heloParsed

Refuse(data) ==
  /\ ~StartsWithHelo(data)
  /\ MustGreet(data)
  /\ AnswerWith("400 HELO was not received", data)
  /\ UNCHANGED <<m_heloParsed, handled>>

(* ParseMsg *)
Malformed(data) ==
  /\ ~StartsWithHelo(data) /\ ~MustGreet(data)
  /\ ~IsOneRequest(data)
  /\ AnswerWith("400 JSON malformed", data)
  /\ UNCHANGED <<m_heloParsed, handled>>

Handle(data) ==
  /\ ~StartsWithHelo(data) /\ ~MustGreet(data)
  /\ IsOneRequest(data)
  /\ handled' = Append(handled, Head(data).message)
  /\ AnswerWith("answered", data)
  /\ UNCHANGED m_heloParsed

(* What is left to read after n pieces; nothing puts them back. *)
Unread(n) == SubSeq(wire, n + 1, Len(wire))

(* One read returns the first n pieces; its DataEvent is handled. *)
DataEvent(n) ==
  LET data == SubSeq(wire, 1, n) IN
  /\ disciplined => wire[n].part = Parts
  /\ Greet(data) \/ Refuse(data) \/ Malformed(data) \/ Handle(data)
  /\ wire' = Unread(n)
  /\ UNCHANGED <<kinds, disciplined, hasty>>

Read == \E n \in 1..MaxRead : n <= Len(wire) /\ DataEvent(n)

Next == (\E kind \in {"helo", "request"} : Write(kind)) \/ Read

(* The loop keeps polling the socket: what was written is read at last. *)
Spec == Init /\ [][Next]_vars /\ WF_vars(Read)

-----------------------------------------------------------------------------
(* Types of the stream and of the handler's state. *)
TypeOK ==
  /\ kinds \in Seq({"helo", "request"}) /\ Len(kinds) <= MaxMessages
  /\ wire \in Seq(Piece)
  /\ m_heloParsed \in BOOLEAN
  /\ handled \in Seq(1..MaxMessages)
  /\ answers \in Seq(Answer)
  /\ disciplined \in BOOLEAN
  /\ hasty \subseteq 1..MaxMessages

(* However the stream is cut, a request is handled only after a HELO that   *)
(* the client wrote before it.                                              *)
HandledAfterHelo ==
  \A i \in 1..Len(handled) : \E j \in 1..(handled[i] - 1) : kinds[j] = "helo"

(* However the stream is cut, no request is handled twice or out of order,  *)
(* and none while bytes written before it are unread.                       *)
HandledOnceInOrder ==
  /\ \A i, j \in 1..Len(handled) : i < j => handled[i] < handled[j]
  /\ \A i \in 1..Len(handled) : \A k \in 1..Len(wire) : handled[i] < wire[k].message

(* A client that waits for the answer to each message, over a connection    *)
(* that does not cut them, can pair answers with messages in their order.   *)
AnswersPaired ==
  disciplined =>
    \A k \in 1..Len(answers) :
      /\ answers[k].read = k
      /\ answers[k].kind # "400 JSON malformed"
      /\ answers[k].kind = "helo" <=> kinds[k] = "helo"

(* A HELO swallows what the same read has of the messages behind it.  A     *)
(* request is lost without a word only to a client in haste, that wrote it  *)
(* while a HELO was unread: of any other that was read, whole or in parts,  *)
(* the client is told something, handled or refused.                        *)
ToldUnlessHasty ==
  \A j \in 1..Len(kinds) :
    /\ kinds[j] = "request" /\ j \notin hasty
    /\ \A k \in 1..Len(wire) : wire[k].message # j
    => \E k \in 1..Len(answers) :
         answers[k].kind # "helo" /\ j \in answers[k].first..answers[k].read

(* To a disciplined client every request it writes after its HELO is, at    *)
(* last, handled.                                                           *)
RequestsHandled ==
  \A i, j \in 1..MaxMessages :
    (disciplined /\ i < j /\ j <= Len(kinds) /\ kinds[i] = "helo" /\ kinds[j] = "request")
      ~> (\E k \in 1..Len(handled) : handled[k] = j)

(* "JSON malformed" is what the server answers when a message is no JSON.   *)
(* A client that says HELO, waits until it was read, and from then on       *)
(* writes requests only, writes no such message.                            *)
MalformedIsMalformed ==
  (hasty = {} /\ \A j \in 2..Len(kinds) : kinds[j] = "request") =>
    \A k \in 1..Len(answers) : answers[k].kind # "400 JSON malformed"
=============================================================================

----------------------------- MODULE StreamProofs -----------------------------
(***************************************************************************)
(* Theorems about MessageStream, for messages of any number of pieces,     *)
(* reads of any size and any number of messages.  Two facts carry the      *)
(* proof.  The unread pieces are in the order they were written, so what   *)
(* a read leaves lies behind what it returned (lemma Behind).  And a read  *)
(* that returns all pieces of a message leaves none of that message        *)
(* (lemma WholeRead), which is when a request is handled or a HELO seen.   *)
(* And who has pieces behind an unread HELO wrote them in haste, so that   *)
(* a read that begins with a HELO has no others (HastyBehindHelo).         *)
(***************************************************************************)
EXTENDS MessageStream, TLAPS, SequenceTheorems

(* The unread pieces are of messages the client wrote, ... *)
WireWritten == \A k \in 1..Len(wire) : wire[k].message <= Len(kinds)

(* ... and stand in the order it wrote them. *)
Precedes(p, q) == p.message < q.message \/ (p.message = q.message /\ p.part < q.part)

WireInOrder == \A k, l \in 1..Len(wire) : k < l => Precedes(wire[k], wire[l])

HandledWritten == \A i \in 1..Len(handled) : handled[i] <= Len(kinds)

(* Who has written behind an unread HELO has been hasty. *)
HastyBehindHelo ==
  /\ \A j \in hasty : j <= Len(kinds)
  /\ \A k, l \in 1..Len(wire) :
       kinds[wire[k].message] = "helo" /\ wire[k].message < wire[l].message
         => wire[l].message \in hasty

(* The HELO that set m_heloParsed was written before all that is unread. *)
Greeted ==
  m_heloParsed =>
    \E j \in 1..Len(kinds) :
      kinds[j] = "helo" /\ \A k \in 1..Len(wire) : j < wire[k].message

(* With a disciplined client, the message that is unanswered is unread. *)
OneUnanswered ==
  disciplined =>
    \/ Len(answers) = Len(kinds) /\ wire = <<>>
    \/ Len(kinds) = Len(answers) + 1 /\ wire = PiecesOf(Len(kinds))

StreamInv ==
  /\ TypeOK
  /\ WireWritten /\ WireInOrder /\ HandledWritten /\ Greeted /\ OneUnanswered
  /\ HastyBehindHelo
  /\ HandledAfterHelo /\ HandledOnceInOrder /\ AnswersPaired /\ ToldUnlessHasty

-----------------------------------------------------------------------------
(* The pieces of a message; what a Write appends; what a read returns and leaves. *)
LEMMA PiecesType ==
  ASSUME NEW m \in 1..MaxMessages
  PROVE  /\ PiecesOf(m) \in Seq(Piece)
         /\ Len(PiecesOf(m)) = Parts
         /\ \A p \in 1..Parts : PiecesOf(m)[p] = [message |-> m, part |-> p]
<1>1. PiecesOf(m) \in [1..Parts -> Piece]
  BY DEF PiecesOf, Piece
<1> QED
  BY <1>1, StreamAssumption DEF PiecesOf

LEMMA Appended ==
  ASSUME NEW S, NEW s \in Seq(S), NEW e \in S, NEW k \in 1..Len(Append(s, e))
  PROVE  \/ k \in 1..Len(s) /\ Append(s, e)[k] = s[k]
         \/ k = Len(s) + 1 /\ Append(s, e)[k] = e
<1>1. /\ Len(Append(s, e)) = Len(s) + 1 /\ Len(s) \in Nat
      /\ \A i \in 1..Len(s) : Append(s, e)[i] = s[i]
      /\ Append(s, e)[Len(s) + 1] = e
  BY AppendProperties, LenProperties
<1>2. k \in 1..(Len(s) + 1)
  BY <1>1
<1>3. k \in 1..Len(s) \/ k = Len(s) + 1
  BY <1>1, <1>2
<1> QED
  BY <1>1, <1>3

LEMMA WrittenWire ==
  ASSUME TypeOK, NEW m \in 1..MaxMessages
  PROVE  LET w == wire \o PiecesOf(m) IN
         /\ w \in Seq(Piece)
         /\ Len(w) = Len(wire) + Parts
         /\ \A k \in 1..Len(w) :
              \/ k \in 1..Len(wire) /\ w[k] = wire[k]
              \/ k \notin 1..Len(wire) /\ w[k] = [message |-> m, part |-> k - Len(wire)]
<1> DEFINE w == wire \o PiecesOf(m)
<1>1. /\ PiecesOf(m) \in Seq(Piece) /\ Len(PiecesOf(m)) = Parts
      /\ \A p \in 1..Parts : PiecesOf(m)[p] = [message |-> m, part |-> p]
  BY PiecesType
<1>2. wire \in Seq(Piece) /\ Len(wire) \in Nat /\ Parts \in Nat
  BY LenProperties, StreamAssumption DEF TypeOK
<1>3. /\ w \in Seq(Piece)
      /\ Len(w) = Len(wire) + Parts
      /\ \A i \in 1..(Len(wire) + Parts) :
           w[i] = IF i <= Len(wire) THEN wire[i] ELSE PiecesOf(m)[i - Len(wire)]
  BY <1>1, <1>2, ConcatProperties
<1>4. ASSUME NEW k \in 1..Len(w)
      PROVE  \/ k \in 1..Len(wire) /\ w[k] = wire[k]
             \/ k \notin 1..Len(wire) /\ w[k] = [message |-> m, part |-> k - Len(wire)]
  <2>1. CASE k <= Len(wire)
    BY <1>2, <1>3, <2>1
  <2>2. CASE ~(k <= Len(wire))
    <3>1. k - Len(wire) \in 1..Parts
      BY <1>2, <1>3, <2>2
    <3> QED
      BY <1>1, <1>2, <1>3, <2>2, <3>1
  <2> QED
    BY <2>1, <2>2
<1> QED
  BY <1>3, <1>4

LEMMA ReadSplits ==
  ASSUME TypeOK, NEW n \in 1..Len(wire)
  PROVE  LET data == SubSeq(wire, 1, n) IN
         /\ data \in Seq(Piece) /\ Len(data) = n
         /\ \A k \in 1..n : data[k] = wire[k]
         /\ Head(data) = wire[1] /\ Last(data) = wire[n]
         /\ Unread(n) \in Seq(Piece) /\ Len(Unread(n)) = Len(wire) - n
         /\ \A k \in 1..Len(Unread(n)) : n + k \in 1..Len(wire) /\ Unread(n)[k] = wire[n + k]
<1> DEFINE data == SubSeq(wire, 1, n)
<1>1. wire \in Seq(Piece) /\ Len(wire) \in Nat
  BY LenProperties DEF TypeOK
<1>2. \A k \in 1..Len(wire) : wire[k] \in Piece
  BY <1>1, ElementOfSeq
<1>3. /\ data \in Seq(Piece) /\ Len(data) = n
      /\ \A k \in 1..n : data[k] = wire[k]
  <2>1. \A k \in 1..n : wire[k] \in Piece
    BY <1>1, <1>2
  <2>2. /\ data \in Seq(Piece)
        /\ Len(data) = IF 1 <= n THEN n - 1 + 1 ELSE 0
        /\ \A k \in 1..(n - 1 + 1) : data[k] = wire[1 + k - 1]
    BY <2>1, <1>1, SubSeqProperties
  <2> QED
    BY <2>2, <1>1
<1>4. Head(data) = wire[1]
  BY <1>1, HeadTailOfSubSeq
<1>5. Last(data) = wire[n]
  BY <1>1, <1>3 DEF Last
<1>6. /\ Unread(n) \in Seq(Piece) /\ Len(Unread(n)) = Len(wire) - n
      /\ \A k \in 1..(Len(wire) - n) : Unread(n)[k] = wire[n + k]
  <2>1. \A k \in (n + 1)..Len(wire) : wire[k] \in Piece
    BY <1>1, <1>2
  <2> DEFINE u == SubSeq(wire, n + 1, Len(wire))
  <2>2. /\ u \in Seq(Piece)
        /\ Len(u) = IF n + 1 <= Len(wire) THEN Len(wire) - (n + 1) + 1 ELSE 0
        /\ \A k \in 1..(Len(wire) - (n + 1) + 1) : u[k] = wire[(n + 1) + k - 1]
    BY <2>1, <1>1, SubSeqProperties
  <2>3. Unread(n) = u
    BY DEF Unread
  <2> QED
    BY <2>2, <2>3, <1>1
<1>7. ASSUME NEW k \in 1..Len(Unread(n))
      PROVE  n + k \in 1..Len(wire) /\ Unread(n)[k] = wire[n + k]
  <2>1. k \in 1..(Len(wire) - n)
    BY <1>6
  <2>2. n + k \in 1..Len(wire)
    BY <2>1, <1>1
  <2> QED
    BY <2>1, <2>2, <1>6
<1> HIDE DEF data
<1>8. /\ data \in Seq(Piece) /\ Len(data) = n
      /\ \A k \in 1..n : data[k] = wire[k]
      /\ Head(data) = wire[1] /\ Last(data) = wire[n]
  BY <1>3, <1>4, <1>5
<1> QED
  BY <1>6, <1>7, <1>8 DEF data

(* What stays unread after a read is not before what the read returned. *)
LEMMA Behind ==
  ASSUME TypeOK, WireInOrder, NEW n \in 1..Len(wire)
  PROVE  /\ \A i \in 1..n, k \in 1..Len(Unread(n)) : Precedes(wire[i], Unread(n)[k])
         /\ \A k, l \in 1..Len(Unread(n)) : k < l => Precedes(Unread(n)[k], Unread(n)[l])
<1>1. /\ Len(wire) \in Nat
      /\ Len(Unread(n)) = Len(wire) - n
      /\ \A k \in 1..Len(Unread(n)) : n + k \in 1..Len(wire) /\ Unread(n)[k] = wire[n + k]
  BY ReadSplits, LenProperties DEF TypeOK
<1>2. ASSUME NEW i \in 1..n, NEW k \in 1..Len(Unread(n))
      PROVE  Precedes(wire[i], Unread(n)[k])
  <2>1. i \in 1..Len(wire) /\ n + k \in 1..Len(wire) /\ i < n + k
    BY <1>1
  <2> QED
    BY <1>1, <2>1 DEF WireInOrder
<1>3. ASSUME NEW k \in 1..Len(Unread(n)), NEW l \in 1..Len(Unread(n)), k < l
      PROVE  Precedes(Unread(n)[k], Unread(n)[l])
  <2>1. n + k \in 1..Len(wire) /\ n + l \in 1..Len(wire) /\ n + k < n + l
    BY <1>1, <1>3
  <2> QED
    BY <1>1, <2>1 DEF WireInOrder
<1> QED
  BY <1>2, <1>3

(* A read that returns the last piece of its first message leaves later ones. *)
LEMMA WholeRead ==
  ASSUME TypeOK, WireInOrder, NEW n \in 1..Len(wire),
         NEW i \in 1..n, wire[i] = [message |-> wire[1].message, part |-> Parts]
  PROVE  \A k \in 1..Len(Unread(n)) : wire[1].message < Unread(n)[k].message
<1> TAKE k \in 1..Len(Unread(n))
<1>1. Precedes(wire[i], Unread(n)[k])
  BY Behind
<1>2. Unread(n) \in Seq(Piece)
  BY ReadSplits
<1>3. Unread(n)[k] \in Piece
  BY <1>2, ElementOfSeq
<1>4. Unread(n)[k].part <= Parts
  BY <1>3, StreamAssumption DEF Piece
<1>5. ~(Parts < Unread(n)[k].part)
  BY <1>3, <1>4, StreamAssumption DEF Piece
<1> QED
  BY <1>1, <1>5 DEF Precedes

-----------------------------------------------------------------------------
LEMMA StreamInvInit ==
  ASSUME Init
  PROVE  StreamInv
<1>1. TypeOK
  <2>1. /\ <<>> \in Seq({"helo", "request"}) /\ <<>> \in Seq(Piece)
        /\ <<>> \in Seq(1..MaxMessages) /\ <<>> \in Seq(Answer)
    BY EmptySeq
  <2>2. Len(kinds) = 0 /\ 0 <= MaxMessages
    BY StreamAssumption DEF Init
  <2>3. /\ kinds \in Seq({"helo", "request"}) /\ wire \in Seq(Piece)
        /\ handled \in Seq(1..MaxMessages) /\ answers \in Seq(Answer)
        /\ m_heloParsed \in BOOLEAN /\ disciplined \in BOOLEAN /\ hasty = {}
    BY <2>1 DEF Init
  <2> QED
    BY <2>2, <2>3 DEF TypeOK
<1>2. Len(wire) = 0 /\ Len(handled) = 0 /\ Len(answers) = 0 /\ Len(kinds) = 0
  BY DEF Init
<1>3. ~m_heloParsed /\ wire = <<>> /\ hasty = {}
  BY DEF Init
<1> QED
  BY <1>1, <1>2, <1>3
     DEF StreamInv, WireWritten, WireInOrder, HandledWritten, Greeted, OneUnanswered,
         HastyBehindHelo, HandledAfterHelo, HandledOnceInOrder, AnswersPaired,
         ToldUnlessHasty

(* The client writes: its pieces come behind all others. *)
LEMMA WriteStep ==
  ASSUME StreamInv, NEW kind \in {"helo", "request"}, Write(kind)
  PROVE  StreamInv'
<1> DEFINE m == Len(kinds) + 1
<1>1. /\ TypeOK /\ kinds \in Seq({"helo", "request"}) /\ Len(kinds) \in Nat
      /\ Len(wire) \in Nat /\ Parts \in Nat \ {0} /\ MaxMessages \in Nat
      /\ Len(kinds) < MaxMessages
  BY LenProperties, StreamAssumption DEF StreamInv, TypeOK, Write
<1>2. m \in 1..MaxMessages
  BY <1>1
<1>3. /\ wire' \in Seq(Piece)
      /\ Len(wire') = Len(wire) + Parts
      /\ \A k \in 1..Len(wire') :
           \/ k \in 1..Len(wire) /\ wire'[k] = wire[k]
           \/ k \notin 1..Len(wire) /\ wire'[k] = [message |-> m, part |-> k - Len(wire)]
  BY <1>1, <1>2, WrittenWire DEF Write
<1>4. /\ kinds' \in Seq({"helo", "request"}) /\ Len(kinds') = m
      /\ kinds'[m] = kind
      /\ \A j \in 1..Len(kinds) : kinds'[j] = kinds[j]
  BY <1>1, AppendProperties DEF Write
<1>5. UNCHANGED <<m_heloParsed, handled, answers, disciplined>>
  BY DEF Write
<1>6. /\ handled \in Seq(1..MaxMessages) /\ Len(handled) \in Nat
      /\ \A i \in 1..Len(handled) : handled[i] \in 1..MaxMessages
  BY LenProperties, ElementOfSeq DEF StreamInv, TypeOK
<1>7. \A k \in 1..Len(wire) : wire[k] \in Piece
  BY ElementOfSeq DEF StreamInv, TypeOK
<1> HIDE DEF m
<1>8. m = Len(kinds) + 1
  BY DEF m
<1>9. hasty' = hasty \cup (IF HeloUnread THEN {m} ELSE {})
  BY <1>8 DEF Write
<1>10. TypeOK'
  BY <1>1, <1>2, <1>3, <1>4, <1>5, <1>9 DEF TypeOK
<1>11. \A k \in 1..Len(wire) : wire[k].message < m /\ wire[k].message \in Nat
  <2>1. ASSUME NEW k \in 1..Len(wire)
        PROVE  wire[k].message \in Nat /\ wire[k].message <= Len(kinds)
    BY <1>7 DEF StreamInv, WireWritten, Piece
  <2> QED
    BY <1>1, <1>8, <2>1
<1>12. WireWritten'
  <2>1. ASSUME NEW k \in 1..Len(wire')
        PROVE  wire'[k].message <= m
    <3>1. m \in Nat
      BY <1>1, <1>8
    <3>2. CASE k \in 1..Len(wire)
      BY <1>3, <1>11, <3>1, <3>2
    <3>3. CASE k \notin 1..Len(wire)
      BY <1>3, <3>1, <3>3
    <3> QED
      BY <3>2, <3>3
  <2> QED
    BY <1>4, <2>1 DEF WireWritten
<1>13. WireInOrder'
  <2> SUFFICES ASSUME NEW k \in 1..Len(wire'), NEW l \in 1..Len(wire'), k < l
               PROVE  Precedes(wire'[k], wire'[l])
    BY DEF WireInOrder, Precedes
  <2>1. CASE l \in 1..Len(wire)
    <3>1. k \in 1..Len(wire)
      BY <1>1, <1>3, <2>1
    <3>2. wire'[k] = wire[k] /\ wire'[l] = wire[l]
      BY <1>3, <2>1, <3>1
    <3> QED
      BY <2>1, <3>1, <3>2 DEF StreamInv, WireInOrder
  <2>2. CASE l \notin 1..Len(wire) /\ k \in 1..Len(wire)
    <3>1. wire'[k] = wire[k] /\ wire'[l].message = m
      BY <1>3, <2>2
    <3> QED
      BY <1>11, <2>2, <3>1 DEF Precedes
  <2>3. CASE l \notin 1..Len(wire) /\ k \notin 1..Len(wire)
    <3>1. /\ wire'[k].message = m /\ wire'[k].part = k - Len(wire)
          /\ wire'[l].message = m /\ wire'[l].part = l - Len(wire)
      BY <1>3, <2>3
    <3>2. k - Len(wire) < l - Len(wire)
      BY <1>1, <1>3
    <3> QED
      BY <3>1, <3>2 DEF Precedes
  <2> QED
    BY <2>1, <2>2, <2>3
<1>14. HandledWritten'
  BY <1>1, <1>4, <1>5, <1>6, <1>8 DEF StreamInv, HandledWritten
<1>15. Greeted'
  <2> SUFFICES ASSUME m_heloParsed
               PROVE  \E j \in 1..Len(kinds') :
                        kinds'[j] = "helo" /\ \A k \in 1..Len(wire') : j < wire'[k].message
    BY <1>5 DEF Greeted
  <2>1. PICK j \in 1..Len(kinds) :
          kinds[j] = "helo" /\ \A k \in 1..Len(wire) : j < wire[k].message
    BY DEF StreamInv, Greeted
  <2>2. j \in 1..Len(kinds') /\ kinds'[j] = "helo" /\ j < m
    BY <1>1, <1>4, <1>8, <2>1
  <2>3. \A k \in 1..Len(wire') : j < wire'[k].message
    BY <1>3, <2>1, <2>2
  <2> QED
    BY <2>2, <2>3
<1>16. OneUnanswered'
  <2> SUFFICES ASSUME disciplined
               PROVE  Len(kinds') = Len(answers) + 1 /\ wire' = PiecesOf(Len(kinds'))
    BY <1>5 DEF OneUnanswered, PiecesOf
  <2>1. Len(answers) = Len(kinds)
    BY DEF Write
  <2>2. wire = <<>>
    BY <1>1, <2>1 DEF StreamInv, OneUnanswered
  <2>3. PiecesOf(m) \in Seq(Piece)
    BY <1>2, PiecesType
  <2>4. wire' = PiecesOf(m)
    BY <1>8, <2>2, <2>3, ConcatEmptySeq DEF Write
  <2> QED
    BY <1>4, <1>8, <2>1, <2>4
<1>17. HandledAfterHelo'
  <2> SUFFICES ASSUME NEW i \in 1..Len(handled)
               PROVE  \E j \in 1..(handled[i] - 1) : kinds'[j] = "helo"
    BY <1>5 DEF HandledAfterHelo
  <2>1. PICK j \in 1..(handled[i] - 1) : kinds[j] = "helo"
    BY DEF StreamInv, HandledAfterHelo
  <2>2. j \in 1..Len(kinds)
    BY <1>1, <1>6 DEF StreamInv, HandledWritten
  <2> QED
    BY <1>4, <2>1, <2>2
<1>18. HandledOnceInOrder'
  <2>1. \A i \in 1..Len(handled) : \A k \in 1..Len(wire') : handled[i] < wire'[k].message
    <3> TAKE i \in 1..Len(handled)
    <3> TAKE k \in 1..Len(wire')
    <3>1. CASE k \in 1..Len(wire)
      <4>1. wire'[k] = wire[k]
        BY <1>3, <3>1
      <4> QED
        BY <3>1, <4>1 DEF StreamInv, HandledOnceInOrder
    <3>2. CASE k \notin 1..Len(wire)
      <4>1. wire'[k].message = m
        BY <1>3, <3>2
      <4>2. handled[i] < m
        BY <1>1, <1>6, <1>8 DEF StreamInv, HandledWritten
      <4> QED
        BY <4>1, <4>2
    <3> QED
      BY <3>1, <3>2
  <2> QED
    BY <1>5, <2>1 DEF StreamInv, HandledOnceInOrder
<1>19. AnswersPaired'
  <2> SUFFICES ASSUME disciplined, NEW k \in 1..Len(answers)
               PROVE  /\ answers[k].read = k
                      /\ answers[k].kind # "400 JSON malformed"
                      /\ answers[k].kind = "helo" <=> kinds'[k] = "helo"
    BY <1>5 DEF AnswersPaired
  <2>1. k \in 1..Len(kinds)
    BY DEF Write
  <2>2. kinds'[k] = kinds[k]
    BY <1>4, <2>1
  <2> QED
    BY <2>2 DEF StreamInv, AnswersPaired
<1>20. HastyBehindHelo'
  <2>1. \A j \in hasty' : j <= Len(kinds')
    BY <1>1, <1>2, <1>4, <1>8, <1>9 DEF StreamInv, TypeOK, HastyBehindHelo
  <2>2. ASSUME NEW k \in 1..Len(wire'), NEW l \in 1..Len(wire'),
               kinds'[wire'[k].message] = "helo", wire'[k].message < wire'[l].message
        PROVE  wire'[l].message \in hasty'
    <3>1. k \in 1..Len(wire) /\ wire'[k] = wire[k]
      <4>1. CASE k \notin 1..Len(wire)
        <5>1. wire'[k].message = m
          BY <1>3, <4>1
        <5>2. wire'[l].message <= m
          BY <1>4, <1>12 DEF WireWritten
        <5>3. wire'[l] \in Piece
          BY <1>3, ElementOfSeq
        <5>4. wire'[l].message \in Nat
          BY <5>3 DEF Piece
        <5> QED
          BY <1>2, <2>2, <5>1, <5>2, <5>4
      <4> QED
        BY <1>3, <4>1
    <3>2. wire[k] \in Piece /\ wire[k].message \in 1..Len(kinds)
      BY <1>1, <1>7, <3>1 DEF StreamInv, WireWritten, Piece
    <3>3. kinds[wire[k].message] = "helo"
      BY <1>4, <2>2, <3>1, <3>2
    <3>4. CASE l \in 1..Len(wire)
      <4>1. wire'[l] = wire[l]
        BY <1>3, <3>4
      <4> QED
        BY <1>9, <2>2, <3>1, <3>3, <3>4, <4>1 DEF StreamInv, HastyBehindHelo
    <3>5. CASE l \notin 1..Len(wire)
      <4>1. wire'[l].message = m
        BY <1>3, <3>5
      <4>2. HeloUnread
        BY <3>1, <3>3 DEF HeloUnread
      <4> QED
        BY <1>9, <4>1, <4>2
    <3> QED
      BY <3>4, <3>5
  <2> QED
    BY <2>1, <2>2 DEF HastyBehindHelo
<1>21. ToldUnlessHasty'
  <2> SUFFICES ASSUME NEW j \in 1..Len(kinds'), kinds'[j] = "request", j \notin hasty',
                      \A k \in 1..Len(wire') : wire'[k].message # j
               PROVE  \E k \in 1..Len(answers) :
                        answers[k].kind # "helo" /\ j \in answers[k].first..answers[k].read
    BY <1>5 DEF ToldUnlessHasty
  <2>1. j # m
    <3>1. Len(wire) + 1 \in 1..Len(wire') /\ Len(wire) + 1 \notin 1..Len(wire)
      BY <1>1, <1>3
    <3>2. wire'[Len(wire) + 1].message = m
      BY <1>3, <3>1
    <3> QED
      BY <3>1, <3>2
  <2>2. j \in 1..Len(kinds) /\ kinds[j] = "request" /\ j \notin hasty
    BY <1>1, <1>4, <1>8, <1>9, <2>1
  <2>3. \A k \in 1..Len(wire) : wire[k].message # j
    <3> TAKE k \in 1..Len(wire)
    <3>1. k \in 1..Len(wire') /\ wire'[k] = wire[k]
      BY <1>1, <1>3
    <3> QED
      BY <3>1
  <2> QED
    BY <2>2, <2>3 DEF StreamInv, ToldUnlessHasty
<1> QED
  BY <1>10, <1>12, <1>13, <1>14, <1>15, <1>16, <1>17, <1>18, <1>19, <1>20, <1>21 DEF StreamInv

-----------------------------------------------------------------------------
(* What a read of n pieces does, whichever way its DataEvent is handled. *)
LEMMA ReadEffect ==
  ASSUME StreamInv, NEW n \in 1..Len(wire), DataEvent(n)
  PROVE  /\ wire' = Unread(n) /\ UNCHANGED <<kinds, disciplined, hasty>>
         /\ \E kind \in {"helo", "400 HELO was not received", "400 JSON malformed",
                         "answered"} :
              /\ answers' = Append(answers, [kind |-> kind, first |-> wire[1].message,
                                             read |-> wire[n].message])
              /\ kind = "helo" => kinds[wire[1].message] = "helo"
         /\ \/ UNCHANGED <<m_heloParsed, handled>>
            \/ /\ m_heloParsed' = TRUE /\ UNCHANGED handled
               /\ kinds[wire[1].message] = "helo"
               /\ \E i \in 1..n : wire[i] = [message |-> wire[1].message, part |-> Parts]
            \/ /\ m_heloParsed /\ UNCHANGED m_heloParsed
               /\ handled' = Append(handled, wire[1].message)
               /\ \E i \in 1..n : wire[i] = [message |-> wire[1].message, part |-> Parts]
<1> DEFINE data == SubSeq(wire, 1, n)
<1> DEFINE m == wire[1].message
<1>1. /\ data \in Seq(Piece) /\ Len(data) = n
      /\ \A k \in 1..n : data[k] = wire[k]
      /\ Head(data) = wire[1] /\ Last(data) = wire[n]
  BY ReadSplits DEF StreamInv
<1>2. wire[1] \in Piece /\ Len(wire) \in Nat
  BY ElementOfSeq, LenProperties DEF StreamInv, TypeOK
<1>3. m \in 1..MaxMessages
  BY <1>2 DEF Piece
<1>4. /\ PiecesOf(m) \in Seq(Piece) /\ Len(PiecesOf(m)) = Parts
      /\ PiecesOf(m)[Parts] = [message |-> m, part |-> Parts]
      /\ Parts \in Nat \ {0}
  BY <1>3, PiecesType, StreamAssumption
<1>5. ASSUME IsPrefix(PiecesOf(m), data)
      PROVE  Parts \in 1..n /\ wire[Parts] = [message |-> m, part |-> Parts]
  <2>1. Parts \in 1..n /\ SubSeq(PiecesOf(m), 1, Parts) = SubSeq(data, 1, Parts)
    BY <1>1, <1>2, <1>4, <1>5 DEF IsPrefix
  <2>2. SubSeq(PiecesOf(m), 1, Parts) = PiecesOf(m)
    BY <1>4, SubSeqFull
  <2>3. \A i \in 1..Parts : data[i] \in Piece
    BY <1>1, <2>1, ElementOfSeq
  <2>4. SubSeq(data, 1, Parts)[Parts] = data[Parts]
    <3> HIDE DEF data
    <3>1. \A i \in 1..(Parts - 1 + 1) : SubSeq(data, 1, Parts)[i] = data[1 + i - 1]
      BY <1>4, <2>3, SubSeqProperties
    <3>2. Parts \in 1..(Parts - 1 + 1) /\ 1 + Parts - 1 = Parts
      BY <1>4
    <3> QED
      BY <3>1, <3>2
  <2> QED
    BY <1>1, <1>4, <2>1, <2>2, <2>4
<1>6. ASSUME data = PiecesOf(m)
      PROVE  Parts \in 1..n /\ wire[Parts] = [message |-> m, part |-> Parts]
  BY <1>1, <1>4, <1>6
<1> HIDE DEF data
<1>7. /\ wire' = Unread(n) /\ UNCHANGED <<kinds, disciplined, hasty>>
      /\ Greet(data) \/ Refuse(data) \/ Malformed(data) \/ Handle(data)
  BY DEF DataEvent, data
<1>8. CASE Greet(data)
  BY <1>1, <1>5, <1>7, <1>8 DEF Greet, StartsWithHelo, AnswerWith
<1>9. CASE Refuse(data)
  BY <1>1, <1>7, <1>9 DEF Refuse, AnswerWith
<1>10. CASE Malformed(data)
  BY <1>1, <1>7, <1>10 DEF Malformed, AnswerWith
<1>11. CASE Handle(data)
  BY <1>1, <1>6, <1>7, <1>11 DEF Handle, MustGreet, IsOneRequest, AnswerWith
<1> QED
  BY <1>7, <1>8, <1>9, <1>10, <1>11

(* With a disciplined client, what a read returns is the unanswered message. *)
LEMMA DisciplinedRead ==
  ASSUME StreamInv, NEW n \in 1..Len(wire), DataEvent(n), disciplined
  PROVE  /\ wire' = <<>> /\ Len(kinds) = Len(answers) + 1
         /\ wire[n].message = Len(kinds)
         /\ \E kind \in {"helo", "400 HELO was not received", "answered"} :
              /\ answers' = Append(answers, [kind |-> kind, first |-> Len(kinds),
                                             read |-> Len(kinds)])
              /\ kind = "helo" <=> kinds[Len(kinds)] = "helo"
<1> DEFINE m == Len(kinds)
<1> DEFINE data == SubSeq(wire, 1, n)
<1>1. wire \in Seq(Piece) /\ Len(wire) \in Nat /\ Len(kinds) \in Nat
  BY LenProperties DEF StreamInv, TypeOK
<1>2. wire # <<>>
  BY <1>1, EmptySeq
<1>3. Len(kinds) = Len(answers) + 1 /\ wire = PiecesOf(m)
  BY <1>2 DEF StreamInv, OneUnanswered
<1>4. m \in 1..MaxMessages
  <2>1. Len(answers) \in Nat /\ Len(kinds) <= MaxMessages /\ MaxMessages \in Nat
    BY LenProperties, StreamAssumption DEF StreamInv, TypeOK
  <2> QED
    BY <1>1, <1>3, <2>1
<1>5. /\ Len(wire) = Parts
      /\ \A p \in 1..Parts : wire[p] = [message |-> m, part |-> p]
      /\ Parts \in Nat \ {0}
  BY <1>3, <1>4, PiecesType, StreamAssumption
<1>6. n = Parts
  BY <1>5 DEF DataEvent
<1>7. data = wire
  BY <1>1, <1>5, <1>6, SubSeqFull
<1>8. Head(data).message = m /\ Last(data).message = m
  <2>1. Head(data) = wire[1] /\ Last(data) = wire[n]
    BY ReadSplits DEF StreamInv
  <2>2. wire[1].message = m /\ wire[n].message = m
    BY <1>5, <1>6
  <2> QED
    BY <2>1, <2>2
<1>9. data = PiecesOf(Head(data).message)
  BY <1>3, <1>7, <1>8
<1>10. IsPrefix(PiecesOf(Head(data).message), data)
  BY <1>1, <1>7, <1>9 DEF IsPrefix
<1>11. kinds[m] \in {"helo", "request"}
  BY <1>4, ElementOfSeq DEF StreamInv, TypeOK
<1>12. wire' = <<>>
  <2>1. wire' = Unread(n) /\ Unread(n) \in Seq(Piece) /\ Len(Unread(n)) = 0
    BY <1>5, <1>6, ReadSplits DEF StreamInv, DataEvent
  <2> QED
    BY <2>1, EmptySeq
<1>13. wire[n].message = m
  BY <1>5, <1>6
<1> HIDE DEF data, m
<1>14. \E kind \in {"helo", "400 HELO was not received", "answered"} :
         /\ answers' = Append(answers, [kind |-> kind, first |-> m, read |-> m])
         /\ kind = "helo" <=> kinds[m] = "helo"
  <2>1. Greet(data) \/ Refuse(data) \/ Malformed(data) \/ Handle(data)
    BY DEF DataEvent, data
  <2>2. StartsWithHelo(data) <=> kinds[m] = "helo"
    BY <1>8, <1>10 DEF StartsWithHelo
  <2>3. kinds[m] = "request" => IsOneRequest(data)
    BY <1>8, <1>9 DEF IsOneRequest
  <2>4. CASE Greet(data)
    BY <1>8, <2>2, <2>4 DEF Greet, AnswerWith
  <2>5. CASE Refuse(data)
    BY <1>8, <2>2, <2>5 DEF Refuse, AnswerWith
  <2>6. CASE Malformed(data)
    BY <1>11, <2>2, <2>3, <2>6 DEF Malformed
  <2>7. CASE Handle(data)
    BY <1>8, <2>2, <2>7 DEF Handle, AnswerWith
  <2> QED
    BY <2>1, <2>4, <2>5, <2>6, <2>7
<1> QED
  BY <1>3, <1>12, <1>14, <1>13 DEF m

(* What a read leaves: the facts about wire, whatever is done with the rest. *)
LEMMA ReadLeaves ==
  ASSUME StreamInv, NEW n \in 1..Len(wire), wire' = Unread(n), UNCHANGED kinds
  PROVE  /\ wire' \in Seq(Piece)
         /\ \A k \in 1..Len(wire') : n + k \in 1..Len(wire) /\ wire'[k] = wire[n + k]
         /\ WireWritten' /\ WireInOrder'
<1>1. /\ wire' \in Seq(Piece)
      /\ \A k \in 1..Len(wire') : n + k \in 1..Len(wire) /\ wire'[k] = wire[n + k]
  BY ReadSplits DEF StreamInv
<1>2. WireWritten'
  BY <1>1 DEF StreamInv, WireWritten
<1>3. WireInOrder'
  BY Behind DEF StreamInv, WireInOrder, Precedes
<1> QED
  BY <1>1, <1>2, <1>3

LEMMA ReadStep ==
  ASSUME StreamInv, Read
  PROVE  StreamInv'
<1>1. PICK n \in 1..MaxRead : n <= Len(wire) /\ DataEvent(n)
  BY DEF Read
<1> DEFINE m == wire[1].message
<1>2. n \in 1..Len(wire) /\ Len(wire) \in Nat
  BY <1>1, StreamAssumption, LenProperties DEF StreamInv, TypeOK
<1>3. /\ wire[1] \in Piece /\ wire[n] \in Piece
      /\ m \in 1..MaxMessages /\ wire[n].message \in 1..MaxMessages
      /\ m <= Len(kinds) /\ Len(kinds) \in Nat
  <2>1. wire[1] \in Piece /\ wire[n] \in Piece
    BY <1>2, ElementOfSeq DEF StreamInv, TypeOK
  <2>2. 1 \in 1..Len(wire)
    BY <1>2
  <2> QED
    BY <2>1, <2>2, LenProperties DEF Piece, StreamInv, TypeOK, WireWritten
<1>4. /\ wire' = Unread(n) /\ UNCHANGED <<kinds, disciplined, hasty>>
      /\ \E kind \in {"helo", "400 HELO was not received", "400 JSON malformed",
                      "answered"} :
           /\ answers' = Append(answers, [kind |-> kind, first |-> m,
                                          read |-> wire[n].message])
           /\ kind = "helo" => kinds[m] = "helo"
      /\ \/ UNCHANGED <<m_heloParsed, handled>>
         \/ /\ m_heloParsed' = TRUE /\ UNCHANGED handled
            /\ kinds[m] = "helo"
            /\ \E i \in 1..n : wire[i] = [message |-> m, part |-> Parts]
         \/ /\ m_heloParsed /\ UNCHANGED m_heloParsed
            /\ handled' = Append(handled, m)
            /\ \E i \in 1..n : wire[i] = [message |-> m, part |-> Parts]
  BY <1>1, <1>2, ReadEffect
<1>5. /\ wire' \in Seq(Piece)
      /\ \A k \in 1..Len(wire') : n + k \in 1..Len(wire) /\ wire'[k] = wire[n + k]
      /\ WireWritten' /\ WireInOrder'
  BY <1>2, <1>4, ReadLeaves
<1>6. (\E i \in 1..n : wire[i] = [message |-> m, part |-> Parts])
        => \A k \in 1..Len(wire') : m < wire'[k].message
  BY <1>2, <1>4, WholeRead DEF StreamInv
<1>7. /\ handled \in Seq(1..MaxMessages) /\ Len(handled) \in Nat
      /\ \A i \in 1..Len(handled) : handled[i] \in 1..MaxMessages
  BY LenProperties, ElementOfSeq DEF StreamInv, TypeOK
<1>8. answers \in Seq(Answer) /\ Len(answers) \in Nat
  BY LenProperties DEF StreamInv, TypeOK
<1> HIDE DEF m
<1>9. /\ Append(handled, m) \in Seq(1..MaxMessages)
      /\ Len(Append(handled, m)) = Len(handled) + 1
      /\ \A i \in 1..Len(handled) : Append(handled, m)[i] = handled[i]
      /\ Append(handled, m)[Len(handled) + 1] = m
  BY <1>3, <1>7, AppendProperties
<1>10. TypeOK'
  <2>1. answers' \in Seq(Answer)
    <3>1. PICK kind \in {"helo", "400 HELO was not received", "400 JSON malformed",
                         "answered"} :
            answers' = Append(answers, [kind |-> kind, first |-> m,
                                        read |-> wire[n].message])
      BY <1>4
    <3>2. [kind |-> kind, first |-> m, read |-> wire[n].message] \in Answer
      BY <1>3 DEF Answer
    <3> QED
      BY <1>8, <3>1, <3>2, AppendProperties
  <2>2. handled' \in Seq(1..MaxMessages) /\ m_heloParsed' \in BOOLEAN
    BY <1>4, <1>9, <1>7 DEF StreamInv, TypeOK
  <2> QED
    BY <1>4, <1>5, <2>1, <2>2 DEF StreamInv, TypeOK
<1>11. \/ handled' = handled
       \/ /\ handled' = Append(handled, m) /\ m_heloParsed
          /\ \A k \in 1..Len(wire') : m < wire'[k].message
  BY <1>4, <1>6
<1>12. /\ 1 \in 1..Len(wire) /\ wire[1].message = m
       /\ \A i \in 1..Len(handled) : handled[i] < m
  <2>1. 1 \in 1..Len(wire) /\ wire[1].message = m
    BY <1>2 DEF m
  <2> QED
    BY <2>1 DEF StreamInv, HandledOnceInOrder
<1>13. ASSUME NEW i \in 1..Len(handled')
       PROVE  \/ i \in 1..Len(handled) /\ handled'[i] = handled[i]
              \/ i = Len(handled) + 1 /\ handled'[i] = m
  BY <1>3, <1>11, <1>7, Appended
<1>14. HandledWritten'
  <2> SUFFICES ASSUME NEW i \in 1..Len(handled')
               PROVE  handled'[i] <= Len(kinds)
    BY <1>4 DEF HandledWritten
  <2> QED
    BY <1>3, <1>13 DEF StreamInv, HandledWritten
<1>15. Greeted'
  <2> SUFFICES ASSUME m_heloParsed'
               PROVE  \E j \in 1..Len(kinds) :
                        kinds[j] = "helo" /\ \A k \in 1..Len(wire') : j < wire'[k].message
    BY <1>4 DEF Greeted
  <2>1. CASE m_heloParsed
    <3>1. PICK j \in 1..Len(kinds) :
            kinds[j] = "helo" /\ \A k \in 1..Len(wire) : j < wire[k].message
      BY <2>1 DEF StreamInv, Greeted
    <3> QED
      BY <1>5, <3>1
  <2>2. CASE ~m_heloParsed
    <3>1. kinds[m] = "helo" /\ \A k \in 1..Len(wire') : m < wire'[k].message
      BY <1>4, <1>6, <2>2
    <3>2. m \in 1..Len(kinds)
      BY <1>3
    <3> QED
      BY <3>1, <3>2
  <2> QED
    BY <2>1, <2>2
<1>16. OneUnanswered'
  <2> SUFFICES ASSUME disciplined
               PROVE  Len(answers') = Len(kinds') /\ wire' = <<>>
    BY <1>4 DEF OneUnanswered
  <2>1. wire' = <<>> /\ Len(kinds) = Len(answers) + 1
    BY <1>1, <1>2, DisciplinedRead
  <2>2. PICK kind \in {"helo", "400 HELO was not received", "400 JSON malformed",
                       "answered"} :
          answers' = Append(answers, [kind |-> kind, first |-> m,
                                      read |-> wire[n].message])
    BY <1>4
  <2>3. [kind |-> kind, first |-> m, read |-> wire[n].message] \in Answer
    BY <1>3 DEF Answer
  <2>4. Len(answers') = Len(answers) + 1
    BY <1>8, <2>2, <2>3, AppendProperties
  <2> QED
    BY <1>4, <2>1, <2>4
<1>17. HandledAfterHelo'
  <2> SUFFICES ASSUME NEW i \in 1..Len(handled')
               PROVE  \E j \in 1..(handled'[i] - 1) : kinds[j] = "helo"
    BY <1>4 DEF HandledAfterHelo
  <2>1. CASE i \in 1..Len(handled)
    <3>1. handled'[i] = handled[i]
      BY <1>9, <1>11, <2>1
    <3> QED
      BY <2>1, <3>1 DEF StreamInv, HandledAfterHelo
  <2>2. CASE i \notin 1..Len(handled)
    <3>1. handled' = Append(handled, m) /\ m_heloParsed
      BY <1>11, <2>2
    <3>2. handled'[i] = m
      BY <1>9, <1>7, <2>2, <3>1
    <3>3. PICK j \in 1..Len(kinds) :
            kinds[j] = "helo" /\ \A k \in 1..Len(wire) : j < wire[k].message
      BY <3>1 DEF StreamInv, Greeted
    <3>4. j \in 1..(m - 1)
      BY <1>3, <1>12, <3>3
    <3> QED
      BY <3>2, <3>3, <3>4
  <2> QED
    BY <2>1, <2>2
<1>18. HandledOnceInOrder'
  <2>1. ASSUME NEW i \in 1..Len(handled'), NEW j \in 1..Len(handled'), i < j
        PROVE  handled'[i] < handled'[j]
    <3>1. CASE j \in 1..Len(handled)
      <4>1. i \in 1..Len(handled)
        BY <1>7, <2>1, <3>1
      <4>2. handled'[i] = handled[i] /\ handled'[j] = handled[j]
        BY <1>13, <1>7, <3>1, <4>1
      <4> QED
        BY <2>1, <3>1, <4>1, <4>2 DEF StreamInv, HandledOnceInOrder
    <3>2. CASE j \notin 1..Len(handled)
      <4>1. handled' = Append(handled, m)
        BY <1>11, <3>2
      <4>2. Len(handled') = Len(handled) + 1
        BY <1>9, <4>1
      <4>3. j = Len(handled) + 1 /\ i \in 1..Len(handled)
        BY <1>7, <2>1, <3>2, <4>2
      <4>4. handled'[j] = m
        BY <1>9, <4>1, <4>3
      <4>5. handled'[i] = handled[i]
        BY <1>9, <4>1, <4>3
      <4> QED
        BY <1>12, <4>3, <4>4, <4>5
    <3> QED
      BY <3>1, <3>2
  <2>2. ASSUME NEW i \in 1..Len(handled'), NEW k \in 1..Len(wire')
        PROVE  handled'[i] < wire'[k].message
    <3>1. CASE i \in 1..Len(handled)
      <4>1. handled'[i] = handled[i]
        BY <1>9, <1>11, <3>1
      <4> QED
        BY <1>5, <3>1, <4>1 DEF StreamInv, HandledOnceInOrder
    <3>2. CASE i \notin 1..Len(handled)
      <4>1. handled' = Append(handled, m) /\ m < wire'[k].message
        BY <1>11, <3>2
      <4>2. handled'[i] = m
        BY <1>9, <1>7, <3>2, <4>1
      <4> QED
        BY <4>1, <4>2
    <3> QED
      BY <3>1, <3>2
  <2> QED
    BY <2>1, <2>2 DEF HandledOnceInOrder
<1>19. AnswersPaired'
  <2> SUFFICES ASSUME disciplined, NEW k \in 1..Len(answers')
               PROVE  /\ answers'[k].read = k
                      /\ answers'[k].kind # "400 JSON malformed"
                      /\ answers'[k].kind = "helo" <=> kinds[k] = "helo"
    BY <1>4 DEF AnswersPaired
  <2> DEFINE last == Len(kinds)
  <2>1. last = Len(answers) + 1 /\ wire[n].message = last
    BY <1>1, <1>2, DisciplinedRead
  <2>2. PICK kind \in {"helo", "400 HELO was not received", "answered"} :
          /\ answers' = Append(answers, [kind |-> kind, first |-> last, read |-> last])
          /\ kind = "helo" <=> kinds[last] = "helo"
    BY <1>1, <1>2, DisciplinedRead
  <2>3. [kind |-> kind, first |-> last, read |-> last] \in Answer
    BY <1>3, <2>1 DEF Answer
  <2>4. \/ k \in 1..Len(answers) /\ answers'[k] = answers[k]
        \/ k = Len(answers) + 1 /\ answers'[k] = [kind |-> kind, first |-> last, read |-> last]
    BY <1>8, <2>2, <2>3, Appended
  <2>5. CASE k \in 1..Len(answers) /\ answers'[k] = answers[k]
    BY <2>5 DEF StreamInv, AnswersPaired
  <2>6. CASE k = last /\ answers'[k] = [kind |-> kind, first |-> last, read |-> last]
    <3> DEFINE answer == answers'[k]
    <3>1. answer = [kind |-> kind, first |-> last, read |-> last]
      BY <2>6
    <3> HIDE DEF answer
    <3>2. answer.kind = kind /\ answer.read = last
      BY <3>1
    <3>3. kind # "400 JSON malformed"
      OBVIOUS
    <3>4. kind = "helo" <=> kinds[k] = "helo"
      BY <2>2, <2>6
    <3> QED
      BY <2>6, <3>2, <3>3, <3>4 DEF answer
  <2> QED
    BY <2>1, <2>4, <2>5, <2>6
<1>20. \E answer \in Answer :
         /\ answers' = Append(answers, answer)
         /\ answer.first = m /\ answer.read = wire[n].message
         /\ answer.kind = "helo" => kinds[m] = "helo"
  <2>1. PICK kind \in {"helo", "400 HELO was not received", "400 JSON malformed",
                       "answered"} :
          /\ answers' = Append(answers, [kind |-> kind, first |-> m,
                                         read |-> wire[n].message])
          /\ kind = "helo" => kinds[m] = "helo"
    BY <1>4
  <2>2. [kind |-> kind, first |-> m, read |-> wire[n].message] \in Answer
    BY <1>3 DEF Answer
  <2> QED
    BY <2>1, <2>2
<1>21. HastyBehindHelo'
  <2> SUFFICES ASSUME NEW k \in 1..Len(wire'), NEW l \in 1..Len(wire'),
                      kinds[wire'[k].message] = "helo",
                      wire'[k].message < wire'[l].message
               PROVE  wire'[l].message \in hasty
    BY <1>4 DEF StreamInv, HastyBehindHelo
  <2>1. /\ n + k \in 1..Len(wire) /\ wire'[k] = wire[n + k]
        /\ n + l \in 1..Len(wire) /\ wire'[l] = wire[n + l]
    BY <1>5
  <2> QED
    BY <2>1 DEF StreamInv, HastyBehindHelo
<1>22. ToldUnlessHasty'
  <2> SUFFICES ASSUME NEW j \in 1..Len(kinds), kinds[j] = "request", j \notin hasty,
                      \A k \in 1..Len(wire') : wire'[k].message # j
               PROVE  \E k \in 1..Len(answers') :
                        /\ answers'[k].kind # "helo"
                        /\ j \in answers'[k].first..answers'[k].read
    BY <1>4 DEF ToldUnlessHasty
  <2>1. PICK answer \in Answer :
          /\ answers' = Append(answers, answer)
          /\ answer.first = m /\ answer.read = wire[n].message
          /\ answer.kind = "helo" => kinds[m] = "helo"
    BY <1>20
  <2>2. /\ Len(answers') = Len(answers) + 1
        /\ \A k \in 1..Len(answers) : answers'[k] = answers[k]
        /\ answers'[Len(answers) + 1] = answer
    BY <1>8, <2>1, AppendProperties
  <2>3. CASE \A k \in 1..Len(wire) : wire[k].message # j
    <3>1. PICK k \in 1..Len(answers) :
            answers[k].kind # "helo" /\ j \in answers[k].first..answers[k].read
      BY <2>3 DEF StreamInv, ToldUnlessHasty
    <3>2. k \in 1..Len(answers') /\ answers'[k] = answers[k]
      BY <1>8, <2>2
    <3> QED
      BY <3>1, <3>2
  <2>4. ASSUME NEW i \in 1..Len(wire), wire[i].message = j
        PROVE  answer.kind # "helo" /\ j \in m..wire[n].message
    <3>1. i <= n
      <4>1. CASE ~(i <= n)
        <5>1. i - n \in 1..(Len(wire) - n) /\ n + (i - n) = i
          BY <1>2, <4>1
        <5>2. /\ Len(Unread(n)) = Len(wire) - n
              /\ \A k \in 1..Len(Unread(n)) : Unread(n)[k] = wire[n + k]
          BY <1>2, ReadSplits DEF StreamInv
        <5>3. i - n \in 1..Len(wire') /\ wire'[i - n] = wire[i]
          BY <1>4, <5>1, <5>2
        <5> QED
          BY <2>4, <5>3
      <4> QED
        BY <4>1
    <3>2. m <= j
      <4>1. CASE i = 1
        BY <1>3, <1>12, <2>4, <4>1
      <4>2. CASE 1 < i
        <5>1. Precedes(wire[1], wire[i])
          BY <1>12, <4>2 DEF StreamInv, WireInOrder
        <5> QED
          BY <1>3, <1>12, <2>4, <5>1 DEF Precedes
      <4> QED
        BY <1>2, <4>1, <4>2
    <3>3. j <= wire[n].message
      <4>1. CASE i = n
        BY <1>3, <2>4, <4>1
      <4>2. CASE i < n
        <5>1. Precedes(wire[i], wire[n])
          BY <1>2, <4>2 DEF StreamInv, WireInOrder
        <5> QED
          BY <1>3, <2>4, <5>1 DEF Precedes
      <4> QED
        BY <1>2, <3>1, <4>1, <4>2
    <3>4. ASSUME kinds[m] = "helo"
          PROVE  FALSE
      <4>1. m < j
        BY <1>3, <3>2, <3>4
      <4> QED
        BY <1>12, <2>4, <3>4, <4>1 DEF StreamInv, HastyBehindHelo
    <3> QED
      BY <1>3, <2>1, <3>2, <3>3, <3>4
  <2>5. CASE \E i \in 1..Len(wire) : wire[i].message = j
    <3>1. answer.kind # "helo" /\ j \in m..wire[n].message
      BY <2>4, <2>5
    <3>2. Len(answers) + 1 \in 1..Len(answers')
      BY <1>8, <2>2
    <3> QED
      BY <2>1, <2>2, <3>1, <3>2
  <2> QED
    BY <2>3, <2>5
<1> QED
  BY <1>5, <1>10, <1>14, <1>15, <1>16, <1>17, <1>18, <1>19, <1>21, <1>22 DEF StreamInv

LEMMA StreamInvStep ==
  ASSUME StreamInv, [Next]_vars
  PROVE  StreamInv'
<1>1. ASSUME NEW kind \in {"helo", "request"}, Write(kind)
      PROVE  StreamInv'
  BY <1>1, WriteStep
<1>2. CASE Read
  BY <1>2, ReadStep
<1>3. CASE UNCHANGED vars
  BY <1>3 DEF vars, StreamInv, TypeOK, WireWritten, WireInOrder, HandledWritten, Greeted,
              OneUnanswered, HastyBehindHelo, HandledAfterHelo, HandledOnceInOrder,
              AnswersPaired, ToldUnlessHasty
<1> QED
  BY <1>1, <1>2, <1>3 DEF Next

THEOREM StreamInvariant == Spec => []StreamInv
<1>1. Init => StreamInv
  BY StreamInvInit
<1>2. StreamInv /\ [Next]_vars => StreamInv'
  BY StreamInvStep
<1> QED
  BY <1>1, <1>2, PTL DEF Spec

(* The stream and the state of the handler keep their types. *)
THEOREM StreamTypes == Spec => []TypeOK
<1>1. StreamInv => TypeOK
  BY DEF StreamInv
<1> QED
  BY <1>1, StreamInvariant, PTL

(* Whatever the sizes of messages and reads, a request is handled only      *)
(* after a HELO the client wrote before it (tcp_client.cpp, DataEvent).     *)
THEOREM GreetedFirst == Spec => []HandledAfterHelo
<1>1. StreamInv => HandledAfterHelo
  BY DEF StreamInv
<1> QED
  BY <1>1, StreamInvariant, PTL

(* However bytes are cut and joined, no request is handled twice or out of  *)
(* order: a DataEvent never looks at bytes an earlier one carried.          *)
THEOREM OnceInOrder == Spec => []HandledOnceInOrder
<1>1. StreamInv => HandledOnceInOrder
  BY DEF StreamInv
<1> QED
  BY <1>1, StreamInvariant, PTL

(* Only a request that was written while a HELO was unread is swallowed by  *)
(* it: of every other that was read the client is told something.           *)
THEOREM NoneSwallowed == Spec => []ToldUnlessHasty
<1>1. StreamInv => ToldUnlessHasty
  BY DEF StreamInv
<1> QED
  BY <1>1, StreamInvariant, PTL

(* A client that waits for each answer, over a connection that does not cut *)
(* its messages, gets one answer for each, in order, none "JSON malformed". *)
THEOREM Paired == Spec => []AnswersPaired
<1>1. StreamInv => AnswersPaired
  BY DEF StreamInv
<1> QED
  BY <1>1, StreamInvariant, PTL
=============================================================================

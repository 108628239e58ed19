---------------------------- MODULE TCPHandleProofs ----------------------------
(***************************************************************************)
(* Theorems about TCPHandle, for any number of chunks, any size of the     *)
(* send buffer and any limit of reads.  Each write that was not called     *)
(* back is in one place, once: with the kernel or in one of the three      *)
(* queues (EachWriteOnce).  From this follow libuv's counts, that a        *)
(* callback finds its write pending, and with it the refinement of         *)
(* ClientStream.                                                           *)
(***************************************************************************)
EXTENDS TCPHandle, SequenceCounts

ReadRequests == {r \in Requests : r.kind = "read"}

QueuedWrites == {r \in Requests : r.kind = "write" /\ r.queued_bytes = 1}

RequestsOf(i) == {r \in Requests : r.kind = "write" /\ r.write = i}

(* Requests of S that are in the three queues. *)
Total(S) == HowMany(pending_reqs, S) + HowMany(batch, S) + HowMany(port, S)

ReadsOut == (IF readHeld THEN 1 ELSE 0) + Total(ReadRequests)

EachWriteOnce ==
  \A i \in Writes :
    HowMany(sending, {i}) + Total(RequestsOf(i)) = IF outcome[i] = "pending" THEN 1 ELSE 0

WritesCounted ==
  /\ write_reqs_pending = Cardinality(Pending) /\ active_reqs = Cardinality(Pending)
  /\ leaked = Pending
  /\ write_queue_size = Len(sending) + Total(QueuedWrites)

ReadsCounted == ReadsOut = IF "READING" \in flags \/ pc = "done" THEN 1 ELSE 0

AllCounted == reqs_pending = Cardinality(Pending) + ReadsOut

ActiveCounted ==
  /\ activecnt = Cardinality(Pending) + (IF "READING" \in flags THEN 1 ELSE 0)
  /\ "ACTIVE" \in flags <=> activecnt > 0

(* What the loop is at work on is at the head of its batch. *)
AtWork ==
  /\ pc \in {"reads", "done"} => batch # <<>> /\ Head(batch) \in ReadRequests
  /\ pc = "reads" => "READING" \in flags
  /\ pc \in {"start", "poll"} => batch = <<>>
  /\ pc = "start" => "READING" \notin flags

(* Writes are numbered as they come, and there is one for a chunk at most. *)
IssuedInOrder ==
  /\ \A i \in Writes : outcome[i] # "unused" <=> i <= Issued
  /\ Issued + incoming <= chunks

(* Of a client that reads each answer before it writes again, the send      *)
(* buffer has room for every answer.                                        *)
NeverBehind ==
  disciplined => incoming + unread <= 1 /\ sending = <<>> /\ freedSent = {}

HandleInv ==
  /\ TypeOK
  /\ EachWriteOnce
  /\ WritesCounted /\ ReadsCounted /\ AllCounted /\ ActiveCounted
  /\ AtWork
  /\ IssuedInOrder
  /\ NeverBehind

-----------------------------------------------------------------------------
(* Requests, and how they move between the queues. *)
LEMMA ReadRequestKind ==
  ASSUME NEW ok \in BOOLEAN
  PROVE  /\ ReadRequest(ok) \in Requests /\ ReadRequest(ok) \in ReadRequests
         /\ ReadRequest(ok) \notin QueuedWrites
         /\ \A i \in Writes : ReadRequest(ok) \notin RequestsOf(i)
BY DEF ReadRequest, Requests, ReadRequests, QueuedWrites, RequestsOf

LEMMA WriteRequestKind ==
  ASSUME NEW i \in Writes, NEW ok \in BOOLEAN, NEW n \in {0, 1}
  PROVE  /\ WriteRequest(i, ok, n) \in Requests /\ WriteRequest(i, ok, n) \notin ReadRequests
         /\ WriteRequest(i, ok, n) \in QueuedWrites <=> n = 1
         /\ \A j \in Writes : WriteRequest(i, ok, n) \in RequestsOf(j) <=> j = i
BY DEF WriteRequest, Requests, ReadRequests, QueuedWrites, RequestsOf

LEMMA HeadKind ==
  ASSUME NEW r \in Requests
  PROVE  /\ r.kind = "read" =>
              /\ r \in ReadRequests /\ r \notin QueuedWrites
              /\ \A i \in Writes : r \notin RequestsOf(i)
         /\ r.kind = "write" =>
              /\ r.write \in Writes /\ r.queued_bytes \in {0, 1} /\ r.ok \in BOOLEAN
              /\ r \notin ReadRequests
              /\ r \in QueuedWrites <=> r.queued_bytes = 1
              /\ \A i \in Writes : r \in RequestsOf(i) <=> i = r.write
         /\ r \in ReadRequests => r.kind = "read"
BY DEF Requests, ReadRequests, QueuedWrites, RequestsOf

LEMMA TotalType ==
  ASSUME TypeOK, NEW S
  PROVE  /\ HowMany(pending_reqs, S) \in Nat /\ HowMany(batch, S) \in Nat
         /\ HowMany(port, S) \in Nat /\ Total(S) \in Nat
<1>1. pending_reqs \in Seq(Requests) /\ batch \in Seq(Requests) /\ port \in Seq(Requests)
  BY DEF TypeOK
<1>2. /\ HowMany(pending_reqs, S) \in Nat /\ HowMany(batch, S) \in Nat
      /\ HowMany(port, S) \in Nat
  BY <1>1, CountType
<1> QED
  BY <1>2 DEF Total

(* The head of the batch is among the requests in the queues. *)
LEMMA InBatch ==
  ASSUME TypeOK, batch # <<>>, NEW S, Head(batch) \in S
  PROVE  Total(S) \in Nat \ {0}
<1>1. batch \in Seq(Requests)
  BY DEF TypeOK
<1>2. /\ Tail(batch) \in Seq(Requests)
      /\ HowMany(batch, S) = HowMany(Tail(batch), S) + 1
  BY <1>1, CountTail
<1>3. HowMany(Tail(batch), S) \in Nat
  BY <1>2, CountType
<1> QED
  BY <1>2, <1>3, TotalType DEF Total

LEMMA TotalUnchanged ==
  ASSUME NEW S, UNCHANGED queueVars
  PROVE  Total(S)' = Total(S)
BY DEF Total, queueVars

(* A request is appended to pending_reqs, or to port. *)
LEMMA TotalAppend ==
  ASSUME TypeOK, NEW r \in Requests, NEW S,
         \/ pending_reqs' = Append(pending_reqs, r) /\ UNCHANGED <<batch, port>>
         \/ port' = Append(port, r) /\ UNCHANGED <<pending_reqs, batch>>
  PROVE  Total(S)' = Total(S) + IF r \in S THEN 1 ELSE 0
<1>1. \A q \in Seq(Requests) :
        HowMany(Append(q, r), S) = HowMany(q, S) + IF r \in S THEN 1 ELSE 0
  BY CountAppend
<1>2. pending_reqs \in Seq(Requests) /\ port \in Seq(Requests)
  BY DEF TypeOK
<1>3. CASE pending_reqs' = Append(pending_reqs, r) /\ UNCHANGED <<batch, port>>
  <2>1. HowMany(pending_reqs', S) = HowMany(pending_reqs, S) + IF r \in S THEN 1 ELSE 0
    BY <1>1, <1>2, <1>3
  <2> QED
    BY <1>3, <2>1, TotalType DEF Total
<1>4. CASE port' = Append(port, r) /\ UNCHANGED <<pending_reqs, batch>>
  <2>1. HowMany(port', S) = HowMany(port, S) + IF r \in S THEN 1 ELSE 0
    BY <1>1, <1>2, <1>4
  <2> QED
    BY <1>4, <2>1, TotalType DEF Total
<1> QED
  BY <1>3, <1>4

(* The head of the batch is done with. *)
LEMMA TotalTail ==
  ASSUME TypeOK, batch # <<>>, NEW S, batch' = Tail(batch), UNCHANGED <<pending_reqs, port>>
  PROVE  /\ Total(S) >= IF Head(batch) \in S THEN 1 ELSE 0
         /\ Total(S)' = Total(S) - IF Head(batch) \in S THEN 1 ELSE 0
<1>1. batch \in Seq(Requests)
  BY DEF TypeOK
<1>2. /\ Tail(batch) \in Seq(Requests)
      /\ HowMany(batch, S) = HowMany(Tail(batch), S) + IF Head(batch) \in S THEN 1 ELSE 0
  BY <1>1, CountTail
<1>3. HowMany(Tail(batch), S) \in Nat
  BY <1>2, CountType
<1> QED
  BY <1>2, <1>3, TotalType DEF Total

(* As TotalTail, and a request is appended to pending_reqs. *)
LEMMA TotalTailAppend ==
  ASSUME TypeOK, batch # <<>>, NEW r \in Requests, NEW S,
         batch' = Tail(batch), pending_reqs' = Append(pending_reqs, r), UNCHANGED port
  PROVE  Total(S)' = Total(S) - (IF Head(batch) \in S THEN 1 ELSE 0)
                       + IF r \in S THEN 1 ELSE 0
<1>1. batch \in Seq(Requests) /\ pending_reqs \in Seq(Requests)
  BY DEF TypeOK
<1>2. /\ Tail(batch) \in Seq(Requests)
      /\ HowMany(batch, S) = HowMany(Tail(batch), S) + IF Head(batch) \in S THEN 1 ELSE 0
  BY <1>1, CountTail
<1>3. HowMany(Tail(batch), S) \in Nat
  BY <1>2, CountType
<1>4. HowMany(pending_reqs', S) = HowMany(pending_reqs, S) + IF r \in S THEN 1 ELSE 0
  BY <1>1, CountAppend
<1> DEFINE taken == IF Head(batch) \in S THEN 1 ELSE 0
           added == IF r \in S THEN 1 ELSE 0
<1>5. taken \in Nat /\ added \in Nat
  OBVIOUS
<1>6. /\ HowMany(batch', S) = HowMany(batch, S) - taken
      /\ HowMany(pending_reqs', S) = HowMany(pending_reqs, S) + added
      /\ HowMany(port', S) = HowMany(port, S)
  BY <1>2, <1>3, <1>4
<1> HIDE DEF taken, added
<1>7. Total(S)' = Total(S) - taken + added
  BY <1>5, <1>6, TotalType, SMTT(30) DEF Total
<1> QED
  BY <1>7 DEF taken, added

LEMMA TotalPoll ==
  ASSUME TypeOK, AtWork, Poll, NEW S
  PROVE  Total(S)' = Total(S)
<1>1. pending_reqs \in Seq(Requests) /\ port \in Seq(Requests) /\ batch = <<>>
  BY DEF TypeOK, AtWork, Poll
<1>2. batch' = pending_reqs \o port /\ pending_reqs' = <<>> /\ port' = <<>>
  BY DEF Poll, Dequeued
<1>3. HowMany(pending_reqs \o port, S) = HowMany(pending_reqs, S) + HowMany(port, S)
  BY <1>1, CountConcat
<1>4. HowMany(<<>>, S) = 0
  BY CountNone
<1>5. HowMany(batch', S) = HowMany(pending_reqs, S) + HowMany(port, S)
      /\ HowMany(pending_reqs', S) = 0 /\ HowMany(port', S) = 0 /\ HowMany(batch, S) = 0
  BY <1>1, <1>2, <1>3, <1>4
<1> QED
  BY <1>5, TotalType DEF Total

(* A write the kernel holds, or is given. *)
LEMMA SendingMoves ==
  ASSUME TypeOK
  PROVE  /\ Len(sending) \in Nat
         /\ \A i \in Writes :
              /\ HowMany(sending, {i}) \in Nat
              /\ HowMany(Append(sending, i), {i}) = HowMany(sending, {i}) + 1
              /\ Len(Append(sending, i)) = Len(sending) + 1
              /\ Append(sending, i) \in Seq(Writes)
              /\ \A j \in Writes \ {i} :
                   HowMany(Append(sending, i), {j}) = HowMany(sending, {j})
         /\ sending # <<>> =>
              /\ Head(sending) \in Writes /\ Tail(sending) \in Seq(Writes)
              /\ Len(sending) = Len(Tail(sending)) + 1 /\ Len(Tail(sending)) \in Nat
              /\ \A i \in Writes :
                   HowMany(sending, {i})
                     = HowMany(Tail(sending), {i}) + IF i = Head(sending) THEN 1 ELSE 0
<1>1. sending \in Seq(Writes)
  BY DEF TypeOK
<1>2. Len(sending) \in Nat /\ \A i \in Writes : HowMany(sending, {i}) \in Nat
  BY <1>1, CountType, LenProperties
<1>3. ASSUME NEW i \in Writes, NEW j \in Writes
      PROVE  HowMany(Append(sending, i), {j})
               = HowMany(sending, {j}) + IF i = j THEN 1 ELSE 0
  <2>1. HowMany(Append(sending, i), {j}) = HowMany(sending, {j}) + IF i \in {j} THEN 1 ELSE 0
    BY <1>1, CountAppend
  <2> QED
    BY <2>1
<1>4. ASSUME NEW i \in Writes
      PROVE  Len(Append(sending, i)) = Len(sending) + 1 /\ Append(sending, i) \in Seq(Writes)
  BY <1>1, AppendProperties
<1>5. ASSUME sending # <<>>
      PROVE  /\ Head(sending) \in Writes /\ Tail(sending) \in Seq(Writes)
             /\ Len(sending) = Len(Tail(sending)) + 1 /\ Len(Tail(sending)) \in Nat
  <2>1. /\ Head(sending) \in Writes /\ Tail(sending) \in Seq(Writes)
        /\ Len(Tail(sending)) = Len(sending) - 1
    BY <1>1, <1>5, HeadTailProperties
  <2> QED
    BY <1>2, <2>1, LenProperties
<1>6. ASSUME sending # <<>>, NEW i \in Writes
      PROVE  HowMany(sending, {i})
               = HowMany(Tail(sending), {i}) + IF i = Head(sending) THEN 1 ELSE 0
  <2>1. HowMany(sending, {i})
          = HowMany(Tail(sending), {i}) + IF Head(sending) \in {i} THEN 1 ELSE 0
    BY <1>1, <1>6, CountTail
  <2> QED
    BY <2>1
<1>7. \A i \in Writes : HowMany(Append(sending, i), {i}) = HowMany(sending, {i}) + 1
  BY <1>3
<1>8. ASSUME NEW i \in Writes, NEW j \in Writes \ {i}
      PROVE  HowMany(Append(sending, i), {j}) = HowMany(sending, {j})
  <2>1. HowMany(Append(sending, i), {j}) = HowMany(sending, {j}) + 0
    BY <1>3
  <2> QED
    BY <1>2, <2>1
<1> QED
  BY <1>2, <1>4, <1>5, <1>6, <1>7, <1>8

-----------------------------------------------------------------------------
(* The writes: how many are pending, and how many were issued. *)
LEMMA WritesFinite ==
  ASSUME TypeOK
  PROVE  /\ IsFiniteSet(Pending) /\ Cardinality(Pending) \in Nat
         /\ IsFiniteSet({i \in Writes : outcome[i] # "unused"}) /\ Issued \in Nat
<1>1. IsFiniteSet(Writes)
  BY HandleAssumption, FS_Interval DEF Writes
<1>2. Pending \subseteq Writes /\ {i \in Writes : outcome[i] # "unused"} \subseteq Writes
  BY DEF Pending
<1> QED
  BY <1>1, <1>2, FS_Subset, FS_CardinalityType DEF Issued

LEMMA PendingCounted ==
  ASSUME TypeOK, NEW i \in Writes, outcome[i] = "pending"
  PROVE  Cardinality(Pending) \in Nat \ {0}
<1>1. i \in Pending
  BY DEF Pending
<1> QED
  BY <1>1, WritesFinite, FS_EmptySet

LEMMA WriteIssued ==
  ASSUME TypeOK, NEW i \in Writes, outcome[i] = "unused",
         outcome' = [outcome EXCEPT ![i] = "pending"]
  PROVE  /\ Pending' = Pending \cup {i}
         /\ Cardinality(Pending') = Cardinality(Pending) + 1
         /\ Issued' = Issued + 1
<1> DEFINE used == {j \in Writes : outcome[j] # "unused"}
<1>1. outcome \in [Writes -> {"unused", "pending", "WriteEvent", "ErrorEvent"}]
  BY DEF TypeOK
<1>2. Pending' = Pending \cup {i} /\ i \notin Pending
  BY <1>1 DEF Pending
<1>3. used' = used \cup {i} /\ i \notin used
  BY <1>1
<1>4. Cardinality(Pending \cup {i}) = Cardinality(Pending) + 1
  BY <1>2, WritesFinite, FS_AddElement
<1>5. IsFiniteSet(used) /\ Issued = Cardinality(used) /\ Issued' = Cardinality(used')
  BY WritesFinite DEF Issued
<1> HIDE DEF used
<1>6. Cardinality(used \cup {i}) = Cardinality(used) + 1
  BY <1>3, <1>5, FS_AddElement
<1> QED
  BY <1>2, <1>3, <1>4, <1>5, <1>6

LEMMA WriteAnswered ==
  ASSUME TypeOK, NEW i \in Writes, outcome[i] = "pending",
         NEW event \in {"WriteEvent", "ErrorEvent"},
         outcome' = [outcome EXCEPT ![i] = event]
  PROVE  /\ Pending' = Pending \ {i}
         /\ Cardinality(Pending') = Cardinality(Pending) - 1
         /\ Issued' = Issued
<1>1. outcome \in [Writes -> {"unused", "pending", "WriteEvent", "ErrorEvent"}]
  BY DEF TypeOK
<1>2. Pending' = Pending \ {i} /\ i \in Pending
  BY <1>1 DEF Pending
<1>3. Cardinality(Pending \ {i}) = Cardinality(Pending) - 1
  BY <1>2, WritesFinite, FS_RemoveElement
<1>4. {j \in Writes : outcome[j] # "unused"}' = {j \in Writes : outcome[j] # "unused"}
  BY <1>1
<1> QED
  BY <1>2, <1>3, <1>4 DEF Issued

(* There is a write left for the next answer, as each chunk has one. *)
LEMMA NextIsUnused ==
  ASSUME TypeOK, IssuedInOrder, incoming > 0
  PROVE  /\ NextWrite \in Writes /\ NextWrite = Issued + 1 /\ outcome[NextWrite] = "unused"
         /\ \A j \in Writes : j < NextWrite => outcome[j] # "unused"
<1>1. Issued \in Nat /\ incoming \in Nat /\ chunks \in 0..MaxChunks /\ MaxChunks \in Nat
  BY WritesFinite, HandleAssumption DEF TypeOK
<1>2. Issued + incoming <= chunks
  BY DEF IssuedInOrder
<1>3. NextWrite = Issued + 1
  BY DEF NextWrite
<1>4. NextWrite \in Writes
  BY <1>1, <1>2, <1>3 DEF Writes
<1>5. \A i \in Writes : outcome[i] # "unused" <=> i <= Issued
  BY DEF IssuedInOrder
<1>6. ~(NextWrite <= Issued) /\ \A j \in Writes : j < NextWrite => j <= Issued
  BY <1>1, <1>3 DEF Writes
<1> QED
  BY <1>3, <1>4, <1>5, <1>6

(* Steps that move no request and issue no write. *)
LEMMA BooksKept ==
  ASSUME UNCHANGED <<queueVars, readHeld, sending, outcome>>
  PROVE  /\ Pending' = Pending /\ Issued' = Issued /\ ReadsOut' = ReadsOut
         /\ \A S : Total(S)' = Total(S)
         /\ EachWriteOnce => EachWriteOnce'
BY DEF queueVars, Pending, Issued, ReadsOut, Total, EachWriteOnce

LEMMA HandleInvInit ==
  ASSUME Init
  PROVE  HandleInv
<1>1. <<>> \in Seq(Requests) /\ <<>> \in Seq(Writes)
  BY EmptySeq
<1>2. TypeOK
  <2>1. /\ pc = "start" /\ count = 0 /\ flags = {"READABLE", "WRITABLE"}
        /\ activecnt = 0 /\ reqs_pending = 0 /\ write_reqs_pending = 0
        /\ write_queue_size = 0 /\ active_reqs = 0 /\ readHeld = FALSE /\ unread = 0
        /\ incoming = 0 /\ peer = "open" /\ chunks = 0 /\ disciplined \in BOOLEAN
        /\ leaked = {} /\ freedSent = {}
        /\ pending_reqs = <<>> /\ batch = <<>> /\ port = <<>> /\ sending = <<>>
    BY DEF Init
  <2>2. outcome \in [Writes -> {"unused", "pending", "WriteEvent", "ErrorEvent"}]
    BY DEF Init
  <2>3. flags \subseteq Flags
    BY <2>1 DEF Flags
  <2>4. count \in 0..MaxReads /\ unread \in 0..SendBuffer /\ chunks \in 0..MaxChunks
    BY <2>1, HandleAssumption
  <2>5. /\ pending_reqs \in Seq(Requests) /\ batch \in Seq(Requests)
        /\ port \in Seq(Requests) /\ sending \in Seq(Writes)
    BY <1>1, <2>1
  <2>6. /\ pc \in {"start", "poll", "requests", "reads", "done"}
        /\ peer \in {"open", "ended", "reset"} /\ readHeld \in BOOLEAN
        /\ leaked \subseteq Writes /\ freedSent \subseteq Writes
    BY <2>1
  <2> QED
    BY <2>1, <2>2, <2>3, <2>4, <2>5, <2>6 DEF TypeOK
<1>3. Pending = {} /\ {i \in Writes : outcome[i] # "unused"} = {}
  BY DEF Init, Pending
<1>4. Cardinality(Pending) = 0 /\ Issued = 0
  BY <1>3, FS_EmptySet DEF Issued
<1>5. \A S : Total(S) = 0 /\ HowMany(sending, S) = 0
  BY CountNone DEF Init, Total
<1>6. Len(sending) = 0
  BY DEF Init
<1>7. EachWriteOnce
  BY <1>5 DEF Init, EachWriteOnce
<1>8. /\ WritesCounted /\ ReadsCounted /\ AllCounted /\ ActiveCounted
  BY <1>3, <1>4, <1>5, <1>6 DEF Init, WritesCounted, ReadsCounted, AllCounted, ActiveCounted, ReadsOut
<1>9. AtWork /\ NeverBehind
  BY DEF Init, AtWork, NeverBehind
<1>10. IssuedInOrder
  BY <1>4, HandleAssumption DEF Init, IssuedInOrder, Writes
<1> QED
  BY <1>2, <1>7, <1>8, <1>9, <1>10 DEF HandleInv

-----------------------------------------------------------------------------
(* The client's steps touch nothing the server counts. *)
LEMMA ClientStep ==
  ASSUME HandleInv,
         SendChunk \/ ReadAnswer \/ \E how \in {"ended", "reset"} : Part(how)
  PROVE  HandleInv'
<1>1. /\ TypeOK /\ EachWriteOnce /\ WritesCounted /\ ReadsCounted /\ AllCounted /\ ActiveCounted
      /\ AtWork /\ IssuedInOrder /\ NeverBehind
  BY DEF HandleInv
<1>2. UNCHANGED <<pc, count, handleVars, queueVars, readHeld, sending, writeVars, freedSent, disciplined>>
  BY DEF SendChunk, ReadAnswer, Part, kernelVars, peerVars
<1>3. /\ Pending' = Pending /\ Issued' = Issued /\ ReadsOut' = ReadsOut /\ EachWriteOnce'
      /\ \A S : Total(S)' = Total(S)
  BY <1>1, <1>2, BooksKept DEF writeVars
<1>4. WritesCounted' /\ ReadsCounted' /\ AllCounted' /\ ActiveCounted' /\ AtWork'
  BY <1>1, <1>2, <1>3 DEF WritesCounted, ReadsCounted, AllCounted, ActiveCounted, AtWork,
     handleVars, queueVars, writeVars
<1>5. /\ Issued \in Nat /\ incoming \in Nat /\ unread \in 0..SendBuffer
      /\ chunks \in 0..MaxChunks /\ MaxChunks \in Nat /\ SendBuffer \in Nat
  BY <1>1, WritesFinite, HandleAssumption DEF TypeOK
<1>6. CASE SendChunk
  <2>1. /\ chunks < MaxChunks /\ chunks' = chunks + 1 /\ incoming' = incoming + 1
        /\ UNCHANGED <<unread, peer>>
        /\ disciplined => incoming = 0 /\ unread = 0
    BY <1>6 DEF SendChunk, kernelVars
  <2>2. chunks' \in 0..MaxChunks /\ incoming' \in Nat
    BY <1>5, <2>1
  <2>3. TypeOK'
    BY <1>1, <1>2, <2>1, <2>2 DEF TypeOK, handleVars, queueVars, writeVars
  <2>4. Issued + incoming' <= chunks'
    BY <1>1, <1>5, <2>1 DEF IssuedInOrder
  <2>5. IssuedInOrder'
    BY <1>1, <1>2, <1>3, <2>4 DEF IssuedInOrder, writeVars
  <2>6. NeverBehind'
    BY <1>1, <1>2, <1>5, <2>1 DEF NeverBehind
  <2> QED
    BY <1>3, <1>4, <2>3, <2>5, <2>6 DEF HandleInv
<1>7. CASE ReadAnswer
  <2>1. unread > 0 /\ unread' = unread - 1 /\ UNCHANGED <<incoming, peer, chunks>>
    BY <1>7 DEF ReadAnswer, peerVars
  <2>2. unread' \in 0..SendBuffer
    BY <1>5, <2>1
  <2>3. TypeOK'
    BY <1>1, <1>2, <2>1, <2>2 DEF TypeOK, handleVars, queueVars, writeVars
  <2>4. IssuedInOrder'
    BY <1>1, <1>2, <1>3, <2>1 DEF IssuedInOrder, writeVars
  <2>5. NeverBehind'
    BY <1>1, <1>2, <1>5, <2>1 DEF NeverBehind
  <2> QED
    BY <1>3, <1>4, <2>3, <2>4, <2>5 DEF HandleInv
<1>8. CASE \E how \in {"ended", "reset"} : Part(how)
  <2>1. peer' \in {"ended", "reset"} /\ UNCHANGED <<incoming, unread, chunks>>
    BY <1>8 DEF Part, kernelVars
  <2>2. TypeOK'
    BY <1>1, <1>2, <2>1 DEF TypeOK, handleVars, queueVars, writeVars
  <2>3. IssuedInOrder' /\ NeverBehind'
    BY <1>1, <1>2, <1>3, <2>1 DEF IssuedInOrder, NeverBehind, writeVars
  <2> QED
    BY <1>3, <1>4, <2>2, <2>3 DEF HandleInv
<1> QED
  BY <1>6, <1>7, <1>8

(* The kernel completes the read request: it is in port now. *)
LEMMA KernelReadStep ==
  ASSUME HandleInv, KernelRead
  PROVE  HandleInv'
<1>1. /\ TypeOK /\ EachWriteOnce /\ WritesCounted /\ ReadsCounted /\ AllCounted /\ ActiveCounted
      /\ AtWork /\ IssuedInOrder /\ NeverBehind
  BY DEF HandleInv
<1>2. /\ readHeld /\ readHeld' = FALSE
      /\ UNCHANGED <<pc, count, handleVars, pending_reqs, batch, sending, unread, peerVars,
                     writeVars, freedSent>>
  BY DEF KernelRead
<1>3. PICK ok \in BOOLEAN : port' = Append(port, ReadRequest(ok))
  BY DEF KernelRead
<1>4. /\ Total(ReadRequests)' = Total(ReadRequests) + 1 /\ Total(QueuedWrites)' = Total(QueuedWrites)
      /\ \A i \in Writes : Total(RequestsOf(i))' = Total(RequestsOf(i))
  <2>1. \A S : Total(S)' = Total(S) + IF ReadRequest(ok) \in S THEN 1 ELSE 0
    BY <1>1, <1>2, <1>3, ReadRequestKind, TotalAppend
  <2>2. \A S : Total(S) \in Nat
    BY <1>1, TotalType
  <2> QED
    BY <2>1, <2>2, ReadRequestKind
<1>5. ReadsOut' = ReadsOut
  <2>1. Total(ReadRequests) \in Nat
    BY <1>1, TotalType
  <2> QED
    BY <1>2, <1>4, <2>1 DEF ReadsOut
<1>6. Pending' = Pending /\ Issued' = Issued
  BY <1>2 DEF Pending, Issued, writeVars
<1>7. EachWriteOnce'
  BY <1>1, <1>2, <1>4 DEF EachWriteOnce, writeVars
<1>8. TypeOK'
  <2>1. port' \in Seq(Requests)
    BY <1>1, <1>3, ReadRequestKind, AppendProperties DEF TypeOK
  <2> QED
    BY <1>1, <1>2, <2>1 DEF TypeOK, handleVars, peerVars, writeVars
<1>9. WritesCounted' /\ ReadsCounted' /\ AllCounted' /\ ActiveCounted' /\ AtWork' /\ NeverBehind'
  BY <1>1, <1>2, <1>4, <1>5, <1>6 DEF WritesCounted, ReadsCounted, AllCounted, ActiveCounted,
     AtWork, NeverBehind, handleVars, peerVars, writeVars
<1>10. IssuedInOrder'
  BY <1>1, <1>2, <1>6 DEF IssuedInOrder, peerVars, writeVars
<1> QED
  BY <1>7, <1>8, <1>9, <1>10 DEF HandleInv

(* It sends or drops the first write it holds. *)
LEMMA KernelWriteStep ==
  ASSUME HandleInv, KernelSend \/ KernelDrop
  PROVE  HandleInv'
<1>1. /\ TypeOK /\ EachWriteOnce /\ WritesCounted /\ ReadsCounted /\ AllCounted /\ ActiveCounted
      /\ AtWork /\ IssuedInOrder /\ NeverBehind
  BY DEF HandleInv
<1>2. /\ sending # <<>> /\ sending' = Tail(sending)
      /\ UNCHANGED <<pc, count, handleVars, pending_reqs, batch, readHeld, peerVars, writeVars>>
  BY DEF KernelSend, KernelDrop
<1>3. PICK ok \in BOOLEAN : port' = Append(port, WriteRequest(Head(sending), ok, 1))
  BY DEF KernelSend, KernelDrop
<1> DEFINE w == Head(sending)
           r == WriteRequest(w, ok, 1)
<1>4. /\ w \in Writes /\ Tail(sending) \in Seq(Writes)
      /\ Len(sending) = Len(Tail(sending)) + 1 /\ Len(Tail(sending)) \in Nat
      /\ \A i \in Writes :
           HowMany(sending, {i}) = HowMany(Tail(sending), {i}) + IF i = w THEN 1 ELSE 0
  BY <1>1, <1>2, SendingMoves
<1>5. /\ r \in Requests /\ r \notin ReadRequests /\ r \in QueuedWrites
      /\ \A i \in Writes : r \in RequestsOf(i) <=> i = w
  BY <1>4, WriteRequestKind
<1> HIDE DEF r
<1>6. \A S : Total(S) \in Nat /\ Total(S)' = Total(S) + IF r \in S THEN 1 ELSE 0
  BY <1>1, <1>2, <1>3, <1>5, TotalAppend, TotalType DEF r
<1>7. /\ Total(ReadRequests)' = Total(ReadRequests)
      /\ Total(QueuedWrites)' = Total(QueuedWrites) + 1
      /\ \A i \in Writes : Total(RequestsOf(i)) \in Nat
                           /\ Total(RequestsOf(i))' = Total(RequestsOf(i)) + IF i = w THEN 1 ELSE 0
  <2>1. Total(ReadRequests)' = Total(ReadRequests) + 0 /\ Total(ReadRequests) \in Nat
    BY <1>6, <1>5
  <2>2. Total(QueuedWrites)' = Total(QueuedWrites) + 1
    BY <1>6, <1>5
  <2>3. ASSUME NEW i \in Writes
        PROVE  Total(RequestsOf(i)) \in Nat
               /\ Total(RequestsOf(i))' = Total(RequestsOf(i)) + IF i = w THEN 1 ELSE 0
    BY <1>6, <1>5
  <2> QED
    BY <2>1, <2>2, <2>3
<1>8. ReadsOut' = ReadsOut
  BY <1>2, <1>7 DEF ReadsOut
<1>9. Pending' = Pending /\ Issued' = Issued
  BY <1>2 DEF Pending, Issued, writeVars
<1>10. EachWriteOnce'
  <2> SUFFICES ASSUME NEW i \in Writes
               PROVE  HowMany(sending', {i}) + Total(RequestsOf(i))'
                        = IF outcome'[i] = "pending" THEN 1 ELSE 0
    BY DEF EachWriteOnce
  <2> DEFINE one == IF i = w THEN 1 ELSE 0
  <2>1. HowMany(Tail(sending), {i}) \in Nat /\ one \in Nat
    BY <1>4, CountType
  <2>2. sending' = Tail(sending) /\ HowMany(sending, {i}) = HowMany(Tail(sending), {i}) + one
    BY <1>2, <1>4
  <2>3. Total(RequestsOf(i)) \in Nat /\ Total(RequestsOf(i))' = Total(RequestsOf(i)) + one
    BY <1>7
  <2> HIDE DEF one
  <2>4. HowMany(sending', {i}) + Total(RequestsOf(i))'
          = HowMany(sending, {i}) + Total(RequestsOf(i))
    BY <2>1, <2>2, <2>3
  <2> QED
    BY <1>1, <1>2, <2>4 DEF EachWriteOnce, writeVars
<1>11. TypeOK'
  <2>1. port' \in Seq(Requests)
    BY <1>1, <1>3, <1>5, AppendProperties DEF TypeOK, r
  <2>2. sending' \in Seq(Writes)
    BY <1>2, <1>4
  <2>3. unread' \in 0..SendBuffer /\ freedSent' \subseteq Writes
    <3>1. unread \in 0..SendBuffer /\ freedSent \subseteq Writes /\ SendBuffer \in Nat
      BY <1>1, HandleAssumption DEF TypeOK
    <3>2. \/ unread < SendBuffer /\ unread' = unread + 1 /\ freedSent' = freedSent \cup {w}
          \/ UNCHANGED <<unread, freedSent>>
      BY DEF KernelSend, KernelDrop
    <3> QED
      BY <1>4, <3>1, <3>2
  <2> QED
    BY <1>1, <1>2, <2>1, <2>2, <2>3 DEF TypeOK, handleVars, peerVars, writeVars
<1>12. WritesCounted'
  <2>1. Len(sending') + Total(QueuedWrites)' = Len(sending) + Total(QueuedWrites)
    BY <1>2, <1>7, <1>4, <1>6
  <2> QED
    BY <1>1, <1>2, <1>9, <2>1 DEF WritesCounted, handleVars, writeVars
<1>13. ReadsCounted' /\ AllCounted' /\ ActiveCounted' /\ AtWork'
  BY <1>1, <1>2, <1>8, <1>9 DEF ReadsCounted, AllCounted, ActiveCounted, AtWork, handleVars
<1>14. IssuedInOrder'
  BY <1>1, <1>2, <1>9 DEF IssuedInOrder, peerVars, writeVars
<1>15. NeverBehind'
  BY <1>1, <1>2 DEF NeverBehind, peerVars
<1> QED
  BY <1>10, <1>11, <1>12, <1>13, <1>14, <1>15 DEF HandleInv

-----------------------------------------------------------------------------
(* The loop, where it moves no request but all at once. *)
LEMMA LoopTurns ==
  ASSUME HandleInv, Poll \/ Polled \/ ReadSome \/ WouldBlock
  PROVE  HandleInv'
<1>1. /\ TypeOK /\ EachWriteOnce /\ WritesCounted /\ ReadsCounted /\ AllCounted /\ ActiveCounted
      /\ AtWork /\ IssuedInOrder /\ NeverBehind
  BY DEF HandleInv
<1>2. UNCHANGED <<activecnt, reqs_pending, write_reqs_pending, write_queue_size,
                  kernelVars, peerVars, writeVars, freedSent>>
  BY DEF Poll, Polled, ReadSome, WouldBlock, handleVars
<1>3. \A S : Total(S)' = Total(S)
  <2>1. CASE Poll
    BY <1>1, <2>1, TotalPoll
  <2>2. CASE Polled \/ ReadSome \/ WouldBlock
    BY <2>2, TotalUnchanged DEF Polled, ReadSome, WouldBlock
  <2> QED
    BY <2>1, <2>2
<1>4. Pending' = Pending /\ Issued' = Issued /\ ReadsOut' = ReadsOut
  BY <1>2, <1>3 DEF Pending, Issued, ReadsOut, kernelVars, writeVars
<1>5. EachWriteOnce' /\ WritesCounted' /\ AllCounted' /\ IssuedInOrder' /\ NeverBehind'
  BY <1>1, <1>2, <1>3, <1>4 DEF EachWriteOnce, WritesCounted, AllCounted, IssuedInOrder,
     NeverBehind, kernelVars, peerVars, writeVars
<1>6. TypeOK /\ HandleAssumption
  BY <1>1, HandleAssumption
<1>7. CASE Poll
  <2>1. pc' = "requests" /\ flags' = flags /\ pc = "poll"
    BY <1>7 DEF Poll, handleVars
  <2>2. /\ batch' \in Seq(Requests) /\ pending_reqs' \in Seq(Requests)
        /\ port' \in Seq(Requests)
    BY <1>1, <1>7, EmptySeq, ConcatProperties DEF Poll, Dequeued, TypeOK
  <2>3. TypeOK'
    BY <1>1, <1>2, <1>7, <2>1, <2>2 DEF TypeOK, Poll, kernelVars, peerVars, writeVars
  <2>4. ReadsCounted' /\ ActiveCounted' /\ AtWork'
    BY <1>1, <1>2, <1>4, <2>1 DEF ReadsCounted, ActiveCounted, AtWork
  <2> QED
    BY <1>5, <2>3, <2>4 DEF HandleInv
<1>8. CASE Polled
  <2>1. pc' = "poll" /\ flags' = flags /\ pc = "requests" /\ batch = <<>>
        /\ UNCHANGED <<count, queueVars>>
    BY <1>8 DEF Polled, handleVars
  <2>2. TypeOK'
    BY <1>1, <1>2, <2>1 DEF TypeOK, kernelVars, peerVars, writeVars, queueVars
  <2>3. ReadsCounted' /\ ActiveCounted' /\ AtWork'
    BY <1>1, <1>2, <1>4, <2>1 DEF ReadsCounted, ActiveCounted, AtWork, queueVars
  <2> QED
    BY <1>5, <2>2, <2>3 DEF HandleInv
<1>9. CASE ReadSome
  <2>1. /\ pc' = "reads" /\ flags' = flags \ {"READ_PENDING"} /\ pc = "requests" /\ count' = MaxReads
        /\ batch # <<>> /\ Head(batch).kind = "read" /\ UNCHANGED queueVars
    BY <1>9 DEF ReadSome, Processing
  <2>2. TypeOK'
    <3>1. count' \in 0..MaxReads
      BY <2>1, HandleAssumption
    <3> QED
      BY <1>1, <1>2, <2>1, <3>1 DEF TypeOK, kernelVars, peerVars, writeVars, queueVars
  <2>3. Head(batch) \in ReadRequests
    BY <1>1, <2>1, HeadTailProperties, HeadKind DEF TypeOK
  <2>4. "READING" \in flags
    <3>1. ReadsOut \in Nat /\ ReadsOut > 0
      <4>1. Total(ReadRequests) \in Nat \ {0}
        BY <1>1, <2>1, <2>3, InBatch
      <4> QED
        BY <4>1 DEF ReadsOut
    <3> QED
      BY <1>1, <2>1, <3>1 DEF ReadsCounted
  <2>5. ReadsCounted' /\ ActiveCounted' /\ AtWork'
    BY <1>1, <1>2, <1>4, <2>1, <2>3, <2>4 DEF ReadsCounted, ActiveCounted, AtWork, queueVars
  <2> QED
    BY <1>5, <2>2, <2>5 DEF HandleInv
<1>10. CASE WouldBlock
  <2>1. pc' = "done" /\ flags' = flags /\ pc = "reads" /\ UNCHANGED <<count, queueVars>>
    BY <1>10 DEF WouldBlock, Reads, handleVars
  <2>2. TypeOK'
    BY <1>1, <1>2, <2>1 DEF TypeOK, kernelVars, peerVars, writeVars, queueVars
  <2>3. ReadsCounted' /\ ActiveCounted' /\ AtWork'
    BY <1>1, <1>2, <1>4, <2>1 DEF ReadsCounted, ActiveCounted, AtWork, queueVars
  <2> QED
    BY <1>5, <2>2, <2>3 DEF HandleInv
<1> QED
  BY <1>7, <1>8, <1>9, <1>10

(* The handle ends its reading: EndEvent, or ErrorEvent. *)
LEMMA ReadingEnds ==
  ASSUME HandleInv, EndEvent \/ ErrorEvent
  PROVE  HandleInv'
<1>1. /\ TypeOK /\ EachWriteOnce /\ WritesCounted /\ ReadsCounted /\ AllCounted /\ ActiveCounted
      /\ AtWork /\ IssuedInOrder /\ NeverBehind
  BY DEF HandleInv
<1>2. /\ pc = "reads" /\ pc' = "done" /\ "READING" \in flags /\ activecnt' = activecnt - 1
      /\ UNCHANGED <<count, reqs_pending, write_reqs_pending, write_queue_size, queueVars,
                     kernelVars, peerVars, writeVars, freedSent>>
  BY DEF EndEvent, ErrorEvent, Reads
<1>3. PICK f \in SUBSET Flags :
        /\ flags' = Deactivated(f) /\ "READING" \notin f
        /\ "ACTIVE" \in f <=> "ACTIVE" \in flags
  <2>1. flags \subseteq Flags
    BY <1>1 DEF TypeOK
  <2>2. CASE EndEvent
    BY <2>1, <2>2 DEF EndEvent, StoppedReading, Flags
  <2>3. CASE ErrorEvent
    BY <2>1, <2>3 DEF ErrorEvent, StoppedReading, Flags
  <2> QED
    BY <2>2, <2>3
<1>4. /\ Pending' = Pending /\ Issued' = Issued /\ ReadsOut' = ReadsOut /\ EachWriteOnce'
      /\ \A S : Total(S)' = Total(S)
  BY <1>1, <1>2, BooksKept DEF kernelVars, writeVars
<1>5. WritesCounted' /\ AllCounted' /\ IssuedInOrder' /\ NeverBehind'
  BY <1>1, <1>2, <1>4 DEF WritesCounted, AllCounted, IssuedInOrder, NeverBehind,
     kernelVars, peerVars, writeVars
<1>6. Cardinality(Pending) \in Nat
  BY <1>1, WritesFinite
<1>7. activecnt = Cardinality(Pending) + 1 /\ "ACTIVE" \in flags
  BY <1>1, <1>2, <1>6 DEF ActiveCounted
<1>8. /\ "READING" \notin flags' /\ flags' \subseteq Flags
      /\ "ACTIVE" \in flags' <=> activecnt # 1
  BY <1>3, <1>7 DEF Deactivated
<1>9. ActiveCounted'
  <2>1. activecnt' = Cardinality(Pending)
    BY <1>2, <1>6, <1>7
  <2>2. activecnt' > 0 <=> activecnt # 1
    BY <1>2, <1>6, <1>7
  <2> QED
    BY <1>4, <1>8, <2>1, <2>2, <1>6 DEF ActiveCounted
<1>10. ReadsCounted' /\ AtWork'
  BY <1>1, <1>2, <1>4, <1>8 DEF ReadsCounted, AtWork, queueVars
<1>11. TypeOK'
  <2>1. activecnt' \in Nat
    BY <1>2, <1>6, <1>7
  <2> QED
    BY <1>1, <1>2, <1>8, <2>1 DEF TypeOK, queueVars, kernelVars, peerVars, writeVars
<1> QED
  BY <1>4, <1>5, <1>9, <1>10, <1>11 DEF HandleInv

-----------------------------------------------------------------------------
(* A DataEvent whose handler does not send. *)
LEMMA DataWithoutAnswer ==
  ASSUME HandleInv, NEW full \in BOOLEAN, DataEvent(full), Unchanged
  PROVE  HandleInv'
<1>1. /\ TypeOK /\ EachWriteOnce /\ WritesCounted /\ ReadsCounted /\ AllCounted /\ ActiveCounted
      /\ AtWork /\ IssuedInOrder /\ NeverBehind
  BY DEF HandleInv
<1>2. /\ pc = "reads" /\ "READING" \in flags /\ count > 0 /\ incoming > 0
      /\ incoming' = incoming - 1 /\ pc' \in {"reads", "done"}
      /\ count' \in {count, count - 1}
      /\ UNCHANGED <<handleVars, queueVars, kernelVars, peer, chunks, disciplined,
                     writeVars, freedSent>>
  BY DEF DataEvent, Reads, Unchanged, handleVars, queueVars, kernelVars, writeVars
<1>3. /\ Pending' = Pending /\ Issued' = Issued /\ ReadsOut' = ReadsOut /\ EachWriteOnce'
      /\ \A S : Total(S)' = Total(S)
  BY <1>1, <1>2, BooksKept DEF kernelVars, writeVars
<1>4. /\ incoming \in Nat /\ count \in 0..MaxReads /\ MaxReads \in Nat /\ Issued \in Nat
      /\ chunks \in Nat /\ unread \in Nat
  BY <1>1, WritesFinite, HandleAssumption DEF TypeOK
<1>5. incoming' \in Nat /\ count' \in 0..MaxReads
  BY <1>2, <1>4
<1>6. TypeOK'
  BY <1>1, <1>2, <1>5 DEF TypeOK, handleVars, queueVars, kernelVars, writeVars
<1>7. WritesCounted' /\ ReadsCounted' /\ AllCounted' /\ ActiveCounted' /\ AtWork'
  BY <1>1, <1>2, <1>3 DEF WritesCounted, ReadsCounted, AllCounted, ActiveCounted, AtWork,
     handleVars, queueVars, kernelVars, writeVars
<1>8. IssuedInOrder'
  <2>1. Issued + incoming' <= chunks
    BY <1>1, <1>2, <1>4 DEF IssuedInOrder
  <2> QED
    BY <1>1, <1>2, <1>3, <2>1 DEF IssuedInOrder, writeVars
<1>9. NeverBehind'
  BY <1>1, <1>2, <1>4 DEF NeverBehind, kernelVars
<1> QED
  BY <1>3, <1>6, <1>7, <1>8, <1>9 DEF HandleInv

(* Where the bytes of a write go: a completed request, or the kernel. *)
LEMMA Transmitted ==
  ASSUME TypeOK, NEW i \in Writes, Transmit(i), UNCHANGED <<batch, port>>
  PROVE  /\ \A j \in Writes :
              HowMany(sending', {j}) + Total(RequestsOf(j))'
                = HowMany(sending, {j}) + Total(RequestsOf(j)) + IF j = i THEN 1 ELSE 0
         /\ Total(ReadRequests)' = Total(ReadRequests)
         /\ write_queue_size' - (Len(sending') + Total(QueuedWrites)')
              = write_queue_size - (Len(sending) + Total(QueuedWrites))
         /\ pending_reqs' \in Seq(Requests) /\ sending' \in Seq(Writes)
         /\ unread' \in 0..SendBuffer /\ write_queue_size' \in Nat
<1>1. /\ \A S : Total(S) \in Nat
      /\ Len(sending) \in Nat /\ write_queue_size \in Nat /\ unread \in 0..SendBuffer
      /\ SendBuffer \in Nat /\ pending_reqs \in Seq(Requests) /\ sending \in Seq(Writes)
      /\ \A j \in Writes : HowMany(sending, {j}) \in Nat
  BY TotalType, SendingMoves, HandleAssumption DEF TypeOK
<1>2. ASSUME NEW ok \in BOOLEAN,
             pending_reqs' = Append(pending_reqs, WriteRequest(i, ok, 0)),
             UNCHANGED <<sending, write_queue_size>>,
             unread' \in 0..SendBuffer
      PROVE  /\ \A j \in Writes :
                  HowMany(sending', {j}) + Total(RequestsOf(j))'
                    = HowMany(sending, {j}) + Total(RequestsOf(j)) + IF j = i THEN 1 ELSE 0
             /\ Total(ReadRequests)' = Total(ReadRequests)
             /\ write_queue_size' - (Len(sending') + Total(QueuedWrites)')
                  = write_queue_size - (Len(sending) + Total(QueuedWrites))
             /\ pending_reqs' \in Seq(Requests) /\ sending' \in Seq(Writes)
             /\ unread' \in 0..SendBuffer /\ write_queue_size' \in Nat
  <2> DEFINE r == WriteRequest(i, ok, 0)
  <2>1. /\ r \in Requests /\ r \notin ReadRequests /\ r \notin QueuedWrites
        /\ \A j \in Writes : r \in RequestsOf(j) <=> j = i
    <3>1. 0 \in {0, 1}
      OBVIOUS
    <3> QED
      BY <3>1, WriteRequestKind
  <2> HIDE DEF r
  <2>2. \A S : Total(S)' = Total(S) + IF r \in S THEN 1 ELSE 0
    BY <1>2, <2>1, TotalAppend DEF r
  <2>3. pending_reqs' \in Seq(Requests)
    BY <1>1, <1>2, <2>1, AppendProperties DEF r
  <2>4. \A j \in Writes : Total(RequestsOf(j))' = Total(RequestsOf(j)) + IF j = i THEN 1 ELSE 0
    BY <2>1, <2>2
  <2>5. Total(ReadRequests)' = Total(ReadRequests) + 0 /\ Total(QueuedWrites)' = Total(QueuedWrites) + 0
    BY <2>1, <2>2
  <2>6. Total(ReadRequests)' = Total(ReadRequests) /\ Total(QueuedWrites)' = Total(QueuedWrites)
    BY <1>1, <2>5
  <2>7. \A j \in Writes : HowMany(sending', {j}) = HowMany(sending, {j})
                         /\ HowMany(sending, {j}) \in Nat /\ Total(RequestsOf(j)) \in Nat
    BY <1>1, <1>2
  <2>8. ASSUME NEW j \in Writes
        PROVE  HowMany(sending', {j}) + Total(RequestsOf(j))'
                 = HowMany(sending, {j}) + Total(RequestsOf(j)) + IF j = i THEN 1 ELSE 0
    <3>1. CASE j = i
      <4>1. Total(RequestsOf(j))' = Total(RequestsOf(j)) + 1
        BY <2>4, <3>1
      <4> QED
        BY <2>7, <3>1, <4>1
    <3>2. CASE j # i
      <4>1. Total(RequestsOf(j))' = Total(RequestsOf(j)) + 0
        BY <2>4, <3>2
      <4> QED
        BY <2>7, <3>2, <4>1
    <3> QED
      BY <3>1, <3>2
  <2>9. write_queue_size' - (Len(sending') + Total(QueuedWrites)')
          = write_queue_size - (Len(sending) + Total(QueuedWrites))
    BY <1>2, <2>6
  <2> QED
    BY <1>1, <1>2, <2>3, <2>6, <2>8, <2>9
<1>3. ASSUME sending' = Append(sending, i), write_queue_size' = write_queue_size + 1,
             UNCHANGED <<unread, pending_reqs>>
      PROVE  /\ \A j \in Writes :
                  HowMany(sending', {j}) + Total(RequestsOf(j))'
                    = HowMany(sending, {j}) + Total(RequestsOf(j)) + IF j = i THEN 1 ELSE 0
             /\ Total(ReadRequests)' = Total(ReadRequests)
             /\ write_queue_size' - (Len(sending') + Total(QueuedWrites)')
                  = write_queue_size - (Len(sending) + Total(QueuedWrites))
             /\ pending_reqs' \in Seq(Requests) /\ sending' \in Seq(Writes)
             /\ unread' \in 0..SendBuffer /\ write_queue_size' \in Nat
  <2>1. \A S : Total(S)' = Total(S)
    BY <1>3, TotalUnchanged DEF queueVars
  <2>2. /\ Len(sending') = Len(sending) + 1 /\ sending' \in Seq(Writes)
        /\ HowMany(sending', {i}) = HowMany(sending, {i}) + 1
        /\ \A j \in Writes \ {i} : HowMany(sending', {j}) = HowMany(sending, {j})
    BY <1>3, SendingMoves
  <2>3. ASSUME NEW j \in Writes
        PROVE  HowMany(sending', {j}) + Total(RequestsOf(j))'
                 = HowMany(sending, {j}) + Total(RequestsOf(j)) + IF j = i THEN 1 ELSE 0
    <3>1. HowMany(sending, {j}) \in Nat /\ Total(RequestsOf(j)) \in Nat
          /\ Total(RequestsOf(j))' = Total(RequestsOf(j))
      BY <1>1, <2>1
    <3>2. CASE j = i
      <4>1. HowMany(sending', {j}) = HowMany(sending, {j}) + 1
        BY <2>2, <3>2
      <4> QED
        BY <3>1, <3>2, <4>1
    <3>3. CASE j # i
      <4>1. HowMany(sending', {j}) = HowMany(sending, {j})
        BY <2>2, <3>3
      <4> QED
        BY <3>1, <3>3, <4>1
    <3> QED
      BY <3>2, <3>3
  <2>4. Total(ReadRequests)' = Total(ReadRequests) /\ Total(QueuedWrites)' = Total(QueuedWrites)
        /\ Total(QueuedWrites) \in Nat
    BY <1>1, <2>1
  <2> QED
    BY <1>1, <1>3, <2>2, <2>3, <2>4
<1>4. CASE /\ unread < SendBuffer /\ unread' = unread + 1
           /\ pending_reqs' = Append(pending_reqs, WriteRequest(i, TRUE, 0))
           /\ UNCHANGED <<sending, write_queue_size>>
  <2>1. unread' \in 0..SendBuffer
    BY <1>1, <1>4
  <2> QED
    BY <1>2, <1>4, <2>1
<1>5. CASE /\ pending_reqs' = Append(pending_reqs, WriteRequest(i, FALSE, 0))
           /\ UNCHANGED <<sending, unread, write_queue_size>>
  BY <1>1, <1>2, <1>5
<1> QED
  BY <1>3, <1>4, <1>5 DEF Transmit

(* A DataEvent whose handler sends the next answer: the handle is active,   *)
(* so that the answer is written.                                           *)
LEMMA DataWithAnswer ==
  ASSUME HandleInv, NEW full \in BOOLEAN, DataEvent(full), Send
  PROVE  /\ HandleInv'
         /\ outcome' = [outcome EXCEPT ![NextWrite] = "pending"]
<1>1. /\ TypeOK /\ EachWriteOnce /\ WritesCounted /\ ReadsCounted /\ AllCounted /\ ActiveCounted
      /\ AtWork /\ IssuedInOrder /\ NeverBehind
  BY DEF HandleInv
<1> DEFINE i == NextWrite
<1>2. /\ pc = "reads" /\ "READING" \in flags /\ count > 0 /\ incoming > 0
      /\ incoming' = incoming - 1 /\ pc' \in {"reads", "done"}
      /\ count' \in {count, count - 1}
      /\ UNCHANGED <<batch, port, readHeld, peer, chunks, disciplined, freedSent>>
  BY DEF DataEvent, Reads
<1>3. Cardinality(Pending) \in Nat /\ Issued \in Nat
  BY <1>1, WritesFinite
<1>4. Write(i)
  <2>1. activecnt > 0
    BY <1>1, <1>2, <1>3 DEF ActiveCounted
  <2> QED
    BY <1>1, <2>1 DEF Send, IsActive, ActiveCounted
<1>5. i \in Writes /\ outcome[i] = "unused" /\ i = Issued + 1
      /\ \A j \in Writes : j < i => outcome[j] # "unused"
  BY <1>1, <1>2, NextIsUnused
<1> HIDE DEF i
<1>6. /\ Transmit(i)
      /\ flags' = flags \cup {"ACTIVE"} /\ activecnt' = activecnt + 1
      /\ reqs_pending' = reqs_pending + 1 /\ write_reqs_pending' = write_reqs_pending + 1
      /\ active_reqs' = active_reqs + 1 /\ leaked' = leaked \cup {i}
      /\ outcome' = [outcome EXCEPT ![i] = "pending"]
  BY <1>4 DEF Write, Activated, Leaked
<1>7. /\ Pending' = Pending \cup {i} /\ Cardinality(Pending') = Cardinality(Pending) + 1
      /\ Issued' = Issued + 1
  BY <1>1, <1>5, <1>6, WriteIssued
<1>8. /\ \A j \in Writes :
           HowMany(sending', {j}) + Total(RequestsOf(j))'
             = HowMany(sending, {j}) + Total(RequestsOf(j)) + IF j = i THEN 1 ELSE 0
      /\ Total(ReadRequests)' = Total(ReadRequests)
      /\ write_queue_size' - (Len(sending') + Total(QueuedWrites)')
           = write_queue_size - (Len(sending) + Total(QueuedWrites))
      /\ pending_reqs' \in Seq(Requests) /\ sending' \in Seq(Writes)
      /\ unread' \in 0..SendBuffer /\ write_queue_size' \in Nat
  BY <1>1, <1>2, <1>5, <1>6, Transmitted
<1>9. outcome \in [Writes -> {"unused", "pending", "WriteEvent", "ErrorEvent"}]
  BY <1>1 DEF TypeOK
<1>10. EachWriteOnce'
  <2> SUFFICES ASSUME NEW j \in Writes
               PROVE  HowMany(sending', {j}) + Total(RequestsOf(j))'
                        = IF outcome'[j] = "pending" THEN 1 ELSE 0
    BY DEF EachWriteOnce
  <2>1. HowMany(sending, {j}) + Total(RequestsOf(j)) = IF outcome[j] = "pending" THEN 1 ELSE 0
    BY <1>1 DEF EachWriteOnce
  <2>2. CASE j = i
    <3>1. HowMany(sending, {j}) + Total(RequestsOf(j)) = 0 /\ outcome'[j] = "pending"
      BY <1>5, <1>6, <1>9, <2>1, <2>2
    <3>2. HowMany(sending', {j}) + Total(RequestsOf(j))'
            = (HowMany(sending, {j}) + Total(RequestsOf(j))) + 1
      BY <1>8, <2>2
    <3> QED
      BY <3>1, <3>2
  <2>3. CASE j # i
    <3>1. outcome'[j] = outcome[j]
      BY <1>6, <1>9, <2>3
    <3>2. HowMany(sending', {j}) + Total(RequestsOf(j))'
            = (HowMany(sending, {j}) + Total(RequestsOf(j))) + 0
      BY <1>8, <2>3
    <3> QED
      BY <2>1, <3>1, <3>2
  <2> QED
    BY <2>2, <2>3
<1>11. ReadsOut' = ReadsOut
  BY <1>2, <1>8 DEF ReadsOut
<1>12. WritesCounted'
  <2>1. write_reqs_pending = Cardinality(Pending) /\ active_reqs = Cardinality(Pending)
        /\ leaked = Pending /\ write_queue_size = Len(sending) + Total(QueuedWrites)
    BY <1>1 DEF WritesCounted
  <2>2. /\ Len(sending) \in Nat /\ Total(QueuedWrites) \in Nat
    BY <1>1, SendingMoves, TotalType
  <2>3. Len(sending') \in Nat
    BY <1>8, LenProperties
  <2>4. Total(QueuedWrites)' \in Nat
    <3>1. HowMany(pending_reqs', QueuedWrites) \in Nat
      BY <1>8, CountType
    <3>2. HowMany(batch, QueuedWrites) \in Nat /\ HowMany(port, QueuedWrites) \in Nat
      BY <1>1, TotalType
    <3> QED
      BY <1>2, <3>1, <3>2 DEF Total
  <2>5. write_queue_size' = Len(sending') + Total(QueuedWrites)'
    BY <1>8, <2>1, <2>2, <2>3, <2>4, SMTT(30)
  <2> QED
    BY <1>6, <1>7, <2>1, <2>5 DEF WritesCounted
<1>13. ReadsCounted' /\ AtWork'
  BY <1>1, <1>2, <1>6, <1>11 DEF ReadsCounted, AtWork
<1>14. AllCounted'
  <2>1. ReadsOut \in Nat
    BY <1>1, TotalType DEF ReadsOut
  <2> QED
    BY <1>1, <1>6, <1>7, <1>11, <1>3, <2>1 DEF AllCounted
<1>15. ActiveCounted'
  <2>1. activecnt = Cardinality(Pending) + 1 /\ "READING" \in flags' /\ "ACTIVE" \in flags'
    BY <1>1, <1>2, <1>6 DEF ActiveCounted
  <2>2. activecnt' = Cardinality(Pending') + 1 /\ activecnt' > 0
    BY <1>6, <1>7, <1>3, <2>1
  <2> QED
    BY <2>1, <2>2 DEF ActiveCounted
<1>16. /\ incoming \in Nat /\ count \in 0..MaxReads /\ MaxReads \in Nat
       /\ chunks \in Nat /\ unread \in 0..SendBuffer /\ SendBuffer \in Nat \ {0}
       /\ activecnt \in Nat /\ reqs_pending \in Nat /\ write_reqs_pending \in Nat
       /\ active_reqs \in Nat
  BY <1>1, HandleAssumption DEF TypeOK
<1>17. IssuedInOrder'
  <2>1. Issued' + incoming' <= chunks'
    BY <1>1, <1>2, <1>7, <1>3, <1>16 DEF IssuedInOrder
  <2>2. ASSUME NEW j \in Writes
        PROVE  outcome'[j] # "unused" <=> j <= Issued + 1
    <3>1. j \in Int /\ (outcome[j] # "unused" <=> j <= Issued)
      BY <1>1 DEF IssuedInOrder, Writes
    <3>2. outcome'[j] = IF j = i THEN "pending" ELSE outcome[j]
      BY <1>6, <1>9
    <3> QED
      BY <1>5, <1>3, <3>1, <3>2
  <2> QED
    BY <1>7, <2>1, <2>2 DEF IssuedInOrder
<1>18. NeverBehind'
  <2> SUFFICES ASSUME disciplined
               PROVE  incoming' + unread' <= 1 /\ sending' = <<>> /\ freedSent' = {}
    BY <1>2 DEF NeverBehind
  <2>1. incoming + unread <= 1 /\ sending = <<>> /\ freedSent = {}
    BY <1>1 DEF NeverBehind
  <2>2. unread = 0 /\ incoming = 1 /\ unread # SendBuffer
    BY <1>2, <1>16, <2>1
  <2>3. UNCHANGED sending /\ (unread' = unread + 1 \/ unread' = unread)
    <3>1. ~(sending # <<>> \/ unread = SendBuffer)
      BY <2>1, <2>2
    <3> QED
      BY <1>6, <3>1 DEF Transmit
  <2>4. incoming' = 0 /\ (unread' = 0 \/ unread' = 1)
    BY <1>2, <2>2, <2>3
  <2>5. incoming' + unread' <= 1
    BY <2>4
  <2> QED
    BY <1>2, <2>1, <2>3, <2>5
<1>19. TypeOK'
  <2>1. /\ incoming' \in Nat /\ count' \in 0..MaxReads /\ activecnt' \in Nat
        /\ reqs_pending' \in Nat /\ write_reqs_pending' \in Nat /\ active_reqs' \in Nat
    BY <1>2, <1>6, <1>16
  <2>2. flags' \subseteq Flags /\ leaked' \subseteq Writes
    BY <1>1, <1>5, <1>6 DEF TypeOK, Flags
  <2>3. outcome' \in [Writes -> {"unused", "pending", "WriteEvent", "ErrorEvent"}]
    BY <1>5, <1>6, <1>9
  <2> QED
    BY <1>1, <1>2, <1>8, <2>1, <2>2, <2>3 DEF TypeOK
<1> QED
  BY <1>6, <1>10, <1>12, <1>13, <1>14, <1>15, <1>17, <1>18, <1>19 DEF HandleInv, i

-----------------------------------------------------------------------------
(* A write's request at the head of the batch is that of a pending write. *)
LEMMA HeadIsPending ==
  ASSUME TypeOK, EachWriteOnce, batch # <<>>, Head(batch).kind = "write"
  PROVE  /\ Head(batch) \in Requests /\ Head(batch).write \in Writes
         /\ outcome[Head(batch).write] = "pending"
<1>1. batch \in Seq(Requests)
  BY DEF TypeOK
<1>2. Head(batch) \in Requests
  BY <1>1, HeadTailProperties
<1> DEFINE w == Head(batch).write
<1>3. w \in Writes /\ Head(batch) \in RequestsOf(w)
  BY <1>2, HeadKind
<1> HIDE DEF w
<1>4. Total(RequestsOf(w)) \in Nat \ {0}
  BY <1>3, InBatch
<1>5. HowMany(sending, {w}) \in Nat
  BY <1>3, SendingMoves
<1>6. HowMany(sending, {w}) + Total(RequestsOf(w)) = IF outcome[w] = "pending" THEN 1 ELSE 0
  BY <1>3 DEF EachWriteOnce
<1>7. outcome[w] = "pending"
  BY <1>4, <1>5, <1>6
<1> QED
  BY <1>2, <1>3, <1>7 DEF w

LEMMA WriteDoneStep ==
  ASSUME HandleInv, WriteDone
  PROVE  HandleInv'
<1>1. /\ TypeOK /\ EachWriteOnce /\ WritesCounted /\ ReadsCounted /\ AllCounted /\ ActiveCounted
      /\ AtWork /\ IssuedInOrder /\ NeverBehind
  BY DEF HandleInv
<1> DEFINE req == Head(batch)
           w == req.write
<1>2. /\ pc = "requests" /\ batch # <<>> /\ req.kind = "write"
      /\ write_queue_size' = write_queue_size - req.queued_bytes
      /\ leaked' = leaked \ {w}
      /\ flags' = Deactivated(flags) /\ activecnt' = activecnt - 1
      /\ active_reqs' = active_reqs - 1
      /\ write_reqs_pending' = write_reqs_pending - 1 /\ reqs_pending' = reqs_pending - 1
      /\ batch' = Tail(batch)
      /\ UNCHANGED <<pc, count, pending_reqs, port, kernelVars, peerVars, freedSent>>
  BY DEF WriteDone, Processing
<1>3. PICK event \in {"WriteEvent", "ErrorEvent"} : outcome' = [outcome EXCEPT ![w] = event]
  BY DEF WriteDone
<1>4. req \in Requests /\ w \in Writes /\ outcome[w] = "pending"
  BY <1>1, <1>2, HeadIsPending
<1>5. /\ req.queued_bytes \in {0, 1} /\ req \notin ReadRequests
      /\ req \in QueuedWrites <=> req.queued_bytes = 1
      /\ \A i \in Writes : req \in RequestsOf(i) <=> i = w
  BY <1>2, <1>4, HeadKind
<1>6. /\ Tail(batch) \in Seq(Requests)
      /\ \A S : Total(S) \in Nat /\ Total(S)' = Total(S) - IF req \in S THEN 1 ELSE 0
  BY <1>1, <1>2, TotalTail, TotalType, HeadTailProperties DEF TypeOK
<1>7. Total(QueuedWrites) >= IF req \in QueuedWrites THEN 1 ELSE 0
  BY <1>1, <1>2, TotalTail
<1> HIDE DEF req, w
<1>8. /\ Pending' = Pending \ {w} /\ Cardinality(Pending') = Cardinality(Pending) - 1
      /\ Issued' = Issued
  BY <1>1, <1>3, <1>4, WriteAnswered
<1>9. Cardinality(Pending) \in Nat \ {0}
  BY <1>1, <1>4, PendingCounted
<1>10. outcome \in [Writes -> {"unused", "pending", "WriteEvent", "ErrorEvent"}]
  BY <1>1 DEF TypeOK
<1>11. ReadsOut' = ReadsOut /\ ReadsOut \in Nat
  <2>1. Total(ReadRequests)' = Total(ReadRequests) - 0 /\ Total(ReadRequests) \in Nat
    BY <1>5, <1>6
  <2>2. Total(ReadRequests)' = Total(ReadRequests)
    BY <2>1
  <2> QED
    BY <1>2, <2>1, <2>2 DEF ReadsOut, kernelVars
<1>12. EachWriteOnce'
  <2> SUFFICES ASSUME NEW j \in Writes
               PROVE  HowMany(sending', {j}) + Total(RequestsOf(j))'
                        = IF outcome'[j] = "pending" THEN 1 ELSE 0
    BY DEF EachWriteOnce
  <2>1. /\ HowMany(sending, {j}) + Total(RequestsOf(j)) = IF outcome[j] = "pending" THEN 1 ELSE 0
        /\ HowMany(sending, {j}) \in Nat /\ HowMany(sending', {j}) = HowMany(sending, {j})
    BY <1>1, <1>2, SendingMoves DEF EachWriteOnce, kernelVars
  <2>2. CASE j = w
    <3>1. Total(RequestsOf(j))' = Total(RequestsOf(j)) - 1 /\ Total(RequestsOf(j)) \in Nat
      BY <1>5, <1>6, <2>2
    <3>2. outcome[j] = "pending" /\ outcome'[j] # "pending"
      BY <1>3, <1>4, <1>10, <2>2
    <3> QED
      BY <2>1, <3>1, <3>2
  <2>3. CASE j # w
    <3>1. Total(RequestsOf(j))' = Total(RequestsOf(j)) - 0 /\ Total(RequestsOf(j)) \in Nat
      BY <1>5, <1>6, <2>3
    <3>2. outcome'[j] = outcome[j]
      BY <1>3, <1>10, <2>3
    <3> QED
      BY <2>1, <3>1, <3>2
  <2> QED
    BY <2>2, <2>3
<1>13. /\ write_reqs_pending = Cardinality(Pending) /\ active_reqs = Cardinality(Pending)
       /\ leaked = Pending /\ write_queue_size = Len(sending) + Total(QueuedWrites)
       /\ Len(sending) \in Nat
  BY <1>1, SendingMoves DEF WritesCounted
<1>14. write_queue_size' = Len(sending) + Total(QueuedWrites)' /\ write_queue_size' \in Nat
  <2>1. Total(QueuedWrites) \in Nat
    BY <1>6
  <2>2. CASE req \in QueuedWrites
    <3>1. Total(QueuedWrites)' = Total(QueuedWrites) - 1 /\ Total(QueuedWrites) >= 1
          /\ req.queued_bytes = 1
      BY <1>5, <1>6, <1>7, <2>2
    <3> QED
      BY <1>2, <1>13, <2>1, <3>1
  <2>3. CASE req \notin QueuedWrites
    <3>1. Total(QueuedWrites)' = Total(QueuedWrites) - 0 /\ req.queued_bytes = 0
      BY <1>5, <1>6, <2>3
    <3> QED
      BY <1>2, <1>13, <2>1, <3>1
  <2> QED
    BY <2>2, <2>3
<1>15. WritesCounted'
  <2>1. sending' = sending
    BY <1>2 DEF kernelVars
  <2> QED
    BY <1>2, <1>8, <1>13, <1>14, <2>1 DEF WritesCounted
<1>16. /\ "READING" \in flags' <=> "READING" \in flags
       /\ "ACTIVE" \in flags' <=> "ACTIVE" \in flags /\ activecnt # 1
       /\ flags' \subseteq Flags
  BY <1>1, <1>2 DEF Deactivated, TypeOK
<1>17. ReadsCounted' /\ AllCounted' /\ AtWork'
  <2>1. ReadsCounted'
    BY <1>1, <1>2, <1>11, <1>16 DEF ReadsCounted
  <2>2. AllCounted'
    BY <1>1, <1>2, <1>8, <1>11, <1>9 DEF AllCounted
  <2>3. AtWork'
    BY <1>1, <1>2 DEF AtWork
  <2> QED
    BY <2>1, <2>2, <2>3
<1>18. ActiveCounted' /\ activecnt' \in Nat
  <2> DEFINE one == IF "READING" \in flags THEN 1 ELSE 0
  <2>1. activecnt = Cardinality(Pending) + one /\ one \in {0, 1} /\ "ACTIVE" \in flags
    BY <1>1, <1>9 DEF ActiveCounted
  <2>2. one' = one
    BY <1>16
  <2> HIDE DEF one
  <2>3. activecnt' = Cardinality(Pending') + one' /\ activecnt' \in Nat
        /\ (activecnt' > 0 <=> activecnt # 1)
    BY <1>2, <1>8, <1>9, <2>1, <2>2, SMTT(30)
  <2> QED
    BY <1>16, <2>1, <2>3 DEF ActiveCounted, one
<1>19. IssuedInOrder' /\ NeverBehind'
  <2>1. \A i \in Writes : outcome'[i] # "unused" <=> outcome[i] # "unused"
    BY <1>3, <1>4, <1>10
  <2> QED
    BY <1>1, <1>2, <1>8, <2>1 DEF IssuedInOrder, NeverBehind, kernelVars, peerVars
<1>20. TypeOK'
  <2>1. /\ write_reqs_pending' \in Nat /\ active_reqs' \in Nat /\ reqs_pending' \in Nat
    BY <1>1, <1>2, <1>9, <1>13, <1>11, SMTT(30) DEF AllCounted
  <2>2. outcome' \in [Writes -> {"unused", "pending", "WriteEvent", "ErrorEvent"}]
    BY <1>3, <1>4, <1>10
  <2> QED
    BY <1>1, <1>2, <1>16, <1>18, <1>14, <1>6, <2>1, <2>2 DEF TypeOK, kernelVars, peerVars
<1> QED
  BY <1>12, <1>15, <1>17, <1>18, <1>19, <1>20 DEF HandleInv

(* While a read request is in the batch there is no other, and the handle   *)
(* reads, unless its reading ended just now.                                *)
LEMMA ReadAtHead ==
  ASSUME TypeOK, ReadsCounted, batch # <<>>, Head(batch).kind = "read"
  PROVE  /\ Head(batch) \in ReadRequests /\ Head(batch) \notin QueuedWrites
         /\ \A i \in Writes : Head(batch) \notin RequestsOf(i)
         /\ Tail(batch) \in Seq(Requests)
         /\ Total(ReadRequests) = 1 /\ readHeld = FALSE /\ ReadsOut = 1
         /\ "READING" \in flags \/ pc = "done"
<1>1. batch \in Seq(Requests) /\ readHeld \in BOOLEAN
  BY DEF TypeOK
<1>2. Head(batch) \in Requests /\ Tail(batch) \in Seq(Requests)
  BY <1>1, HeadTailProperties
<1>3. /\ Head(batch) \in ReadRequests /\ Head(batch) \notin QueuedWrites
      /\ \A i \in Writes : Head(batch) \notin RequestsOf(i)
  BY <1>2, HeadKind
<1>4. Total(ReadRequests) \in Nat \ {0}
  BY <1>3, InBatch
<1>5. ReadsOut = (IF readHeld THEN 1 ELSE 0) + Total(ReadRequests)
      /\ ReadsOut = IF "READING" \in flags \/ pc = "done" THEN 1 ELSE 0
  BY DEF ReadsOut, ReadsCounted
<1>6. "READING" \in flags \/ pc = "done"
  BY <1>4, <1>5
<1> QED
  BY <1>1, <1>2, <1>3, <1>4, <1>5, <1>6

LEMMA ReadFailedStep ==
  ASSUME HandleInv, ReadFailed
  PROVE  HandleInv'
<1>1. /\ TypeOK /\ EachWriteOnce /\ WritesCounted /\ ReadsCounted /\ AllCounted /\ ActiveCounted
      /\ AtWork /\ IssuedInOrder /\ NeverBehind
  BY DEF HandleInv
<1>2. /\ pc = "requests" /\ batch # <<>> /\ Head(batch).kind = "read"
      /\ reqs_pending' = reqs_pending - 1 /\ batch' = Tail(batch)
      /\ UNCHANGED <<pc, count, write_reqs_pending, write_queue_size, pending_reqs, port,
                     kernelVars, peerVars, writeVars, freedSent>>
  BY DEF ReadFailed, Processing
<1>3. /\ Head(batch) \in ReadRequests /\ Head(batch) \notin QueuedWrites
      /\ \A i \in Writes : Head(batch) \notin RequestsOf(i)
      /\ Tail(batch) \in Seq(Requests)
      /\ Total(ReadRequests) = 1 /\ readHeld = FALSE /\ ReadsOut = 1 /\ "READING" \in flags
  BY <1>1, <1>2, ReadAtHead
<1>4. /\ flags' = Deactivated((flags \ {"READING"}) \ {"READ_PENDING"})
      /\ activecnt' = activecnt - 1
  BY <1>3 DEF ReadFailed, StoppedReading
<1>5. \A S : Total(S) \in Nat /\ Total(S)' = Total(S) - IF Head(batch) \in S THEN 1 ELSE 0
  BY <1>1, <1>2, TotalTail, TotalType
<1>6. /\ Total(ReadRequests)' = 0 /\ Total(QueuedWrites)' = Total(QueuedWrites)
      /\ \A i \in Writes : Total(RequestsOf(i))' = Total(RequestsOf(i))
  <2>1. Total(ReadRequests)' = 1 - 1
    BY <1>3, <1>5
  <2>2. ASSUME NEW S, Head(batch) \notin S
        PROVE  Total(S)' = Total(S)
    <3>1. Total(S)' = Total(S) - 0 /\ Total(S) \in Nat
      BY <1>5, <2>2
    <3> QED
      BY <3>1
  <2> QED
    BY <1>3, <2>1, <2>2
<1>7. Pending' = Pending /\ Issued' = Issued /\ ReadsOut' = 0
  BY <1>2, <1>3, <1>6 DEF Pending, Issued, ReadsOut, kernelVars, writeVars
<1>8. Cardinality(Pending) \in Nat
  BY <1>1, WritesFinite
<1>9. activecnt = Cardinality(Pending) + 1 /\ "ACTIVE" \in flags
  BY <1>1, <1>3, <1>8 DEF ActiveCounted
<1>10. /\ "READING" \notin flags' /\ flags' \subseteq Flags
       /\ "ACTIVE" \in flags' <=> activecnt # 1
  BY <1>1, <1>4, <1>9 DEF Deactivated, TypeOK
<1>11. ActiveCounted'
  <2>1. activecnt' = Cardinality(Pending)
    BY <1>4, <1>8, <1>9
  <2>2. activecnt' > 0 <=> activecnt # 1
    BY <1>4, <1>8, <1>9
  <2> QED
    BY <1>7, <1>10, <1>8, <2>1, <2>2 DEF ActiveCounted
<1>12. EachWriteOnce' /\ WritesCounted'
  BY <1>1, <1>2, <1>6, <1>7 DEF EachWriteOnce, WritesCounted, kernelVars, writeVars
<1>13. ReadsCounted' /\ AllCounted' /\ AtWork'
  BY <1>1, <1>2, <1>3, <1>7, <1>10, <1>8 DEF ReadsCounted, AllCounted, AtWork
<1>14. IssuedInOrder' /\ NeverBehind'
  BY <1>1, <1>2, <1>7 DEF IssuedInOrder, NeverBehind, kernelVars, peerVars, writeVars
<1>15. TypeOK'
  <2>1. reqs_pending' \in Nat /\ activecnt' \in Nat
    BY <1>1, <1>2, <1>3, <1>4, <1>9, <1>8 DEF AllCounted
  <2> QED
    BY <1>1, <1>2, <1>3, <1>10, <2>1 DEF TypeOK, kernelVars, peerVars, writeVars
<1> QED
  BY <1>11, <1>12, <1>13, <1>14, <1>15 DEF HandleInv

-----------------------------------------------------------------------------
(* The read request is queued: with what is completed, or with the kernel. *)
LEMMA ReadQueued ==
  ASSUME NEW f, NEW returned, QueueRead(f, returned)
  PROVE  /\ flags' = f \/ flags' = f \cup {"READ_PENDING"}
         /\ reqs_pending' = reqs_pending + 1 - returned
         /\ \/ readHeld' = TRUE /\ UNCHANGED pending_reqs
            \/ \E ok \in BOOLEAN :
                 pending_reqs' = Append(pending_reqs, ReadRequest(ok)) /\ UNCHANGED readHeld
BY DEF QueueRead

LEMMA ReadStep ==
  ASSUME HandleInv, Read
  PROVE  HandleInv'
<1>1. /\ TypeOK /\ EachWriteOnce /\ WritesCounted /\ ReadsCounted /\ AllCounted /\ ActiveCounted
      /\ AtWork /\ IssuedInOrder /\ NeverBehind
  BY DEF HandleInv
<1>2. /\ pc = "start" /\ pc' = "poll" /\ activecnt' = activecnt + 1
      /\ QueueRead(Activated(flags \cup {"READING"}), 0)
      /\ UNCHANGED <<count, write_reqs_pending, write_queue_size, batch, port, sending,
                     unread, peerVars, writeVars, freedSent>>
  BY DEF Read
<1>3. /\ "READING" \in flags' /\ "ACTIVE" \in flags' /\ flags' \subseteq Flags
      /\ "READING" \notin flags /\ batch = <<>>
  <2>1. flags \subseteq Flags /\ "READING" \notin flags /\ batch = <<>>
    BY <1>1, <1>2 DEF TypeOK, AtWork
  <2>2. LET f == Activated(flags \cup {"READING"})
        IN  flags' = f \/ flags' = f \cup {"READ_PENDING"}
    BY <1>2, ReadQueued
  <2> QED
    BY <2>1, <2>2 DEF Activated, Flags
<1>4. reqs_pending' = reqs_pending + 1
  <2>1. reqs_pending' = reqs_pending + 1 - 0
    BY <1>2, ReadQueued
  <2> QED
    BY <1>1, <2>1 DEF TypeOK
<1>5. Total(ReadRequests) = 0 /\ readHeld = FALSE /\ ReadsOut = 0
  <2>1. ReadsOut = 0
    BY <1>1, <1>2, <1>3 DEF ReadsCounted
  <2>2. Total(ReadRequests) \in Nat /\ readHeld \in BOOLEAN
    BY <1>1, TotalType DEF TypeOK
  <2> QED
    BY <2>1, <2>2 DEF ReadsOut
<1>6. /\ ReadsOut' = 1 /\ Total(QueuedWrites)' = Total(QueuedWrites)
      /\ \A i \in Writes : Total(RequestsOf(i))' = Total(RequestsOf(i))
      /\ pending_reqs' \in Seq(Requests) /\ readHeld' \in BOOLEAN
  <2>1. CASE readHeld' = TRUE /\ UNCHANGED pending_reqs
    <3>1. \A S : Total(S)' = Total(S)
      BY <1>2, <2>1, TotalUnchanged DEF queueVars
    <3> QED
      BY <1>1, <1>5, <2>1, <3>1 DEF ReadsOut, TypeOK
  <2>2. ASSUME NEW ok \in BOOLEAN, pending_reqs' = Append(pending_reqs, ReadRequest(ok)),
               UNCHANGED readHeld
        PROVE  /\ ReadsOut' = 1 /\ Total(QueuedWrites)' = Total(QueuedWrites)
               /\ \A i \in Writes : Total(RequestsOf(i))' = Total(RequestsOf(i))
               /\ pending_reqs' \in Seq(Requests) /\ readHeld' \in BOOLEAN
    <3>1. /\ ReadRequest(ok) \in Requests /\ ReadRequest(ok) \in ReadRequests
          /\ ReadRequest(ok) \notin QueuedWrites
          /\ \A i \in Writes : ReadRequest(ok) \notin RequestsOf(i)
      BY ReadRequestKind
    <3>2. \A S : Total(S) \in Nat
                 /\ Total(S)' = Total(S) + IF ReadRequest(ok) \in S THEN 1 ELSE 0
      BY <1>1, <1>2, <2>2, <3>1, TotalAppend, TotalType
    <3>3. Total(ReadRequests)' = 0 + 1
      BY <1>5, <3>1, <3>2
    <3>4. ASSUME NEW S, ReadRequest(ok) \notin S
          PROVE  Total(S)' = Total(S)
      <4>1. Total(S)' = Total(S) + 0 /\ Total(S) \in Nat
        BY <3>2, <3>4
      <4> QED
        BY <4>1
    <3>5. ReadsOut' = 1
      BY <1>5, <2>2, <3>3 DEF ReadsOut
    <3>6. pending_reqs' \in Seq(Requests)
      BY <1>1, <2>2, <3>1, AppendProperties DEF TypeOK
    <3> QED
      BY <1>5, <2>2, <3>1, <3>4, <3>5, <3>6
  <2> QED
    BY <1>2, <2>1, <2>2, ReadQueued
<1>7. Pending' = Pending /\ Issued' = Issued
  BY <1>2 DEF Pending, Issued, writeVars
<1>8. Cardinality(Pending) \in Nat
  BY <1>1, WritesFinite
<1>9. activecnt = Cardinality(Pending)
  BY <1>1, <1>3, <1>8 DEF ActiveCounted
<1>10. EachWriteOnce' /\ WritesCounted'
  BY <1>1, <1>2, <1>6, <1>7 DEF EachWriteOnce, WritesCounted, writeVars
<1>11. ReadsCounted' /\ AtWork'
  BY <1>1, <1>2, <1>3, <1>6 DEF ReadsCounted, AtWork
<1>12. AllCounted' /\ ActiveCounted'
  <2>1. activecnt' = Cardinality(Pending) + 1 /\ activecnt' > 0
    BY <1>2, <1>9, <1>8
  <2>2. reqs_pending' = Cardinality(Pending) + 1
    BY <1>1, <1>4, <1>5, <1>8 DEF AllCounted
  <2> QED
    BY <1>3, <1>6, <1>7, <2>1, <2>2 DEF AllCounted, ActiveCounted
<1>13. IssuedInOrder' /\ NeverBehind'
  BY <1>1, <1>2, <1>7 DEF IssuedInOrder, NeverBehind, peerVars, writeVars
<1>14. TypeOK'
  <2>1. reqs_pending' \in Nat /\ activecnt' \in Nat
    BY <1>1, <1>2, <1>4 DEF TypeOK
  <2> QED
    BY <1>1, <1>2, <1>3, <1>6, <2>1 DEF TypeOK, peerVars, writeVars
<1> QED
  BY <1>10, <1>11, <1>12, <1>13, <1>14 DEF HandleInv

LEMMA ReadDoneStep ==
  ASSUME HandleInv, ReadDone
  PROVE  HandleInv'
<1>1. /\ TypeOK /\ EachWriteOnce /\ WritesCounted /\ ReadsCounted /\ AllCounted /\ ActiveCounted
      /\ AtWork /\ IssuedInOrder /\ NeverBehind
  BY DEF HandleInv
<1>2. /\ pc \in {"reads", "done"} /\ pc' = "requests" /\ batch' = Tail(batch)
      /\ UNCHANGED <<count, activecnt, write_reqs_pending, write_queue_size, port, sending,
                     unread, peerVars, writeVars, freedSent>>
  BY DEF ReadDone
<1>3. /\ batch # <<>> /\ Head(batch) \in ReadRequests /\ Head(batch) \notin QueuedWrites
      /\ \A i \in Writes : Head(batch) \notin RequestsOf(i)
      /\ Tail(batch) \in Seq(Requests)
      /\ Total(ReadRequests) = 1 /\ readHeld = FALSE /\ ReadsOut = 1
  <2>1. batch # <<>> /\ Head(batch) \in ReadRequests
    BY <1>1, <1>2 DEF AtWork
  <2>2. Head(batch).kind = "read"
    BY <2>1 DEF ReadRequests
  <2> QED
    BY <1>1, <2>1, <2>2, ReadAtHead
<1>4. \A S : Total(S) \in Nat
  BY <1>1, TotalType
<1>5. Pending' = Pending /\ Issued' = Issued
  BY <1>2 DEF Pending, Issued, writeVars
<1>6. Cardinality(Pending) \in Nat
  BY <1>1, WritesFinite
<1>7. reqs_pending = Cardinality(Pending) + 1
  BY <1>1, <1>3 DEF AllCounted
<1>8. /\ Total(QueuedWrites)' = Total(QueuedWrites)
      /\ \A i \in Writes : Total(RequestsOf(i))' = Total(RequestsOf(i))
      /\ pending_reqs' \in Seq(Requests) /\ readHeld' \in BOOLEAN
      /\ flags' = flags \/ flags' = flags \cup {"READ_PENDING"}
      /\ ReadsOut' = IF "READING" \in flags THEN 1 ELSE 0
      /\ reqs_pending' = Cardinality(Pending) + ReadsOut'
  <2>1. CASE "READING" \in flags
    <3>1. QueueRead(flags, 1)
      BY <2>1 DEF ReadDone, ReadsAgain
    <3>2. /\ flags' = flags \/ flags' = flags \cup {"READ_PENDING"}
          /\ reqs_pending' = reqs_pending + 1 - 1
      BY <3>1, ReadQueued
    <3>3. reqs_pending' = Cardinality(Pending) + 1
      BY <1>7, <1>6, <3>2
    <3>4. CASE readHeld' = TRUE /\ UNCHANGED pending_reqs
      <4>1. \A S : Total(S)' = Total(S) - IF Head(batch) \in S THEN 1 ELSE 0
        BY <1>1, <1>2, <1>3, <3>4, TotalTail
      <4>2. Total(ReadRequests)' = 1 - 1
        BY <1>3, <4>1
      <4>3. ASSUME NEW S, Head(batch) \notin S
            PROVE  Total(S)' = Total(S)
        <5>1. Total(S)' = Total(S) - 0 /\ Total(S) \in Nat
          BY <1>4, <4>1, <4>3
        <5> QED
          BY <5>1
      <4>4. ReadsOut' = 1
        BY <3>4, <4>2 DEF ReadsOut
      <4>5. pending_reqs' \in Seq(Requests)
        BY <1>1, <3>4 DEF TypeOK
      <4> QED
        BY <1>3, <2>1, <3>2, <3>3, <3>4, <4>3, <4>4, <4>5
    <3>5. ASSUME NEW ok \in BOOLEAN, pending_reqs' = Append(pending_reqs, ReadRequest(ok)),
                 UNCHANGED readHeld
          PROVE  /\ Total(QueuedWrites)' = Total(QueuedWrites)
                 /\ \A i \in Writes : Total(RequestsOf(i))' = Total(RequestsOf(i))
                 /\ pending_reqs' \in Seq(Requests) /\ readHeld' \in BOOLEAN /\ ReadsOut' = 1
      <4>1. /\ ReadRequest(ok) \in Requests /\ ReadRequest(ok) \in ReadRequests
            /\ ReadRequest(ok) \notin QueuedWrites
            /\ \A i \in Writes : ReadRequest(ok) \notin RequestsOf(i)
        BY ReadRequestKind
      <4>2. \A S : Total(S)' = Total(S) - (IF Head(batch) \in S THEN 1 ELSE 0)
                                   + IF ReadRequest(ok) \in S THEN 1 ELSE 0
        BY <1>1, <1>2, <1>3, <3>5, <4>1, TotalTailAppend
      <4>3. Total(ReadRequests)' = 1 - 1 + 1
        BY <1>3, <4>1, <4>2
      <4>4. ASSUME NEW S, Head(batch) \notin S, ReadRequest(ok) \notin S
            PROVE  Total(S)' = Total(S)
        <5>1. Total(S)' = Total(S) - 0 + 0 /\ Total(S) \in Nat
          BY <1>4, <4>2, <4>4
        <5> QED
          BY <5>1
      <4>5. ReadsOut' = 1
        BY <1>3, <3>5, <4>3 DEF ReadsOut
      <4>6. pending_reqs' \in Seq(Requests)
        BY <1>1, <3>5, <4>1, AppendProperties DEF TypeOK
      <4> QED
        BY <1>3, <3>5, <4>1, <4>4, <4>5, <4>6
    <3> QED
      BY <2>1, <3>1, <3>2, <3>3, <3>4, <3>5, ReadQueued
  <2>2. CASE "READING" \notin flags
    <3>1. reqs_pending' = reqs_pending - 1 /\ UNCHANGED <<flags, pending_reqs, readHeld>>
      BY <2>2 DEF ReadDone, ReadsAgain
    <3>2. \A S : Total(S)' = Total(S) - IF Head(batch) \in S THEN 1 ELSE 0
      BY <1>1, <1>2, <1>3, <3>1, TotalTail
    <3>3. Total(ReadRequests)' = 1 - 1
      BY <1>3, <3>2
    <3>4. ASSUME NEW S, Head(batch) \notin S
          PROVE  Total(S)' = Total(S)
      <4>1. Total(S)' = Total(S) - 0 /\ Total(S) \in Nat
        BY <1>4, <3>2, <3>4
      <4> QED
        BY <4>1
    <3>5. ReadsOut' = 0
      BY <1>3, <3>1, <3>3 DEF ReadsOut
    <3>6. reqs_pending' = Cardinality(Pending) + 0
      BY <1>7, <1>6, <3>1
    <3>7. pending_reqs' \in Seq(Requests) /\ readHeld' \in BOOLEAN
      BY <1>1, <3>1 DEF TypeOK
    <3> QED
      BY <1>3, <2>2, <3>1, <3>4, <3>5, <3>6, <3>7
  <2> QED
    BY <2>1, <2>2
<1>9. /\ "READING" \in flags' <=> "READING" \in flags
      /\ "ACTIVE" \in flags' <=> "ACTIVE" \in flags
      /\ flags' \subseteq Flags
  BY <1>1, <1>8 DEF TypeOK, Flags
<1>10. EachWriteOnce' /\ WritesCounted'
  BY <1>1, <1>2, <1>8, <1>5 DEF EachWriteOnce, WritesCounted, writeVars
<1>11. ReadsCounted' /\ AllCounted'
  BY <1>2, <1>8, <1>9, <1>5 DEF ReadsCounted, AllCounted
<1>12. ActiveCounted'
  BY <1>1, <1>2, <1>9, <1>5 DEF ActiveCounted
<1>13. AtWork'
  BY <1>2 DEF AtWork
<1>14. IssuedInOrder' /\ NeverBehind'
  BY <1>1, <1>2, <1>5 DEF IssuedInOrder, NeverBehind, peerVars, writeVars
<1>15. TypeOK'
  <2>1. reqs_pending' \in Nat
    BY <1>8, <1>6
  <2> QED
    BY <1>1, <1>2, <1>3, <1>8, <1>9, <2>1 DEF TypeOK, peerVars, writeVars
<1> QED
  BY <1>10, <1>11, <1>12, <1>13, <1>14, <1>15 DEF HandleInv

LEMMA HandleInvStep ==
  ASSUME HandleInv, [Next]_vars
  PROVE  HandleInv'
<1>1. CASE LoopStep
  <2>1. ASSUME NEW full \in BOOLEAN, DataEvent(full)
        PROVE  HandleInv'
    <3>1. Send \/ Unchanged
      BY <2>1 DEF DataEvent
    <3> QED
      BY <2>1, <3>1, DataWithAnswer, DataWithoutAnswer
  <2> QED
    BY <1>1, <2>1, ReadStep, LoopTurns, WriteDoneStep, ReadFailedStep, ReadingEnds,
       ReadDoneStep DEF LoopStep
<1>2. CASE KernelStep
  BY <1>2, KernelReadStep, KernelWriteStep DEF KernelStep
<1>3. CASE SendChunk \/ ReadAnswer \/ \E how \in {"ended", "reset"} : Part(how)
  BY <1>3, ClientStep
<1>4. CASE UNCHANGED vars
  <2>1. /\ TypeOK /\ EachWriteOnce /\ WritesCounted /\ ReadsCounted /\ AllCounted
        /\ ActiveCounted /\ AtWork /\ IssuedInOrder /\ NeverBehind
    BY DEF HandleInv
  <2>2. UNCHANGED <<pc, count, handleVars, queueVars, kernelVars, peerVars, writeVars, freedSent>>
    BY <1>4 DEF vars
  <2>3. UNCHANGED <<queueVars, readHeld, sending, outcome>>
    BY <2>2 DEF kernelVars, writeVars
  <2>4. /\ Pending' = Pending /\ Issued' = Issued /\ ReadsOut' = ReadsOut
        /\ \A S : Total(S)' = Total(S)
        /\ EachWriteOnce'
    BY <2>1, <2>3, BooksKept
  <2>5. TypeOK'
    BY <2>1, <2>2 DEF TypeOK, handleVars, queueVars, kernelVars, peerVars, writeVars
  <2>6. WritesCounted'
    BY <2>1, <2>2, <2>4 DEF WritesCounted, handleVars, kernelVars, writeVars
  <2>7. ReadsCounted' /\ AllCounted' /\ ActiveCounted'
    BY <2>1, <2>2, <2>4 DEF ReadsCounted, AllCounted, ActiveCounted, handleVars
  <2>8. AtWork' /\ IssuedInOrder' /\ NeverBehind'
    BY <2>1, <2>2, <2>4
       DEF AtWork, IssuedInOrder, NeverBehind, handleVars, queueVars, kernelVars, peerVars,
           writeVars
  <2> QED
    BY <2>4, <2>5, <2>6, <2>7, <2>8 DEF HandleInv
<1> QED
  BY <1>1, <1>2, <1>3, <1>4 DEF Next

-----------------------------------------------------------------------------
(* In every behaviour each write that was not called back is out once, the  *)
(* counts of the handle and of the loop are those of the requests out, and  *)
(* the loop is at work on the head of its batch (win/tcp.c, win/req-inl.h). *)
THEOREM HandleInvariant == Spec => []HandleInv
<1>1. Init => HandleInv
  BY HandleInvInit
<1>2. HandleInv /\ [Next]_vars => HandleInv'
  BY HandleInvStep
<1> QED
  BY <1>1, <1>2, PTL DEF Spec

(* Handle, queues and connection keep their types, however many chunks the *)
(* client sends and whatever the size of the send buffer.                   *)
THEOREM HandleTypes == Spec => []TypeOK
<1>1. HandleInv => TypeOK
  BY DEF HandleInv
<1> QED
  BY <1>1, HandleInvariant, PTL

LEMMA ReadsInCounts ==
  ASSUME NEW q \in Seq(Requests)
  PROVE  /\ ReadsIn(q) = HowMany(q, ReadRequests)
         /\ QueuedIn(q) = HowMany(q, QueuedWrites)
<1>1. \A k \in DOMAIN q : q[k] \in Requests
  BY LenProperties, ElementOfSeq
<1>2. {k \in DOMAIN q : q[k].kind = "read"} = Positions(q, ReadRequests)
  BY <1>1 DEF Positions, ReadRequests
<1>3. {k \in DOMAIN q : q[k].kind = "write" /\ q[k].queued_bytes = 1}
        = Positions(q, QueuedWrites)
  BY <1>1 DEF Positions, QueuedWrites
<1> QED
  BY <1>2, <1>3 DEF ReadsIn, QueuedIn, HowMany

(* The sums of RequestsAccounted and OneRead. *)
LEMMA SumsOut ==
  ASSUME TypeOK
  PROVE  /\ (IF readHeld THEN 1 ELSE 0) + ReadsIn(pending_reqs) + ReadsIn(batch) + ReadsIn(port)
              = ReadsOut
         /\ Len(sending) + QueuedIn(pending_reqs) + QueuedIn(batch) + QueuedIn(port)
              = Len(sending) + Total(QueuedWrites)
<1>1. pending_reqs \in Seq(Requests) /\ batch \in Seq(Requests) /\ port \in Seq(Requests)
  BY DEF TypeOK
<1>2. /\ ReadsIn(pending_reqs) = HowMany(pending_reqs, ReadRequests)
      /\ ReadsIn(batch) = HowMany(batch, ReadRequests)
      /\ ReadsIn(port) = HowMany(port, ReadRequests)
      /\ QueuedIn(pending_reqs) = HowMany(pending_reqs, QueuedWrites)
      /\ QueuedIn(batch) = HowMany(batch, QueuedWrites)
      /\ QueuedIn(port) = HowMany(port, QueuedWrites)
  BY <1>1, ReadsInCounts
<1>3. Len(sending) \in Nat
  BY SendingMoves
<1>4. \A S : /\ HowMany(pending_reqs, S) \in Nat /\ HowMany(batch, S) \in Nat
             /\ HowMany(port, S) \in Nat
  BY TotalType
<1> QED
  BY <1>2, <1>3, <1>4, SMTT(30) DEF ReadsOut, Total

(* libuv's counts (reqs_pending, write_reqs_pending, activecnt,             *)
(* write_queue_size, active_reqs) are those of the requests that are out,   *)
(* and no WriteReq of uvw is freed early or leaks.                          *)
THEOREM CountsExact == Spec => []RequestsAccounted
<1>1. ASSUME HandleInv
      PROVE  RequestsAccounted
  <2>1. TypeOK /\ WritesCounted /\ AllCounted /\ ActiveCounted
    BY <1>1 DEF HandleInv
  <2> QED
    BY <2>1, SumsOut DEF RequestsAccounted, WritesCounted, AllCounted, ActiveCounted
<1> QED
  BY <1>1, HandleInvariant, PTL

(* A handle that reads has one read request out (its read_req), never two. *)
THEOREM ReadOnce == Spec => []OneRead
<1>1. ASSUME HandleInv
      PROVE  OneRead
  <2>1. TypeOK /\ ReadsCounted
    BY <1>1 DEF HandleInv
  <2> QED
    BY <2>1, SumsOut DEF OneRead, ReadsCounted
<1> QED
  BY <1>1, HandleInvariant, PTL

(* A handle that reads is active: Send (tcp_client.cpp) never drops the     *)
(* answer to what the handle has just read.                                 *)
THEOREM NoAnswerDropped == Spec => []AnswersNotDropped
<1>1. ASSUME HandleInv, "READING" \in flags
      PROVE  "ACTIVE" \in flags
  <2>1. TypeOK /\ ActiveCounted
    BY <1>1 DEF HandleInv
  <2>2. Cardinality(Pending) \in Nat
    BY <2>1, WritesFinite
  <2>3. activecnt = Cardinality(Pending) + 1
    BY <1>1, <2>1 DEF ActiveCounted
  <2>4. activecnt > 0
    BY <2>2, <2>3
  <2> QED
    BY <2>1, <2>4 DEF ActiveCounted
<1>2. HandleInv => AnswersNotDropped
  BY <1>1 DEF AnswersNotDropped, IsActive
<1> QED
  BY <1>2, HandleInvariant, PTL

(* A client that reads each answer before it writes again is never sent     *)
(* bytes of the buffer that Send freed, with a send buffer of any size.     *)
THEOREM LiveForDisciplined == Spec => []LiveUnlessBehind
<1>1. HandleInv => LiveUnlessBehind
  BY DEF HandleInv, NeverBehind, LiveUnlessBehind
<1> QED
  BY <1>1, HandleInvariant, PTL

-----------------------------------------------------------------------------
(* What each step is to the owner of the handle. *)
LEMMA ReadingKept ==
  ASSUME pc = "start" <=> pc' = "start",
         "READING" \in flags' <=> "READING" \in flags,
         "READABLE" \in flags' <=> "READABLE" \in flags
  PROVE  Reading' = Reading
BY DEF Reading

LEMMA StreamUnmoved ==
  ASSUME Reading' = Reading, outcome' = outcome
  PROVE  [Stream!Next]_(Stream!vars)
BY DEF Stream!vars

LEMMA DataIsData ==
  ASSUME HandleInv, NEW full \in BOOLEAN, DataEvent(full)
  PROVE  Stream!Data
<1>1. TypeOK /\ IssuedInOrder
  BY DEF HandleInv
<1>2. /\ "READING" \in flags /\ incoming > 0
      /\ pc = "reads" /\ pc' \in {"reads", "done"}
      /\ Send \/ Unchanged
  BY DEF DataEvent, Reads
<1>3. /\ NextWrite \in Writes /\ outcome[NextWrite] = "unused"
      /\ \A j \in Writes : j < NextWrite => outcome[j] # "unused"
  BY <1>1, <1>2, NextIsUnused
<1>4. \A j \in 1..(NextWrite - 1) : j \in Writes /\ j < NextWrite
  BY <1>3, HandleAssumption DEF Writes
<1>5. "READING" \in flags'
  BY <1>2 DEF Send, Write, Activated, Unchanged, handleVars
<1>6. Reading = "open" /\ Reading' = "open"
  BY <1>2, <1>5 DEF Reading
<1>7. CASE Send
  <2>1. outcome' = [outcome EXCEPT ![NextWrite] = "pending"]
    BY <1>7, DataWithAnswer
  <2> HIDE DEF NextWrite
  <2> QED
    BY <1>3, <1>4, <1>6, <2>1 DEF Stream!Data, Writes
<1>8. CASE Unchanged
  BY <1>6, <1>8 DEF Stream!Data, Unchanged, writeVars
<1> QED
  BY <1>2, <1>7, <1>8

LEMMA WriteDoneIsCallBack ==
  ASSUME HandleInv, WriteDone
  PROVE  \E i \in 1..MaxChunks : Stream!CallBack(i)
<1> DEFINE w == Head(batch).write
           event == IF Head(batch).ok THEN "WriteEvent" ELSE "ErrorEvent"
<1>1. TypeOK /\ EachWriteOnce
  BY DEF HandleInv
<1>2. /\ batch # <<>> /\ Head(batch).kind = "write"
      /\ outcome' = [outcome EXCEPT ![w] = event]
      /\ flags' = Deactivated(flags) /\ UNCHANGED pc
  BY DEF WriteDone, Processing
<1>3. w \in Writes /\ outcome[w] = "pending"
  BY <1>1, <1>2, HeadIsPending
<1>4. Reading' = Reading
  BY <1>2, ReadingKept DEF Deactivated
<1>5. event \in {"WriteEvent", "ErrorEvent"}
  OBVIOUS
<1> HIDE DEF w, event
<1>6. Stream!CallBack(w)
  BY <1>2, <1>3, <1>4, <1>5 DEF Stream!CallBack
<1> QED
  BY <1>3, <1>6 DEF Writes

LEMMA ReadingEndIsEnd ==
  ASSUME HandleInv, EndEvent \/ ErrorEvent \/ ReadFailed
  PROVE  Stream!End
<1>1. TypeOK /\ ReadsCounted
  BY DEF HandleInv
<1>2. /\ "READING" \in flags /\ "READING" \notin flags'
      /\ pc' # "start" /\ UNCHANGED outcome
  <2>1. CASE EndEvent \/ ErrorEvent
    BY <2>1 DEF EndEvent, ErrorEvent, Reads, StoppedReading, Deactivated, writeVars
  <2>2. CASE ReadFailed
    <3>1. /\ pc = "requests" /\ UNCHANGED <<pc, writeVars>>
          /\ batch # <<>> /\ Head(batch).kind = "read"
      BY <2>2 DEF ReadFailed, Processing
    <3>2. "READING" \in flags
      BY <1>1, <3>1, ReadAtHead
    <3>3. "READING" \notin flags'
      BY <2>2, <3>2 DEF ReadFailed, StoppedReading, Deactivated
    <3> QED
      BY <3>1, <3>2, <3>3 DEF writeVars
  <2> QED
    BY <2>1, <2>2
<1>3. Reading = "open" /\ Reading' \in {"ended", "broken"}
  BY <1>2 DEF Reading
<1> QED
  BY <1>2, <1>3 DEF Stream!End

LEMMA OthersUnmoved ==
  ASSUME HandleInv,
         \/ Read \/ Poll \/ Polled \/ ReadSome \/ WouldBlock \/ ReadDone
         \/ KernelStep \/ SendChunk \/ ReadAnswer
         \/ (\E how \in {"ended", "reset"} : Part(how)) \/ UNCHANGED vars
  PROVE  Reading' = Reading /\ outcome' = outcome
<1>1. CASE Read
  <2>1. /\ pc = "start" /\ pc' = "poll" /\ UNCHANGED writeVars
        /\ QueueRead(Activated(flags \cup {"READING"}), 0)
    BY <1>1 DEF Read
  <2> DEFINE f == Activated(flags \cup {"READING"})
  <2>2. "READING" \in f
    BY DEF Activated
  <2> HIDE DEF f
  <2>3. flags' = f \/ flags' = f \cup {"READ_PENDING"}
    BY <2>1, ReadQueued DEF f
  <2>4. "READING" \in flags'
    BY <2>2, <2>3
  <2> QED
    BY <2>1, <2>4 DEF Reading, writeVars
<1>2. CASE ReadDone
  <2>1. /\ pc \in {"reads", "done"} /\ pc' = "requests" /\ UNCHANGED writeVars
        /\ QueueRead(flags, 1) \/ UNCHANGED flags
    BY <1>2 DEF ReadDone
  <2>2. flags' = flags \/ flags' = flags \cup {"READ_PENDING"}
    BY <2>1, ReadQueued
  <2> QED
    BY <2>1, <2>2, ReadingKept DEF writeVars
<1>3. CASE Poll \/ Polled \/ ReadSome \/ WouldBlock
  <2>1. /\ pc # "start" /\ pc' # "start" /\ UNCHANGED writeVars
        /\ flags' = flags \/ flags' = flags \ {"READ_PENDING"}
    BY <1>3 DEF Poll, Polled, ReadSome, WouldBlock, Processing, Reads, handleVars
  <2> QED
    BY <2>1, ReadingKept DEF writeVars
<1>4. CASE \/ KernelStep \/ SendChunk \/ ReadAnswer
           \/ (\E how \in {"ended", "reset"} : Part(how)) \/ UNCHANGED vars
  <2>1. UNCHANGED <<pc, flags, writeVars>>
    BY <1>4 DEF KernelStep, KernelRead, KernelSend, KernelDrop, SendChunk, ReadAnswer, Part,
                vars, handleVars
  <2> QED
    BY <2>1, ReadingKept DEF writeVars
<1> QED
  BY <1>1, <1>2, <1>3, <1>4

LEMMA StepIsStreamStep ==
  ASSUME HandleInv, [Next]_vars
  PROVE  [Stream!Next]_(Stream!vars)
<1>1. CASE \E full \in BOOLEAN : DataEvent(full)
  BY <1>1, DataIsData DEF Stream!Next
<1>2. CASE WriteDone
  BY <1>2, WriteDoneIsCallBack DEF Stream!Next
<1>3. CASE EndEvent \/ ErrorEvent \/ ReadFailed
  BY <1>3, ReadingEndIsEnd DEF Stream!Next
<1>4. CASE \/ Read \/ Poll \/ Polled \/ ReadSome \/ WouldBlock \/ ReadDone
           \/ KernelStep \/ SendChunk \/ ReadAnswer
           \/ (\E how \in {"ended", "reset"} : Part(how)) \/ UNCHANGED vars
  BY <1>4, OthersUnmoved, StreamUnmoved
<1> QED
  BY <1>1, <1>2, <1>3, <1>4 DEF Next, LoopStep

(* The handle keeps what uvw promises TCPClient: data come until one end of *)
(* the reading, and each write is called back once.                         *)
THEOREM StreamImplemented == Spec => ImplementsStream
<1>1. Init => Stream!Init
  BY DEF Init, Stream!Init, Reading, Writes
<1>2. HandleInv /\ [Next]_vars => [Stream!Next]_(Stream!vars)
  BY StepIsStreamStep
<1> QED
  BY <1>1, <1>2, HandleInvariant, PTL DEF Spec, ImplementsStream, Stream!Spec
=============================================================================

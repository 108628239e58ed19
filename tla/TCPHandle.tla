------------------------------ MODULE TCPHandle ------------------------------
(***************************************************************************)
(* The handle of one client's connection: Send of tcp_client.cpp, the      *)
(* WriteReq and the callbacks of uvw, and reading and writing a stream as  *)
(* libuv's win/ does it over an I/O completion port.                       *)
(*                                                                         *)
(* libuv reads with a request of no bytes; when it completes it reads what *)
(* there is until a read comes back short.  A write's request is complete  *)
(* at once if the socket's send buffer has room, and its bytes are copied; *)
(* else the kernel keeps the caller's buffer and takes its bytes later.    *)
(* Send gives write() a buffer that is freed as Send returns.              *)
(*                                                                         *)
(* A chunk is what one read returns; the handler of its DataEvent sends    *)
(* one answer or none.  Sizes are counted in chunks and answers.  Nobody   *)
(* closes the handle (see TCPServer).                                      *)
(***************************************************************************)
EXTENDS Integers, Sequences, FiniteSets, SequencesExt

CONSTANTS MaxChunks,    \* bound: chunks the client sends
          MaxReads,     \* reads per completed request (32 in tcp.c)
          SendBuffer    \* answers the socket's send buffer holds

ASSUME HandleAssumption ==
  MaxChunks \in Nat /\ MaxReads \in Nat \ {0} /\ SendBuffer \in Nat \ {0}

VARIABLES pc,               \* where the loop thread is
          count,            \* reads left of MaxReads
          flags, activecnt, reqs_pending, write_reqs_pending, write_queue_size,
          active_reqs,      \* of the loop
          pending_reqs,     \* of the loop; completed requests
          batch,            \* requests uv_process_reqs is going through
          port,             \* completions no one dequeued
          readHeld,         \* the kernel has the read request
          sending,          \* writes the kernel has
          unread,           \* answers in the send buffer: the client has not read them
          incoming,         \* chunks the client sent and the server has not read
          peer,             \* the client's side of the connection
          chunks,           \* chunks the client has sent
          disciplined,      \* the client sends when it has read every answer
          leaked,           \* WriteReqs that hold themselves
          outcome,          \* of each write: what its callback published
          freedSent         \* history: writes whose bytes were taken after the free

handleVars == <<flags, activecnt, reqs_pending, write_reqs_pending, write_queue_size>>
queueVars  == <<pending_reqs, batch, port>>
kernelVars == <<readHeld, sending, unread>>
peerVars   == <<incoming, peer, chunks, disciplined>>
writeVars  == <<active_reqs, leaked, outcome>>

vars == <<pc, count, handleVars, queueVars, kernelVars, peerVars, writeVars, freedSent>>

Writes == 1..MaxChunks

Flags == {"READING", "READABLE", "WRITABLE", "ACTIVE", "READ_PENDING"}

ReadRequest(ok) == [kind |-> "read", ok |-> ok]

WriteRequestQueued(i, ok, queued) ==
  [kind |-> "write", write |-> i, ok |-> ok, queued_bytes |-> 1]

WriteRequest(i, ok, queued) ==
  [kind |-> "write", write |-> i, ok |-> ok, queued_bytes |-> queued]

Requests ==
  [kind : {"read"}, ok : BOOLEAN]
    \cup [kind : {"write"}, write : Writes, ok : BOOLEAN, queued_bytes : {0, 1}]

(* An accepted connection. *)
Init ==
  /\ pc = "start" /\ count = 0
  /\ flags = {"READABLE", "WRITABLE"} /\ activecnt = 0 /\ reqs_pending = 0
  /\ write_reqs_pending = 0 /\ write_queue_size = 0 /\ active_reqs = 0
  /\ pending_reqs = <<>> /\ batch = <<>> /\ port = <<>>
  /\ readHeld = FALSE /\ sending = <<>> /\ unread = 0
  /\ incoming = 0 /\ peer = "open" /\ chunks = 0 /\ disciplined \in BOOLEAN
  /\ leaked = {} /\ outcome = [i \in Writes |-> "unused"] /\ freedSent = {}

-----------------------------------------------------------------------------
(* The client and the kernel. *)

SendChunk ==
  /\ peer = "open" /\ chunks < MaxChunks
  /\ disciplined => incoming = 0 /\ unread = 0 /\ sending = <<>>
  /\ chunks' = chunks + 1 /\ incoming' = incoming + 1
  /\ UNCHANGED <<pc, count, handleVars, queueVars, kernelVars, peer, disciplined,
                 writeVars, freedSent>>

(* The client closes its side, or the connection breaks. *)
Part(how) ==
  /\ peer # "reset" /\ how # peer
  /\ peer' = how
  /\ UNCHANGED <<pc, count, handleVars, queueVars, kernelVars, incoming, chunks,
                 disciplined, writeVars, freedSent>>

ReadAnswer ==
  /\ unread > 0 /\ peer # "reset"
  /\ unread' = unread - 1
  /\ UNCHANGED <<pc, count, handleVars, queueVars, readHeld, sending, peerVars,
                 writeVars, freedSent>>

SomethingToRead == incoming > 0 \/ peer # "open"

(* The read request completes. *)
KernelRead ==
  /\ readHeld /\ SomethingToRead
  /\ readHeld' = FALSE
  /\ port' = Append(port, ReadRequest(peer # "reset"))
  /\ UNCHANGED <<pc, count, handleVars, pending_reqs, batch, sending, unread, peerVars,
                 writeVars, freedSent>>

(* There is room again: the kernel takes the bytes of the write it held.    *)
KernelSend ==
  /\ sending # <<>> /\ unread < SendBuffer /\ peer # "reset"
  /\ sending' = Tail(sending) /\ unread' = unread + 1
  /\ freedSent' = freedSent \cup {Head(sending)}
  /\ port' = Append(port, WriteRequest(Head(sending), TRUE, 1))
  /\ UNCHANGED <<pc, count, handleVars, pending_reqs, batch, readHeld, peerVars, writeVars>>

KernelDrop ==
  /\ sending # <<>> /\ peer = "reset"
  /\ sending' = Tail(sending)
  /\ port' = Append(port, WriteRequest(Head(sending), FALSE, 1))
  /\ UNCHANGED <<pc, count, handleVars, pending_reqs, batch, readHeld, unread, peerVars,
                 writeVars, freedSent>>

KernelStep == KernelRead \/ KernelSend \/ KernelDrop

-----------------------------------------------------------------------------
(* Counting. *)

(* INCREASE_ACTIVE_COUNT, DECREASE_ACTIVE_COUNT on the given flags. *)
Activated(f) == f \cup {"ACTIVE"}

AlwaysDeactivated(f) == f \ {"ACTIVE"}

Deactivated(f) == IF activecnt = 1 THEN f \ {"ACTIVE"} ELSE f

(* uv_tcp_queue_read: the request of no bytes completes at once, is the     *)
(* kernel's, or fails; `returned' requests are given back besides.          *)
QueueRead(f, returned) ==
  \/ /\ SomethingToRead /\ peer # "reset"
     /\ flags' = f \cup {"READ_PENDING"}
     /\ pending_reqs' = Append(pending_reqs, ReadRequest(TRUE))
     /\ reqs_pending' = reqs_pending + 1 - returned
     /\ UNCHANGED readHeld
  \/ /\ ~SomethingToRead
     /\ flags' = f \cup {"READ_PENDING"}
     /\ readHeld' = TRUE
     /\ reqs_pending' = reqs_pending + 1 - returned
     /\ UNCHANGED pending_reqs
  \/ /\ peer = "reset"
     /\ flags' = f
     /\ pending_reqs' = Append(pending_reqs, ReadRequest(FALSE))
     /\ reqs_pending' = reqs_pending + 1 - returned
     /\ UNCHANGED readHeld

(* read() of the ListenEvent's handler. *)
Read ==
  /\ pc = "start" /\ pc' = "poll"
  /\ activecnt' = activecnt + 1
  /\ QueueRead(Activated(flags \cup {"READING"}), 0)
  /\ UNCHANGED <<count, write_reqs_pending, write_queue_size, batch, port, sending,
                 unread, peerVars, writeVars, freedSent>>

-----------------------------------------------------------------------------
(* Send. *)

Issued == Cardinality({i \in Writes : outcome[i] # "unused"})

(* uv_is_active *)
IsActive == "ACTIVE" \in flags

TransmitLate(i) ==
  /\ sending' = Append(sending, i)
  /\ write_queue_size' = write_queue_size + 1
  /\ UNCHANGED <<unread, pending_reqs>>

(* uv_tcp_write: complete at once, queued by the kernel, or failed. *)
Transmit(i) ==
  \/ /\ peer # "reset" /\ sending = <<>> /\ unread < SendBuffer
     /\ unread' = unread + 1
     /\ pending_reqs' = Append(pending_reqs, WriteRequest(i, TRUE, 0))
     /\ UNCHANGED <<sending, write_queue_size>>
  \/ /\ peer # "reset" /\ (sending # <<>> \/ unread = SendBuffer)
     /\ sending' = Append(sending, i)
     /\ write_queue_size' = write_queue_size + 1
     /\ UNCHANGED <<unread, pending_reqs>>
  \/ /\ peer = "reset"
     /\ pending_reqs' = Append(pending_reqs, WriteRequest(i, FALSE, 0))
     /\ UNCHANGED <<sending, unread, write_queue_size>>

Unleaked(i) == {}

Leaked(i) == {i}

(* uvw's write() makes a WriteReq, which holds itself until it is called    *)
(* back, and Send frees the answer.                                         *)
Write(i) ==
  /\ Transmit(i)
  /\ flags' = Activated(flags) /\ activecnt' = activecnt + 1
  /\ reqs_pending' = reqs_pending + 1 /\ write_reqs_pending' = write_reqs_pending + 1
  /\ active_reqs' = active_reqs + 1
  /\ leaked' = leaked \cup Leaked(i)
  /\ outcome' = [outcome EXCEPT ![i] = "pending"]

Unchanged == UNCHANGED <<handleVars, pending_reqs, sending, unread, writeVars>>

ReusedWrite == Cardinality({i \in Writes : outcome[i] = "pending"}) + 1

NextWrite == Issued + 1

(* An inactive handle drops what is sent, without a word. *)
Send == IF IsActive THEN Write(NextWrite) ELSE Unchanged

-----------------------------------------------------------------------------
(* The loop. *)

DequeuedInstead == IF pending_reqs = <<>> THEN port ELSE pending_reqs

Dequeued == pending_reqs \o port

(* Requests that were complete at once, and what the port has. *)
Poll ==
  /\ pc = "poll" /\ Dequeued # <<>>
  /\ batch' = Dequeued /\ pending_reqs' = <<>> /\ port' = <<>>
  /\ pc' = "requests"
  /\ UNCHANGED <<count, handleVars, kernelVars, peerVars, writeVars, freedSent>>

Polled ==
  /\ pc = "requests" /\ batch = <<>>
  /\ pc' = "poll"
  /\ UNCHANGED <<count, handleVars, queueVars, kernelVars, peerVars, writeVars, freedSent>>

Processing(kind) == pc = "requests" /\ batch # <<>> /\ Head(batch).kind = kind

(* uv_process_tcp_write_req; the callback gives up the WriteReq's hold on   *)
(* itself and publishes on the handle, where nobody listens to WriteEvent   *)
(* and the handler of ErrorEvent is empty.                                  *)
WriteDone ==
  /\ Processing("write")
  /\ LET req == Head(batch) IN
       /\ write_queue_size' = write_queue_size - req.queued_bytes
       /\ leaked' = leaked \ {req.write}
       /\ outcome' = [outcome EXCEPT ![req.write] =
                        IF req.ok THEN "WriteEvent" ELSE "ErrorEvent"]
  /\ flags' = Deactivated(flags) /\ activecnt' = activecnt - 1
  /\ active_reqs' = active_reqs - 1
  /\ write_reqs_pending' = write_reqs_pending - 1 /\ reqs_pending' = reqs_pending - 1
  /\ batch' = Tail(batch)
  /\ UNCHANGED <<pc, count, pending_reqs, port, kernelVars, peerVars, freedSent>>

StoppedReading == flags \ {"READING"}

(* uv_process_tcp_read_req of a request that failed. *)
ReadFailed ==
  /\ Processing("read") /\ ~Head(batch).ok
  /\ IF "READING" \in flags
     THEN /\ flags' = Deactivated(StoppedReading \ {"READ_PENDING"})
          /\ activecnt' = activecnt - 1
     ELSE flags' = flags \ {"READ_PENDING"} /\ UNCHANGED activecnt
  /\ reqs_pending' = reqs_pending - 1
  /\ batch' = Tail(batch)
  /\ UNCHANGED <<pc, count, write_reqs_pending, write_queue_size, pending_reqs, port,
                 kernelVars, peerVars, writeVars, freedSent>>

ReadSome ==
  /\ Processing("read") /\ Head(batch).ok
  /\ flags' = flags \ {"READ_PENDING"}
  /\ count' = MaxReads /\ pc' = "reads"
  /\ UNCHANGED <<activecnt, reqs_pending, write_reqs_pending, write_queue_size, queueVars,
                 kernelVars, peerVars, writeVars, freedSent>>

Reads == pc = "reads" /\ "READING" \in flags /\ count > 0

(* A DataEvent and its handler; the next read if the buffer was full. *)
DataEvent(full) ==
  /\ Reads /\ incoming > 0 /\ peer # "reset"
  /\ incoming' = incoming - 1
  /\ Send \/ Unchanged
  /\ IF full THEN count' = count - 1 /\ UNCHANGED pc ELSE pc' = "done" /\ UNCHANGED count
  /\ UNCHANGED <<batch, port, readHeld, peer, chunks, disciplined, freedSent>>

(* A read of 0 bytes, which uvw keeps to itself. *)
WouldBlock ==
  /\ Reads /\ incoming = 0 /\ peer = "open"
  /\ pc' = "done"
  /\ UNCHANGED <<count, handleVars, queueVars, kernelVars, peerVars, writeVars, freedSent>>

(* EndEvent *)
EndEvent ==
  /\ Reads /\ incoming = 0 /\ peer = "ended"
  /\ flags' = Deactivated(StoppedReading \ {"READABLE"})
  /\ activecnt' = activecnt - 1
  /\ pc' = "done"
  /\ UNCHANGED <<count, reqs_pending, write_reqs_pending, write_queue_size, queueVars,
                 kernelVars, peerVars, writeVars, freedSent>>

(* ErrorEvent *)
ErrorEvent ==
  /\ Reads /\ peer = "reset"
  /\ flags' = Deactivated(StoppedReading)
  /\ activecnt' = activecnt - 1
  /\ pc' = "done"
  /\ UNCHANGED <<count, reqs_pending, write_reqs_pending, write_queue_size, queueVars,
                 kernelVars, peerVars, writeVars, freedSent>>

ReadsAgainAfterEnd == TRUE

ReadsAgainNever == FALSE

ReadsAgain == "READING" \in flags

(* Another read request if the handle still reads. *)
ReadDone ==
  /\ \/ pc = "done"
     \/ pc = "reads" /\ count = 0
  /\ IF ReadsAgain
     THEN QueueRead(flags, 1)
     ELSE reqs_pending' = reqs_pending - 1 /\ UNCHANGED <<flags, pending_reqs, readHeld>>
  /\ batch' = Tail(batch)
  /\ pc' = "requests"
  /\ UNCHANGED <<count, activecnt, write_reqs_pending, write_queue_size, port, sending,
                 unread, peerVars, writeVars, freedSent>>

LoopStep ==
  \/ Read \/ Poll \/ Polled \/ WriteDone \/ ReadFailed \/ ReadSome
  \/ (\E full \in BOOLEAN : DataEvent(full))
  \/ WouldBlock \/ EndEvent \/ ErrorEvent \/ ReadDone

Next ==
  \/ LoopStep \/ KernelStep
  \/ SendChunk \/ ReadAnswer \/ (\E how \in {"ended", "reset"} : Part(how))

(* The loop's thread is scheduled and the kernel goes on with what it has.  *)
(* The client need not read its answers, nor end the connection.            *)
Spec ==
  /\ Init /\ [][Next]_vars
  /\ WF_vars(LoopStep)
  /\ WF_vars(KernelRead) /\ WF_vars(KernelSend) /\ WF_vars(KernelDrop)

-----------------------------------------------------------------------------
(* Types of the handle, of the loop's queues and of the connection. *)
TypeOK ==
  /\ pc \in {"start", "poll", "requests", "reads", "done"}
  /\ count \in 0..MaxReads
  /\ flags \subseteq Flags
  /\ activecnt \in Nat /\ reqs_pending \in Nat /\ write_reqs_pending \in Nat
  /\ write_queue_size \in Nat /\ active_reqs \in Nat
  /\ pending_reqs \in Seq(Requests) /\ batch \in Seq(Requests) /\ port \in Seq(Requests)
  /\ readHeld \in BOOLEAN /\ sending \in Seq(Writes) /\ unread \in 0..SendBuffer
  /\ incoming \in Nat /\ chunks \in 0..MaxChunks
  /\ peer \in {"open", "ended", "reset"} /\ disciplined \in BOOLEAN
  /\ leaked \subseteq Writes /\ freedSent \subseteq Writes
  /\ outcome \in [Writes -> {"unused", "pending", "WriteEvent", "ErrorEvent"}]

Pending == {i \in Writes : outcome[i] = "pending"}

ReadsIn(requests) == Cardinality({k \in DOMAIN requests : requests[k].kind = "read"})

QueuedIn(requests) ==
  Cardinality({k \in DOMAIN requests :
                 requests[k].kind = "write" /\ requests[k].queued_bytes = 1})

(* libuv's counts of a handle's requests, and what makes it active, agree   *)
(* with the requests that are out, and the WriteReqs that hold themselves   *)
(* are those still to be called back: none is freed early and none leaks.   *)
RequestsAccounted ==
  LET writes == Cardinality(Pending)
      reads  == (IF readHeld THEN 1 ELSE 0)
                  + ReadsIn(pending_reqs) + ReadsIn(batch) + ReadsIn(port)
  IN /\ write_reqs_pending = writes /\ active_reqs = writes /\ leaked = Pending
     /\ reqs_pending = writes + reads
     /\ activecnt = writes + (IF "READING" \in flags THEN 1 ELSE 0)
     /\ "ACTIVE" \in flags <=> activecnt > 0
     /\ write_queue_size = Len(sending) + QueuedIn(pending_reqs)
                              + QueuedIn(batch) + QueuedIn(port)

(* A handle that reads has one read request out, never two: they would      *)
(* share the one read_req.                                                  *)
OneRead ==
  LET reads == (IF readHeld THEN 1 ELSE 0)
                 + ReadsIn(pending_reqs) + ReadsIn(batch) + ReadsIn(port)
  IN reads = IF "READING" \in flags \/ pc = "done" THEN 1 ELSE 0

(* Send asks whether the handle is active, and drops the answer if not: an  *)
(* answer from the handler of a DataEvent is never dropped.                 *)
AnswersNotDropped == "READING" \in flags => IsActive

(* Send frees what it gave to write() at once.  A client that reads each    *)
(* answer before it writes again is never sent the bytes of a free buffer:  *)
(* its answers are copied at once.                                          *)
LiveUnlessBehind == disciplined => freedSent = {}

(* "Be sure that their lifetime overcome the one of the request", says uvw  *)
(* of the data given to write().  It does not: the kernel holds the write   *)
(* of a client that is behind, and takes bytes from a buffer Send freed.    *)
BufferOutlivesWrite == freedSent = {}

Reading ==
  IF pc = "start" \/ "READING" \in flags THEN "open"
  ELSE IF "READABLE" \in flags THEN "broken" ELSE "ended"

(* The handle keeps uvw's promises to TCPClient. *)
Stream == INSTANCE ClientStream WITH
  MaxWrites <- MaxChunks, reading <- Reading, outcome <- outcome

ImplementsStream == Stream!Spec

(* Every write is called back, unless the client lets the send buffer stay  *)
(* full.                                                                    *)
WritesCalledBack ==
  []<>(unread < SendBuffer \/ peer = "reset")
    => \A i \in Writes :
         outcome[i] = "pending" ~> outcome[i] \in {"WriteEvent", "ErrorEvent"}

(* The server learns that a client parted: EndEvent or ErrorEvent comes and *)
(* the handle reads no more.                                                *)
PartingSeen == peer # "open" ~> (pc # "start" /\ "READING" \notin flags)
=============================================================================

------------------------------ MODULE TCPServer ------------------------------
(***************************************************************************)
(* The server's two threads (tcp_server.cpp, and uvw and libuv's win/ of   *)
(* the parts it calls): main constructs the server, waits for a key and    *)
(* destroys it; the loop thread runs libuv's loop.                         *)
(*                                                                         *)
(* libuv is not thread-safe, and the destructor closes the listening       *)
(* handle and stops the loop from main's thread.  So every access of one   *)
(* thread to what the other one writes is a step here, and `x++' of the    *)
(* shared active_handles is two, a load into seen and a store.  Accesses   *)
(* take effect in program order, and the handle's flags word is changed in *)
(* one step.  Assertions are off, as in a release build.                   *)
(*                                                                         *)
(* A request is with the kernel, then a completion in the port (the IOCP), *)
(* then in the loop's queue of pending requests, then in the batch that    *)
(* uv_process_reqs took of that queue.  What the handlers of a client do   *)
(* with its data is the business of TCPClient.                             *)
(***************************************************************************)
EXTENDS Integers, Sequences, FiniteSets, SequencesExt

CONSTANTS Clients,
          Accepts,      \* uv_simultaneous_server_accepts
          CounterSize   \* active_handles counts modulo this

ASSUME ServerAssumption ==
  /\ IsFiniteSet(Clients)
  /\ Accepts \in Nat \ {0}
  /\ CounterSize \in Nat /\ CounterSize > Cardinality(Clients) + 2

VARIABLES bound,            \* what bind comes to: the server's port, an error
                            \* that listen returns, or another one
          pc,               \* what each thread does next
          seen,             \* active_handles as each thread loaded it
          flags,            \* of m_serverHandle
          reqs_pending,     \* of m_serverHandle
          active_handles, stop_flag, pending_reqs,      \* of the loop
          endgame_handles,  \* m_serverHandle is at the head of that list
          endgame_next,     \* m_serverHandle follows itself in that list
          batch,            \* requests uv_process_reqs is going through
          accepting,        \* AcceptEx requests the kernel holds
          port,             \* completions no one dequeued
          conn,             \* each client's connection
          m_clients,
          failed,           \* history: AcceptEx or the accepted socket failed
          closeEvents       \* history: close callbacks of m_serverHandle

threadVars  == <<pc, seen>>
loopVars    == <<active_handles, stop_flag, pending_reqs, endgame_handles,
                 endgame_next, batch>>
kernelVars  == <<accepting, port, conn>>
historyVars == <<failed, closeEvents>>

vars == <<bound, threadVars, flags, reqs_pending, loopVars, kernelVars,
          m_clients, historyVars>>

Threads == {"main", "loop"}

Bindings == {"ours", "in use", "elsewhere"}

Flags == {"LISTENING", "ACTIVE", "TCP_SOCKET_CLOSED", "CLOSING",
          "ENDGAME_QUEUED", "CLOSED"}

AcceptRequests ==
  [kind : {"connected"}, client : Clients] \cup [kind : {"aborted", "failed"}]

Requests == AcceptRequests \cup [kind : {"data", "end"}, client : Clients]

NotIncreased(n) == n

Increased(n) == (n + 1) % CounterSize

DecreasedBelow(n) == n - 1

Decreased(n) == (n + CounterSize - 1) % CounterSize

At(t, label) == pc[t] = label

Goto(t, label) == pc' = [pc EXCEPT ![t] = label]

(* Load of active_handles, and store of what the thread made of it. *)
Load(t) == seen' = [seen EXCEPT ![t] = active_handles]

Store(t, Changed(_)) ==
  /\ active_handles' = Changed(seen[t])
  /\ UNCHANGED <<seen, stop_flag, pending_reqs, endgame_handles, endgame_next, batch>>

SocketOpen == "TCP_SOCKET_CLOSED" \notin flags

Init ==
  /\ bound \in Bindings
  /\ pc = [t \in Threads |-> IF t = "main" THEN "construct" ELSE "unborn"]
  /\ seen = [t \in Threads |-> 0]
  /\ flags = {} /\ reqs_pending = 0
  /\ active_handles = 0 /\ stop_flag = FALSE /\ pending_reqs = <<>>
  /\ endgame_handles = FALSE /\ endgame_next = FALSE /\ batch = <<>>
  /\ accepting = 0 /\ port = <<>>
  /\ conn = [c \in Clients |-> "away"]
  /\ m_clients = {}
  /\ failed = FALSE /\ closeEvents = 0

-----------------------------------------------------------------------------
(* The constructor. *)

(* bind keeps WSAEADDRINUSE for listen to return.  After any other error    *)
(* listen binds the socket to some port that no client knows of.            *)
NoDelayedError == bound # "in use"

FailedAccepts(n) == [i \in 1..n |-> [kind |-> "failed"]]

(* bind, listen and the start of the thread.  An error goes to an          *)
(* ErrorEvent that nobody listens to, and the thread is started anyway.     *)
(* Any of the first accept requests may fail; a client that is early enough *)
(* for one to complete at once is left to the port.                         *)
Construct ==
  /\ At("main", "construct")
  /\ pc' = [t \in Threads |-> IF t = "main" THEN "input" ELSE "alive"]
  /\ IF NoDelayedError
     THEN /\ flags' = {"LISTENING", "ACTIVE"}
          /\ active_handles' = 1
          /\ reqs_pending' = Accepts
          /\ \E n \in 0..Accepts :
               /\ accepting' = Accepts - n
               /\ pending_reqs' = pending_reqs \o FailedAccepts(n)
               /\ failed' = (n > 0)
     ELSE UNCHANGED <<flags, active_handles, reqs_pending, accepting, pending_reqs, failed>>
  /\ UNCHANGED <<bound, seen, stop_flag, endgame_handles, endgame_next, batch,
                 port, conn, m_clients, closeEvents>>

-----------------------------------------------------------------------------
(* The clients, and the kernel. *)

Listening == bound = "ours" /\ ~At("main", "construct") /\ SocketOpen

Connect(c) ==
  /\ Listening /\ conn[c] = "away"
  /\ conn' = [conn EXCEPT ![c] = "backlog"]
  /\ UNCHANGED <<bound, threadVars, flags, reqs_pending, loopVars,
                 accepting, port, m_clients, historyVars>>

Completes(request, c, state) ==
  /\ port' = Append(port, request)
  /\ conn' = [conn EXCEPT ![c] = state]
  /\ UNCHANGED <<bound, threadVars, flags, reqs_pending, loopVars,
                 m_clients, historyVars>>

(* An AcceptEx completes. *)
Establish(c) ==
  /\ conn[c] = "backlog" /\ accepting > 0
  /\ accepting' = accepting - 1
  /\ Completes([kind |-> "connected", client |-> c], c, "accepted")

(* The read a client's handle has with the kernel completes: there is data, *)
(* or the client left or broke the connection.                              *)
Readable(c, kind) ==
  /\ conn[c] = "reading"
  /\ Completes([kind |-> kind, client |-> c], c, "readable")
  /\ UNCHANGED accepting

(* x++ or x-- of active_handles begins. *)
Count(t, from, next) ==
  /\ At(t, from)
  /\ Load(t) /\ Goto(t, next)
  /\ UNCHANGED <<bound, flags, reqs_pending, loopVars, kernelVars, m_clients, historyVars>>

-----------------------------------------------------------------------------
(* uv_want_endgame: main and the loop may both be between test and push. *)

WantEndgame(t, next) ==
  /\ At(t, "want endgame")
  /\ Goto(t, IF "ENDGAME_QUEUED" \in flags THEN next ELSE "push")
  /\ UNCHANGED <<bound, seen, flags, reqs_pending, loopVars, kernelVars,
                 m_clients, historyVars>>

Push(t, next) ==
  /\ At(t, "push")
  /\ flags' = flags \cup {"ENDGAME_QUEUED"}
  /\ endgame_next' = endgame_handles /\ endgame_handles' = TRUE
  /\ Goto(t, next)
  /\ UNCHANGED <<bound, seen, reqs_pending, active_handles, stop_flag,
                 pending_reqs, batch, kernelVars, m_clients, historyVars>>

-----------------------------------------------------------------------------
(* uv_run. *)

LoopAlive ==
  /\ At("loop", "alive")
  /\ Goto("loop", IF active_handles # 0 \/ endgame_handles THEN "stopped?" ELSE "leave")
  /\ UNCHANGED <<bound, seen, flags, reqs_pending, loopVars, kernelVars,
                 m_clients, historyVars>>

StoppedNever == FALSE

Stopped == stop_flag

LoopStopped ==
  /\ At("loop", "stopped?") /\ Stopped
  /\ Goto("loop", "leave")
  /\ UNCHANGED <<bound, seen, flags, reqs_pending, loopVars, kernelVars,
                 m_clients, historyVars>>

TakeRequests ==
  /\ At("loop", "stopped?") /\ ~Stopped
  /\ batch' = pending_reqs /\ pending_reqs' = <<>>
  /\ Goto("loop", "requests")
  /\ UNCHANGED <<bound, seen, flags, reqs_pending, active_handles, stop_flag,
                 endgame_handles, endgame_next, kernelVars, m_clients, historyVars>>

(* uv_backend_timeout: 0, or no limit as there are no timers. *)
BackendTimeout ==
  /\ At("loop", "requests") /\ batch = <<>>
  /\ Goto("loop", IF stop_flag \/ active_handles = 0 \/ pending_reqs # <<>> \/ endgame_handles
                  THEN "poll" ELSE "sleep")
  /\ UNCHANGED <<bound, seen, flags, reqs_pending, loopVars, kernelVars,
                 m_clients, historyVars>>

(* uv__poll dequeues what there is; without a timeout it sleeps until there *)
(* is something.                                                            *)
Poll ==
  /\ \/ At("loop", "poll")
     \/ At("loop", "sleep") /\ port # <<>>
  /\ pending_reqs' = pending_reqs \o port /\ port' = <<>>
  /\ Goto("loop", "endgames")
  /\ UNCHANGED <<bound, seen, flags, reqs_pending, active_handles, stop_flag,
                 endgame_handles, endgame_next, batch, accepting, conn, m_clients,
                 historyVars>>

EndgamesDone ==
  /\ At("loop", "endgames") /\ ~endgame_handles
  /\ Goto("loop", "alive")
  /\ UNCHANGED <<bound, seen, flags, reqs_pending, loopVars, kernelVars,
                 m_clients, historyVars>>

TakeEndgame ==
  /\ At("loop", "endgames") /\ endgame_handles
  /\ endgame_handles' = endgame_next
  /\ flags' = flags \ {"ENDGAME_QUEUED"}
  /\ Goto("loop", "endgame")
  /\ UNCHANGED <<bound, seen, reqs_pending, active_handles, stop_flag, pending_reqs,
                 endgame_next, batch, kernelVars, m_clients, historyVars>>

EndgameDue == "CLOSING" \in flags /\ reqs_pending = 0

(* uv_tcp_endgame: frees the accept requests; uv__handle_close. *)
Endgame ==
  /\ At("loop", "endgame")
  /\ IF EndgameDue
     THEN Load("loop") /\ Goto("loop", "close")
     ELSE UNCHANGED seen /\ Goto("loop", "endgames")
  /\ UNCHANGED <<bound, flags, reqs_pending, loopVars, kernelVars,
                 m_clients, historyVars>>

(* The close callback.  It gives up the handle's reference to itself; main  *)
(* holds another.  closeEvents stops counting at 2.                         *)
HandleClose ==
  /\ At("loop", "close")
  /\ Store("loop", Decreased)
  /\ flags' = flags \cup {"CLOSED"}
  /\ closeEvents' = IF closeEvents < 2 THEN closeEvents + 1 ELSE 2
  /\ Goto("loop", "endgames")
  /\ UNCHANGED <<bound, reqs_pending, kernelVars, m_clients, failed>>

Leave ==
  /\ At("loop", "leave")
  /\ stop_flag' = FALSE
  /\ Goto("loop", "ended")
  /\ UNCHANGED <<bound, seen, flags, reqs_pending, active_handles, pending_reqs,
                 endgame_handles, endgame_next, batch, kernelVars, m_clients, historyVars>>

-----------------------------------------------------------------------------
(* The requests of clients. *)

Processing(kind) == At("loop", "requests") /\ batch # <<>> /\ Head(batch).kind = kind

Data ==
  /\ Processing("data")
  /\ conn' = [conn EXCEPT ![Head(batch).client] = "reading"]
  /\ batch' = Tail(batch)
  /\ UNCHANGED <<bound, threadVars, flags, reqs_pending, active_handles, stop_flag,
                 pending_reqs, endgame_handles, endgame_next, accepting, port,
                 m_clients, historyVars>>

(* EndEvent or ErrorEvent closes no handle, so the CloseEvent that would    *)
(* erase the client from m_clients never comes.                             *)
End ==
  /\ Processing("end")
  /\ conn' = [conn EXCEPT ![Head(batch).client] = "ended"]
  /\ Load("loop") /\ Goto("loop", "inactive")
  /\ UNCHANGED <<bound, flags, reqs_pending, loopVars, accepting, port, m_clients,
                 historyVars>>

Inactive ==
  /\ At("loop", "inactive")
  /\ active_handles' = Decreased(seen["loop"])
  /\ batch' = Tail(batch)
  /\ Goto("loop", "requests")
  /\ UNCHANGED <<bound, seen, flags, reqs_pending, stop_flag, pending_reqs,
                 endgame_handles, endgame_next, kernelVars, m_clients, historyVars>>

-----------------------------------------------------------------------------
(* uv_process_tcp_accept_req. *)

(* SO_UPDATE_ACCEPT_CONTEXT needs the listening socket. *)
Connected ==
  /\ Processing("connected") /\ SocketOpen
  /\ Goto("loop", "accept")
  /\ UNCHANGED <<bound, seen, flags, reqs_pending, loopVars, kernelVars,
                 m_clients, historyVars>>

ConnectedTooLate ==
  /\ Processing("connected") /\ ~SocketOpen
  /\ conn' = [conn EXCEPT ![Head(batch).client] = "refused"]
  /\ Goto("loop", "retry")
  /\ UNCHANGED <<bound, seen, flags, reqs_pending, loopVars, accepting, port,
                 m_clients, historyVars>>

Aborted ==
  /\ Processing("aborted")
  /\ Goto("loop", "retry")
  /\ UNCHANGED <<bound, seen, flags, reqs_pending, loopVars, kernelVars,
                 m_clients, historyVars>>

AcceptsNoMore == FALSE

AcceptsAgain == "CLOSING" \notin flags

(* ListenEvent, uv_tcp_accept: the accepted socket may fail to be set up.   *)
(* Either way the request is queued again, unless the handle is closing.    *)
Accept(ok) ==
  /\ At("loop", "accept")
  /\ conn' = IF ok THEN conn ELSE [conn EXCEPT ![Head(batch).client] = "refused"]
  /\ failed' = (failed \/ ~ok)
  /\ Goto("loop", IF AcceptsAgain THEN "requeue, serve" ELSE "serve")
  /\ UNCHANGED <<bound, seen, flags, reqs_pending, loopVars, accepting, port,
                 m_clients, closeEvents>>

Retry ==
  /\ At("loop", "retry")
  /\ Goto("loop", IF "LISTENING" \in flags THEN "requeue, release" ELSE "release")
  /\ UNCHANGED <<bound, seen, flags, reqs_pending, loopVars, kernelVars,
                 m_clients, historyVars>>

AfterQueueAccept == IF At("loop", "requeue, serve") THEN "serve" ELSE "release"

CountedNever == reqs_pending

Counted == reqs_pending + 1

(* uv_tcp_queue_accept, AcceptEx taken by the kernel. *)
QueueAccept ==
  /\ At("loop", "requeue, serve") \/ At("loop", "requeue, release")
  /\ SocketOpen
  /\ accepting' = accepting + 1 /\ reqs_pending' = Counted
  /\ Goto("loop", AfterQueueAccept)
  /\ UNCHANGED <<bound, seen, flags, loopVars, port, conn, m_clients, historyVars>>

(* AcceptEx completes at once, without the port. *)
QueueAcceptAtOnce(c) ==
  /\ At("loop", "requeue, serve") \/ At("loop", "requeue, release")
  /\ conn[c] = "backlog"
  /\ conn' = [conn EXCEPT ![c] = "accepted"]
  /\ pending_reqs' = Append(pending_reqs, [kind |-> "connected", client |-> c])
  /\ reqs_pending' = Counted
  /\ Goto("loop", AfterQueueAccept)
  /\ UNCHANGED <<bound, seen, flags, active_handles, stop_flag, endgame_handles,
                 endgame_next, batch, accepting, port, m_clients, historyVars>>

(* It fails: for want of resources, or as the socket is closed. *)
QueueAcceptFails ==
  /\ At("loop", "requeue, serve") \/ At("loop", "requeue, release")
  /\ pending_reqs' = Append(pending_reqs, [kind |-> "failed"])
  /\ reqs_pending' = reqs_pending + 1
  /\ failed' = (failed \/ SocketOpen)
  /\ Goto("loop", AfterQueueAccept)
  /\ UNCHANGED <<bound, seen, flags, active_handles, stop_flag, endgame_handles,
                 endgame_next, batch, kernelVars, m_clients, closeEvents>>

(* The rest of ListenEvent: the TCPClient is made and kept, and the handle  *)
(* reads if it has a socket.                                                *)
Serve ==
  /\ At("loop", "serve")
  /\ LET c == Head(batch).client IN
       /\ m_clients' = m_clients \cup {c}
       /\ IF conn[c] = "accepted"
          THEN /\ conn' = [conn EXCEPT ![c] = "reading"]
               /\ Load("loop") /\ Goto("loop", "active")
          ELSE UNCHANGED <<conn, seen>> /\ Goto("loop", "release")
  /\ UNCHANGED <<bound, flags, reqs_pending, loopVars, accepting, port, historyVars>>

Active ==
  /\ At("loop", "active")
  /\ Store("loop", Increased)
  /\ Goto("loop", "release")
  /\ UNCHANGED <<bound, flags, reqs_pending, kernelVars, m_clients, historyVars>>

(* A request that was not queued again ends the listening: an ErrorEvent    *)
(* nobody listens to.                                                       *)
FailedAccept ==
  /\ Processing("failed")
  /\ IF "LISTENING" \in flags
     THEN flags' = flags \ {"LISTENING", "ACTIVE"} /\ Goto("loop", "unlistened")
     ELSE UNCHANGED flags /\ Goto("loop", "release")
  /\ UNCHANGED <<bound, seen, reqs_pending, loopVars, kernelVars, m_clients, historyVars>>

Deaf ==
  /\ At("loop", "deaf")
  /\ Store("loop", Decreased)
  /\ Goto("loop", "release")
  /\ UNCHANGED <<bound, flags, reqs_pending, kernelVars, m_clients, historyVars>>

(* DECREASE_PENDING_REQ_COUNT *)
Release ==
  /\ At("loop", "release")
  /\ reqs_pending' = reqs_pending - 1
  /\ batch' = Tail(batch)
  /\ Goto("loop", IF "CLOSING" \in flags /\ reqs_pending = 1
                  THEN "want endgame" ELSE "requests")
  /\ UNCHANGED <<bound, seen, flags, active_handles, stop_flag, pending_reqs,
                 endgame_handles, endgame_next, kernelVars, m_clients, historyVars>>

LoopStep ==
  \/ LoopAlive \/ LoopStopped \/ TakeRequests \/ BackendTimeout \/ Poll
  \/ EndgamesDone \/ TakeEndgame \/ Endgame \/ HandleClose \/ Leave
  \/ Data \/ End \/ Inactive
  \/ Connected \/ ConnectedTooLate \/ Aborted \/ Retry
  \/ QueueAccept \/ QueueAcceptFails \/ (\E c \in Clients : QueueAcceptAtOnce(c))
  \/ (\E ok \in BOOLEAN : Accept(ok))
  \/ Serve \/ Active \/ FailedAccept \/ Count("loop", "unlistened", "deaf") \/ Deaf \/ Release
  \/ WantEndgame("loop", "requests") \/ Push("loop", "requests")

-----------------------------------------------------------------------------
(* The destructor: close, stop, join. *)

(* A key was read.  uv_tcp_close: what was listening stops. *)
Unlisten ==
  /\ At("main", "input")
  /\ IF "LISTENING" \in flags
     THEN flags' = flags \ {"LISTENING", "ACTIVE"} /\ Goto("main", "unlistened")
     ELSE UNCHANGED flags /\ Goto("main", "closesocket")
  /\ UNCHANGED <<bound, seen, reqs_pending, loopVars, kernelVars, m_clients, historyVars>>

NotActive ==
  /\ At("main", "not active")
  /\ Store("main", Decreased)
  /\ Goto("main", "closesocket")
  /\ UNCHANGED <<bound, flags, reqs_pending, kernelVars, m_clients, historyVars>>

AbortedAccepts == [i \in 1..accepting |-> [kind |-> "aborted"]]

(* The kernel's AcceptEx requests complete, which wakes the loop. *)
CloseSocket ==
  /\ At("main", "closesocket")
  /\ flags' = flags \cup {"TCP_SOCKET_CLOSED"}
  /\ accepting' = 0
  /\ port' = port \o AbortedAccepts
  /\ conn' = [c \in Clients |-> IF conn[c] = "backlog" THEN "refused" ELSE conn[c]]
  /\ Goto("main", "count closing")
  /\ UNCHANGED <<bound, seen, reqs_pending, loopVars, m_clients, historyVars>>

(* uv__handle_closing: a closing handle counts as active until it is closed. *)
Closing ==
  /\ At("main", "closing")
  /\ Store("main", Increased)
  /\ Goto("main", "flag closing")
  /\ UNCHANGED <<bound, flags, reqs_pending, kernelVars, m_clients, historyVars>>

FlagClosing ==
  /\ At("main", "flag closing")
  /\ flags' = flags \cup {"CLOSING"}
  /\ Goto("main", "pending?")
  /\ UNCHANGED <<bound, seen, reqs_pending, loopVars, kernelVars, m_clients, historyVars>>

NothingPending ==
  /\ At("main", "pending?")
  /\ Goto("main", IF reqs_pending = 0 THEN "want endgame" ELSE "stop")
  /\ UNCHANGED <<bound, seen, flags, reqs_pending, loopVars, kernelVars,
                 m_clients, historyVars>>

Stop ==
  /\ At("main", "stop")
  /\ stop_flag' = TRUE
  /\ Goto("main", "join")
  /\ UNCHANGED <<bound, seen, flags, reqs_pending, active_handles, pending_reqs,
                 endgame_handles, endgame_next, batch, kernelVars, m_clients, historyVars>>

(* The members are destroyed after the join. *)
Join ==
  /\ At("main", "join") /\ At("loop", "ended")
  /\ m_clients' = {}
  /\ Goto("main", "done")
  /\ UNCHANGED <<bound, seen, flags, reqs_pending, loopVars, kernelVars, historyVars>>

MainStep ==
  \/ Construct \/ Count("main", "unlistened", "not active") \/ NotActive
  \/ CloseSocket \/ Count("main", "count closing", "closing") \/ Closing \/ FlagClosing \/ NothingPending
  \/ WantEndgame("main", "stop") \/ Push("main", "stop")
  \/ Stop \/ Join

Next ==
  \/ LoopStep \/ MainStep \/ Unlisten
  \/ \E c \in Clients : \/ Connect(c) \/ Establish(c)
                        \/ \E kind \in {"data", "end"} : Readable(c, kind)

(* Both threads are scheduled, and the kernel establishes connections.      *)
(* Nothing is assumed of the clients and of the key.                        *)
Spec ==
  /\ Init /\ [][Next]_vars
  /\ WF_vars(LoopStep) /\ WF_vars(MainStep)
  /\ \A c \in Clients : WF_vars(Establish(c))

-----------------------------------------------------------------------------
MainLabels == {"construct", "input", "unlistened", "not active", "closesocket",
               "count closing", "closing", "flag closing", "pending?",
               "want endgame", "push", "stop", "join", "done"}

LoopLabels == {"unborn", "alive", "stopped?", "requests", "poll", "sleep",
               "endgames", "endgame", "close", "leave", "ended", "inactive",
               "accept", "requeue, serve", "serve", "active", "retry",
               "requeue, release", "unlistened", "deaf", "release",
               "want endgame", "push"}

Connections == {"away", "backlog", "accepted", "reading", "readable", "ended", "refused"}

(* Types of the two threads, the loop, the handle and the kernel. *)
TypeOK ==
  /\ bound \in Bindings
  /\ pc \in [Threads -> MainLabels \cup LoopLabels]
  /\ pc["main"] \in MainLabels /\ pc["loop"] \in LoopLabels
  /\ seen \in [Threads -> 0..(CounterSize - 1)]
  /\ flags \subseteq Flags
  /\ reqs_pending \in Nat /\ accepting \in Nat
  /\ active_handles \in 0..(CounterSize - 1)
  /\ stop_flag \in BOOLEAN /\ endgame_handles \in BOOLEAN /\ endgame_next \in BOOLEAN
  /\ pending_reqs \in Seq(Requests) /\ batch \in Seq(Requests) /\ port \in Seq(Requests)
  /\ conn \in [Clients -> Connections]
  /\ m_clients \subseteq Clients
  /\ failed \in BOOLEAN /\ closeEvents \in 0..2

IsAccept(request) == request \in AcceptRequests

AcceptsIn(requests) == Cardinality({i \in DOMAIN requests : IsAccept(requests[i])})

(* libuv's count of a handle's requests is the number of accept requests    *)
(* that are with the kernel, in the port, or in the loop's hands, whatever  *)
(* main does meanwhile: the endgame of the handle waits for that count.     *)
AcceptsAccounted ==
  reqs_pending = accepting + AcceptsIn(port) + AcceptsIn(pending_reqs) + AcceptsIn(batch)

(* When the close callback has come, and the accept requests are freed, the *)
(* kernel has none of them and none will come out of the port, although     *)
(* main closed the handle while the loop was at work on it.                 *)
FreedAcceptsIdle ==
  closeEvents > 0 => /\ accepting = 0
                     /\ \A requests \in {port, pending_reqs, batch} :
                          \A i \in DOMAIN requests : ~IsAccept(requests[i])

(* While the handle listens the loop runs: run() returns on its own only    *)
(* from a server whose port was taken or whose AcceptEx failed once.        *)
ServesWhileListening ==
  "LISTENING" \in flags => pc["loop"] \notin {"unborn", "leave", "ended"}

(* A client that reaches the listening socket is served at last, unless the *)
(* server is closed or an accept failed, before.                            *)
ConnectionServed ==
  \A c \in Clients :
    (conn[c] = "backlog") ~>
      (conn[c] \in {"reading", "readable", "ended"} \/ failed \/ pc["main"] # "input")

(* The server goes on for the clients it has, though it be deaf to new ones *)
(* for an accept that failed: what they write is read at last, or their     *)
(* departure seen, unless the server is closed before.                      *)
ReadersServed ==
  \A c \in Clients :
    (conn[c] = "readable") ~> (conn[c] \in {"reading", "ended"} \/ pc["main"] # "input")

(* Once stop() has set its flag the next completion ends the loop, unless   *)
(* both threads queued the endgame and the list runs in a circle.           *)
StopWhenWoken ==
  (stop_flag /\ port # <<>>) ~> (pc["loop"] = "ended" \/ endgame_next)

(* uvw says of stop() that it causes run() to end as soon as possible.  The *)
(* destructor joins the loop's thread in that belief.  It is wrong also of  *)
(* a server that listened, whose handle then is not even closed.            *)
StopEndsRun ==
  bound = "ours" /\ At("main", "join") ~> (At("main", "done") \/ closeEvents > 0)
=============================================================================

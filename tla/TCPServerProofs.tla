---------------------------- MODULE TCPServerProofs ----------------------------
(***************************************************************************)
(* Theorems about TCPServer, for any finite set of clients, any number of  *)
(* simultaneous accepts and every interleaving of the destructor with the  *)
(* loop.  libuv counts an accept request when it queues it and discounts   *)
(* it when it is through with it, and only the loop thread does either:    *)
(* so the count is exact (AcceptsAccounted), and as the endgame waits for  *)
(* a count of 0, what it frees is not in use (FreedAcceptsIdle).           *)
(***************************************************************************)
EXTENDS TCPServer, SequenceCounts

(* Labels between which the loop is at work on one accept request. *)
AcceptLabels == {"accept", "requeue, serve", "serve", "active", "retry",
                 "requeue, release", "unlistened", "deaf", "release"}

(* Labels between which the loop goes through its batch. *)
BatchLabels == AcceptLabels \cup {"requests", "inactive", "want endgame", "push"}

ConnectedRequests == [kind : {"connected"}, client : Clients]

(* What the loop is at work on is at the head of its batch. *)
AtWork ==
  /\ pc["loop"] \in AcceptLabels => batch # <<>> /\ Head(batch) \in AcceptRequests
  /\ pc["loop"] \in {"accept", "requeue, serve", "serve"} => Head(batch) \in ConnectedRequests
  /\ pc["loop"] = "inactive" => batch # <<>> /\ Head(batch) \notin AcceptRequests
  /\ batch # <<>> => pc["loop"] \in BatchLabels

(* Before the constructor is through, and from the endgame on, there are no *)
(* accept requests.                                                         *)
NoRequests ==
  /\ At("main", "construct") => At("loop", "unborn") /\ reqs_pending = 0 /\ closeEvents = 0
  /\ closeEvents > 0 \/ At("loop", "close") => reqs_pending = 0

ServerInv ==
  /\ TypeOK
  /\ AcceptsAccounted
  /\ AtWork
  /\ NoRequests

-----------------------------------------------------------------------------
(* Requests, counters and queues. *)
LEMMA RequestKinds ==
  ASSUME NEW r \in Requests
  PROVE  /\ r.kind = "connected" => r \in ConnectedRequests
         /\ r.kind \in {"aborted", "failed"} => r \in AcceptRequests
         /\ r.kind \in {"data", "end"} => r \notin AcceptRequests /\ r.client \in Clients
         /\ r \in ConnectedRequests => r \in AcceptRequests /\ r.client \in Clients
BY DEF Requests, AcceptRequests, ConnectedRequests

LEMMA NewRequests ==
  /\ \A c \in Clients, kind \in {"data", "end"} :
       /\ [kind |-> kind, client |-> c] \in Requests
       /\ [kind |-> kind, client |-> c] \notin AcceptRequests
  /\ \A c \in Clients : /\ [kind |-> "connected", client |-> c] \in Requests
                        /\ [kind |-> "connected", client |-> c] \in AcceptRequests
  /\ \A kind \in {"aborted", "failed"} : [kind |-> kind] \in Requests
                                         /\ [kind |-> kind] \in AcceptRequests
BY DEF Requests, AcceptRequests

LEMMA CounterType ==
  ASSUME NEW n \in 0..(CounterSize - 1)
  PROVE  Increased(n) \in 0..(CounterSize - 1) /\ Decreased(n) \in 0..(CounterSize - 1)
<1>1. CounterSize \in Nat /\ CounterSize > 0
  BY ServerAssumption, FS_CardinalityType
<1>2. ASSUME NEW k \in Nat, k > 0, NEW m \in Int
      PROVE  m % k \in 0..(k - 1)
  BY <1>2
<1> QED
  BY <1>1, <1>2 DEF Increased, Decreased

LEMMA AcceptsCount ==
  ASSUME NEW q
  PROVE  AcceptsIn(q) = HowMany(q, AcceptRequests)
BY DEF AcceptsIn, IsAccept, HowMany, Positions

LEMMA QueueTypes ==
  ASSUME TypeOK
  PROVE  /\ port \in Seq(Requests) /\ pending_reqs \in Seq(Requests) /\ batch \in Seq(Requests)
         /\ AcceptsIn(port) \in Nat /\ AcceptsIn(pending_reqs) \in Nat
         /\ AcceptsIn(batch) \in Nat /\ accepting \in Nat /\ reqs_pending \in Nat
BY AcceptsCount, CountType DEF TypeOK

(* The head of the batch, when there is one, and the batch without it. *)
LEMMA BatchTail ==
  ASSUME TypeOK, batch # <<>>
  PROVE  /\ Head(batch) \in Requests /\ Tail(batch) \in Seq(Requests)
         /\ AcceptsIn(Tail(batch)) \in Nat
         /\ AcceptsIn(batch)
              = AcceptsIn(Tail(batch)) + IF Head(batch) \in AcceptRequests THEN 1 ELSE 0
<1>1. batch \in Seq(Requests)
  BY DEF TypeOK
<1>2. /\ Head(batch) \in Requests /\ Tail(batch) \in Seq(Requests)
      /\ HowMany(batch, AcceptRequests) = HowMany(Tail(batch), AcceptRequests)
           + IF Head(batch) \in AcceptRequests THEN 1 ELSE 0
  BY <1>1, CountTail
<1>3. HowMany(Tail(batch), AcceptRequests) \in Nat
  BY <1>2, CountType
<1> QED
  BY <1>2, <1>3, AcceptsCount

(* While the loop is at work on an accept request, that request is counted. *)
LEMMA WorkCounted ==
  ASSUME TypeOK, AcceptsAccounted, AtWork, pc["loop"] \in AcceptLabels
  PROVE  reqs_pending \in Nat \ {0}
<1>1. batch # <<>> /\ Head(batch) \in AcceptRequests
  BY DEF AtWork
<1>2. AcceptsIn(batch) = AcceptsIn(Tail(batch)) + 1 /\ AcceptsIn(Tail(batch)) \in Nat
  BY <1>1, BatchTail
<1>3. /\ AcceptsIn(port) \in Nat /\ AcceptsIn(pending_reqs) \in Nat
      /\ accepting \in Nat /\ reqs_pending \in Nat
  BY QueueTypes
<1> QED
  BY <1>2, <1>3 DEF AcceptsAccounted

(* closesocket: the requests the kernel had complete, all of them. *)
LEMMA AbortedRequests ==
  ASSUME TypeOK
  PROVE  /\ AbortedAccepts \in Seq(Requests) /\ port \o AbortedAccepts \in Seq(Requests)
         /\ AcceptsIn(port \o AbortedAccepts) = AcceptsIn(port) + accepting
<1> DEFINE r == [kind |-> "aborted"]
<1> DEFINE aborted == [i \in 1..accepting |-> r]
<1>1. aborted = AbortedAccepts
  BY DEF AbortedAccepts
<1>2. accepting \in Nat /\ port \in Seq(Requests) /\ r \in Requests /\ r \in AcceptRequests
  BY NewRequests DEF TypeOK
<1> HIDE DEF r
<1>3. /\ aborted \in Seq(Requests) /\ Len(aborted) = accepting
      /\ \A i \in DOMAIN aborted : aborted[i] \in AcceptRequests
  BY <1>2
<1> HIDE DEF aborted
<1>4. HowMany(aborted, AcceptRequests) = accepting
  BY <1>3, CountAll
<1>5. /\ port \o aborted \in Seq(Requests)
      /\ HowMany(port \o aborted, AcceptRequests)
           = HowMany(port, AcceptRequests) + HowMany(aborted, AcceptRequests)
  BY <1>2, <1>3, ConcatProperties, CountConcat
<1> QED
  BY <1>1, <1>3, <1>4, <1>5, AcceptsCount

LEMMA FailedRequests ==
  ASSUME TypeOK, NEW n \in Nat
  PROVE  /\ pending_reqs \o FailedAccepts(n) \in Seq(Requests)
         /\ AcceptsIn(pending_reqs \o FailedAccepts(n)) = AcceptsIn(pending_reqs) + n
         /\ \A S : [kind |-> "failed"] \notin S
              => HowMany(pending_reqs \o FailedAccepts(n), S) = HowMany(pending_reqs, S)
<1> DEFINE r == [kind |-> "failed"]
<1> DEFINE requests == [i \in 1..n |-> r]
<1>1. requests = FailedAccepts(n)
  BY DEF FailedAccepts
<1>2. pending_reqs \in Seq(Requests) /\ r \in Requests /\ r \in AcceptRequests
  BY NewRequests DEF TypeOK
<1>3. r = [kind |-> "failed"]
  OBVIOUS
<1> HIDE DEF r
<1>4. /\ requests \in Seq(Requests) /\ Len(requests) = n
      /\ \A i \in DOMAIN requests : requests[i] = r
  BY <1>2
<1> HIDE DEF requests
<1>5. HowMany(requests, AcceptRequests) = n
  BY <1>2, <1>4, CountAll
<1>6. /\ pending_reqs \o requests \in Seq(Requests)
      /\ \A S : HowMany(pending_reqs \o requests, S)
                  = HowMany(pending_reqs, S) + HowMany(requests, S)
  BY <1>2, <1>4, ConcatProperties, CountConcat
<1>7. ASSUME NEW S, r \notin S
      PROVE  HowMany(pending_reqs \o requests, S) = HowMany(pending_reqs, S)
  <2>1. HowMany(requests, S) = 0 /\ HowMany(pending_reqs, S) \in Nat
    BY <1>2, <1>4, <1>7, CountType
  <2> QED
    BY <1>6, <2>1
<1> QED
  BY <1>1, <1>3, <1>5, <1>6, <1>7, AcceptsCount

(* What the constructor leaves with the kernel and in the loop's queue. *)
LEMMA FirstAccepts ==
  ASSUME TypeOK, Construct
  PROVE  /\ pending_reqs' \in Seq(Requests)
         /\ \/ UNCHANGED <<accepting, reqs_pending, pending_reqs>>
            \/ \E n \in 0..Accepts : /\ accepting' = Accepts - n /\ reqs_pending' = Accepts
                                     /\ AcceptsIn(pending_reqs') = AcceptsIn(pending_reqs) + n
         /\ \A S : [kind |-> "failed"] \notin S
              => HowMany(pending_reqs', S) = HowMany(pending_reqs, S)
<1>1. Accepts \in Nat /\ pending_reqs \in Seq(Requests)
  BY ServerAssumption DEF TypeOK
<1>2. CASE NoDelayedError
  <2>1. PICK n \in 0..Accepts : /\ accepting' = Accepts - n
                                /\ pending_reqs' = pending_reqs \o FailedAccepts(n)
    BY <1>2 DEF Construct
  <2>2. n \in Nat /\ reqs_pending' = Accepts
    BY <1>1, <1>2 DEF Construct
  <2> QED
    BY <2>1, <2>2, FailedRequests
<1>3. CASE ~NoDelayedError
  <2>1. UNCHANGED <<accepting, reqs_pending, pending_reqs>>
    BY <1>3 DEF Construct
  <2> QED
    BY <1>1, <2>1
<1> QED
  BY <1>2, <1>3

LEMMA ServerInvInit ==
  ASSUME Init
  PROVE  ServerInv
<1>1. TypeOK
  <2>1. CounterSize \in Nat /\ CounterSize > 0
    BY ServerAssumption, FS_CardinalityType
  <2>2. <<>> \in Seq(Requests)
    BY EmptySeq
  <2>3. /\ pc["main"] = "construct" /\ pc["loop"] = "unborn" /\ pc \in [Threads -> MainLabels \cup LoopLabels]
    BY DEF Init, Threads, MainLabels, LoopLabels
  <2>4. /\ active_handles \in 0..(CounterSize - 1)
        /\ seen \in [Threads -> 0..(CounterSize - 1)]
    BY <2>1 DEF Init
  <2>5. conn \in [Clients -> Connections]
    BY DEF Init, Connections
  <2>6. /\ flags = {} /\ m_clients = {} /\ closeEvents = 0 /\ reqs_pending = 0 /\ accepting = 0
        /\ bound \in Bindings /\ stop_flag = FALSE /\ endgame_handles = FALSE
        /\ endgame_next = FALSE /\ failed = FALSE
        /\ port = <<>> /\ pending_reqs = <<>> /\ batch = <<>>
    BY DEF Init
  <2>7. /\ port \in Seq(Requests) /\ pending_reqs \in Seq(Requests) /\ batch \in Seq(Requests)
        /\ flags \subseteq Flags /\ m_clients \subseteq Clients
        /\ closeEvents \in 0..2 /\ reqs_pending \in Nat /\ accepting \in Nat
    BY <2>2, <2>6
  <2>8. pc["main"] \in MainLabels /\ pc["loop"] \in LoopLabels
    BY <2>3 DEF MainLabels, LoopLabels
  <2>9. /\ bound \in Bindings /\ stop_flag \in BOOLEAN /\ endgame_handles \in BOOLEAN
        /\ endgame_next \in BOOLEAN /\ failed \in BOOLEAN
    BY <2>6
  <2> QED
    BY <2>3, <2>4, <2>5, <2>7, <2>8, <2>9 DEF TypeOK
<1>2. AcceptsAccounted
  <2>1. AcceptsIn(<<>>) = 0
    BY AcceptsCount, CountNone
  <2> QED
    BY <2>1 DEF Init, AcceptsAccounted
<1>3. AtWork /\ NoRequests
  BY DEF Init, AtWork, NoRequests, AcceptLabels, BatchLabels, At, Threads
<1> QED
  BY <1>1, <1>2, <1>3 DEF ServerInv

-----------------------------------------------------------------------------
(* The steps, one by one: first, that each keeps the types. *)
(* Where a thread may stand. *)
Labels ==
  /\ pc \in [Threads -> MainLabels \cup LoopLabels]
  /\ pc["main"] \in MainLabels /\ pc["loop"] \in LoopLabels

LEMMA GotoLabels ==
  ASSUME TypeOK, NEW label,
         \/ label \in LoopLabels /\ Goto("loop", label)
         \/ label \in MainLabels /\ Goto("main", label)
  PROVE  Labels'
BY DEF TypeOK, Labels, Goto, Threads

LEMMA ThreadStepTypes ==
  ASSUME TypeOK,
         \/ LoopAlive \/ LoopStopped \/ BackendTimeout \/ EndgamesDone \/ TakeEndgame
         \/ Leave \/ Retry \/ Endgame \/ Active \/ Deaf
         \/ Connected \/ Aborted \/ FailedAccept
         \/ Count("loop", "unlistened", "deaf")
         \/ WantEndgame("loop", "requests") \/ Push("loop", "requests")
         \/ FlagClosing \/ NothingPending \/ Stop \/ Unlisten \/ NotActive \/ Closing
         \/ Count("main", "unlistened", "not active")
         \/ Count("main", "count closing", "closing")
         \/ WantEndgame("main", "stop") \/ Push("main", "stop")
         \/ Join
  PROVE  TypeOK'
<1>1. CASE Endgame
  <2>1. Goto("loop", "close") \/ Goto("loop", "endgames")
    BY <1>1 DEF Endgame
  <2>2. Labels'
    BY <2>1, GotoLabels DEF LoopLabels
  <2>3. seen' \in [Threads -> 0..(CounterSize - 1)]
    BY <1>1 DEF Endgame, Load, TypeOK, Threads
  <2> QED
    BY <1>1, <2>2, <2>3 DEF Endgame, TypeOK, Labels, loopVars, kernelVars, historyVars
<1>2. CASE Unlisten
  <2>1. Goto("main", "unlistened") \/ Goto("main", "closesocket")
    BY <1>2 DEF Unlisten
  <2>2. Labels'
    BY <2>1, GotoLabels DEF MainLabels
  <2>3. flags' \subseteq Flags
    BY <1>2 DEF Unlisten, TypeOK
  <2> QED
    BY <1>2, <2>2, <2>3 DEF Unlisten, TypeOK, Labels, loopVars, kernelVars, historyVars
<1>3. CASE FailedAccept
  <2>1. Goto("loop", "unlistened") \/ Goto("loop", "release")
    BY <1>3 DEF FailedAccept
  <2>2. Labels'
    BY <2>1, GotoLabels DEF LoopLabels
  <2>3. flags' \subseteq Flags
    BY <1>3 DEF FailedAccept, TypeOK
  <2> QED
    BY <1>3, <2>2, <2>3 DEF FailedAccept, TypeOK, Labels, loopVars, kernelVars, historyVars
<1> USE DEF loopVars, kernelVars, historyVars, threadVars, Goto, At, TypeOK, Threads,
            MainLabels, LoopLabels, Flags
<1>4. CASE LoopAlive
  BY <1>4 DEF LoopAlive
<1>5. CASE LoopStopped
  BY <1>5 DEF LoopStopped
<1>6. CASE BackendTimeout
  BY <1>6 DEF BackendTimeout
<1>7. CASE EndgamesDone
  BY <1>7 DEF EndgamesDone
<1>8. CASE TakeEndgame
  BY <1>8 DEF TakeEndgame
<1>9. CASE Leave
  BY <1>9 DEF Leave
<1>10. CASE Retry
  BY <1>10 DEF Retry
<1>11. CASE FlagClosing
  BY <1>11 DEF FlagClosing
<1>12. CASE NothingPending
  BY <1>12 DEF NothingPending
<1>13. CASE Stop
  BY <1>13 DEF Stop
<1>14. CASE Join
  BY <1>14 DEF Join
<1>15. CASE Active
  BY <1>15, CounterType DEF Active, Store
<1>16. CASE Deaf
  BY <1>16, CounterType DEF Deaf, Store
<1>17. CASE NotActive
  BY <1>17, CounterType DEF NotActive, Store
<1>18. CASE Closing
  BY <1>18, CounterType DEF Closing, Store
<1>19. CASE Connected
  BY <1>19 DEF Connected, Processing
<1>20. CASE Aborted
  BY <1>20 DEF Aborted, Processing
<1>21. CASE Count("loop", "unlistened", "deaf")
  BY <1>21 DEF Count, Load
<1>22. CASE Count("main", "unlistened", "not active")
  BY <1>22 DEF Count, Load
<1>23. CASE Count("main", "count closing", "closing")
  BY <1>23 DEF Count, Load
<1>24. CASE WantEndgame("loop", "requests")
  BY <1>24 DEF WantEndgame
<1>25. CASE Push("loop", "requests")
  BY <1>25 DEF Push
<1>26. CASE WantEndgame("main", "stop")
  BY <1>26 DEF WantEndgame
<1>27. CASE Push("main", "stop")
  BY <1>27 DEF Push
<1> QED
  BY <1>1, <1>2, <1>3, <1>4, <1>5, <1>6, <1>7, <1>8, <1>9, <1>10, <1>11, <1>12, <1>13,
     <1>14, <1>15, <1>16, <1>17, <1>18, <1>19, <1>20, <1>21, <1>22, <1>23, <1>24, <1>25,
     <1>26, <1>27

LEMMA RequestStepTypes ==
  ASSUME ServerInv, Next,
         \/ HandleClose \/ Data \/ End \/ Inactive \/ ConnectedTooLate \/ Serve \/ Release
         \/ QueueAccept \/ QueueAcceptFails \/ TakeRequests \/ Poll
         \/ Construct \/ CloseSocket
         \/ (\E ok \in BOOLEAN : Accept(ok))
         \/ \E c \in Clients : \/ QueueAcceptAtOnce(c) \/ Connect(c) \/ Establish(c)
                               \/ \E kind \in {"data", "end"} : Readable(c, kind)
  PROVE  TypeOK'
<1>1. TypeOK /\ AcceptsAccounted /\ AtWork
  BY DEF ServerInv
<1>2. ASSUME batch # <<>>
      PROVE  /\ Head(batch) \in Requests /\ Tail(batch) \in Seq(Requests)
             /\ Head(batch).kind \in {"connected", "data", "end"} => Head(batch).client \in Clients
  BY <1>1, <1>2, BatchTail, RequestKinds DEF ConnectedRequests
<1>3. /\ pc["loop"] \in {"accept", "serve"} => Head(batch).client \in Clients
      /\ pc["loop"] = "inactive" => batch # <<>>
      /\ pc["loop"] \in AcceptLabels => batch # <<>> /\ reqs_pending \in Nat \ {0}
  <2>1. pc["loop"] \in AcceptLabels => batch # <<>> /\ reqs_pending \in Nat \ {0}
    BY <1>1, WorkCounted DEF AtWork
  <2>2. pc["loop"] \in {"accept", "serve"} => Head(batch).client \in Clients
    BY <1>1 DEF AtWork, ConnectedRequests
  <2> QED
    BY <1>1, <2>1, <2>2 DEF AtWork
<1>4. /\ port \in Seq(Requests) /\ pending_reqs \in Seq(Requests) /\ batch \in Seq(Requests)
  BY <1>1 DEF TypeOK
<1>5. <<>> \in Seq(Requests)
  BY EmptySeq
<1>6. reqs_pending \in Nat /\ accepting \in Nat
  BY <1>1 DEF TypeOK
<1>7. CASE HandleClose
  <2>1. /\ pc' \in [Threads -> MainLabels \cup LoopLabels]
        /\ pc'["main"] \in MainLabels /\ pc'["loop"] \in LoopLabels
    BY <1>1, <1>7 DEF TypeOK, HandleClose, Goto, At, Threads, MainLabels, LoopLabels
  <2>2. closeEvents' \in 0..2
    BY <1>1, <1>7 DEF TypeOK, HandleClose
  <2>3. active_handles' \in 0..(CounterSize - 1)
    BY <1>1, <1>7, CounterType DEF TypeOK, HandleClose, Store, Threads
  <2>4. flags' \subseteq Flags
    BY <1>1, <1>7 DEF TypeOK, HandleClose, Flags
  <2> QED
    BY <1>1, <1>7, <2>1, <2>2, <2>3, <2>4 DEF TypeOK, HandleClose, Store, loopVars, kernelVars, historyVars, threadVars
<1>8. CASE Data
  <2>1. conn' \in [Clients -> Connections] /\ batch' \in Seq(Requests)
    BY <1>1, <1>8, <1>2 DEF TypeOK, Data, Processing, Connections
  <2> QED
    BY <1>1, <1>8, <2>1 DEF TypeOK, Data, loopVars, kernelVars, historyVars, threadVars
<1>9. CASE End
  <2>1. /\ pc' \in [Threads -> MainLabels \cup LoopLabels]
        /\ pc'["main"] \in MainLabels /\ pc'["loop"] \in LoopLabels
    BY <1>1, <1>9 DEF TypeOK, End, Processing, Goto, At, Threads, MainLabels, LoopLabels
  <2>2. conn' \in [Clients -> Connections]
    BY <1>1, <1>9 DEF TypeOK, End, Connections
  <2>3. m_clients' \subseteq Clients
    BY <1>1, <1>9 DEF TypeOK, End
  <2>4. seen' \in [Threads -> 0..(CounterSize - 1)]
    BY <1>1, <1>9 DEF TypeOK, End, Load, Threads
  <2> QED
    BY <1>1, <1>9, <2>1, <2>2, <2>3, <2>4 DEF TypeOK, End, loopVars, kernelVars, historyVars, threadVars
<1>10. CASE Inactive
  <2>1. /\ pc' \in [Threads -> MainLabels \cup LoopLabels]
        /\ pc'["main"] \in MainLabels /\ pc'["loop"] \in LoopLabels
    BY <1>1, <1>10 DEF TypeOK, Inactive, Goto, At, Threads, MainLabels, LoopLabels
  <2>2. batch' \in Seq(Requests)
    BY <1>1, <1>10, <1>2, <1>3 DEF TypeOK, Inactive, At
  <2>3. active_handles' \in 0..(CounterSize - 1)
    BY <1>1, <1>10, CounterType DEF TypeOK, Inactive, Threads
  <2> QED
    BY <1>1, <1>10, <2>1, <2>2, <2>3 DEF TypeOK, Inactive, loopVars, kernelVars, historyVars, threadVars
<1>11. CASE ConnectedTooLate
  <2>1. /\ pc' \in [Threads -> MainLabels \cup LoopLabels]
        /\ pc'["main"] \in MainLabels /\ pc'["loop"] \in LoopLabels
    BY <1>1, <1>11 DEF TypeOK, ConnectedTooLate, Processing, Goto, At, Threads, MainLabels, LoopLabels
  <2>2. conn' \in [Clients -> Connections]
    BY <1>1, <1>11 DEF TypeOK, ConnectedTooLate, Connections
  <2> QED
    BY <1>1, <1>11, <2>1, <2>2 DEF TypeOK, ConnectedTooLate, loopVars, kernelVars, historyVars, threadVars
<1>12. CASE Serve
  <2>1. Labels'
    <3>1. Goto("loop", "active") \/ Goto("loop", "release")
      BY <1>12 DEF Serve
    <3> QED
      BY <1>1, <3>1, GotoLabels DEF LoopLabels
  <2>2. m_clients' \subseteq Clients
    BY <1>1, <1>12, <1>3 DEF TypeOK, Serve, At
  <2>3. conn' \in [Clients -> Connections]
    BY <1>1, <1>12 DEF TypeOK, Serve, Connections
  <2>4. seen' \in [Threads -> 0..(CounterSize - 1)]
    BY <1>1, <1>12 DEF TypeOK, Serve, Load, Threads
  <2> QED
    BY <1>1, <1>12, <2>1, <2>2, <2>3, <2>4 DEF TypeOK, Labels, Serve, loopVars, kernelVars, historyVars, threadVars
<1>13. CASE Release
  <2>1. /\ pc' \in [Threads -> MainLabels \cup LoopLabels]
        /\ pc'["main"] \in MainLabels /\ pc'["loop"] \in LoopLabels
    BY <1>1, <1>13 DEF TypeOK, Release, Goto, At, Threads, MainLabels, LoopLabels
  <2>2. reqs_pending \in Nat \ {0} /\ batch # <<>>
    BY <1>1, <1>13, <1>3 DEF TypeOK, Release, At, AcceptLabels
  <2>3. reqs_pending' \in Nat /\ batch' \in Seq(Requests)
    <3>1. reqs_pending' = reqs_pending - 1 /\ batch' = Tail(batch)
      BY <1>13 DEF Release
    <3>2. reqs_pending - 1 \in Nat
      BY <2>2
    <3> QED
      BY <1>2, <2>2, <3>1, <3>2
  <2> QED
    BY <1>1, <1>13, <2>1, <2>2, <2>3 DEF TypeOK, Release, loopVars, kernelVars, historyVars, threadVars
<1>14. CASE QueueAccept
  <2>1. /\ pc' \in [Threads -> MainLabels \cup LoopLabels]
        /\ pc'["main"] \in MainLabels /\ pc'["loop"] \in LoopLabels
    BY <1>1, <1>14 DEF TypeOK, QueueAccept, AfterQueueAccept, Goto, At, Threads, MainLabels, LoopLabels
  <2>2. reqs_pending' \in Nat /\ accepting' \in Nat
    <3>1. reqs_pending' = reqs_pending + 1 /\ accepting' = accepting + 1
      BY <1>14 DEF QueueAccept, Counted
    <3> QED
      BY <1>6, <3>1
  <2> QED
    BY <1>1, <1>14, <2>1, <2>2 DEF TypeOK, QueueAccept, loopVars, kernelVars, historyVars, threadVars
<1>15. CASE QueueAcceptFails
  <2>1. /\ pc' \in [Threads -> MainLabels \cup LoopLabels]
        /\ pc'["main"] \in MainLabels /\ pc'["loop"] \in LoopLabels
    BY <1>1, <1>15 DEF TypeOK, QueueAcceptFails, AfterQueueAccept, Goto, At, Threads, MainLabels, LoopLabels
  <2>2. reqs_pending' \in Nat
    <3>1. reqs_pending' = reqs_pending + 1
      BY <1>15 DEF QueueAcceptFails
    <3> QED
      BY <1>6, <3>1
  <2>3. pending_reqs' \in Seq(Requests)
    BY <1>1, <1>15, <1>4, NewRequests, AppendProperties DEF TypeOK, QueueAcceptFails
  <2>4. failed' \in BOOLEAN
    BY <1>1, <1>15 DEF TypeOK, QueueAcceptFails, SocketOpen
  <2> QED
    BY <1>1, <1>15, <2>1, <2>2, <2>3, <2>4 DEF TypeOK, QueueAcceptFails, loopVars, kernelVars, historyVars, threadVars
<1>16. CASE TakeRequests
  <2>1. /\ pc' \in [Threads -> MainLabels \cup LoopLabels]
        /\ pc'["main"] \in MainLabels /\ pc'["loop"] \in LoopLabels
    BY <1>1, <1>16 DEF TypeOK, TakeRequests, Goto, At, Threads, MainLabels, LoopLabels
  <2> QED
    BY <1>1, <1>5, <1>16, <2>1 DEF TypeOK, TakeRequests, loopVars, kernelVars, historyVars, threadVars
<1>17. CASE Poll
  <2>1. /\ pc' \in [Threads -> MainLabels \cup LoopLabels]
        /\ pc'["main"] \in MainLabels /\ pc'["loop"] \in LoopLabels
    BY <1>1, <1>17 DEF TypeOK, Poll, Goto, At, Threads, MainLabels, LoopLabels
  <2>2. port' \in Seq(Requests) /\ pending_reqs' \in Seq(Requests)
    BY <1>1, <1>17, <1>4, <1>5, ConcatProperties DEF TypeOK, Poll
  <2> QED
    BY <1>1, <1>17, <2>1, <2>2 DEF TypeOK, Poll, loopVars, kernelVars, historyVars, threadVars
<1>18. CASE Construct
  <2>1. CounterSize \in Nat /\ CounterSize > 2
    BY ServerAssumption, FS_CardinalityType
  <2>2. /\ pc' \in [Threads -> MainLabels \cup LoopLabels]
        /\ pc'["main"] \in MainLabels /\ pc'["loop"] \in LoopLabels
    BY <1>18 DEF Construct, Threads, MainLabels, LoopLabels
  <2>3. active_handles' \in 0..(CounterSize - 1)
    BY <1>1, <1>18, <2>1 DEF TypeOK, Construct
  <2>4. flags' \subseteq Flags /\ failed' \in BOOLEAN
    <3>1. /\ flags' = flags \/ flags' = {"LISTENING", "ACTIVE"}
          /\ failed' = failed \/ \E n \in 0..Accepts : failed' = (n > 0)
      BY <1>18 DEF Construct
    <3>2. \A n \in 0..Accepts : (n > 0) \in BOOLEAN
      OBVIOUS
    <3> QED
      BY <1>1, <3>1, <3>2 DEF TypeOK, Flags
  <2>5. accepting' \in Nat /\ reqs_pending' \in Nat /\ pending_reqs' \in Seq(Requests)
    BY <1>1, <1>18, FirstAccepts, ServerAssumption DEF TypeOK
  <2> QED
    BY <1>1, <1>18, <2>2, <2>3, <2>4, <2>5 DEF TypeOK, Construct
<1>19. CASE CloseSocket
  <2>1. /\ pc' \in [Threads -> MainLabels \cup LoopLabels]
        /\ pc'["main"] \in MainLabels /\ pc'["loop"] \in LoopLabels
    BY <1>1, <1>19 DEF TypeOK, CloseSocket, Goto, At, Threads, MainLabels, LoopLabels
  <2>2. port' \in Seq(Requests)
    BY <1>1, <1>19, AbortedRequests DEF TypeOK, CloseSocket
  <2>3. conn' \in [Clients -> Connections]
    BY <1>1, <1>19 DEF TypeOK, CloseSocket, Connections
  <2>4. flags' \subseteq Flags
    BY <1>1, <1>19 DEF TypeOK, CloseSocket, Flags
  <2> QED
    BY <1>1, <1>19, <2>1, <2>2, <2>3, <2>4 DEF TypeOK, CloseSocket, loopVars, kernelVars, historyVars, threadVars
<1>20. ASSUME NEW ok \in BOOLEAN, Accept(ok)
      PROVE  TypeOK'
  <2>1. /\ pc' \in [Threads -> MainLabels \cup LoopLabels]
        /\ pc'["main"] \in MainLabels /\ pc'["loop"] \in LoopLabels
    BY <1>1, <1>20 DEF TypeOK, Accept, AcceptsAgain, Goto, At, Threads, MainLabels, LoopLabels
  <2>2. conn' \in [Clients -> Connections]
    BY <1>1, <1>20, <1>3 DEF TypeOK, Accept, At, Connections
  <2>3. failed' \in BOOLEAN
    BY <1>1, <1>20 DEF TypeOK, Accept
  <2> QED
    BY <1>1, <1>20, <2>1, <2>2, <2>3 DEF TypeOK, Accept, loopVars, kernelVars, historyVars, threadVars
<1>21. ASSUME NEW c \in Clients, QueueAcceptAtOnce(c)
      PROVE  TypeOK'
  <2>1. /\ pc' \in [Threads -> MainLabels \cup LoopLabels]
        /\ pc'["main"] \in MainLabels /\ pc'["loop"] \in LoopLabels
    BY <1>1, <1>21 DEF TypeOK, QueueAcceptAtOnce, AfterQueueAccept, Goto, At, Threads, MainLabels, LoopLabels
  <2>2. reqs_pending' \in Nat
    <3>1. reqs_pending' = reqs_pending + 1
      BY <1>21 DEF QueueAcceptAtOnce, Counted
    <3> QED
      BY <1>6, <3>1
  <2>3. pending_reqs' \in Seq(Requests)
    BY <1>1, <1>21, <1>4, NewRequests, AppendProperties DEF TypeOK, QueueAcceptAtOnce
  <2>4. conn' \in [Clients -> Connections]
    BY <1>1, <1>21 DEF TypeOK, QueueAcceptAtOnce, Connections
  <2> QED
    BY <1>1, <1>21, <2>1, <2>2, <2>3, <2>4 DEF TypeOK, QueueAcceptAtOnce, loopVars, kernelVars, historyVars, threadVars
<1>22. ASSUME NEW c \in Clients, Connect(c)
      PROVE  TypeOK'
  <2>1. conn' \in [Clients -> Connections]
    BY <1>1, <1>22 DEF TypeOK, Connect, Connections
  <2> QED
    BY <1>1, <1>22, <2>1 DEF TypeOK, Connect, loopVars, kernelVars, historyVars, threadVars
<1>23. ASSUME NEW c \in Clients, Establish(c)
      PROVE  TypeOK'
  <2>1. port' \in Seq(Requests)
    BY <1>1, <1>23, <1>4, NewRequests, AppendProperties DEF TypeOK, Establish, Completes
  <2>2. conn' \in [Clients -> Connections]
    BY <1>1, <1>23 DEF TypeOK, Establish, Completes, Connections
  <2>3. accepting' \in Nat
    BY <1>1, <1>23 DEF TypeOK, Establish
  <2> QED
    BY <1>1, <1>23, <2>1, <2>2, <2>3 DEF TypeOK, Establish, Completes, loopVars, kernelVars, historyVars, threadVars
<1>24. ASSUME NEW c \in Clients, NEW kind \in {"data", "end"}, Readable(c, kind)
      PROVE  TypeOK'
  <2>1. port' \in Seq(Requests)
    BY <1>1, <1>24, <1>4, NewRequests, AppendProperties DEF TypeOK, Readable, Completes
  <2>2. conn' \in [Clients -> Connections]
    BY <1>1, <1>24 DEF TypeOK, Readable, Completes, Connections
  <2> QED
    BY <1>1, <1>24, <2>1, <2>2 DEF TypeOK, Readable, Completes, loopVars, kernelVars, historyVars, threadVars
<1> QED
  BY <1>7, <1>8, <1>9, <1>10, <1>11, <1>12, <1>13, <1>14, <1>15, <1>16, <1>17, <1>18,
     <1>19, <1>20, <1>21, <1>22, <1>23, <1>24

-----------------------------------------------------------------------------
(* Steps that touch neither the accept requests nor the queues. *)
LEMMA QuietStep ==
  ASSUME
         \/ LoopAlive \/ LoopStopped \/ BackendTimeout \/ EndgamesDone \/ TakeEndgame
         \/ Endgame \/ HandleClose \/ Leave \/ End \/ Connected \/ ConnectedTooLate
         \/ Aborted \/ Retry \/ Serve \/ Active \/ FailedAccept \/ Deaf
         \/ (\E ok \in BOOLEAN : Accept(ok)) \/ Count("loop", "unlistened", "deaf")
         \/ WantEndgame("loop", "requests") \/ Push("loop", "requests")
         \/ NotActive \/ Closing \/ FlagClosing \/ NothingPending \/ Stop \/ Join \/ Unlisten
         \/ Count("main", "unlistened", "not active")
         \/ Count("main", "count closing", "closing")
         \/ WantEndgame("main", "stop") \/ Push("main", "stop")
         \/ (\E c \in Clients : Connect(c))
  PROVE  UNCHANGED <<reqs_pending, accepting, port, pending_reqs, batch>>
<1> USE DEF loopVars, kernelVars
<1>1. CASE LoopAlive
  BY <1>1 DEF LoopAlive
<1>2. CASE LoopStopped
  BY <1>2 DEF LoopStopped
<1>3. CASE BackendTimeout
  BY <1>3 DEF BackendTimeout
<1>4. CASE EndgamesDone
  BY <1>4 DEF EndgamesDone
<1>5. CASE TakeEndgame
  BY <1>5 DEF TakeEndgame
<1>6. CASE Endgame
  BY <1>6 DEF Endgame
<1>7. CASE HandleClose
  BY <1>7 DEF HandleClose, Store
<1>8. CASE Leave
  BY <1>8 DEF Leave
<1>9. CASE End
  BY <1>9 DEF End
<1>10. CASE Connected
  BY <1>10 DEF Connected
<1>11. CASE ConnectedTooLate
  BY <1>11 DEF ConnectedTooLate
<1>12. CASE Aborted
  BY <1>12 DEF Aborted
<1>13. CASE Retry
  BY <1>13 DEF Retry
<1>14. CASE Serve
  BY <1>14 DEF Serve
<1>15. CASE Active
  BY <1>15 DEF Active, Store
<1>16. CASE FailedAccept
  BY <1>16 DEF FailedAccept
<1>17. CASE Deaf
  BY <1>17 DEF Deaf, Store
<1>18. CASE NotActive
  BY <1>18 DEF NotActive, Store
<1>19. CASE Closing
  BY <1>19 DEF Closing, Store
<1>20. CASE FlagClosing
  BY <1>20 DEF FlagClosing
<1>21. CASE NothingPending
  BY <1>21 DEF NothingPending
<1>22. CASE Stop
  BY <1>22 DEF Stop
<1>23. CASE Join
  BY <1>23 DEF Join
<1>24. CASE Unlisten
  BY <1>24 DEF Unlisten
<1>25. CASE \E ok \in BOOLEAN : Accept(ok)
  BY <1>25 DEF Accept
<1>26. CASE Count("loop", "unlistened", "deaf")
  BY <1>26 DEF Count
<1>27. CASE Count("main", "unlistened", "not active")
  BY <1>27 DEF Count
<1>28. CASE Count("main", "count closing", "closing")
  BY <1>28 DEF Count
<1>29. CASE WantEndgame("loop", "requests")
  BY <1>29 DEF WantEndgame
<1>30. CASE Push("loop", "requests")
  BY <1>30 DEF Push
<1>31. CASE WantEndgame("main", "stop")
  BY <1>31 DEF WantEndgame
<1>32. CASE Push("main", "stop")
  BY <1>32 DEF Push
<1>33. CASE \E c \in Clients : Connect(c)
  BY <1>33 DEF Connect
<1> QED
  BY <1>1, <1>2, <1>3, <1>4, <1>5, <1>6, <1>7, <1>8, <1>9, <1>10, <1>11, <1>12,
     <1>13, <1>14, <1>15, <1>16, <1>17, <1>18, <1>19, <1>20, <1>21, <1>22, <1>23, <1>24,
     <1>25, <1>26, <1>27, <1>28, <1>29, <1>30, <1>31, <1>32, <1>33

(* A step of the loop leaves main where it is; it has been started. *)
LEMMA LoopFrame ==
  ASSUME TypeOK, LoopStep
  PROVE  pc'["main"] = pc["main"] /\ pc["loop"] # "unborn"
<1>1. pc \in [Threads -> MainLabels \cup LoopLabels]
  BY DEF TypeOK
<1> USE DEF Goto, At, Threads
<1>2. CASE LoopAlive
  BY <1>2, <1>1 DEF LoopAlive
<1>3. CASE LoopStopped
  BY <1>3, <1>1 DEF LoopStopped
<1>4. CASE TakeRequests
  BY <1>4, <1>1 DEF TakeRequests
<1>5. CASE BackendTimeout
  BY <1>5, <1>1 DEF BackendTimeout
<1>6. CASE Poll
  BY <1>6, <1>1 DEF Poll
<1>7. CASE EndgamesDone
  BY <1>7, <1>1 DEF EndgamesDone
<1>8. CASE TakeEndgame
  BY <1>8, <1>1 DEF TakeEndgame
<1>9. CASE Endgame
  BY <1>9, <1>1 DEF Endgame
<1>10. CASE HandleClose
  BY <1>10, <1>1 DEF HandleClose
<1>11. CASE Leave
  BY <1>11, <1>1 DEF Leave
<1>12. CASE Data
  BY <1>12, <1>1 DEF Data, Processing, threadVars
<1>13. CASE End
  BY <1>13, <1>1 DEF End, Processing
<1>14. CASE Inactive
  BY <1>14, <1>1 DEF Inactive
<1>15. CASE Connected
  BY <1>15, <1>1 DEF Connected, Processing
<1>16. CASE ConnectedTooLate
  BY <1>16, <1>1 DEF ConnectedTooLate, Processing
<1>17. CASE Aborted
  BY <1>17, <1>1 DEF Aborted, Processing
<1>18. CASE Retry
  BY <1>18, <1>1 DEF Retry
<1>19. CASE QueueAccept
  BY <1>19, <1>1 DEF QueueAccept
<1>20. CASE QueueAcceptFails
  BY <1>20, <1>1 DEF QueueAcceptFails
<1>21. CASE Serve
  BY <1>21, <1>1 DEF Serve
<1>22. CASE Active
  BY <1>22, <1>1 DEF Active
<1>23. CASE FailedAccept
  BY <1>23, <1>1 DEF FailedAccept, Processing
<1>24. CASE Deaf
  BY <1>24, <1>1 DEF Deaf
<1>25. CASE Release
  BY <1>25, <1>1 DEF Release
<1>26. CASE \E ok \in BOOLEAN : Accept(ok)
  BY <1>26, <1>1 DEF Accept
<1>27. CASE \E c \in Clients : QueueAcceptAtOnce(c)
  BY <1>27, <1>1 DEF QueueAcceptAtOnce
<1>28. CASE Count("loop", "unlistened", "deaf")
  BY <1>28, <1>1 DEF Count
<1>29. CASE WantEndgame("loop", "requests")
  BY <1>29, <1>1 DEF WantEndgame
<1>30. CASE Push("loop", "requests")
  BY <1>30, <1>1 DEF Push
<1> QED
  BY <1>2, <1>3, <1>4, <1>5, <1>6, <1>7, <1>8, <1>9, <1>10, <1>11, <1>12, <1>13,
     <1>14, <1>15, <1>16, <1>17, <1>18, <1>19, <1>20, <1>21, <1>22, <1>23, <1>24, <1>25,
     <1>26, <1>27, <1>28, <1>29, <1>30 DEF LoopStep

(* A step of main leaves the loop where it is and what the loop is at work *)
(* on, but for the constructor, which starts it.                           *)
LEMMA MainFrame ==
  ASSUME TypeOK, MainStep \/ Unlisten
  PROVE  /\ pc["main"] # "done" /\ pc'["main"] # "construct"
         /\ Construct \/ (UNCHANGED pending_reqs /\ pc'["loop"] = pc["loop"])
         /\ UNCHANGED <<batch, closeEvents>>
<1>1. pc \in [Threads -> MainLabels \cup LoopLabels]
  BY DEF TypeOK
<1> USE DEF Goto, At, Threads, loopVars, historyVars
<1>2. CASE Construct
  <2>1. /\ pc["main"] = "construct" /\ pc'["main"] = "input"
        /\ UNCHANGED <<batch, closeEvents>>
    BY <1>2, <1>1 DEF Construct
  <2> QED
    BY <1>2, <2>1
<1>3. CASE CloseSocket
  BY <1>3, <1>1 DEF CloseSocket
<1>4. CASE NotActive
  BY <1>4, <1>1 DEF NotActive, Store
<1>5. CASE Closing
  BY <1>5, <1>1 DEF Closing, Store
<1>6. CASE FlagClosing
  BY <1>6, <1>1 DEF FlagClosing
<1>7. CASE NothingPending
  BY <1>7, <1>1 DEF NothingPending
<1>8. CASE Stop
  BY <1>8, <1>1 DEF Stop
<1>9. CASE Join
  BY <1>9, <1>1 DEF Join
<1>10. CASE Unlisten
  BY <1>10, <1>1 DEF Unlisten
<1>11. CASE Count("main", "unlistened", "not active")
  BY <1>11, <1>1 DEF Count
<1>12. CASE Count("main", "count closing", "closing")
  BY <1>12, <1>1 DEF Count
<1>13. CASE WantEndgame("main", "stop")
  BY <1>13, <1>1 DEF WantEndgame
<1>14. CASE Push("main", "stop")
  BY <1>14, <1>1 DEF Push
<1> QED
  BY <1>2, <1>3, <1>4, <1>5, <1>6, <1>7, <1>8, <1>9, <1>10, <1>11, <1>12, <1>13,
     <1>14 DEF MainStep

(* The kernel and the clients touch neither thread. *)
LEMMA KernelFrame ==
  ASSUME NEW c \in Clients,
         \/ Connect(c) \/ Establish(c)
         \/ \E kind \in {"data", "end"} : Readable(c, kind)
  PROVE  UNCHANGED <<pc, reqs_pending, pending_reqs, batch, m_clients, closeEvents>>
BY DEF Connect, Establish, Readable, Completes, threadVars, loopVars, historyVars

(* The loop begins work on a request it has looked at, and lets go of the  *)
(* request as it takes it out of the batch.                                *)
LEMMA AtWorkStep ==
  ASSUME ServerInv, Next
  PROVE  AtWork'
<1>1. TypeOK /\ AtWork
  BY DEF ServerInv
<1>2. pc \in [Threads -> MainLabels \cup LoopLabels]
  BY <1>1 DEF TypeOK
<1>3. batch # <<>> =>
        /\ Head(batch).kind = "connected" => Head(batch) \in ConnectedRequests
        /\ Head(batch).kind \in {"connected", "aborted", "failed"} => Head(batch) \in AcceptRequests
        /\ Head(batch).kind \in {"data", "end"} => Head(batch) \notin AcceptRequests
  BY <1>1, BatchTail, RequestKinds
<1> USE DEF Goto, At, Threads, AtWork, AcceptLabels, BatchLabels
<1>4. CASE LoopAlive
  BY <1>4, <1>1, <1>2, QuietStep DEF LoopAlive
<1>5. CASE LoopStopped
  BY <1>5, <1>1, <1>2, QuietStep DEF LoopStopped
<1>6. CASE BackendTimeout
  BY <1>6, <1>1, <1>2, QuietStep DEF BackendTimeout
<1>7. CASE EndgamesDone
  BY <1>7, <1>1, <1>2, QuietStep DEF EndgamesDone
<1>8. CASE TakeEndgame
  BY <1>8, <1>1, <1>2, QuietStep DEF TakeEndgame
<1>9. CASE Endgame
  BY <1>9, <1>1, <1>2, QuietStep DEF Endgame
<1>10. CASE HandleClose
  BY <1>10, <1>1, <1>2, QuietStep DEF HandleClose
<1>11. CASE Leave
  BY <1>11, <1>1, <1>2, QuietStep DEF Leave
<1>12. CASE Retry
  BY <1>12, <1>1, <1>2, QuietStep DEF Retry
<1>13. CASE Serve
  BY <1>13, <1>1, <1>2, QuietStep DEF Serve
<1>14. CASE Active
  BY <1>14, <1>1, <1>2, QuietStep DEF Active
<1>15. CASE Deaf
  BY <1>15, <1>1, <1>2, QuietStep DEF Deaf
<1>16. CASE \E ok \in BOOLEAN : Accept(ok)
  BY <1>16, <1>1, <1>2, QuietStep DEF Accept
<1>17. CASE Count("loop", "unlistened", "deaf")
  BY <1>17, <1>1, <1>2, QuietStep DEF Count
<1>18. CASE WantEndgame("loop", "requests")
  BY <1>18, <1>1, <1>2, QuietStep DEF WantEndgame
<1>19. CASE Push("loop", "requests")
  BY <1>19, <1>1, <1>2, QuietStep DEF Push
<1>20. CASE End
  BY <1>20, <1>1, <1>2, <1>3, QuietStep DEF End, Processing
<1>21. CASE Connected
  BY <1>21, <1>1, <1>2, <1>3, QuietStep DEF Connected, Processing
<1>22. CASE ConnectedTooLate
  BY <1>22, <1>1, <1>2, <1>3, QuietStep DEF ConnectedTooLate, Processing
<1>23. CASE Aborted
  BY <1>23, <1>1, <1>2, <1>3, QuietStep DEF Aborted, Processing
<1>24. CASE FailedAccept
  BY <1>24, <1>1, <1>2, <1>3, QuietStep DEF FailedAccept, Processing
<1>25. CASE Data
  BY <1>25, <1>1, <1>2 DEF Data, Processing, threadVars
<1>26. CASE TakeRequests
  BY <1>26, <1>1, <1>2 DEF TakeRequests
<1>27. CASE Poll
  BY <1>27, <1>1, <1>2 DEF Poll
<1>28. CASE Inactive
  BY <1>28, <1>1, <1>2 DEF Inactive
<1>29. CASE Release
  BY <1>29, <1>1, <1>2 DEF Release
<1>30. CASE QueueAccept
  BY <1>30, <1>1, <1>2 DEF QueueAccept, AfterQueueAccept, loopVars
<1>31. CASE QueueAcceptFails
  BY <1>31, <1>1, <1>2 DEF QueueAcceptFails, AfterQueueAccept, loopVars
<1>32. CASE \E c \in Clients : QueueAcceptAtOnce(c)
  BY <1>32, <1>1, <1>2 DEF QueueAcceptAtOnce, AfterQueueAccept
<1>33. CASE Construct
  BY <1>33, <1>1 DEF Construct, ServerInv, NoRequests
<1>34. CASE (MainStep \/ Unlisten) /\ ~Construct
  BY <1>34, <1>1, MainFrame
<1>35. CASE \E c \in Clients : \/ Connect(c) \/ Establish(c)
                               \/ \E kind \in {"data", "end"} : Readable(c, kind)
  BY <1>35, <1>1, KernelFrame
<1> QED
  BY <1>4, <1>5, <1>6, <1>7, <1>8, <1>9, <1>10, <1>11, <1>12, <1>13, <1>14, <1>15,
     <1>16, <1>17, <1>18, <1>19, <1>20, <1>21, <1>22, <1>23, <1>24, <1>25, <1>26, <1>27,
     <1>28, <1>29, <1>30, <1>31, <1>32, <1>33, <1>34, <1>35 DEF Next, LoopStep

(* Only work on an accept request changes the count, and a request that is *)
(* worked on is counted.                                                   *)
LEMMA NoRequestsStep ==
  ASSUME ServerInv, Next
  PROVE  NoRequests'
<1>1. TypeOK /\ AcceptsAccounted /\ AtWork /\ NoRequests
  BY DEF ServerInv
<1>2. pc \in [Threads -> MainLabels \cup LoopLabels]
  BY <1>1 DEF TypeOK
<1>3. pc["loop"] \in AcceptLabels => reqs_pending # 0
  BY <1>1, WorkCounted
<1>4. closeEvents \in 0..2
  BY <1>1 DEF TypeOK
<1>5. ASSUME LoopStep
      PROVE  pc'["main"] # "construct"
  BY <1>1, <1>5, LoopFrame DEF NoRequests, At
<1>6. ASSUME LoopStep, UNCHANGED <<reqs_pending, closeEvents>>, pc'["loop"] # "close"
      PROVE  NoRequests'
  BY <1>1, <1>5, <1>6 DEF NoRequests, At
<1> USE DEF Goto, At, Threads
<1>7. CASE LoopAlive
  BY <1>7, <1>1, <1>2, <1>6 DEF LoopStep, LoopAlive, historyVars, loopVars, threadVars
<1>8. CASE LoopStopped
  BY <1>8, <1>1, <1>2, <1>6 DEF LoopStep, LoopStopped, historyVars, loopVars, threadVars
<1>9. CASE BackendTimeout
  BY <1>9, <1>1, <1>2, <1>6 DEF LoopStep, BackendTimeout, historyVars, loopVars, threadVars
<1>10. CASE EndgamesDone
  BY <1>10, <1>1, <1>2, <1>6 DEF LoopStep, EndgamesDone, historyVars, loopVars, threadVars
<1>11. CASE TakeEndgame
  BY <1>11, <1>1, <1>2, <1>6 DEF LoopStep, TakeEndgame, historyVars, loopVars, threadVars
<1>12. CASE Leave
  BY <1>12, <1>1, <1>2, <1>6 DEF LoopStep, Leave, historyVars, loopVars, threadVars
<1>13. CASE End
  BY <1>13, <1>1, <1>2, <1>6 DEF LoopStep, End, historyVars, loopVars, threadVars, Processing
<1>14. CASE Connected
  BY <1>14, <1>1, <1>2, <1>6 DEF LoopStep, Connected, historyVars, loopVars, threadVars, Processing
<1>15. CASE ConnectedTooLate
  BY <1>15, <1>1, <1>2, <1>6 DEF LoopStep, ConnectedTooLate, historyVars, loopVars, threadVars, Processing
<1>16. CASE Aborted
  BY <1>16, <1>1, <1>2, <1>6 DEF LoopStep, Aborted, historyVars, loopVars, threadVars, Processing
<1>17. CASE Retry
  BY <1>17, <1>1, <1>2, <1>6 DEF LoopStep, Retry, historyVars, loopVars, threadVars
<1>18. CASE Serve
  BY <1>18, <1>1, <1>2, <1>6 DEF LoopStep, Serve, historyVars, loopVars, threadVars
<1>19. CASE Active
  BY <1>19, <1>1, <1>2, <1>6 DEF LoopStep, Active, historyVars, loopVars, threadVars
<1>20. CASE FailedAccept
  BY <1>20, <1>1, <1>2, <1>6 DEF LoopStep, FailedAccept, historyVars, loopVars, threadVars, Processing
<1>21. CASE Deaf
  BY <1>21, <1>1, <1>2, <1>6 DEF LoopStep, Deaf, historyVars, loopVars, threadVars
<1>22. CASE TakeRequests
  BY <1>22, <1>1, <1>2, <1>6 DEF LoopStep, TakeRequests, historyVars, loopVars, threadVars
<1>23. CASE Poll
  BY <1>23, <1>1, <1>2, <1>6 DEF LoopStep, Poll, historyVars, loopVars, threadVars
<1>24. CASE Data
  BY <1>24, <1>1, <1>2, <1>6 DEF LoopStep, Data, historyVars, loopVars, threadVars, Processing
<1>25. CASE Inactive
  BY <1>25, <1>1, <1>2, <1>6 DEF LoopStep, Inactive, historyVars, loopVars, threadVars
<1>26. CASE (\E ok \in BOOLEAN : Accept(ok))
  BY <1>26, <1>1, <1>2, <1>6 DEF LoopStep, Accept, historyVars
<1>27. CASE Count("loop", "unlistened", "deaf")
  BY <1>27, <1>1, <1>2, <1>6 DEF LoopStep, Count, historyVars
<1>28. CASE WantEndgame("loop", "requests")
  BY <1>28, <1>1, <1>2, <1>6 DEF LoopStep, WantEndgame, historyVars
<1>29. CASE Push("loop", "requests")
  BY <1>29, <1>1, <1>2, <1>6 DEF LoopStep, Push, historyVars
<1>30. CASE Endgame
  BY <1>30, <1>1, <1>2, <1>5 DEF LoopStep, Endgame, EndgameDue, historyVars, NoRequests
<1>31. CASE HandleClose
  BY <1>31, <1>1, <1>2, <1>5 DEF LoopStep, HandleClose, NoRequests
<1>32. CASE QueueAccept
  BY <1>32, <1>1, <1>2, <1>5, <1>3, <1>4 DEF LoopStep, QueueAccept, historyVars, AfterQueueAccept, NoRequests, AcceptLabels
<1>33. CASE QueueAcceptFails
  BY <1>33, <1>1, <1>2, <1>5, <1>3, <1>4 DEF LoopStep, QueueAcceptFails, historyVars, AfterQueueAccept, NoRequests, AcceptLabels
<1>34. CASE Release
  BY <1>34, <1>1, <1>2, <1>5, <1>3, <1>4 DEF LoopStep, Release, historyVars, AfterQueueAccept, NoRequests, AcceptLabels
<1>35. CASE \E c \in Clients : QueueAcceptAtOnce(c)
  BY <1>35, <1>1, <1>2, <1>5, <1>3, <1>4 DEF LoopStep, QueueAcceptAtOnce, historyVars, AfterQueueAccept, NoRequests, AcceptLabels
<1>36. CASE Construct
  BY <1>36, <1>1 DEF Construct, historyVars, NoRequests
<1>37. CASE (MainStep \/ Unlisten) /\ ~Construct
  <2>1. reqs_pending' = reqs_pending
    BY <1>37, QuietStep DEF MainStep, CloseSocket
  <2> QED
    BY <1>1, <1>37, <2>1, MainFrame DEF NoRequests
<1>38. CASE \E c \in Clients : \/ Connect(c) \/ Establish(c)
                               \/ \E kind \in {"data", "end"} : Readable(c, kind)
  BY <1>38, <1>1, KernelFrame DEF NoRequests
<1> QED
  BY <1>7, <1>8, <1>9, <1>10, <1>11, <1>12, <1>13, <1>14, <1>15, <1>16, <1>17, <1>18,
     <1>19, <1>20, <1>21, <1>22, <1>23, <1>24, <1>25, <1>26, <1>27, <1>28, <1>29, <1>30,
     <1>31, <1>32, <1>33, <1>34, <1>35, <1>36, <1>37, <1>38 DEF Next, LoopStep

-----------------------------------------------------------------------------
(* Every step keeps the account: a request moves, or is counted as it is    *)
(* queued, or discounted as it leaves the batch.                            *)
LEMMA AccountedStep ==
  ASSUME ServerInv, Next
  PROVE  AcceptsAccounted'
<1>1. TypeOK /\ AcceptsAccounted /\ AtWork
  BY DEF ServerInv
<1>2. /\ port \in Seq(Requests) /\ pending_reqs \in Seq(Requests) /\ batch \in Seq(Requests)
      /\ AcceptsIn(port) \in Nat /\ AcceptsIn(pending_reqs) \in Nat
      /\ AcceptsIn(batch) \in Nat /\ accepting \in Nat /\ reqs_pending \in Nat
  BY <1>1, QueueTypes
<1>3. reqs_pending = accepting + AcceptsIn(port) + AcceptsIn(pending_reqs) + AcceptsIn(batch)
  BY <1>1 DEF AcceptsAccounted
<1>4. AcceptsIn(<<>>) = 0
  BY AcceptsCount, CountNone
<1>5. \A q \in Seq(Requests), r \in Requests :
        AcceptsIn(Append(q, r)) = AcceptsIn(q) + IF r \in AcceptRequests THEN 1 ELSE 0
  BY AcceptsCount, CountAppend
<1>6. \A q1, q2 \in Seq(Requests) : AcceptsIn(q1 \o q2) = AcceptsIn(q1) + AcceptsIn(q2)
  BY AcceptsCount, CountConcat
<1>7. batch # <<>> =>
        /\ AcceptsIn(Tail(batch)) \in Nat
        /\ AcceptsIn(batch)
             = AcceptsIn(Tail(batch)) + IF Head(batch) \in AcceptRequests THEN 1 ELSE 0
        /\ Head(batch).kind \in {"data", "end"} => Head(batch) \notin AcceptRequests
  BY <1>1, BatchTail, RequestKinds
<1>8. CASE \/ LoopAlive \/ LoopStopped \/ BackendTimeout \/ EndgamesDone \/ TakeEndgame
             \/ Endgame \/ HandleClose \/ Leave \/ End \/ Connected \/ ConnectedTooLate
             \/ Aborted \/ Retry \/ Serve \/ Active \/ FailedAccept \/ Deaf
             \/ (\E ok \in BOOLEAN : Accept(ok)) \/ Count("loop", "unlistened", "deaf")
             \/ WantEndgame("loop", "requests") \/ Push("loop", "requests")
             \/ NotActive \/ Closing \/ FlagClosing \/ NothingPending \/ Stop \/ Join \/ Unlisten
             \/ Count("main", "unlistened", "not active")
             \/ Count("main", "count closing", "closing")
             \/ WantEndgame("main", "stop") \/ Push("main", "stop")
             \/ (\E c \in Clients : Connect(c))
  BY <1>8, <1>1, QuietStep DEF AcceptsAccounted
<1>9. CASE TakeRequests
  <2>1. batch = <<>>
    BY <1>1, <1>9 DEF TakeRequests, At, AtWork, BatchLabels, AcceptLabels
  <2>2. /\ batch' = pending_reqs /\ pending_reqs' = <<>>
        /\ UNCHANGED <<reqs_pending, accepting, port>>
    BY <1>9 DEF TakeRequests, loopVars, kernelVars
  <2>3. AcceptsIn(batch') = AcceptsIn(pending_reqs) /\ AcceptsIn(pending_reqs') = 0 /\ AcceptsIn(batch) = 0
    BY <1>4, <2>1, <2>2
  <2> QED
    BY <1>2, <1>3, <2>2, <2>3 DEF AcceptsAccounted
<1>10. CASE Poll
  <2>1. /\ pending_reqs' = pending_reqs \o port /\ port' = <<>>
        /\ UNCHANGED <<reqs_pending, accepting, batch>>
    BY <1>10 DEF Poll
  <2>2. AcceptsIn(pending_reqs') = AcceptsIn(pending_reqs) + AcceptsIn(port) /\ AcceptsIn(port') = 0
    BY <1>2, <1>6, <1>4, <2>1
  <2> QED
    BY <1>2, <1>3, <2>1, <2>2 DEF AcceptsAccounted
<1>11. CASE Data
  <2>1. batch # <<>> /\ Head(batch) \notin AcceptRequests
    BY <1>1, <1>7, <1>11 DEF Data, Processing, At, AtWork
  <2>2. batch' = Tail(batch) /\ UNCHANGED <<reqs_pending, accepting, port, pending_reqs>>
    BY <1>11 DEF Data, loopVars, kernelVars
  <2>3. AcceptsIn(batch') = AcceptsIn(batch)
    BY <1>7, <2>1, <2>2
  <2> QED
    BY <1>2, <1>3, <2>2, <2>3 DEF AcceptsAccounted
<1>12. CASE Inactive
  <2>1. batch # <<>> /\ Head(batch) \notin AcceptRequests
    BY <1>1, <1>7, <1>12 DEF Inactive, At, AtWork
  <2>2. batch' = Tail(batch) /\ UNCHANGED <<reqs_pending, accepting, port, pending_reqs>>
    BY <1>12 DEF Inactive, loopVars, kernelVars
  <2>3. AcceptsIn(batch') = AcceptsIn(batch)
    BY <1>7, <2>1, <2>2
  <2> QED
    BY <1>2, <1>3, <2>2, <2>3 DEF AcceptsAccounted
<1>13. CASE Release
  <2>1. batch # <<>> /\ Head(batch) \in AcceptRequests
    BY <1>1, <1>13 DEF Release, At, AtWork, AcceptLabels
  <2>2. /\ batch' = Tail(batch) /\ reqs_pending' = reqs_pending - 1
        /\ UNCHANGED <<accepting, port, pending_reqs>>
    BY <1>13 DEF Release, loopVars, kernelVars
  <2>3. AcceptsIn(batch) = AcceptsIn(batch') + 1 /\ AcceptsIn(batch') \in Nat
    BY <1>7, <2>1, <2>2
  <2> QED
    BY <1>2, <1>3, <2>2, <2>3, SMTT(30) DEF AcceptsAccounted
<1>14. CASE QueueAccept
  <2>1. /\ accepting' = accepting + 1 /\ reqs_pending' = reqs_pending + 1
        /\ UNCHANGED <<port, pending_reqs, batch>>
    BY <1>14 DEF QueueAccept, Counted, loopVars, kernelVars
  <2> QED
    BY <1>2, <1>3, <2>1, SMTT(30) DEF AcceptsAccounted
<1>15. CASE QueueAcceptFails
  <2>1. /\ pending_reqs' = Append(pending_reqs, [kind |-> "failed"])
        /\ reqs_pending' = reqs_pending + 1
        /\ UNCHANGED <<accepting, port, batch>>
    BY <1>15 DEF QueueAcceptFails, loopVars, kernelVars
  <2>2. AcceptsIn(pending_reqs') = AcceptsIn(pending_reqs) + 1
    BY <1>2, <1>5, <2>1, NewRequests
  <2> QED
    BY <1>2, <1>3, <2>1, <2>2, SMTT(30) DEF AcceptsAccounted
<1>16. ASSUME NEW c \in Clients, QueueAcceptAtOnce(c)
       PROVE  AcceptsAccounted'
  <2>1. /\ pending_reqs' = Append(pending_reqs, [kind |-> "connected", client |-> c])
        /\ reqs_pending' = reqs_pending + 1
        /\ UNCHANGED <<accepting, port, batch>>
    BY <1>16 DEF QueueAcceptAtOnce, Counted, loopVars, kernelVars
  <2>2. AcceptsIn(pending_reqs') = AcceptsIn(pending_reqs) + 1
    BY <1>2, <1>5, <2>1, NewRequests
  <2> QED
    BY <1>2, <1>3, <2>1, <2>2, SMTT(30) DEF AcceptsAccounted
<1>17. CASE Construct
  <2>1. reqs_pending = 0
    BY <1>17 DEF Construct, ServerInv, NoRequests
  <2>2. UNCHANGED <<port, batch>>
    BY <1>17 DEF Construct
  <2>3. CASE UNCHANGED <<accepting, reqs_pending, pending_reqs>>
    BY <1>3, <2>2, <2>3 DEF AcceptsAccounted
  <2>4. ASSUME NEW n \in 0..Accepts,
               accepting' = Accepts - n, reqs_pending' = Accepts,
               AcceptsIn(pending_reqs') = AcceptsIn(pending_reqs) + n
        PROVE  AcceptsAccounted'
    <3>1. Accepts \in Nat
      BY ServerAssumption
    <3> QED
      BY <1>2, <1>3, <2>1, <2>2, <2>4, <3>1 DEF AcceptsAccounted
  <2> QED
    BY <1>1, <1>17, <2>3, <2>4, FirstAccepts
<1>18. CASE CloseSocket
  <2>1. /\ port' = port \o AbortedAccepts /\ accepting' = 0
        /\ UNCHANGED <<reqs_pending, pending_reqs, batch>>
    BY <1>18 DEF CloseSocket, loopVars
  <2>2. AcceptsIn(port') = AcceptsIn(port) + accepting
    BY <1>1, <2>1, AbortedRequests
  <2> QED
    BY <1>2, <1>3, <2>1, <2>2 DEF AcceptsAccounted
<1>19. ASSUME NEW c \in Clients, Establish(c)
      PROVE  AcceptsAccounted'
  <2>1. /\ port' = Append(port, [kind |-> "connected", client |-> c])
        /\ accepting' = accepting - 1 /\ UNCHANGED <<reqs_pending, pending_reqs, batch>>
    BY <1>19 DEF Establish, Completes, loopVars
  <2>2. AcceptsIn(port') = AcceptsIn(port) + 1
    BY <1>2, <1>5, <2>1, NewRequests
  <2> QED
    BY <1>2, <1>3, <2>1, <2>2 DEF AcceptsAccounted
<1>20. ASSUME NEW c \in Clients, NEW kind \in {"data", "end"}, Readable(c, kind)
      PROVE  AcceptsAccounted'
  <2>1. /\ port' = Append(port, [kind |-> kind, client |-> c])
        /\ UNCHANGED <<accepting, reqs_pending, pending_reqs, batch>>
    BY <1>20 DEF Readable, Completes, loopVars
  <2>2. AcceptsIn(port') = AcceptsIn(port)
    <3>1. [kind |-> kind, client |-> c] \in Requests
          /\ [kind |-> kind, client |-> c] \notin AcceptRequests
      BY NewRequests
    <3>2. AcceptsIn(port) \in Nat
          /\ AcceptsIn(Append(port, [kind |-> kind, client |-> c])) = AcceptsIn(port) + 0
      BY <1>2, <1>5, <3>1
    <3> QED
      BY <2>1, <3>2
  <2> QED
    BY <1>2, <1>3, <2>1, <2>2 DEF AcceptsAccounted
<1> QED
  BY <1>8, <1>9, <1>10, <1>11, <1>12, <1>13, <1>14, <1>15, <1>16, <1>17, <1>18, <1>19,
     <1>20 DEF Next, LoopStep, MainStep

LEMMA ServerInvStep ==
  ASSUME ServerInv, [Next]_vars
  PROVE  ServerInv'
<1>1. CASE Next
  <2>1. TypeOK'
    BY <1>1, ThreadStepTypes, RequestStepTypes DEF ServerInv, Next, LoopStep, MainStep
  <2> QED
    BY <1>1, <2>1, AccountedStep, AtWorkStep, NoRequestsStep DEF ServerInv
<1>2. CASE UNCHANGED vars
  <2> USE <1>2 DEF vars, threadVars, loopVars, kernelVars, historyVars
  <2>1. TypeOK /\ AcceptsAccounted /\ AtWork /\ NoRequests
    BY DEF ServerInv
  <2>2. TypeOK'
    BY <2>1 DEF TypeOK
  <2>3. AcceptsAccounted'
    BY <2>1 DEF AcceptsAccounted
  <2>4. AtWork' /\ NoRequests'
    BY <2>1 DEF AtWork, NoRequests, At
  <2> QED
    BY <2>2, <2>3, <2>4 DEF ServerInv
<1> QED
  BY <1>1, <1>2

-----------------------------------------------------------------------------
(* The inductive invariant holds of the server, whatever the interleaving   *)
(* of its two threads, the kernel and the clients.                          *)
THEOREM ServerInvariant == Spec => []ServerInv
BY ServerInvInit, ServerInvStep, PTL DEF Spec

(* The variables have their types. *)
THEOREM ServerTypes == Spec => []TypeOK
<1>1. ServerInv => TypeOK
  BY DEF ServerInv
<1> QED
  BY <1>1, ServerInvariant, PTL

(* libuv's count of the listening handle's requests is the number of accept *)
(* requests with the kernel, in the port and in the loop's hands, while     *)
(* main closes the handle as well as before.                                *)
THEOREM RequestsCounted == Spec => []AcceptsAccounted
<1>1. ServerInv => AcceptsAccounted
  BY DEF ServerInv
<1> QED
  BY <1>1, ServerInvariant, PTL

(* The endgame frees the accept requests when the kernel has none of them   *)
(* and none will come out of the port.                                      *)
THEOREM FreedWhenIdle == Spec => []FreedAcceptsIdle
<1>1. ASSUME ServerInv, closeEvents > 0
      PROVE  /\ accepting = 0
             /\ \A requests \in {port, pending_reqs, batch} :
                  \A i \in DOMAIN requests : ~IsAccept(requests[i])
  <2>1. TypeOK /\ reqs_pending = 0 /\ AcceptsAccounted
    BY <1>1 DEF ServerInv, NoRequests
  <2>2. /\ port \in Seq(Requests) /\ pending_reqs \in Seq(Requests) /\ batch \in Seq(Requests)
        /\ accepting = 0 /\ AcceptsIn(port) = 0 /\ AcceptsIn(pending_reqs) = 0
        /\ AcceptsIn(batch) = 0
    BY <2>1, QueueTypes DEF AcceptsAccounted
  <2>3. ASSUME NEW q \in Seq(Requests), AcceptsIn(q) = 0, NEW i \in DOMAIN q
        PROVE  ~IsAccept(q[i])
    BY <2>3, AcceptsCount, CountType DEF IsAccept
  <2> QED
    BY <2>2, <2>3
<1>2. ServerInv => FreedAcceptsIdle
  BY <1>1 DEF FreedAcceptsIdle
<1> QED
  BY <1>2, ServerInvariant, PTL

-----------------------------------------------------------------------------
(***************************************************************************)
(* The loop runs as long as the server listens.  run() returns when        *)
(* active_handles is 0, so the proof keeps an exact account of that        *)
(* counter until main begins to close (ActiveExact).  A client's departure *)
(* is subtracted once, as a client has one completed read in the queues at *)
(* most, and one accept (ReadsOnce, ConnectedOnce).  Once main closes the  *)
(* counter may be off, but nothing listens any more.                       *)
(***************************************************************************)

BeforeClose == pc["main"] \in {"construct", "input"}

(* Requests of S that are in the three queues. *)
Total(S) == HowMany(port, S) + HowMany(pending_reqs, S) + HowMany(batch, S)

ConnectedOf(c) == [kind : {"connected"}, client : {c}]

ReadsOf(c) == [kind : {"data", "end"}, client : {c}]

(* The clients whose handles read. *)
Served == {c \in Clients : conn[c] \in {"reading", "readable"}}

(* The loop is at work on the accept of c, and through with its connection. *)
Dealt(c) ==
  /\ pc["loop"] \in AcceptLabels /\ Head(batch) \in ConnectedOf(c)
  /\ conn[c] \notin {"away", "backlog", "accepted"}

Leaving(c) == pc["loop"] = "inactive" /\ Head(batch) \in ReadsOf(c)

Awaited(c) == conn[c] = "accepted" \/ Dealt(c)

Unread(c) == conn[c] = "readable" \/ Leaving(c)

ConnectedOnce ==
  \A c \in Clients : Total(ConnectedOf(c)) = IF Awaited(c) THEN 1 ELSE 0

ReadsOnce ==
  \A c \in Clients : Total(ReadsOf(c)) = IF Unread(c) THEN 1 ELSE 0

(* What became of the client whose request the loop is at work on. *)
HeadOfWork ==
  /\ pc["loop"] = "accept" => conn[Head(batch).client] = "accepted"
  /\ pc["loop"] \in {"retry", "requeue, release", "unlistened", "deaf"}
       => Head(batch) \notin ConnectedRequests
  /\ pc["loop"] \in {"active", "release"} /\ Head(batch) \in ConnectedRequests
       => conn[Head(batch).client] # "accepted"
  /\ pc["loop"] = "inactive" => conn[Head(batch).client] = "ended"

Handles == Cardinality(Served) + IF "LISTENING" \in flags THEN 1 ELSE 0

(* active_handles is what is active, but between a change of it and its     *)
(* count; the loop stores what it loaded, changed by one.                   *)
ActiveExact ==
  /\ pc["loop"] = "active" => active_handles = Handles - 1
  /\ pc["loop"] \in {"inactive", "unlistened", "deaf"} => active_handles = Handles + 1
  /\ pc["loop"] \notin {"active", "inactive", "unlistened", "deaf"} => active_handles = Handles
  /\ pc["loop"] \in {"inactive", "active", "deaf"} => seen["loop"] = active_handles

Open ==
  /\ flags \subseteq {"LISTENING", "ACTIVE"}
  /\ ~stop_flag /\ ~endgame_handles
  /\ pc["loop"] \notin {"endgame", "close", "want endgame", "push"}
  /\ "LISTENING" \in flags
       => pc["loop"] \notin {"unborn", "leave", "ended", "unlistened", "deaf"}
  /\ pc["main"] = "construct" => flags = {} /\ \A c \in Clients : conn[c] = "away"

Exact == Open /\ ActiveExact /\ HeadOfWork /\ ReadsOnce /\ ConnectedOnce

RunsInv == IF BeforeClose THEN Exact ELSE "LISTENING" \notin flags

-----------------------------------------------------------------------------
(* The counter, and the clients it counts. *)
LEMMA ModSmall ==
  ASSUME NEW k \in Nat, NEW n \in Nat, n < k
  PROVE  n % k = n
OBVIOUS

LEMMA ModOver ==
  ASSUME NEW k \in Nat, NEW n \in Nat, n < k
  PROVE  (n + k) % k = n
<1>1. k > 0
  OBVIOUS
<1> DEFINE q == (n + k) \div k
           r == (n + k) % k
<1>2. q \in Int /\ r \in 0..(k - 1) /\ n + k = k * q + r
  BY <1>1
<1> HIDE DEF q, r
<1>3. q = 1
  <2>1. CASE q <= 0
    <3>1. k * q <= 0
      BY <1>1, <1>2, <2>1
    <3> QED
      BY <1>2, <3>1
  <2>2. CASE q >= 2
    <3>1. k * q >= k + k
      BY <1>1, <1>2, <2>2
    <3> QED
      BY <1>2, <3>1
  <2> QED
    BY <1>2, <2>1, <2>2
<1>4. r = n
  BY <1>2, <1>3
<1> QED
  BY <1>4 DEF r

LEMMA CountsByOne ==
  ASSUME NEW n \in Nat, n + 1 < CounterSize
  PROVE  Increased(n) = n + 1 /\ Decreased(n + 1) = n
<1>1. CounterSize \in Nat
  BY ServerAssumption
<1>2. (n + 1) % CounterSize = n + 1
  BY <1>1, ModSmall
<1>3. (n + CounterSize) % CounterSize = n
  BY <1>1, ModOver
<1>4. (n + 1) + CounterSize - 1 = n + CounterSize
  BY <1>1
<1> QED
  BY <1>2, <1>3, <1>4 DEF Increased, Decreased

LEMMA ServedCount ==
  ASSUME TypeOK
  PROVE  /\ IsFiniteSet(Served)
         /\ Cardinality(Served) \in Nat /\ Cardinality(Served) + 2 < CounterSize
         /\ CounterSize \in Nat
<1>1. IsFiniteSet(Clients) /\ Served \subseteq Clients
  BY ServerAssumption DEF Served
<1>2. /\ IsFiniteSet(Served) /\ Cardinality(Served) <= Cardinality(Clients)
      /\ Cardinality(Served) \in Nat /\ Cardinality(Clients) \in Nat
  BY <1>1, FS_Subset, FS_CardinalityType
<1> QED
  BY <1>2, ServerAssumption

LEMMA HandlesType ==
  ASSUME TypeOK
  PROVE  Handles \in Nat /\ Handles + 1 < CounterSize
BY ServedCount DEF Handles

LEMMA ServedSame ==
  ASSUME \A c \in Clients : conn'[c] \in {"reading", "readable"}
                              <=> conn[c] \in {"reading", "readable"}
  PROVE  Served' = Served
BY DEF Served

LEMMA ServedChanges ==
  ASSUME TypeOK, NEW c \in Clients, NEW s, conn' = [conn EXCEPT ![c] = s]
  PROVE  /\ s = "reading" /\ conn[c] = "accepted"
              => Cardinality(Served') = Cardinality(Served) + 1
         /\ s = "ended" /\ conn[c] = "readable"
              => Cardinality(Served') = Cardinality(Served) - 1
<1>1. conn \in [Clients -> Connections] /\ IsFiniteSet(Served)
  BY ServedCount DEF TypeOK
<1>2. ASSUME s = "reading", conn[c] = "accepted"
      PROVE  Cardinality(Served') = Cardinality(Served) + 1
  <2>1. Served' = Served \cup {c} /\ c \notin Served
    BY <1>1, <1>2 DEF Served
  <2> HIDE DEF Served
  <2> QED
    BY <1>1, <2>1, FS_AddElement
<1>3. ASSUME s = "ended", conn[c] = "readable"
      PROVE  Cardinality(Served') = Cardinality(Served) - 1
  <2>1. Served' = Served \ {c} /\ c \in Served
    BY <1>1, <1>3 DEF Served
  <2> HIDE DEF Served
  <2> QED
    BY <1>1, <2>1, FS_RemoveElement
<1> QED
  BY <1>2, <1>3

LEMMA GotoLoop ==
  ASSUME TypeOK, NEW label, Goto("loop", label)
  PROVE  pc'["loop"] = label /\ pc'["main"] = pc["main"]
BY DEF TypeOK, Goto, Threads

(* What a step of the loop must keep to leave it running. *)
LEMMA OpenKept ==
  ASSUME Open, pc'["main"] = "input", flags' \subseteq flags, ~stop_flag', ~endgame_handles',
         pc'["loop"] \notin {"endgame", "close", "want endgame", "push"},
         "LISTENING" \in flags'
           => pc'["loop"] \notin {"unborn", "leave", "ended", "unlistened", "deaf"}
  PROVE  Open'
BY DEF Open

-----------------------------------------------------------------------------
(* Requests and queues. *)
LEMMA KindOf ==
  ASSUME NEW r \in Requests
  PROVE  /\ r.kind = "connected" =>
              /\ r.client \in Clients /\ r \in ConnectedRequests
              /\ \A c \in Clients : r \in ConnectedOf(c) <=> c = r.client
         /\ r.kind \in {"data", "end"} =>
              /\ r.client \in Clients
              /\ \A c \in Clients : r \in ReadsOf(c) <=> c = r.client
         /\ r.kind # "connected" =>
              r \notin ConnectedRequests /\ \A c \in Clients : r \notin ConnectedOf(c)
         /\ r.kind \notin {"data", "end"} => \A c \in Clients : r \notin ReadsOf(c)
         /\ r \in ConnectedRequests => r.kind = "connected"
         /\ r \notin AcceptRequests => r.kind \in {"data", "end"}
         /\ r \in AcceptRequests => r.kind \notin {"data", "end"}
         /\ r.kind \in {"connected", "aborted", "failed", "data", "end"}
BY DEF Requests, AcceptRequests, ConnectedRequests, ConnectedOf, ReadsOf

LEMMA TotalType ==
  ASSUME TypeOK, NEW S
  PROVE  /\ HowMany(port, S) \in Nat /\ HowMany(pending_reqs, S) \in Nat
         /\ HowMany(batch, S) \in Nat /\ Total(S) \in Nat
BY CountType DEF TypeOK, Total

LEMMA TotalUnchanged ==
  ASSUME NEW S, UNCHANGED <<port, pending_reqs, batch>>
  PROVE  Total(S)' = Total(S)
BY DEF Total

(* The head of the batch is among the requests in the queues. *)
LEMMA InQueues ==
  ASSUME TypeOK, batch # <<>>, NEW S, Head(batch) \in S
  PROVE  Total(S) # 0
<1>1. batch \in Seq(Requests)
  BY DEF TypeOK
<1>2. HowMany(batch, S) = HowMany(Tail(batch), S) + 1 /\ HowMany(Tail(batch), S) \in Nat
  BY <1>1, CountTail, CountType
<1> QED
  BY <1>2, TotalType DEF Total

LEMMA TotalAppend ==
  ASSUME TypeOK, NEW r \in Requests, NEW S,
         \/ pending_reqs' = Append(pending_reqs, r) /\ UNCHANGED <<batch, port>>
         \/ port' = Append(port, r) /\ UNCHANGED <<pending_reqs, batch>>
  PROVE  Total(S)' = Total(S) + IF r \in S THEN 1 ELSE 0
<1>1. \A q \in Seq(Requests) :
        HowMany(Append(q, r), S) = HowMany(q, S) + IF r \in S THEN 1 ELSE 0
  BY CountAppend
<1>2. pending_reqs \in Seq(Requests) /\ port \in Seq(Requests)
  BY DEF TypeOK
<1>3. CASE pending_reqs' = Append(pending_reqs, r) /\ UNCHANGED <<batch, port>>
  <2>1. HowMany(pending_reqs', S) = HowMany(pending_reqs, S) + IF r \in S THEN 1 ELSE 0
    BY <1>1, <1>2, <1>3
  <2> QED
    BY <1>3, <2>1, TotalType DEF Total
<1>4. CASE port' = Append(port, r) /\ UNCHANGED <<pending_reqs, batch>>
  <2>1. HowMany(port', S) = HowMany(port, S) + IF r \in S THEN 1 ELSE 0
    BY <1>1, <1>2, <1>4
  <2> QED
    BY <1>4, <2>1, TotalType DEF Total
<1> QED
  BY <1>3, <1>4

LEMMA TotalTail ==
  ASSUME TypeOK, batch # <<>>, NEW S, batch' = Tail(batch), UNCHANGED <<pending_reqs, port>>
  PROVE  Total(S)' = Total(S) - IF Head(batch) \in S THEN 1 ELSE 0
<1>1. batch \in Seq(Requests)
  BY DEF TypeOK
<1>2. /\ Tail(batch) \in Seq(Requests)
      /\ HowMany(batch, S) = HowMany(Tail(batch), S) + IF Head(batch) \in S THEN 1 ELSE 0
  BY <1>1, CountTail
<1>3. HowMany(Tail(batch), S) \in Nat
  BY <1>2, CountType
<1> QED
  BY <1>2, <1>3, TotalType DEF Total

LEMMA TotalMoves ==
  ASSUME TypeOK, AtWork, NEW S, TakeRequests \/ Poll
  PROVE  Total(S)' = Total(S)
<1>1. HowMany(<<>>, S) = 0
  BY CountNone
<1>2. CASE TakeRequests
  <2>1. /\ batch = <<>> /\ batch' = pending_reqs /\ pending_reqs' = <<>>
        /\ UNCHANGED port
    BY <1>2 DEF TakeRequests, kernelVars, At, AtWork, BatchLabels, AcceptLabels
  <2>2. HowMany(batch, S) = 0 /\ HowMany(batch', S) = HowMany(pending_reqs, S)
        /\ HowMany(pending_reqs', S) = 0
    BY <1>1, <2>1
  <2> QED
    BY <2>1, <2>2, TotalType DEF Total
<1>3. CASE Poll
  <2>1. /\ pending_reqs' = pending_reqs \o port /\ port' = <<>> /\ UNCHANGED batch
        /\ pending_reqs \in Seq(Requests) /\ port \in Seq(Requests)
    BY <1>3 DEF Poll, TypeOK
  <2>2. HowMany(pending_reqs \o port, S) = HowMany(pending_reqs, S) + HowMany(port, S)
    BY <2>1, CountConcat
  <2>3. HowMany(pending_reqs', S) = HowMany(pending_reqs, S) + HowMany(port, S)
        /\ HowMany(port', S) = 0
    BY <1>1, <2>1, <2>2
  <2> QED
    BY <2>1, <2>3, TotalType DEF Total
<1> QED
  BY <1>2, <1>3

LEMMA OnceKept ==
  ASSUME ConnectedOnce, ReadsOnce,
         \A c \in Clients : /\ Total(ConnectedOf(c))' = Total(ConnectedOf(c))
                            /\ Total(ReadsOf(c))' = Total(ReadsOf(c)),
         \A c \in Clients : Awaited(c)' <=> Awaited(c),
         \A c \in Clients : Unread(c)' <=> Unread(c)
  PROVE  ConnectedOnce' /\ ReadsOnce'
BY DEF ConnectedOnce, ReadsOnce

(* The head of the batch stands for the state its client is in. *)
LEMMA HeadOwed ==
  ASSUME TypeOK, Exact, batch # <<>>
  PROVE  /\ Head(batch) \in Requests
         /\ \A c \in Clients : Head(batch) \in ConnectedOf(c) => Awaited(c)
         /\ \A c \in Clients : Head(batch) \in ReadsOf(c) => Unread(c)
<1>1. batch \in Seq(Requests)
  BY DEF TypeOK
<1>2. Head(batch) \in Requests
  BY <1>1, CountTail
<1>3. \A S : Head(batch) \in S => Total(S) # 0
  BY InQueues
<1> QED
  BY <1>2, <1>3 DEF Exact, ConnectedOnce, ReadsOnce

-----------------------------------------------------------------------------
(* The loop's steps while main waits for a key. *)
LEMMA LoopTurns ==
  ASSUME ServerInv, Exact, pc["main"] = "input",
         \/ LoopAlive \/ BackendTimeout \/ EndgamesDone \/ Leave \/ Connected \/ Aborted
         \/ Retry \/ Count("loop", "unlistened", "deaf") \/ TakeRequests \/ Poll
  PROVE  Exact'
<1>1. /\ TypeOK /\ AtWork
      /\ Open /\ ActiveExact /\ HeadOfWork /\ ReadsOnce /\ ConnectedOnce
  BY DEF ServerInv, Exact
<1>2. UNCHANGED <<flags, active_handles, conn, endgame_handles>>
  BY DEF LoopAlive, BackendTimeout, EndgamesDone, Leave, Connected, Aborted, Retry, Count,
         TakeRequests, Poll, loopVars, kernelVars
<1>3. ~stop_flag' /\ ~endgame_handles'
  <2>1. stop_flag' = FALSE \/ stop_flag' = stop_flag
    BY DEF LoopAlive, BackendTimeout, EndgamesDone, Leave, Connected, Aborted, Retry, Count,
           TakeRequests, Poll, loopVars
  <2>2. ~stop_flag /\ ~endgame_handles
    BY <1>1 DEF Open
  <2> QED
    BY <1>2, <2>1, <2>2
<1>4. CASE LoopAlive \/ BackendTimeout \/ EndgamesDone \/ Leave \/ TakeRequests \/ Poll
  <2>1. /\ pc["loop"] \in {"alive", "requests", "endgames", "leave", "stopped?", "poll", "sleep"}
        /\ pc'["loop"] \in {"stopped?", "leave", "poll", "sleep", "alive", "ended", "requests",
                            "endgames"}
        /\ pc'["main"] = "input"
        /\ pc'["loop"] = "leave" => LoopAlive /\ active_handles = 0
        /\ pc'["loop"] = "ended" => pc["loop"] = "leave"
        /\ pc["loop"] = "leave" => pc'["loop"] = "ended"
    BY <1>1, <1>4, GotoLoop DEF LoopAlive, BackendTimeout, EndgamesDone, Leave, TakeRequests,
                                Poll, At
  <2>2. \A c \in Clients : /\ Total(ConnectedOf(c))' = Total(ConnectedOf(c))
                           /\ Total(ReadsOf(c))' = Total(ReadsOf(c))
    <3>1. CASE TakeRequests \/ Poll
      BY <1>1, <3>1, TotalMoves
    <3>2. CASE LoopAlive \/ BackendTimeout \/ EndgamesDone \/ Leave
      BY <3>2, QuietStep, TotalUnchanged
    <3> QED
      BY <1>4, <3>1, <3>2
  <2>3. ConnectedOnce' /\ ReadsOnce'
    <3>1. \A c \in Clients : (Awaited(c)' <=> Awaited(c)) /\ (Unread(c)' <=> Unread(c))
      BY <1>2, <2>1 DEF Awaited, Unread, Dealt, Leaving, AcceptLabels
    <3> QED
      BY <1>1, <2>2, <3>1, OnceKept
  <2>4. Served' = Served /\ Handles' = Handles
    BY <1>2, ServedSame DEF Handles
  <2>5. ActiveExact' /\ HeadOfWork'
    <3>1. ActiveExact'
      BY <1>1, <1>2, <2>1, <2>4 DEF ActiveExact
    <3>2. HeadOfWork'
      BY <2>1 DEF HeadOfWork
    <3> QED
      BY <3>1, <3>2
  <2>6. Open'
    <3>1. "LISTENING" \in flags => pc'["loop"] \notin {"leave", "ended"}
      <4>1. SUFFICES ASSUME "LISTENING" \in flags, pc'["loop"] = "leave"
                     PROVE  FALSE
        BY <1>1, <2>1 DEF Open
      <4>2. pc["loop"] = "alive" /\ active_handles = 0
        BY <2>1, <4>1 DEF LoopAlive, At
      <4>3. active_handles = Cardinality(Served) + 1 /\ Cardinality(Served) \in Nat
        BY <1>1, <4>1, <4>2, ServedCount DEF ActiveExact, Handles
      <4> QED
        BY <4>2, <4>3
    <3> QED
      BY <1>1, <1>2, <1>3, <2>1, <3>1, OpenKept
  <2> QED
    BY <2>3, <2>5, <2>6 DEF Exact
<1>5. CASE Connected \/ Aborted \/ Retry \/ Count("loop", "unlistened", "deaf")
  <2>1. UNCHANGED <<port, pending_reqs, batch>> /\ pc'["main"] = "input"
    <3>1. UNCHANGED <<port, pending_reqs, batch>>
      BY <1>5, QuietStep
    <3> QED
      BY <1>1, <1>5, <3>1, GotoLoop DEF Connected, Aborted, Retry, Count
  <2>2. \A c \in Clients : /\ Total(ConnectedOf(c))' = Total(ConnectedOf(c))
                           /\ Total(ReadsOf(c))' = Total(ReadsOf(c))
    BY <2>1, TotalUnchanged
  <2>3. Served' = Served /\ Handles' = Handles
    BY <1>2, ServedSame DEF Handles
  <2>4. CASE Connected
    <3>1. /\ pc["loop"] = "requests" /\ pc'["loop"] = "accept"
          /\ batch # <<>> /\ Head(batch).kind = "connected"
      BY <1>1, <2>4, GotoLoop DEF Connected, Processing, At
    <3>2. /\ Head(batch).client \in Clients /\ Head(batch) \in ConnectedOf(Head(batch).client)
          /\ \A c \in Clients : Head(batch) \in ConnectedOf(c) <=> c = Head(batch).client
      BY <1>1, <3>1, HeadOwed, KindOf
    <3>3. conn[Head(batch).client] = "accepted"
      BY <1>1, <3>1, <3>2, HeadOwed DEF Awaited, Dealt, AcceptLabels
    <3>4. \A c \in Clients : (Awaited(c)' <=> Awaited(c)) /\ (Unread(c)' <=> Unread(c))
      BY <1>2, <2>1, <3>1, <3>2, <3>3 DEF Awaited, Unread, Dealt, Leaving, AcceptLabels
    <3>5. ConnectedOnce' /\ ReadsOnce'
      BY <1>1, <2>2, <3>4, OnceKept
    <3>6. Open'
      BY <1>1, <1>2, <1>3, <2>1, <3>1, OpenKept DEF Open
    <3>7. ActiveExact'
      BY <1>1, <1>2, <2>3, <3>1 DEF ActiveExact
    <3>8. HeadOfWork'
      BY <1>2, <2>1, <3>1, <3>3 DEF HeadOfWork
    <3> QED
      BY <3>5, <3>6, <3>7, <3>8 DEF Exact
  <2>5. CASE Aborted \/ Retry \/ Count("loop", "unlistened", "deaf")
    <3>1. /\ pc["loop"] \in {"requests", "retry", "unlistened"}
          /\ pc'["loop"] \in {"retry", "requeue, release", "release", "deaf"}
          /\ pc'["loop"] = "deaf" <=> pc["loop"] = "unlistened"
          /\ pc'["loop"] = "deaf" => seen'["loop"] = active_handles
          /\ pc["loop"] = "requests" => batch # <<>> /\ Head(batch).kind = "aborted"
      <4>1. CASE Aborted
        <5>1. /\ pc["loop"] = "requests" /\ Goto("loop", "retry")
              /\ batch # <<>> /\ Head(batch).kind = "aborted"
          BY <4>1 DEF Aborted, Processing, At
        <5>2. pc'["loop"] = "retry"
          BY <1>1, <5>1, GotoLoop
        <5> QED
          BY <5>1, <5>2
      <4>2. CASE Retry
        <5>1. /\ pc["loop"] = "retry"
              /\ \E label \in {"requeue, release", "release"} : Goto("loop", label)
          BY <4>2 DEF Retry, At
        <5> QED
          BY <1>1, <5>1, GotoLoop
      <4>3. CASE Count("loop", "unlistened", "deaf")
        <5>1. pc["loop"] = "unlistened" /\ Goto("loop", "deaf") /\ pc'["loop"] = "deaf"
          BY <1>1, <4>3, GotoLoop DEF Count, At
        <5>2. seen'["loop"] = active_handles
          BY <1>1, <4>3 DEF Count, Load, TypeOK, Threads
        <5> QED
          BY <5>1, <5>2
      <4> QED
        BY <2>5, <4>1, <4>2, <4>3
    <3>2. Head(batch) \notin ConnectedRequests /\ \A c \in Clients : Head(batch) \notin ConnectedOf(c)
      <4>1. CASE pc["loop"] = "requests"
        BY <1>1, <3>1, <4>1, HeadOwed, KindOf
      <4>2. CASE pc["loop"] # "requests"
        <5>1. Head(batch) \notin ConnectedRequests
          BY <1>1, <3>1, <4>2 DEF HeadOfWork
        <5> QED
          BY <5>1 DEF ConnectedRequests, ConnectedOf
      <4> QED
        BY <4>1, <4>2
    <3>3. \A c \in Clients : (Awaited(c)' <=> Awaited(c)) /\ (Unread(c)' <=> Unread(c))
      BY <1>2, <2>1, <3>1, <3>2 DEF Awaited, Unread, Dealt, Leaving
    <3>4. ConnectedOnce' /\ ReadsOnce'
      BY <1>1, <2>2, <3>3, OnceKept
    <3>5. Open'
      BY <1>1, <1>2, <1>3, <2>1, <3>1, OpenKept DEF Open
    <3>6. ActiveExact'
      BY <1>1, <1>2, <2>3, <3>1 DEF ActiveExact
    <3>7. HeadOfWork'
      BY <1>2, <2>1, <3>1, <3>2 DEF HeadOfWork
    <3> QED
      BY <3>4, <3>5, <3>6, <3>7 DEF Exact
  <2> QED
    BY <1>5, <2>4, <2>5
<1> QED
  BY <1>4, <1>5

LEMMA ClientRequestSteps ==
  ASSUME ServerInv, Exact, pc["main"] = "input", Data \/ End \/ Inactive
  PROVE  Exact'
<1>1. /\ TypeOK /\ AtWork
      /\ Open /\ ActiveExact /\ HeadOfWork /\ ReadsOnce /\ ConnectedOnce
  BY DEF ServerInv, Exact
<1>2. /\ UNCHANGED <<flags, endgame_handles, stop_flag, port, pending_reqs>>
      /\ pc["loop"] \in {"requests", "inactive"} /\ batch # <<>>
  BY <1>1 DEF Data, End, Inactive, Processing, At, loopVars, kernelVars, AtWork
<1>3. Head(batch).kind \in {"data", "end"}
  <2>1. CASE Data \/ End
    BY <2>1 DEF Data, End, Processing
  <2>2. CASE Inactive
    <3>1. Head(batch) \notin AcceptRequests /\ Head(batch) \in Requests
      BY <1>1, <1>2, <2>2, HeadOwed DEF AtWork, Inactive, At
    <3> QED
      BY <3>1, KindOf
  <2> QED
    BY <2>1, <2>2
<1>4. PICK c \in Clients : c = Head(batch).client
  BY <1>1, <1>2, <1>3, HeadOwed, KindOf
<1>5. /\ Head(batch) \in ReadsOf(c)
      /\ \A d \in Clients : /\ Head(batch) \notin ConnectedOf(d)
                            /\ Head(batch) \in ReadsOf(d) <=> d = c
  BY <1>4, <1>1, <1>2, <1>3, HeadOwed, KindOf
<1>6. conn \in [Clients -> Connections] /\ Cardinality(Served) \in Nat
  BY <1>1, ServedCount DEF TypeOK
<1>7. \A S : Total(S) \in Nat
  BY <1>1, TotalType
<1>8. Total(ReadsOf(c)) = 1
  BY <1>1, <1>2, <1>5, HeadOwed DEF ReadsOnce
<1>9. ASSUME batch' = Tail(batch)
      PROVE  \A d \in Clients :
               /\ Total(ConnectedOf(d))' = Total(ConnectedOf(d))
               /\ Total(ReadsOf(d))' = IF d = c THEN 0 ELSE Total(ReadsOf(d))
  <2>1. ASSUME NEW S, Head(batch) \notin S
        PROVE  Total(S)' = Total(S)
    <3>1. Total(S)' = Total(S) - IF Head(batch) \in S THEN 1 ELSE 0
      BY <1>1, <1>2, <1>9, TotalTail
    <3>2. Total(S) \in Nat
      BY <1>7
    <3> QED
      BY <2>1, <3>1, <3>2
  <2>2. Total(ReadsOf(c))' = 0
    <3>1. Total(ReadsOf(c))' = Total(ReadsOf(c)) - IF Head(batch) \in ReadsOf(c) THEN 1 ELSE 0
      BY <1>1, <1>2, <1>9, TotalTail
    <3> QED
      BY <1>5, <1>8, <3>1
  <2>3. \A d \in Clients : Total(ConnectedOf(d))' = Total(ConnectedOf(d))
    BY <1>5, <2>1
  <2>4. ASSUME NEW d \in Clients, d # c
        PROVE  Total(ReadsOf(d))' = Total(ReadsOf(d))
    BY <1>5, <2>1, <2>4
  <2> QED
    BY <2>2, <2>3, <2>4
<1>10. CASE Data
  <2>1. /\ pc' = pc /\ conn' = [conn EXCEPT ![c] = "reading"] /\ batch' = Tail(batch)
        /\ UNCHANGED <<seen, active_handles>> /\ pc["loop"] = "requests"
    BY <1>4, <1>10 DEF Data, threadVars, Processing, At
  <2>2. conn[c] = "readable"
    BY <1>1, <1>2, <1>5, <2>1, HeadOwed DEF Unread, Leaving
  <2>3. \A d \in Clients : conn'[d] = IF d = c THEN "reading" ELSE conn[d]
    BY <1>6, <2>1
  <2>4. Served' = Served /\ Handles' = Handles
    BY <1>2, <2>2, <2>3, ServedSame DEF Handles
  <2>5. \A d \in Clients : /\ Awaited(d)' <=> Awaited(d)
                           /\ Unread(d)' <=> d # c /\ Unread(d)
    BY <2>1, <2>2, <2>3 DEF Awaited, Unread, Dealt, Leaving, AcceptLabels
  <2>6. ConnectedOnce' /\ ReadsOnce'
    BY <1>1, <1>9, <2>1, <2>5 DEF ConnectedOnce, ReadsOnce
  <2>7. Open'
    BY <1>1, <1>2, <2>1, OpenKept DEF Open
  <2>8. ActiveExact' /\ HeadOfWork'
    BY <1>1, <2>1, <2>4 DEF ActiveExact, HeadOfWork
  <2> QED
    BY <2>6, <2>7, <2>8 DEF Exact
<1>11. CASE End
  <2>1. /\ pc'["loop"] = "inactive" /\ pc'["main"] = "input" /\ pc["loop"] = "requests"
        /\ conn' = [conn EXCEPT ![c] = "ended"] /\ batch' = batch
        /\ seen'["loop"] = active_handles /\ active_handles' = active_handles
    BY <1>4, <1>1, <1>11, GotoLoop DEF End, Load, Processing, At, loopVars, TypeOK, Threads
  <2>2. conn[c] = "readable"
    BY <1>1, <1>2, <1>5, <2>1, HeadOwed DEF Unread, Leaving
  <2>3. conn'[Head(batch').client] = "ended"
    BY <1>4, <1>6, <2>1
  <2>4. \A d \in Clients : /\ Total(ConnectedOf(d))' = Total(ConnectedOf(d))
                           /\ Total(ReadsOf(d))' = Total(ReadsOf(d))
    BY <1>2, <2>1, TotalUnchanged
  <2>5. \A d \in Clients : conn'[d] = IF d = c THEN "ended" ELSE conn[d]
    BY <1>6, <2>1
  <2>6. Cardinality(Served') = Cardinality(Served) - 1
    BY <1>1, <1>5, <2>1, <2>2, ServedChanges
  <2>7. \A d \in Clients : (Awaited(d)' <=> Awaited(d)) /\ (Unread(d)' <=> Unread(d))
    BY <1>5, <2>1, <2>2, <2>5 DEF Awaited, Unread, Dealt, Leaving, AcceptLabels
  <2>8. ConnectedOnce' /\ ReadsOnce'
    BY <1>1, <2>4, <2>7, OnceKept
  <2>9. active_handles = Handles /\ Handles' = Handles - 1 /\ Handles \in Int
    BY <1>1, <1>2, <1>6, <2>1, <2>6 DEF ActiveExact, Handles
  <2>10. active_handles' = Handles' + 1
    BY <2>1, <2>9
  <2>11. Open'
    BY <1>1, <1>2, <2>1, OpenKept DEF Open
  <2>12. ActiveExact' /\ HeadOfWork'
    BY <2>1, <2>3, <2>10 DEF ActiveExact, HeadOfWork
  <2> QED
    BY <2>8, <2>11, <2>12 DEF Exact
<1>12. CASE Inactive
  <2>1. /\ pc["loop"] = "inactive" /\ pc'["loop"] = "requests" /\ pc'["main"] = "input"
        /\ batch' = Tail(batch) /\ UNCHANGED conn
        /\ active_handles' = Decreased(seen["loop"])
    BY <1>1, <1>12, GotoLoop DEF Inactive, At, kernelVars
  <2>2. conn[c] = "ended"
    BY <1>4, <1>1, <2>1 DEF HeadOfWork
  <2>3. Served' = Served /\ Handles' = Handles
    BY <1>2, <2>1, ServedSame DEF Handles
  <2>4. \A d \in Clients : /\ Awaited(d)' <=> Awaited(d)
                           /\ Unread(d)' <=> d # c /\ Unread(d)
    BY <1>5, <2>1, <2>2 DEF Awaited, Unread, Dealt, Leaving, AcceptLabels
  <2>5. ConnectedOnce' /\ ReadsOnce'
    BY <1>1, <1>9, <2>1, <2>4 DEF ConnectedOnce, ReadsOnce
  <2>6. seen["loop"] = Handles + 1 /\ Handles \in Nat /\ Handles + 1 < CounterSize
    BY <1>1, <2>1, HandlesType DEF ActiveExact
  <2>7. active_handles' = Handles'
    BY <2>1, <2>3, <2>6, CountsByOne
  <2>8. Open'
    BY <1>1, <1>2, <2>1, OpenKept DEF Open
  <2>9. ActiveExact' /\ HeadOfWork'
    BY <2>1, <2>7 DEF ActiveExact, HeadOfWork
  <2> QED
    BY <2>5, <2>8, <2>9 DEF Exact
<1> QED
  BY <1>10, <1>11, <1>12


-----------------------------------------------------------------------------
(* The accept request the loop is at work on, and whose connection it is. *)
LEMMA WorkHead ==
  ASSUME ServerInv, Exact, pc["loop"] \in AcceptLabels
  PROVE  /\ batch # <<>>
         /\ \A d \in Clients : Head(batch) \notin ReadsOf(d)
         /\ Head(batch) \notin ConnectedRequests
              => \A d \in Clients : Head(batch) \notin ConnectedOf(d)
         /\ Head(batch) \in ConnectedRequests
              => \E c \in Clients : /\ c = Head(batch).client
                                    /\ \A d \in Clients : Head(batch) \in ConnectedOf(d) <=> d = c
<1>1. TypeOK /\ AtWork
  BY DEF ServerInv
<1>2. batch # <<>> /\ Head(batch) \in AcceptRequests
  BY <1>1 DEF AtWork
<1>3. Head(batch) \in Requests
  BY <1>1, <1>2, HeadOwed
<1>4. \A d \in Clients : Head(batch) \notin ReadsOf(d)
  BY <1>2, <1>3, KindOf
<1>5. Head(batch) \notin ConnectedRequests => Head(batch).kind # "connected"
  BY <1>3, KindOf
<1>6. Head(batch) \notin ConnectedRequests
        => \A d \in Clients : Head(batch) \notin ConnectedOf(d)
  BY <1>3, <1>5, KindOf
<1>7. ASSUME Head(batch) \in ConnectedRequests
      PROVE  \E c \in Clients : /\ c = Head(batch).client
                                /\ \A d \in Clients : Head(batch) \in ConnectedOf(d) <=> d = c
  <2>1. /\ Head(batch).kind = "connected" /\ Head(batch).client \in Clients
        /\ \A d \in Clients : Head(batch) \in ConnectedOf(d) <=> d = Head(batch).client
    BY <1>3, <1>7, KindOf
  <2> QED
    BY <2>1
<1> QED
  BY <1>2, <1>4, <1>6, <1>7

LEMMA AcceptRuns ==
  ASSUME ServerInv, Exact, pc["main"] = "input", NEW ok \in BOOLEAN, Accept(ok)
  PROVE  Exact'
<1>1. /\ TypeOK /\ AtWork
      /\ Open /\ ActiveExact /\ HeadOfWork /\ ReadsOnce /\ ConnectedOnce
  BY DEF ServerInv, Exact
<1>2. /\ UNCHANGED <<seen, flags, active_handles, stop_flag, endgame_handles>>
      /\ UNCHANGED <<port, pending_reqs, batch>>
      /\ pc["loop"] = "accept"
  BY DEF Accept, loopVars, At
<1>3. pc'["loop"] = "requeue, serve" /\ pc'["main"] = "input"
  <2>1. AcceptsAgain
    BY <1>1 DEF Open, AcceptsAgain
  <2>2. Goto("loop", "requeue, serve")
    BY <2>1 DEF Accept
  <2> QED
    BY <1>1, <2>2, GotoLoop
<1>4. batch # <<>> /\ Head(batch) \in ConnectedRequests /\ pc["loop"] \in AcceptLabels
  <2>1. pc["loop"] \in AcceptLabels /\ Head(batch) \in ConnectedRequests
    BY <1>1, <1>2 DEF AcceptLabels, AtWork
  <2> QED
    BY <2>1, WorkHead
<1>5. PICK c \in Clients : /\ c = Head(batch).client
                           /\ \A d \in Clients : Head(batch) \in ConnectedOf(d) <=> d = c
  BY <1>4, WorkHead
<1>6. conn[c] = "accepted" /\ conn \in [Clients -> Connections]
  BY <1>1, <1>2, <1>5 DEF HeadOfWork, TypeOK
<1>7. /\ \A d \in Clients : d # c => conn'[d] = conn[d]
      /\ conn'[c] \in {"accepted", "refused"}
  BY <1>5, <1>6 DEF Accept
<1>8. \A d \in Clients : (Awaited(d)' <=> Awaited(d)) /\ (Unread(d)' <=> Unread(d))
  BY <1>2, <1>3, <1>5, <1>6, <1>7 DEF Awaited, Unread, Dealt, Leaving, AcceptLabels
<1>9. ConnectedOnce' /\ ReadsOnce'
  BY <1>1, <1>2, <1>8, OnceKept, TotalUnchanged
<1>10. Handles' = Handles
  <2>1. Served' = Served
    BY <1>6, <1>7, ServedSame
  <2> QED
    BY <1>2, <2>1 DEF Handles
<1>11. ActiveExact' /\ HeadOfWork'
  BY <1>1, <1>2, <1>3, <1>10 DEF ActiveExact, HeadOfWork
<1>12. Open'
  BY <1>1, <1>2, <1>3, OpenKept DEF Open
<1> QED
  BY <1>9, <1>11, <1>12 DEF Exact

(* The request goes back to the kernel, or completes or fails at once. *)
LEMMA QueueAcceptRuns ==
  ASSUME ServerInv, Exact, pc["main"] = "input",
         \/ QueueAccept \/ QueueAcceptFails \/ \E c \in Clients : QueueAcceptAtOnce(c)
  PROVE  Exact'
<1>1. /\ TypeOK /\ AtWork
      /\ Open /\ ActiveExact /\ HeadOfWork /\ ReadsOnce /\ ConnectedOnce
  BY DEF ServerInv, Exact
<1>2. /\ UNCHANGED <<seen, flags, active_handles, stop_flag, endgame_handles, port, batch>>
      /\ pc["loop"] \in {"requeue, serve", "requeue, release"}
  BY DEF QueueAccept, QueueAcceptFails, QueueAcceptAtOnce, loopVars, kernelVars, At
<1>3. /\ pc'["loop"] = IF pc["loop"] = "requeue, serve" THEN "serve" ELSE "release"
      /\ pc'["main"] = "input"
  <2>1. Goto("loop", AfterQueueAccept)
    BY DEF QueueAccept, QueueAcceptFails, QueueAcceptAtOnce
  <2>2. pc'["loop"] = AfterQueueAccept /\ pc'["main"] = "input"
    BY <1>1, <2>1, GotoLoop
  <2> QED
    BY <2>2 DEF AfterQueueAccept, At
<1>4. /\ pc["loop"] \in AcceptLabels /\ pc'["loop"] \in AcceptLabels
      /\ pc["loop"] # "inactive" /\ pc'["loop"] # "inactive"
  BY <1>2, <1>3 DEF AcceptLabels
<1>5. /\ Head(batch) \in ConnectedRequests => pc'["loop"] = "serve"
  BY <1>1, <1>2, <1>3 DEF HeadOfWork
<1>6. HeadOfWork'
  BY <1>2, <1>3, <1>5 DEF HeadOfWork
<1>7. Open'
  BY <1>1, <1>2, <1>3, OpenKept DEF Open
<1>8. ASSUME Handles' = Handles
      PROVE  ActiveExact'
  BY <1>1, <1>2, <1>3, <1>8 DEF ActiveExact
<1>9. CASE QueueAccept \/ QueueAcceptFails
  <2>1. UNCHANGED conn
    BY <1>9 DEF QueueAccept, QueueAcceptFails, kernelVars
  <2>2. \A d \in Clients : (Awaited(d)' <=> Awaited(d)) /\ (Unread(d)' <=> Unread(d))
    BY <1>2, <1>4, <2>1 DEF Awaited, Unread, Dealt, Leaving
  <2>3. \A d \in Clients : /\ Total(ConnectedOf(d))' = Total(ConnectedOf(d))
                           /\ Total(ReadsOf(d))' = Total(ReadsOf(d))
    <3>1. CASE QueueAccept
      <4>1. UNCHANGED pending_reqs
        BY <3>1 DEF QueueAccept, loopVars
      <4> QED
        BY <1>2, <4>1, TotalUnchanged
    <3>2. CASE QueueAcceptFails
      <4> DEFINE r == [kind |-> "failed"]
      <4>1. pending_reqs' = Append(pending_reqs, r) /\ r \in Requests
        BY <3>2, NewRequests DEF QueueAcceptFails
      <4>2. \A d \in Clients : r \notin ConnectedOf(d) /\ r \notin ReadsOf(d)
        BY <4>1, KindOf
      <4> HIDE DEF r
      <4>3. ASSUME NEW S, r \notin S
            PROVE  Total(S)' = Total(S)
        <5>1. Total(S)' = Total(S) + IF r \in S THEN 1 ELSE 0
          BY <1>1, <1>2, <4>1, TotalAppend
        <5> QED
          BY <1>1, <4>3, <5>1, TotalType
      <4> QED
        BY <4>2, <4>3
    <3> QED
      BY <1>9, <3>1, <3>2
  <2>4. ConnectedOnce' /\ ReadsOnce'
    BY <1>1, <2>2, <2>3, OnceKept
  <2>5. Handles' = Handles
    BY <1>2, <2>1, ServedSame DEF Handles
  <2> QED
    BY <1>6, <1>7, <1>8, <2>4, <2>5 DEF Exact
<1>10. ASSUME NEW c \in Clients, QueueAcceptAtOnce(c)
       PROVE  Exact'
  <2> DEFINE r == [kind |-> "connected", client |-> c]
  <2>1. /\ conn[c] = "backlog" /\ conn' = [conn EXCEPT ![c] = "accepted"]
        /\ pending_reqs' = Append(pending_reqs, r)
    BY <1>10 DEF QueueAcceptAtOnce
  <2>2. \A d \in Clients : conn'[d] = IF d = c THEN "accepted" ELSE conn[d]
    BY <1>1, <2>1 DEF TypeOK
  <2>3. /\ r \in Requests
        /\ \A d \in Clients : (r \in ConnectedOf(d) <=> d = c) /\ r \notin ReadsOf(d)
    <3>1. r \in Requests /\ r.kind = "connected" /\ r.client = c
      BY NewRequests
    <3> QED
      BY <3>1, KindOf
  <2> HIDE DEF r
  <2>4. ASSUME NEW S
        PROVE  /\ Total(S)' = Total(S) + IF r \in S THEN 1 ELSE 0
               /\ Total(S) \in Nat
    BY <1>1, <1>2, <2>1, <2>3, TotalAppend, TotalType
  <2>5. ~Awaited(c) /\ Awaited(c)'
    BY <2>1, <2>2 DEF Awaited, Dealt
  <2>6. Total(ConnectedOf(c)) = 0
    BY <1>1, <2>5 DEF ConnectedOnce
  <2>7. Total(ConnectedOf(c))' = 1
    <3>1. Total(ConnectedOf(c))' = Total(ConnectedOf(c)) + IF r \in ConnectedOf(c) THEN 1 ELSE 0
      BY <2>4
    <3> QED
      BY <2>3, <2>6, <3>1
  <2>8. ASSUME NEW S, r \notin S
        PROVE  Total(S)' = Total(S)
    BY <2>4, <2>8
  <2>9. \A d \in Clients : /\ d # c => (Awaited(d)' <=> Awaited(d))
                           /\ Unread(d)' <=> Unread(d)
    <3>1. \A d \in Clients : d # c => (Awaited(d)' <=> Awaited(d))
      BY <1>2, <1>4, <2>2 DEF Awaited, Dealt
    <3>2. \A d \in Clients : Unread(d)' <=> Unread(d)
      BY <1>4, <2>1, <2>2 DEF Unread, Leaving
    <3> QED
      BY <3>1, <3>2
  <2>10. ConnectedOnce' /\ ReadsOnce'
    <3>1. ASSUME NEW d \in Clients
          PROVE  Total(ConnectedOf(d))' = IF Awaited(d)' THEN 1 ELSE 0
      <4>1. CASE d = c
        BY <2>5, <2>7, <4>1
      <4>2. CASE d # c
        BY <1>1, <2>3, <2>8, <2>9, <4>2 DEF ConnectedOnce
      <4> QED
        BY <4>1, <4>2
    <3>2. ASSUME NEW d \in Clients
          PROVE  Total(ReadsOf(d))' = IF Unread(d)' THEN 1 ELSE 0
      BY <1>1, <2>3, <2>8, <2>9 DEF ReadsOnce
    <3> QED
      BY <3>1, <3>2 DEF ConnectedOnce, ReadsOnce
  <2>11. Handles' = Handles
    <3>1. Served' = Served
      BY <2>1, <2>2, ServedSame
    <3> QED
      BY <1>2, <3>1 DEF Handles
  <2> QED
    BY <1>6, <1>7, <1>8, <2>10, <2>11 DEF Exact
<1> QED
  BY <1>9, <1>10

(* The client's handle is made and reads. *)
LEMMA ServeRuns ==
  ASSUME ServerInv, Exact, pc["main"] = "input", Serve
  PROVE  Exact'
<1>1. /\ TypeOK /\ AtWork
      /\ Open /\ ActiveExact /\ HeadOfWork /\ ReadsOnce /\ ConnectedOnce
  BY DEF ServerInv, Exact
<1>2. /\ UNCHANGED <<flags, active_handles, stop_flag, endgame_handles>>
      /\ UNCHANGED <<port, pending_reqs, batch>>
      /\ pc["loop"] = "serve"
  BY QuietStep DEF Serve, loopVars, At
<1>3. batch # <<>> /\ Head(batch) \in ConnectedRequests /\ pc["loop"] \in AcceptLabels
  <2>1. pc["loop"] \in AcceptLabels /\ Head(batch) \in ConnectedRequests
    BY <1>1, <1>2 DEF AcceptLabels, AtWork
  <2> QED
    BY <2>1, WorkHead
<1>4. PICK c \in Clients : /\ c = Head(batch).client
                           /\ \A d \in Clients : Head(batch) \in ConnectedOf(d) <=> d = c
  BY <1>3, WorkHead
<1>5. conn \in [Clients -> Connections] /\ seen \in [Threads -> 0..(CounterSize - 1)]
  BY <1>1 DEF TypeOK
<1>6. CASE conn[c] = "accepted"
  <2>1. conn' = [conn EXCEPT ![c] = "reading"] /\ Load("loop") /\ Goto("loop", "active")
    BY <1>4, <1>6 DEF Serve
  <2>2. /\ pc'["loop"] = "active" /\ pc'["main"] = "input"
        /\ seen'["loop"] = active_handles
        /\ \A d \in Clients : conn'[d] = IF d = c THEN "reading" ELSE conn[d]
    <3>1. pc'["loop"] = "active" /\ pc'["main"] = "input"
      BY <1>1, <2>1, GotoLoop
    <3>2. seen'["loop"] = active_handles
      BY <1>5, <2>1 DEF Load, Threads
    <3> QED
      BY <1>5, <2>1, <3>1, <3>2
  <2>3. Cardinality(Served') = Cardinality(Served) + 1
    BY <1>1, <1>6, <2>1, ServedChanges
  <2>4. active_handles = Handles /\ Handles' = Handles + 1 /\ Handles \in Nat
    <3>1. active_handles = Handles /\ Handles \in Nat
      BY <1>1, <1>2, HandlesType DEF ActiveExact
    <3>2. Cardinality(Served) \in Nat
      BY <1>1, ServedCount
    <3>3. Handles' = Handles + 1
      BY <1>2, <2>3, <3>2 DEF Handles
    <3> QED
      BY <3>1, <3>3
  <2>5. active_handles' = Handles' - 1
    BY <1>2, <2>4
  <2>6. ActiveExact' /\ HeadOfWork'
    <3>1. ActiveExact'
      BY <1>2, <2>2, <2>5 DEF ActiveExact
    <3>2. conn'[Head(batch').client] # "accepted"
      BY <1>2, <1>4, <2>2
    <3>3. HeadOfWork'
      BY <2>2, <3>2 DEF HeadOfWork
    <3> QED
      BY <3>1, <3>3
  <2>7. \A d \in Clients : (Awaited(d)' <=> Awaited(d)) /\ (Unread(d)' <=> Unread(d))
    <3>1. \A d \in Clients : Awaited(d)' <=> Awaited(d)
      BY <1>2, <1>4, <1>6, <2>2 DEF Awaited, Dealt, AcceptLabels
    <3>2. \A d \in Clients : Unread(d)' <=> Unread(d)
      BY <1>2, <1>6, <2>2 DEF Unread, Leaving
    <3> QED
      BY <3>1, <3>2
  <2>8. ConnectedOnce' /\ ReadsOnce'
    BY <1>1, <1>2, <2>7, OnceKept, TotalUnchanged
  <2>9. Open'
    BY <1>1, <1>2, <2>2, OpenKept DEF Open
  <2> QED
    BY <2>6, <2>8, <2>9 DEF Exact
<1>7. CASE conn[c] # "accepted"
  <2>1. UNCHANGED <<conn, seen>> /\ Goto("loop", "release")
    BY <1>4, <1>7 DEF Serve
  <2>2. pc'["loop"] = "release" /\ pc'["main"] = "input"
    BY <1>1, <2>1, GotoLoop
  <2>3. Handles' = Handles
    BY <1>2, <2>1, ServedSame DEF Handles
  <2>4. ActiveExact' /\ HeadOfWork'
    BY <1>1, <1>2, <1>4, <1>7, <2>1, <2>2, <2>3 DEF ActiveExact, HeadOfWork
  <2>5. \A d \in Clients : (Awaited(d)' <=> Awaited(d)) /\ (Unread(d)' <=> Unread(d))
    BY <1>2, <2>1, <2>2 DEF Awaited, Dealt, AcceptLabels, Unread, Leaving
  <2>6. ConnectedOnce' /\ ReadsOnce'
    BY <1>1, <1>2, <2>5, OnceKept, TotalUnchanged
  <2>7. Open'
    BY <1>1, <1>2, <2>2, OpenKept DEF Open
  <2> QED
    BY <2>4, <2>6, <2>7 DEF Exact
<1> QED
  BY <1>6, <1>7

(* Changes of the counter, and the accept that failed. *)
LEMMA CountRuns ==
  ASSUME ServerInv, Exact, pc["main"] = "input", Active \/ FailedAccept \/ Deaf
  PROVE  Exact'
<1>1. /\ TypeOK /\ AtWork
      /\ Open /\ ActiveExact /\ HeadOfWork /\ ReadsOnce /\ ConnectedOnce
  BY DEF ServerInv, Exact
<1>2. /\ UNCHANGED <<seen, conn, stop_flag, endgame_handles, port, pending_reqs, batch>>
      /\ pc["loop"] \in {"active", "requests", "deaf"}
  BY QuietStep DEF Active, FailedAccept, Deaf, Store, Processing, loopVars, kernelVars, At
<1>3. Served' = Served /\ Handles \in Nat /\ Handles + 1 < CounterSize
  BY <1>1, <1>2, ServedSame, HandlesType
<1>4. CASE Active
  <2>1. /\ pc["loop"] = "active" /\ pc'["loop"] = "release" /\ pc'["main"] = "input"
        /\ flags' = flags /\ active_handles' = Increased(seen["loop"])
    BY <1>1, <1>4, GotoLoop DEF Active, Store, At
  <2>2. seen["loop"] = Handles - 1 /\ active_handles \in Nat /\ seen["loop"] = active_handles
    <3>1. active_handles \in 0..(CounterSize - 1) /\ CounterSize \in Nat
      BY <1>1, ServerAssumption DEF TypeOK
    <3> QED
      BY <1>1, <2>1, <3>1 DEF ActiveExact
  <2>3. active_handles' = Handles
    <3>1. seen["loop"] + 1 < CounterSize /\ seen["loop"] \in Nat
      BY <1>3, <2>2, ServerAssumption
    <3> QED
      BY <1>3, <2>1, <2>2, <3>1, CountsByOne
  <2>4. Handles' = Handles
    BY <1>3, <2>1 DEF Handles
  <2>5. ActiveExact' /\ HeadOfWork'
    BY <1>1, <1>2, <2>1, <2>3, <2>4 DEF ActiveExact, HeadOfWork
  <2>6. \A d \in Clients : (Awaited(d)' <=> Awaited(d)) /\ (Unread(d)' <=> Unread(d))
    BY <1>2, <2>1 DEF Awaited, Dealt, AcceptLabels, Unread, Leaving
  <2>7. ConnectedOnce' /\ ReadsOnce'
    BY <1>1, <1>2, <2>6, OnceKept, TotalUnchanged
  <2>8. Open'
    BY <1>1, <1>2, <2>1, OpenKept DEF Open
  <2> QED
    BY <2>5, <2>7, <2>8 DEF Exact
<1>5. CASE Deaf
  <2>1. /\ pc["loop"] = "deaf" /\ pc'["loop"] = "release" /\ pc'["main"] = "input"
        /\ flags' = flags /\ active_handles' = Decreased(seen["loop"])
    BY <1>1, <1>5, GotoLoop DEF Deaf, Store, At
  <2>2. seen["loop"] = Handles + 1
    BY <1>1, <2>1 DEF ActiveExact
  <2>3. active_handles' = Handles
    BY <1>3, <2>1, <2>2, CountsByOne
  <2>4. Handles' = Handles
    BY <1>3, <2>1 DEF Handles
  <2>5. ActiveExact' /\ HeadOfWork'
    BY <1>1, <1>2, <2>1, <2>3, <2>4 DEF ActiveExact, HeadOfWork
  <2>6. \A d \in Clients : (Awaited(d)' <=> Awaited(d)) /\ (Unread(d)' <=> Unread(d))
    BY <1>2, <2>1 DEF Awaited, Dealt, AcceptLabels, Unread, Leaving
  <2>7. ConnectedOnce' /\ ReadsOnce'
    BY <1>1, <1>2, <2>6, OnceKept, TotalUnchanged
  <2>8. Open'
    BY <1>1, <1>2, <2>1, OpenKept DEF Open
  <2> QED
    BY <2>5, <2>7, <2>8 DEF Exact
<1>6. CASE FailedAccept
  <2>1. /\ pc["loop"] = "requests" /\ batch # <<>> /\ Head(batch).kind = "failed"
        /\ active_handles' = active_handles
    BY <1>6 DEF FailedAccept, Processing, At, loopVars
  <2>2. /\ Head(batch) \notin ConnectedRequests
        /\ \A d \in Clients : Head(batch) \notin ConnectedOf(d)
    BY <1>1, <2>1, HeadOwed, KindOf
  <2>3. active_handles = Handles
    BY <1>1, <2>1 DEF ActiveExact
  <2>4. /\ pc'["main"] = "input"
        /\ \/ /\ "LISTENING" \in flags /\ flags' = flags \ {"LISTENING", "ACTIVE"}
              /\ pc'["loop"] = "unlistened"
           \/ "LISTENING" \notin flags /\ flags' = flags /\ pc'["loop"] = "release"
    <3>1. CASE "LISTENING" \in flags
      <4>1. Goto("loop", "unlistened") /\ flags' = flags \ {"LISTENING", "ACTIVE"}
        BY <1>6, <3>1 DEF FailedAccept
      <4> QED
        BY <1>1, <3>1, <4>1, GotoLoop
    <3>2. CASE "LISTENING" \notin flags
      <4>1. Goto("loop", "release") /\ flags' = flags
        BY <1>6, <3>2 DEF FailedAccept
      <4> QED
        BY <1>1, <3>2, <4>1, GotoLoop
    <3> QED
      BY <3>1, <3>2
  <2>5. ActiveExact'
    <3>1. Cardinality(Served) \in Nat
      BY <1>1, ServedCount
    <3>2. CASE pc'["loop"] = "unlistened"
      <4>1. Handles = Handles' + 1
        BY <1>3, <2>4, <3>1, <3>2 DEF Handles
      <4> QED
        BY <2>1, <2>3, <3>2, <4>1 DEF ActiveExact
    <3>3. CASE pc'["loop"] = "release"
      <4>1. Handles' = Handles
        BY <1>3, <2>4, <3>3 DEF Handles
      <4> QED
        BY <2>1, <2>3, <3>3, <4>1 DEF ActiveExact
    <3> QED
      BY <2>4, <3>2, <3>3
  <2>6. HeadOfWork'
    BY <1>2, <2>2, <2>4 DEF HeadOfWork
  <2>7. \A d \in Clients : (Awaited(d)' <=> Awaited(d)) /\ (Unread(d)' <=> Unread(d))
    BY <1>2, <2>1, <2>2, <2>4 DEF Awaited, Dealt, AcceptLabels, Unread, Leaving
  <2>8. ConnectedOnce' /\ ReadsOnce'
    BY <1>1, <1>2, <2>7, OnceKept, TotalUnchanged
  <2>9. Open'
    BY <1>1, <1>2, <2>4, OpenKept DEF Open
  <2> QED
    BY <2>5, <2>6, <2>8, <2>9 DEF Exact
<1> QED
  BY <1>4, <1>5, <1>6

(* The loop is through with an accept request. *)
LEMMA ReleaseRuns ==
  ASSUME ServerInv, Exact, pc["main"] = "input", Release
  PROVE  Exact'
<1>1. /\ TypeOK /\ AtWork
      /\ Open /\ ActiveExact /\ HeadOfWork /\ ReadsOnce /\ ConnectedOnce
  BY DEF ServerInv, Exact
<1>2. /\ UNCHANGED <<seen, flags, conn, active_handles, stop_flag, endgame_handles>>
      /\ UNCHANGED <<port, pending_reqs>>
      /\ batch' = Tail(batch) /\ pc["loop"] = "release" /\ pc["loop"] \in AcceptLabels
  BY DEF Release, kernelVars, At, AcceptLabels
<1>3. pc'["loop"] = "requests" /\ pc'["main"] = "input"
  <2>1. "CLOSING" \notin flags
    BY <1>1 DEF Open
  <2>2. Goto("loop", "requests")
    BY <2>1 DEF Release
  <2> QED
    BY <1>1, <2>2, GotoLoop
<1>4. /\ batch # <<>>
      /\ \A d \in Clients : Head(batch) \notin ReadsOf(d)
      /\ \A d \in Clients : Head(batch) \in ConnectedOf(d) => Awaited(d) /\ conn[d] # "accepted"
  <2>1. batch # <<>> /\ \A d \in Clients : Head(batch) \notin ReadsOf(d)
    BY <1>2, WorkHead
  <2>2. ASSUME NEW d \in Clients, Head(batch) \in ConnectedOf(d)
        PROVE  Awaited(d) /\ conn[d] # "accepted"
    <3>1. Awaited(d)
      BY <1>1, <2>1, <2>2, HeadOwed
    <3>2. Head(batch) \in ConnectedRequests /\ Head(batch).client = d
      BY <2>2 DEF ConnectedOf, ConnectedRequests
    <3> QED
      BY <1>1, <1>2, <3>1, <3>2 DEF HeadOfWork
    <2> QED
      BY <2>1, <2>2
<1>5. ASSUME NEW S
      PROVE  /\ Total(S)' = Total(S) - IF Head(batch) \in S THEN 1 ELSE 0
             /\ Total(S) \in Nat
  BY <1>1, <1>2, <1>4, TotalTail, TotalType
<1>6. ASSUME NEW d \in Clients
      PROVE  Total(ReadsOf(d))' = IF Unread(d)' THEN 1 ELSE 0
  <2>1. Total(ReadsOf(d))' = Total(ReadsOf(d))
    BY <1>4, <1>5
  <2>2. Unread(d)' <=> Unread(d)
    BY <1>2, <1>3 DEF Unread, Leaving
  <2> QED
    BY <1>1, <2>1, <2>2 DEF ReadsOnce
<1>7. ASSUME NEW d \in Clients
      PROVE  Total(ConnectedOf(d))' = IF Awaited(d)' THEN 1 ELSE 0
  <2>1. Awaited(d)' <=> conn[d] = "accepted"
    BY <1>2, <1>3 DEF Awaited, Dealt, AcceptLabels
  <2>2. CASE Head(batch) \in ConnectedOf(d)
    <3>1. Total(ConnectedOf(d)) = 1
      BY <1>1, <1>4, <2>2 DEF ConnectedOnce
    <3>2. Total(ConnectedOf(d))' = Total(ConnectedOf(d)) - 1
      BY <1>5, <2>2
    <3> QED
      BY <1>4, <2>1, <2>2, <3>1, <3>2
  <2>3. CASE Head(batch) \notin ConnectedOf(d)
    <3>1. Total(ConnectedOf(d))' = Total(ConnectedOf(d))
      BY <1>5, <2>3
    <3>2. Awaited(d) <=> conn[d] = "accepted"
      BY <2>3 DEF Awaited, Dealt
    <3> QED
      BY <1>1, <2>1, <3>1, <3>2 DEF ConnectedOnce
  <2> QED
    BY <2>2, <2>3
<1>8. Handles' = Handles
  BY <1>2, ServedSame DEF Handles
<1>9. ActiveExact' /\ HeadOfWork'
  BY <1>1, <1>2, <1>3, <1>8 DEF ActiveExact, HeadOfWork
<1>10. Open'
  BY <1>1, <1>2, <1>3, OpenKept DEF Open
<1> QED
  BY <1>6, <1>7, <1>9, <1>10 DEF Exact, ConnectedOnce, ReadsOnce

-----------------------------------------------------------------------------
(* The clients and the kernel: a connection changes its state, and one that *)
(* is established, or has something to read, puts one request in the port.  *)
LEMMA KernelRuns ==
  ASSUME ServerInv, Exact, pc["main"] = "input", NEW c \in Clients,
         \/ Connect(c) \/ Establish(c)
         \/ \E kind \in {"data", "end"} : Readable(c, kind)
  PROVE  Exact'
<1>1. /\ TypeOK /\ AtWork
      /\ Open /\ ActiveExact /\ HeadOfWork /\ ReadsOnce /\ ConnectedOnce
  BY DEF ServerInv, Exact
<1>2. /\ UNCHANGED <<pc, seen, flags, active_handles, stop_flag, endgame_handles>>
      /\ UNCHANGED <<pending_reqs, batch>>
  BY DEF Connect, Establish, Readable, Completes, threadVars, loopVars
<1>3. PICK from \in {"away", "backlog", "reading"}, to \in {"backlog", "accepted", "readable"} :
        /\ conn[c] = from /\ conn' = [conn EXCEPT ![c] = to]
        /\ \/ Connect(c) /\ from = "away" /\ to = "backlog"
           \/ Establish(c) /\ from = "backlog" /\ to = "accepted"
           \/ /\ \E kind \in {"data", "end"} : Readable(c, kind)
              /\ from = "reading" /\ to = "readable"
  BY DEF Connect, Establish, Readable, Completes
<1>4. \A d \in Clients : conn'[d] = IF d = c THEN to ELSE conn[d]
  BY <1>1, <1>3 DEF TypeOK
<1>5. Handles' = Handles
  <2>1. \A d \in Clients : conn'[d] \in {"reading", "readable"} <=> conn[d] \in {"reading", "readable"}
    BY <1>3, <1>4
  <2>2. Served' = Served
    BY <2>1, ServedSame
  <2> QED
    BY <1>2, <2>2 DEF Handles
<1>6. ActiveExact'
  BY <1>1, <1>2, <1>5 DEF ActiveExact
<1>7. Open'
  BY <1>1, <1>2, OpenKept DEF Open
<1>8. ASSUME pc["loop"] \in AcceptLabels, Head(batch) \in ConnectedRequests
      PROVE  Head(batch).client \in Clients /\ (conn[c] = "backlog" => Head(batch).client # c)
  <2>1. PICK e \in Clients : /\ e = Head(batch).client
                             /\ \A d \in Clients : Head(batch) \in ConnectedOf(d) <=> d = e
    BY <1>8, WorkHead
  <2>2. Awaited(e)
    BY <1>1, <1>8, <2>1, WorkHead, HeadOwed
  <2>3. conn[e] # "backlog"
    BY <2>2 DEF Awaited, Dealt
  <2> QED
    BY <2>1, <2>3
<1>9. pc["loop"] = "inactive" => Head(batch).client \in Clients
  <2>1. SUFFICES ASSUME pc["loop"] = "inactive"
                 PROVE  Head(batch).client \in Clients
    OBVIOUS
  <2>2. batch # <<>> /\ Head(batch) \notin AcceptRequests
    BY <1>1, <2>1 DEF AtWork
  <2>3. Head(batch) \in Requests
    BY <1>1, <2>2, HeadOwed
  <2> QED
    BY <2>2, <2>3, KindOf
<1>10. HeadOfWork'
  <2>1. pc["loop"] = "accept" =>
          pc["loop"] \in AcceptLabels /\ Head(batch) \in ConnectedRequests
    BY <1>1 DEF AtWork, AcceptLabels
  <2>2. pc["loop"] = "accept" => conn'[Head(batch).client] = "accepted"
    BY <1>1, <1>3, <1>4, <1>8, <2>1 DEF HeadOfWork
  <2>3. pc["loop"] \in {"active", "release"} /\ Head(batch) \in ConnectedRequests
          => conn'[Head(batch).client] # "accepted"
    BY <1>1, <1>3, <1>4, <1>8 DEF HeadOfWork, AcceptLabels
  <2>4. pc["loop"] = "inactive" => conn'[Head(batch).client] = "ended"
    BY <1>1, <1>3, <1>4, <1>9 DEF HeadOfWork
  <2> QED
    BY <1>1, <1>2, <2>2, <2>3, <2>4 DEF HeadOfWork
<1>11. ASSUME NEW d \in Clients, d # c
       PROVE  (Awaited(d)' <=> Awaited(d)) /\ (Unread(d)' <=> Unread(d))
  BY <1>2, <1>4, <1>11 DEF Awaited, Dealt, Unread, Leaving
<1>12. ~Leaving(c)
  BY <1>1, <1>3 DEF Leaving, HeadOfWork, ReadsOf
<1>13. Dealt(c)' <=> Dealt(c) /\ to # "accepted"
  BY <1>2, <1>3, <1>4 DEF Dealt
<1>14. to # "accepted" => (Awaited(c)' <=> Awaited(c))
  BY <1>3, <1>4, <1>13 DEF Awaited
<1>15. to # "readable" => (Unread(c)' <=> Unread(c))
  BY <1>2, <1>3, <1>4 DEF Unread, Leaving
<1>16. CASE Connect(c) /\ to = "backlog"
  <2>1. UNCHANGED port
    BY <1>16 DEF Connect
  <2>2. \A d \in Clients : (Awaited(d)' <=> Awaited(d)) /\ (Unread(d)' <=> Unread(d))
    BY <1>11, <1>14, <1>15, <1>16
  <2>3. ConnectedOnce' /\ ReadsOnce'
    BY <1>1, <1>2, <2>1, <2>2, OnceKept, TotalUnchanged
  <2> QED
    BY <1>6, <1>7, <1>10, <2>3 DEF Exact
<1>17. CASE Establish(c) /\ from = "backlog" /\ to = "accepted"
  <2>1. PICK r \in Requests : /\ r.kind = "connected" /\ r.client = c
                              /\ port' = Append(port, r)
    BY <1>17, NewRequests DEF Establish, Completes
  <2>2. \A d \in Clients : (r \in ConnectedOf(d) <=> d = c) /\ r \notin ReadsOf(d)
    BY <2>1, KindOf
  <2>3. ASSUME NEW S
        PROVE  /\ Total(S)' = Total(S) + IF r \in S THEN 1 ELSE 0
               /\ Total(S) \in Nat
    BY <1>1, <1>2, <2>1, TotalAppend, TotalType
  <2>4. ~Awaited(c) /\ Awaited(c)'
    BY <1>3, <1>4, <1>17 DEF Awaited, Dealt
  <2>5. Total(ConnectedOf(c))' = 1
    <3>1. Total(ConnectedOf(c)) = 0
      BY <1>1, <2>4 DEF ConnectedOnce
    <3>2. Total(ConnectedOf(c))' = Total(ConnectedOf(c)) + 1
      BY <2>2, <2>3
    <3> QED
      BY <3>1, <3>2
  <2>6. ASSUME NEW S, r \notin S
        PROVE  Total(S)' = Total(S)
    BY <2>3, <2>6
  <2>7. ASSUME NEW d \in Clients
        PROVE  Total(ConnectedOf(d))' = IF Awaited(d)' THEN 1 ELSE 0
    <3>1. CASE d = c
      BY <2>4, <2>5, <3>1
    <3>2. CASE d # c
      BY <1>1, <1>11, <2>2, <2>6, <3>2 DEF ConnectedOnce
    <3> QED
      BY <3>1, <3>2
  <2>8. ASSUME NEW d \in Clients
        PROVE  Total(ReadsOf(d))' = IF Unread(d)' THEN 1 ELSE 0
    <3>1. Unread(d)' <=> Unread(d)
      BY <1>11, <1>15, <1>17
    <3>2. Total(ReadsOf(d))' = Total(ReadsOf(d))
      BY <2>2, <2>6
    <3> QED
      BY <1>1, <3>1, <3>2 DEF ReadsOnce
  <2> QED
    BY <1>6, <1>7, <1>10, <2>7, <2>8 DEF Exact, ConnectedOnce, ReadsOnce
<1>18. ASSUME NEW kind \in {"data", "end"}, Readable(c, kind), from = "reading", to = "readable"
       PROVE  Exact'
  <2>1. PICK r \in Requests : /\ r.kind \in {"data", "end"} /\ r.client = c
                              /\ port' = Append(port, r)
    BY <1>18, NewRequests DEF Readable, Completes
  <2>2. \A d \in Clients : (r \in ReadsOf(d) <=> d = c) /\ r \notin ConnectedOf(d)
    BY <2>1, KindOf
  <2>3. ASSUME NEW S
        PROVE  /\ Total(S)' = Total(S) + IF r \in S THEN 1 ELSE 0
               /\ Total(S) \in Nat
    BY <1>1, <1>2, <2>1, TotalAppend, TotalType
  <2>4. ~Unread(c) /\ Unread(c)'
    BY <1>3, <1>4, <1>12, <1>18 DEF Unread
  <2>5. Total(ReadsOf(c))' = 1
    <3>1. Total(ReadsOf(c)) = 0
      BY <1>1, <2>4 DEF ReadsOnce
    <3>2. Total(ReadsOf(c))' = Total(ReadsOf(c)) + 1
      BY <2>2, <2>3
    <3> QED
      BY <3>1, <3>2
  <2>6. ASSUME NEW S, r \notin S
        PROVE  Total(S)' = Total(S)
    BY <2>3, <2>6
  <2>7. ASSUME NEW d \in Clients
        PROVE  Total(ReadsOf(d))' = IF Unread(d)' THEN 1 ELSE 0
    <3>1. CASE d = c
      BY <2>4, <2>5, <3>1
    <3>2. CASE d # c
      BY <1>1, <1>11, <2>2, <2>6, <3>2 DEF ReadsOnce
    <3> QED
      BY <3>1, <3>2
  <2>8. ASSUME NEW d \in Clients
        PROVE  Total(ConnectedOf(d))' = IF Awaited(d)' THEN 1 ELSE 0
    <3>1. Awaited(d)' <=> Awaited(d)
      BY <1>11, <1>14, <1>18
    <3>2. Total(ConnectedOf(d))' = Total(ConnectedOf(d))
      BY <2>2, <2>6
    <3> QED
      BY <1>1, <3>1, <3>2 DEF ConnectedOnce
  <2> QED
    BY <1>6, <1>7, <1>10, <2>7, <2>8 DEF Exact, ConnectedOnce, ReadsOnce
<1> QED
  BY <1>3, <1>16, <1>17, <1>18

-----------------------------------------------------------------------------
(* main: it constructs the server, and begins to close it. *)
LEMMA ExactInit ==
  ASSUME Init
  PROVE  BeforeClose /\ Exact
<1>1. /\ pc["main"] = "construct" /\ pc["loop"] = "unborn"
      /\ flags = {} /\ active_handles = 0 /\ ~stop_flag /\ ~endgame_handles
      /\ port = <<>> /\ pending_reqs = <<>> /\ batch = <<>>
      /\ \A c \in Clients : conn[c] = "away"
  BY DEF Init, Threads
<1>2. Handles = 0
  <2>1. Served = {}
    BY <1>1 DEF Served
  <2> QED
    BY <1>1, <2>1, FS_EmptySet DEF Handles
<1>3. ConnectedOnce /\ ReadsOnce
  <2>1. \A S : Total(S) = 0
    <3>1. \A S : HowMany(<<>>, S) = 0
      BY CountNone
    <3> QED
      BY <1>1, <3>1 DEF Total
  <2>2. \A c \in Clients : ~Awaited(c) /\ ~Unread(c)
    BY <1>1 DEF Awaited, Unread, Dealt, Leaving, AcceptLabels
  <2> QED
    BY <2>1, <2>2 DEF ConnectedOnce, ReadsOnce
<1>4. Open /\ ActiveExact /\ HeadOfWork
  BY <1>1, <1>2 DEF Open, ActiveExact, HeadOfWork
<1> QED
  BY <1>1, <1>3, <1>4 DEF BeforeClose, Exact

LEMMA ConstructRuns ==
  ASSUME ServerInv, Exact, Construct
  PROVE  BeforeClose' /\ Exact'
<1>1. /\ TypeOK /\ NoRequests
      /\ Open /\ ActiveExact /\ HeadOfWork /\ ReadsOnce /\ ConnectedOnce
  BY DEF ServerInv, Exact
<1>2. /\ pc["main"] = "construct" /\ pc["loop"] = "unborn"
      /\ pc'["main"] = "input" /\ pc'["loop"] = "alive"
      /\ UNCHANGED <<port, batch, conn, stop_flag, endgame_handles>>
  BY <1>1 DEF Construct, At, NoRequests, Threads
<1>3. /\ flags = {} /\ \A c \in Clients : conn[c] = "away"
      /\ ~stop_flag /\ ~endgame_handles
  BY <1>1, <1>2 DEF Open
<1>4. Served = {} /\ Served' = {} /\ Cardinality({}) = 0
  BY <1>2, <1>3, FS_EmptySet DEF Served
<1>5. active_handles = 0
  BY <1>1, <1>2, <1>3, <1>4 DEF ActiveExact, Handles
<1>6. /\ flags' \subseteq {"LISTENING", "ACTIVE"}
      /\ active_handles' = Handles'
  <2>1. CASE NoDelayedError
    BY <1>4, <2>1 DEF Construct, Handles
  <2>2. CASE ~NoDelayedError
    BY <1>3, <1>4, <1>5, <2>2 DEF Construct, Handles
  <2> QED
    BY <2>1, <2>2
<1>7. Open'
  BY <1>2, <1>3, <1>6 DEF Open
<1>8. ActiveExact' /\ HeadOfWork'
  BY <1>2, <1>6 DEF ActiveExact, HeadOfWork
<1>9. \A d \in Clients : (Awaited(d)' <=> Awaited(d)) /\ (Unread(d)' <=> Unread(d))
  BY <1>2 DEF Awaited, Dealt, AcceptLabels, Unread, Leaving
<1>10. ConnectedOnce' /\ ReadsOnce'
  <2>1. \A S : [kind |-> "failed"] \notin S => Total(S)' = Total(S)
    BY <1>1, <1>2, FirstAccepts DEF Total
  <2>2. \A d \in Clients : [kind |-> "failed"] \notin ConnectedOf(d) \cup ReadsOf(d)
    BY DEF ConnectedOf, ReadsOf
  <2> QED
    BY <1>1, <1>9, <2>1, <2>2, OnceKept
<1> QED
  BY <1>2, <1>7, <1>8, <1>10 DEF Exact, BeforeClose

LEMMA UnlistenStops ==
  ASSUME TypeOK, Unlisten
  PROVE  ~BeforeClose' /\ "LISTENING" \notin flags'
<1>1. CASE "LISTENING" \in flags
  <2>1. pc'["main"] = "unlistened" /\ flags' = flags \ {"LISTENING", "ACTIVE"}
    BY <1>1 DEF Unlisten, Goto, TypeOK, Threads
  <2> QED
    BY <2>1 DEF BeforeClose
<1>2. CASE "LISTENING" \notin flags
  <2>1. pc'["main"] = "closesocket" /\ flags' = flags
    BY <1>2 DEF Unlisten, Goto, TypeOK, Threads
  <2> QED
    BY <1>2, <2>1 DEF BeforeClose
<1> QED
  BY <1>1, <1>2

-----------------------------------------------------------------------------
(* Once main closes the server nothing listens again. *)
LEMMA NeverListensAgain ==
  ASSUME Next, ~Construct, "LISTENING" \notin flags
  PROVE  "LISTENING" \notin flags'
<1>1. CASE LoopStep
  <2>1. CASE TakeEndgame \/ HandleClose \/ FailedAccept \/ Push("loop", "requests")
    BY <2>1 DEF TakeEndgame, HandleClose, FailedAccept, Push
  <2>2. CASE \/ LoopAlive \/ LoopStopped \/ TakeRequests \/ BackendTimeout \/ Poll
             \/ EndgamesDone \/ Endgame \/ Leave \/ Data \/ End \/ Inactive
    BY <2>2 DEF LoopAlive, LoopStopped, TakeRequests, BackendTimeout, Poll, EndgamesDone,
                Endgame, Leave, Data, End, Inactive
  <2>3. CASE \/ Connected \/ ConnectedTooLate \/ Aborted \/ Retry
             \/ QueueAccept \/ QueueAcceptFails \/ (\E c \in Clients : QueueAcceptAtOnce(c))
             \/ (\E ok \in BOOLEAN : Accept(ok))
    BY <2>3 DEF Connected, ConnectedTooLate, Aborted, Retry, QueueAccept, QueueAcceptFails,
                QueueAcceptAtOnce, Accept
  <2>4. CASE \/ Serve \/ Active \/ Count("loop", "unlistened", "deaf") \/ Deaf \/ Release
             \/ WantEndgame("loop", "requests")
    BY <2>4 DEF Serve, Active, Count, Deaf, Release, WantEndgame
  <2> QED
    BY <1>1, <2>1, <2>2, <2>3, <2>4 DEF LoopStep
<1>2. CASE MainStep
  <2>1. CASE CloseSocket \/ FlagClosing \/ Push("main", "stop")
    <3>1. \E flag \in {"TCP_SOCKET_CLOSED", "CLOSING", "ENDGAME_QUEUED"} :
            flags' = flags \cup {flag}
      BY <2>1 DEF CloseSocket, FlagClosing, Push
    <3> QED
      BY <3>1
  <2>2. CASE \/ Count("main", "unlistened", "not active") \/ NotActive
             \/ Count("main", "count closing", "closing") \/ Closing \/ NothingPending
             \/ WantEndgame("main", "stop") \/ Stop \/ Join
    BY <2>2 DEF Count, NotActive, Closing, NothingPending, WantEndgame, Stop, Join
  <2> QED
    BY <1>2, <2>1, <2>2 DEF MainStep
<1>3. CASE Unlisten
  BY <1>3 DEF Unlisten
<1>4. CASE \E c \in Clients : \/ Connect(c) \/ Establish(c)
                              \/ \E kind \in {"data", "end"} : Readable(c, kind)
  BY <1>4 DEF Connect, Establish, Readable, Completes
<1> QED
  BY <1>1, <1>2, <1>3, <1>4 DEF Next

LEMMA NeverReopened ==
  ASSUME TypeOK, Next, ~BeforeClose
  PROVE  ~BeforeClose' /\ ~Construct
<1>1. pc \in [Threads -> MainLabels \cup LoopLabels]
  BY DEF TypeOK
<1>2. CASE LoopStep
  BY <1>2, LoopFrame DEF BeforeClose, Construct, At
<1>3. CASE MainStep
  BY <1>1, <1>3 DEF MainStep, Construct, Count, NotActive, CloseSocket, Closing, FlagClosing,
                    NothingPending, WantEndgame, Push, Stop, Join, Goto, At, Threads,
                    BeforeClose
<1>4. CASE Unlisten
  BY <1>4 DEF Unlisten, At, BeforeClose
<1>5. CASE \E c \in Clients : \/ Connect(c) \/ Establish(c)
                              \/ \E kind \in {"data", "end"} : Readable(c, kind)
  BY <1>5, KernelFrame DEF BeforeClose, Construct, At
<1> QED
  BY <1>2, <1>3, <1>4, <1>5 DEF Next

-----------------------------------------------------------------------------
(* While main waits for a key the loop meets neither the stop nor endgames. *)
LEMMA LoopRuns ==
  ASSUME ServerInv, Exact, pc["main"] = "input", LoopStep
  PROVE  Exact'
<1>1. Open
  BY DEF Exact
<1>2. /\ ~LoopStopped /\ ~TakeEndgame /\ ~Endgame /\ ~HandleClose /\ ~ConnectedTooLate
      /\ ~WantEndgame("loop", "requests") /\ ~Push("loop", "requests")
  BY <1>1 DEF Open, LoopStopped, Stopped, TakeEndgame, Endgame, HandleClose, ConnectedTooLate,
              SocketOpen, WantEndgame, Push, At
<1> QED
  BY <1>2, LoopTurns, ClientRequestSteps, AcceptRuns, QueueAcceptRuns, ServeRuns, CountRuns,
     ReleaseRuns DEF LoopStep

LEMMA RunsInvStep ==
  ASSUME ServerInv, RunsInv, [Next]_vars
  PROVE  RunsInv'
<1>1. TypeOK /\ NoRequests
  BY DEF ServerInv
<1>2. CASE Next /\ ~BeforeClose
  BY <1>1, <1>2, NeverReopened, NeverListensAgain DEF RunsInv
<1>3. CASE Next /\ pc["main"] = "input"
  <2>1. Exact
    BY <1>3 DEF RunsInv, BeforeClose
  <2>2. CASE LoopStep
    <3>1. pc'["main"] = "input"
      BY <1>1, <1>3, <2>2, LoopFrame
    <3> QED
      BY <1>3, <2>1, <2>2, <3>1, LoopRuns DEF RunsInv, BeforeClose
  <2>3. ~MainStep
    BY <1>3 DEF MainStep, Construct, Count, NotActive, CloseSocket, Closing, FlagClosing,
                NothingPending, WantEndgame, Push, Stop, Join, At
  <2>4. CASE Unlisten
    BY <1>1, <2>4, UnlistenStops DEF RunsInv
  <2>5. ASSUME NEW c \in Clients,
               \/ Connect(c) \/ Establish(c)
               \/ \E kind \in {"data", "end"} : Readable(c, kind)
        PROVE  RunsInv'
    <3>1. pc'["main"] = "input"
      BY <1>3, <2>5, KernelFrame
    <3> QED
      BY <1>3, <2>1, <2>5, <3>1, KernelRuns DEF RunsInv, BeforeClose
  <2> QED
    BY <1>3, <2>2, <2>3, <2>4, <2>5 DEF Next
<1>4. CASE Next /\ pc["main"] = "construct"
  <2>1. Exact /\ pc["loop"] = "unborn"
    BY <1>1, <1>4 DEF RunsInv, BeforeClose, NoRequests, At
  <2>2. ~LoopStep
    BY <1>1, <2>1, LoopFrame
  <2>3. \A c \in Clients : conn[c] = "away"
    BY <1>4, <2>1 DEF Exact, Open
  <2>4. ~\E c \in Clients : \/ Connect(c) \/ Establish(c)
                            \/ \E kind \in {"data", "end"} : Readable(c, kind)
    BY <1>4, <2>3 DEF Connect, Listening, Establish, Readable, At
  <2>5. Construct
    BY <1>4, <2>2, <2>4 DEF Next, Unlisten, MainStep, Count, NotActive, CloseSocket, Closing,
                            FlagClosing, NothingPending, WantEndgame, Push, Stop, Join, At
  <2> QED
    BY <2>1, <2>5, ConstructRuns DEF RunsInv
<1>5. CASE UNCHANGED vars
  <2>1. UNCHANGED <<pc, seen, flags, active_handles, stop_flag, pending_reqs,
                    endgame_handles, batch, port, conn>>
    BY <1>5 DEF vars, threadVars, loopVars, kernelVars
  <2>2. \A S : Total(S)' = Total(S)
    BY <2>1 DEF Total
  <2>3. BeforeClose' <=> BeforeClose
    BY <2>1 DEF BeforeClose
  <2>4. Open' <=> Open
    BY <2>1 DEF Open
  <2>5. ActiveExact' <=> ActiveExact
    BY <2>1 DEF ActiveExact, Handles, Served
  <2>6. HeadOfWork' <=> HeadOfWork
    BY <2>1 DEF HeadOfWork
  <2>7. \A c \in Clients : (Unread(c)' <=> Unread(c)) /\ (Awaited(c)' <=> Awaited(c))
    BY <2>1 DEF Unread, Leaving, Awaited, Dealt
  <2>8. ReadsOnce' <=> ReadsOnce
    BY <2>2, <2>7 DEF ReadsOnce
  <2>9. ConnectedOnce' <=> ConnectedOnce
    BY <2>2, <2>7 DEF ConnectedOnce
  <2> QED
    BY <2>1, <2>3, <2>4, <2>5, <2>6, <2>8, <2>9 DEF RunsInv, Exact
<1> QED
  BY <1>2, <1>3, <1>4, <1>5 DEF BeforeClose

-----------------------------------------------------------------------------
(* Until main closes the server active_handles is the number of handles     *)
(* that are active, and each connection and each read stands for one        *)
(* request in the queues (the handle counts of libuv's loop, tcp.c).        *)
THEOREM HandlesCounted == Spec => []RunsInv
<1>1. Init => ServerInv /\ RunsInv
  BY ServerInvInit, ExactInit DEF RunsInv
<1>2. ServerInv /\ RunsInv /\ [Next]_vars => ServerInv' /\ RunsInv'
  BY ServerInvStep, RunsInvStep
<1> QED
  BY <1>1, <1>2, PTL DEF Spec

(* While the handle listens uv_run does not return.                         *)
THEOREM LoopServes == Spec => []ServesWhileListening
<1>1. RunsInv => ServesWhileListening
  BY DEF RunsInv, Exact, Open, ServesWhileListening
<1> QED
  BY <1>1, HandlesCounted, PTL
=============================================================================

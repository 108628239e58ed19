\* Two clients and one AcceptEx request: the second client waits in the backlog
\* until the first request was queued again.
CONSTANTS
  Clients = {c1, c2}
  Accepts = 1
  CounterSize = 8
SPECIFICATION Spec
INVARIANTS
  TypeOK
  AcceptsAccounted
  FreedAcceptsIdle
  ServesWhileListening
PROPERTIES
  ConnectionServed
  ReadersServed
  StopWhenWoken
\* The server stops: both threads end.
CHECK_DEADLOCK FALSE

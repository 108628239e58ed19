\* Three chunks, so that a second answer fills the send buffer and a third is
\* queued by the kernel while the first is still to be called back.
CONSTANTS
  MaxChunks = 3
  MaxReads = 2
  SendBuffer = 1
SPECIFICATION Spec
INVARIANTS
  TypeOK
  RequestsAccounted
  AnswersNotDropped
  LiveUnlessBehind
  OneRead
PROPERTIES
  ImplementsStream
  WritesCalledBack
  PartingSeen
\* The client may be done.
CHECK_DEADLOCK FALSE

\* Two chunks, so that a client that does not read its first answer is behind
\* when the second is written.
CONSTANTS
  MaxChunks = 2
  MaxReads = 2
  SendBuffer = 1
SPECIFICATION Spec
INVARIANT BufferOutlivesWrite
\* The client may be done.
CHECK_DEADLOCK FALSE

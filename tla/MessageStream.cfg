SPECIFICATION Spec
CONSTANTS
  Parts = 2
  MaxRead = 5
  MaxMessages = 4
INVARIANTS
  TypeOK
  HandledAfterHelo
  HandledOnceInOrder
  AnswersPaired
  ToldUnlessHasty
PROPERTIES
  RequestsHandled
CHECK_DEADLOCK FALSE

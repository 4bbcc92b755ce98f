CONSTANTS
  MaxLines = 2
  QueueCap = 1
  OutboxCap = 2
  MaxOut = 3
  MaxPolls = 1
  MaxIds = 2
SPECIFICATION Spec
INVARIANTS RanOnceInOrder AnsweredMeansRan AnswerMatches ShownOnceNoGap OutputKept ProtocolInv NeverWedged
PROPERTIES HangupIsFinal ImplementsPromise ClosedIsFinal
CHECK_DEADLOCK FALSE

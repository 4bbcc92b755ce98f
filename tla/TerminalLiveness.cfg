CONSTANTS
  MaxLines = 1
  QueueCap = 1
  OutboxCap = 1
  MaxOut = 2
  MaxPolls = 3
  MaxIds = 1
SPECIFICATION FairSpec
PROPERTIES EveryLineHandled OutputDelivered HangupCompletes
CHECK_DEADLOCK FALSE

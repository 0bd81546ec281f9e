SPECIFICATION FairSpec
CONSTANTS
  c1 = c1  c2 = c2
  Conn <- Conn1
  Messages = 1
  SendRoom = 1
  EventCapacity = 1
  Endings = {}
  EarlyData = TRUE
PROPERTY RequestsAreRead
CHECK_DEADLOCK FALSE

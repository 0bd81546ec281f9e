SPECIFICATION FairSpec
CONSTANTS
  c1 = c1  c2 = c2
  Conn <- Conn1
  Messages = 2
  SendRoom = 1
  EventCapacity = 2
  Endings = {"closed", "reset"}
  EarlyData = TRUE
INVARIANTS ReadyPendingIsArmed
PROPERTIES ReadsStallOnlyThere WritesStallOnlyThere
CHECK_DEADLOCK FALSE

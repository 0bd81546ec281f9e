SPECIFICATION Spec
CONSTANTS
  c1 = c1  c2 = c2
  Conn <- Conn2
  Messages = 0
  SendRoom = 1
  EventCapacity = 1
  Endings = {"closed"}
  EarlyData = TRUE
SYMMETRY Symmetry
INVARIANTS TypeOK ReadyTasksAreFound SourcesAreLiveStreams EventsReachTheirStream
CHECK_DEADLOCK FALSE

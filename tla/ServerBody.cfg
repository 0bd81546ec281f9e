SPECIFICATION FairSpec
CONSTANTS
  h1 = h1  h2 = h2
  c1 = c1  c2 = c2
  Thread <- Thread2
  Conn <- Conn1
  MaxRequests = 1
  MaxPieces = 1
PROPERTY BodiesAreRead
CHECK_DEADLOCK FALSE

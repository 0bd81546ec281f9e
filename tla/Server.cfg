SPECIFICATION FairSpec
CONSTANTS
  h1 = h1  h2 = h2
  c1 = c1  c2 = c2
  Thread <- Thread2
  Conn <- Conn2
  MaxRequests = 2
  MaxPieces = 2
INVARIANTS TypeOK ThreadsAccounted PiecesAccounted BlockedOnlyShort
PROPERTIES AnsweredUnlessHeld LeaversAreLetGo
CHECK_DEADLOCK FALSE

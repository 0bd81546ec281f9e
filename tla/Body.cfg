SPECIFICATION FairSpec
CONSTANTS
  Size = 5
  CAP = 3
  ReadSizes = {0, 1, 2, 4}
  MayFail = TRUE
INVARIANTS TypeOK BytesInOrder NoTruncation
PROPERTIES ErrorsCostNothing StreamSpec CallsReturn

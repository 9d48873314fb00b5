SPECIFICATION FairSpec
CONSTANTS
  Object = {o, b}
  Tile = {o}
  Boards = {b}
  MaxHandle = 4
  MaxInputs = 4
CHECK_DEADLOCK FALSE
INVARIANTS TypeOK ReleaseIsFinal HeldIsListed NamedIsDescribed
PROPERTIES ReleaseIsHonoured

SPECIFICATION SessionSpec
CONSTANTS
  Block <- LineBlock
  Train = {t1}
  Tag = {}
  Turnout = {}
  DirectionControl = {}
  Crossing = {}
  Bridge = {}
  Path <- LinePath
  NoPath = NoPath
  Position = {}
  NoPosition = NoPosition
  PathInfo <- LineInfo
  NumSensors <- TwoInMiddle
  ScriptedControl = {}
  MaxListed = 3
  Nobody = Nobody
INVARIANTS TypeOK StateIsCurrent TrackingIsConsistent
PROPERTIES LostOnlyIfListedTwice

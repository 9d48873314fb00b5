SPECIFICATION RoutesSpec
CONSTANTS
  Block <- ShortBlock
  Train = {t1}
  Tag = {}
  Turnout = {}
  DirectionControl = {}
  Crossing = {}
  Bridge = {}
  Path <- ShortPath
  NoPath = NoPath
  Position = {}
  NoPosition = NoPosition
  PathInfo <- ShortInfo
  NumSensors <- OneSensor
  ScriptedControl = {}
  MaxListed = 2
  Nobody = Nobody
PROPERTIES LastBlockIsKept

SPECIFICATION ApiSpec
CONSTANTS
  Block <- ShortBlock
  Train = {t1, t2}
  Tag = {g1}
  Turnout = {}
  DirectionControl = {}
  Crossing = {}
  Bridge = {}
  Path <- ShortPath
  NoPath = NoPath
  Position = {}
  NoPosition = NoPosition
  PathInfo <- ShortInfo
  NumSensors <- OneSensor
  ScriptedControl = {}
  MaxListed = 2
  Nobody = Nobody
SYMMETRY Trains
INVARIANTS OneTrainPerBlock StateTellsOccupants
PROPERTIES ImplementsClaims

SPECIFICATION StandingSpec
CONSTANTS
  Block <- CrossBlock
  Train = {t1, t2}
  Tag = {}
  Turnout = {"x"}
  DirectionControl = {"d"}
  Crossing = {"c"}
  Bridge = {"g"}
  Path <- CrossPath
  NoPath = NoPath
  Position = {"Straight", "Left"}
  NoPosition = NoPosition
  PathInfo <- CrossInfo
  NumSensors <- NoSensor
  ScriptedControl = {}
  MaxListed = 3
  Nobody = Nobody
SYMMETRY Trains
INVARIANTS ReservedCompletely GrantedPathsDisjoint

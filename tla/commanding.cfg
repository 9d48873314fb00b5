SPECIFICATION Spec
CONSTANTS
  Train = {t1, t2}
  Vehicle = {v1, v2}
  Powered = {v1}
  NoTrain = NoTrain
  MaxSpeed = 2
  Acceleration = 2
  Braking = 1
SYMMETRY Symmetric
INVARIANTS EmergencyStopHolds MovingTrainIsActive OneCommander

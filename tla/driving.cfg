SPECIFICATION DrivingSpec
CONSTANTS
  Train = {t1, t2}
  Vehicle = {v1}
  Powered = {v1}
  NoTrain = NoTrain
  MaxSpeed = 3
  Acceleration = 2
  Braking = 1
INVARIANTS IdleMeansReached MovingTrainDrivesAll
PROPERTIES SpeedFollowsThrottle SpeedSettles

SPECIFICATION FairSpec
CONSTANTS
  Address = {a1, a2}
  NoAddress = NoAddress
  Slots = 1
  Speed = {0, 2}
  QueueLimit = 2
  MaxInputs = 3
  MaxAsked = 2
INVARIANTS TypeOK LastSentIsFront NeverIdleWithWork MappingIsTrue PendingIsRequested
PROPERTIES ImplementsLink EmergencyStopIsSent

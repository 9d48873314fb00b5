SPECIFICATION FairSpec
CONSTANTS
  Interface = {i1}
  ScriptCalls = {"Stop"}
  MaxInputs = 4
INVARIANTS TypeOK PowerAgrees RunAgrees PowerOffIsObeyed
PROPERTIES PowerOffArrives StartEnds
CHECK_DEADLOCK FALSE

\* The poll loop, the sweep and the control writes; answers may be late or lost.
SPECIFICATION FairSpec
CONSTANTS
  Common <- ShortCommon
  Extra <- ShortExtra
  ControlPlan <- ShortControls
  Writeable = {2011, 2022}
  DeviceType = 110
  Values = {1, 2}
  PollFailLimit = 2
  QueueSize = 2
  MaxAir = 2
  SendFails = TRUE
INVARIANTS
  TypeOK
  OneRequest
  QueueHoldsNewest
PROPERTIES
  SweepAsked
  AnswersOrDrops
  LatestWrites

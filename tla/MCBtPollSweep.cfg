\* Expected to fail: the sweep is declared done on fields asked for.
SPECIFICATION Spec
CONSTANTS
  Common <- MainsCommon
  Extra <- ShortExtra
  ControlPlan <- ShortControls
  Writeable = {2011, 2022}
  DeviceType = 110
  Values = {1}
  PollFailLimit = 2
  QueueSize = 2
  MaxAir = 2
  SendFails = TRUE
PROPERTIES
  SweepRead

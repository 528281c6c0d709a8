\* From power-on or from the portal, with a network that comes and goes.
SPECIFICATION FairSpec
CONSTANTS
  Networks = {home}
  NoNet = NoNet
  Tasks <- SetupTasks
  Callers <- SetupCallers
  MaxRetry = 2
  FbTicks = 2
  MaxEvents = 2
INVARIANTS
  BitTellsTruth
  RetryInSight
  SetupHadALease
PROPERTIES
  NeverStranded
  StaysReachable

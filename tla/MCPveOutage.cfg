\* Timers, latches and the queue through outages and reconfigurations.
SPECIFICATION Spec
CONSTANTS
  Hosts = {0}
  GuestIds = {101, 102}
  MaxPct = 2
  Configs <- OutageConfigs
  Readings <- OutageReadings
  NodeAttempts = 1
  MaxTime = 4
  MaxCreateFails = 0
  MaxSaves = 2
  Oom = FALSE
INVARIANTS
  DeadlineFires
PROPERTIES
  FireJustified
  FireOnce
  GuestLatchHolds
  SweepComplete
  QueueMatchesLatch

\* Two hosts, one worker: the queue, the requests, the failures.
SPECIFICATION FairSpec
CONSTANTS
  Hosts = {0, 1}
  GuestIds = {101}
  MaxPct = 2
  Configs <- WorkerConfigs
  Readings <- WorkerReadings
  NodeAttempts = 2
  MaxTime = 2
  MaxCreateFails = 1
  MaxSaves = 1
  Oom = TRUE
INVARIANTS
  GuestsBeforeNode
  WorkerAccounted
PROPERTIES
  Drained
  OrdersCarriedOut

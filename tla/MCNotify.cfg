\* Two callers, the queue and the delivery worker.
SPECIFICATION NotifyFairSpec
CONSTANTS
  Callers = {ble, stale}
  Charges = {5, 15}
  Configs <- FewConfigs
  QueueDepth = 2
  SendAttempts = 2
INVARIANTS
  ChatTruthful
PROPERTIES
  WorkerMovesOn

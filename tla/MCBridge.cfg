\* Both publishing tasks and the link, at every interleaving.
SPECIFICATION FairSpec
CONSTANTS
  Readings <- FewReadings
INVARIANTS
  NoFalseOutage
  RuntimeAgrees
PROPERTIES
  BlindIsSaid

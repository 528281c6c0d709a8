\* The key exchange over two links, with re-requests, changed keys, failures and stray frames.
SPECIFICATION FairSpec
CONSTANTS
  UnitKeys = {1, 2}
  MaxLinks = 2
  MaxAir = 3
  MaxFails = 2
  MaxJunk = 1
INVARIANTS
  SecureAgrees
  PlainOnThisLink
PROPERTIES
  HandshakeEnds
CHECK_DEADLOCK FALSE

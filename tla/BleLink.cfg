\* Three page scans and four lost links, failed attempts or host resets,
\* anywhere.
SPECIFICATION BleSpec
CONSTANTS
  MaxScans = 3
  MaxFaults = 4
INVARIANTS
  BleTypeOK
  RadioAtWork
PROPERTIES
  LinkComesBack
CHECK_DEADLOCK FALSE

\* Both writers, two images and one file that is none, two pieces each.
SPECIFICATION Spec
CONSTANTS
  Images = {v1, v2}
  Files = {v1, v2, junk}
  None = None
  Chunks = 2
INVARIANTS
  AlwaysBootable
PROPERTIES
  AtomicUpdates

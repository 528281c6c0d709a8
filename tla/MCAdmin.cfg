\* Old, current and newer layouts of the blob; two requests, of
\* any section; writes, starts and the restart's task fail
\* and the power is cut anywhere.
SPECIFICATION Spec
CONSTANTS
  Values = {a, b}
  None = None
  Versions = {11, 14, 18, 19}
  MayFail = {"nut", "pve", "guests", "tg"}
  MaxPosts = 2
SYMMETRY ValueSymmetry
INVARIANTS
  RunsWhatIsSaved
  ArmedByUser

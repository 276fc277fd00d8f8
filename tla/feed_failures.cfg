SPECIFICATION Spec
CONSTANTS
  Stories = {1, 2}
  Ingesters = {w1, w2}
  NoOne = NoOne
  Invalid = {2}
  Isolated = FALSE
  Bootstrap = TRUE
  Batch = 2
  MaxRevision = 2
  MaxTime = 3
  MaxReclassify = 1
  MaxForgets = 1
  MaxCrashes = 1
  MaxFailures = 1
SYMMETRY IngesterSymmetry
INVARIANTS TypeOK NoneSkipped NumbersGoOn
CHECK_DEADLOCK FALSE

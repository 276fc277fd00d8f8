SPECIFICATION FairSpec
CONSTANTS
  Stories = {1, 2}
  Ingesters = {w1, w2}
  NoOne = NoOne
  Invalid = {}
  Isolated = FALSE
  Bootstrap = FALSE
  Batch = 2
  MaxRevision = 2
  MaxTime = 4
  MaxReclassify = 0
  MaxForgets = 0
  MaxCrashes = 2
  MaxFailures = 0
INVARIANT RevisionsSurvive
PROPERTIES StoriesInOrder EveryRevisionHanded
CHECK_DEADLOCK FALSE

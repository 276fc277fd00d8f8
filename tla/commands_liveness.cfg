SPECIFICATION FairSpec
CONSTANTS
  Workers = {w1, w2}
  Requests = {r1, r2}
  Subjects = {s1}
  NoKey = NoKey
  MaxCommands = 1
  MaxCrashes = 1
  MaxOverruns = 1
PROPERTIES EveryCommandSettles ImplementsQueue
CHECK_DEADLOCK FALSE

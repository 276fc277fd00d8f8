SPECIFICATION FairSpec
CONSTANTS
  Workers = {w1}
  Requests = {r1}
  Subjects = {s1}
  NoKey = NoKey
  MaxCommands = 1
  MaxCrashes = 0
  MaxOverruns = 0
PROPERTY CancellationSettles
CHECK_DEADLOCK FALSE

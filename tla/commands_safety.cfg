SPECIFICATION Spec
CONSTANTS
  Workers = {w1, w2}
  Requests = {r1, r2}
  Subjects = {s1}
  NoKey = NoKey
  MaxCommands = 2
  MaxCrashes = 1
  MaxOverruns = 0
SYMMETRY Interchangeable
INVARIANTS TypeOK ExclusiveExecution OneRowPerKey CompletedMeansDone
PROPERTY NeverReopened
CHECK_DEADLOCK FALSE

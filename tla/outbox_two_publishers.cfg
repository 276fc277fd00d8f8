SPECIFICATION Spec
CONSTANTS
  Publishers = {p1, p2}
  Last = 2
  StoryOf <- OneStory
  Removed = {}
  Dull = {2}
  MaxCrashes = 1
  MaxOverruns = 1
  MaxFailures = 1
SYMMETRY PublisherSymmetry
INVARIANTS TypeOK RepeatsAreFaults ScheduledBeforePassed OneSender
CHECK_DEADLOCK FALSE

SPECIFICATION FairSpec
CONSTANTS
  Publishers = {p1}
  Last = 2
  StoryOf <- OneStory
  Removed = {2}
  Dull = {}
  MaxCrashes = 1
  MaxOverruns = 0
  MaxFailures = 1
PROPERTIES PostedStaysPosted EveryDeliverySettles
CHECK_DEADLOCK FALSE

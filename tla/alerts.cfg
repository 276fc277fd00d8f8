SPECIFICATION FairSpec
CONSTANTS
  Candidates = {c1}
  Keys <- AllKeys
  MaxAttempts = 2
  MaxFailures = 2
  MaxRestarts = 1
  Recovery = 2
  MaxEpisodes = 2
  MaxAlerts = 2
  PerLoop = 1
  PerDay = 1
  Settings <- InPairs
INVARIANTS TypeOK RepeatsAreFaults ToldOrFault OneEpisodeAtATime
PROPERTIES DecisionsFinal EveryNotificationSettles
CHECK_DEADLOCK FALSE

SPECIFICATION FairSpec
CONSTANTS
  tracking = tracking
  autonomy = autonomy
  hip4 = hip4
  Clients <- Services
  FeedOf <- SharedFeed
  Static = {}
  MaxCalls = 5
  MaxDrops = 2
INVARIANTS TypeOK ServedAsWanted
PROPERTY SocketFollowsWishes
CHECK_DEADLOCK FALSE

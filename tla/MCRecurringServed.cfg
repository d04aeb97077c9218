SPECIFICATION FairSpec
CONSTANTS
  Replicas = {r1, r2}
  Searches = {s1, s2}
  Urls = {1}
  NoSearch = NoSearch
  Never = Never
  Interval = 1
  Day = 1
  Quota = 1
  MaxPerUser = 2
  Limit = 1
  MaxClock = 0
  MaxFaults = 1
  MaxDelivered = 0
PROPERTY DueIsServed
CHECK_DEADLOCK FALSE

SPECIFICATION Spec
CONSTANTS
  Replicas = {r1}
  Searches = {s1}
  Urls = {1, 2}
  NoSearch = NoSearch
  Never = Never
  Interval = 1
  Day = 1
  Quota = 3
  MaxPerUser = 1
  Limit = 1
  MaxClock = 2
  MaxFaults = 0
  MaxDelivered = 2
PROPERTY MemoryKeepsRecent
CHECK_DEADLOCK FALSE

SPECIFICATION Spec
CONSTANTS
  Replicas = {r1}
  Searches = {s1}
  Urls = {1}
  NoSearch = NoSearch
  Never = Never
  Interval = 1
  Day = 1
  Quota = 2
  MaxPerUser = 1
  Limit = 1
  MaxClock = 1
  MaxFaults = 1
  MaxDelivered = 2
INVARIANT AnsweredIsAnnounced
CHECK_DEADLOCK FALSE

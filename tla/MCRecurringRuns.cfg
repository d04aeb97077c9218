SPECIFICATION Spec
CONSTANTS
  Replicas = {r1, r2}
  Searches = {s1, s2}
  Urls = {1}
  NoSearch = NoSearch
  Never = Never
  Interval = 2
  Day = 0
  Quota = 1
  MaxPerUser = 2
  Limit = 1
  MaxClock = 1
  MaxFaults = 1
  MaxDelivered = 0
INVARIANTS TypeOK LeadersBounded RunsSpaced ScheduleWithinQuota
CHECK_DEADLOCK FALSE
SYMMETRY Alike

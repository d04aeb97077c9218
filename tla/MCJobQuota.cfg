SPECIFICATION Spec
CONSTANTS
  u1 = u1
  Jobs = {j1, j2, j3}
  Users = {u1}
  Owner <- OneOwner
  Handlers = {h1, h2}
  Questions = {}
  Answers = {}
  Deliveries = {}
  Steps = {}
  None = None
  NoRow = NoRow
  Idle = Idle
  NoDelivery = NoDelivery
  Quota = 1
  MaxUsage = 0
  MaxAge = 2
SYMMETRY JobsAndHandlersAlike
CONSTRAINT OneJobAges
INVARIANT QuotaOvershootBounded
CHECK_DEADLOCK FALSE

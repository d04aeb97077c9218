SPECIFICATION Spec
CONSTANTS
  Clients = {c1, c2}
  Users = {u1, u2}
  Tokens = {t1, t2, t3}
  Handlers = {h1, h2}
  NoUser = NoUser
  NoToken = NoToken
  Idle = Idle
SYMMETRY Alike
INVARIANTS TypeOK OneAccountPerEmail NothingNamesTheDeleted ReplacedIsConsumed UndisturbedSurvives
CHECK_DEADLOCK FALSE

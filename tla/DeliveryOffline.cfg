SPECIFICATION Spec
CONSTANTS
  Order = {1}
  Agent = {a1, a2}
  NoAgent = NoAgent
  Callers = {"restaurant_user"}
  Request = {r1}
  Methods = {"online"}
  Worker = {}
  Reachable = {}
  Call = {c1, c2}
  Kinds = {"assign", "settle", "offline"}
  Batch = 1
  Candidates = 2
  MaxAttempts = 1
  MaxCredits = 1
  Faults = {"crash", "begin", "ack"}
CHECK_DEADLOCK FALSE
INVARIANTS TypeOK AssignedHasAgent EarnerCarried
PROPERTIES AgentHandover
SYMMETRY Symmetry

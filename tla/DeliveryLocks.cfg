SPECIFICATION Spec
CONSTANTS
  Order = {1}
  Agent = {a1, a2}
  NoAgent = NoAgent
  Callers = {"restaurant_user", "system_admin", a1, a2}
  Request = {r1}
  Methods = {"cod", "online"}
  Worker = {}
  Reachable = {}
  Call = {c1, c2, c3}
  Kinds = {"assign", "pick", "settle"}
  Batch = 1
  Candidates = 2
  MaxAttempts = 1
  MaxCredits = 2
  Faults = {"ack"}
CHECK_DEADLOCK FALSE
INVARIANTS ClaimLockHasHolder DeliveredIsSettled
PROPERTIES AgentHandover
SYMMETRY Symmetry

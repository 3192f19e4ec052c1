SPECIFICATION Spec
CONSTANTS
  Order = {1}
  Agent = {a1}
  NoAgent = NoAgent
  Callers = {"restaurant_user"}
  Request = {r1}
  Methods = {"cod", "online"}
  Worker = {}
  Reachable = {}
  Call = {c1, c2}
  Kinds = {"assign", "pick", "offline"}
  Batch = 1
  Candidates = 2
  MaxAttempts = 1
  MaxCredits = 1
  Faults = {}
CHECK_DEADLOCK FALSE
INVARIANTS PickedHasAgent

SPECIFICATION FairSpec
CONSTANTS
  Order = {1}
  Agent = {a1, a2}
  NoAgent = NoAgent
  Callers = {"restaurant_user"}
  Request = {r1}
  Methods = {"cod"}
  Worker = {w1, w2}
  Reachable = {a1, a2}
  Call = {c1}
  Kinds = {"accept", "reject"}
  Batch = 2
  Candidates = 2
  MaxAttempts = 1
  MaxCredits = 1
  Faults = {"tick"}
CHECK_DEADLOCK FALSE
INVARIANTS AttemptsCapped
PROPERTIES ReadyOrderIsHandled

SPECIFICATION Spec
CONSTANTS
  Order = {o1}
  Agent = {}
  NoAgent = NoAgent
  Callers = {"customer", "restaurant_user", "system_admin"}
  Request = {}
  Txn = {t1}
  Outcome = {"SUCCESS"}
  Faults = {"webhook"}
CHECK_DEADLOCK FALSE
INVARIANTS AckedSuccessIsLedgered

SPECIFICATION Spec
CONSTANTS
  Order = {o1}
  Agent = {}
  NoAgent = NoAgent
  Callers = {"customer", "restaurant_user", "system_admin"}
  Request = {r1}
  Txn = {t1}
  Outcome = {"SUCCESS"}
  Faults = {}
CHECK_DEADLOCK FALSE
PROPERTIES StatusFollowsTable

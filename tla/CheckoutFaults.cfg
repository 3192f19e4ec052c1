SPECIFICATION FairSpec
CONSTANTS
  Order = {o1}
  Agent = {}
  NoAgent = NoAgent
  Callers = {"customer", "restaurant_user", "system_admin"}
  Request = {r1}
  Txn = {t1, t2}
  Outcome = {"SUCCESS", "FAILED"}
  Faults = {"crash", "begin", "compensation", "ack", "webhook"}
CHECK_DEADLOCK FALSE
INVARIANTS TypeOK PaidBeforeKitchen PlacedToldOnceAndFirst LiveOrderHoldsStock LostPaymentLeavesTrace FailedCheckoutLeavesNothing
PROPERTIES ImplementsSale KashierStopsRetrying PaymentPlacesOrder

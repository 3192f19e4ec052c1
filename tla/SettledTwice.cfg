SPECIFICATION Spec
CONSTANTS
  Order = {o1}
  Online = {o1}
  Subtotal <- MCSubtotal
  DeliveryFee <- MCDeliveryFee
  ServiceFee = 1
  Rate = {5000}
  Key = {k1}
  Amount = {1}
  Request = {r1}
  Settlement = {s1, s2}
  MaxCredits = 2
INVARIANTS BalanceIsLedgerNet

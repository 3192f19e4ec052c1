SPECIFICATION Spec
CONSTANTS
  Order = {o1, o2}
  Online = {o1}
  Subtotal <- MCSubtotal
  DeliveryFee <- MCDeliveryFee
  ServiceFee = 1
  Rate = {5000}
  Key = {k1, k2}
  Amount = {2}
  Request = {r1, r2}
  Settlement = {s1, s2}
  MaxCredits = 1
INVARIANTS TypeOK BalanceNeverNegative BalanceIsExplained AnsweredPayoutIsRecorded
PROPERTIES ImplementsAccount
SYMMETRY Symmetry

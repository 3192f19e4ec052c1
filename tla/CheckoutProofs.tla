--------------------------- MODULE CheckoutProofs ---------------------------
(***************************************************************************)
(* Theorems about Checkout, for every set of orders, requests, attempts    *)
(* and faults.                                                             *)
(***************************************************************************)
EXTENDS Checkout, OrdersProofs

-----------------------------------------------------------------------------
(* Type correctness.                                                       *)

\* The rows and events the transaction of placeOrder writes are well formed.
LEMMA WriteOrderTypeOK ==
  ASSUME OrdersTypeOK, NEW o \in Order, NEW method \in PaymentMethod, WriteOrder(o, method)
  PROVE  OrdersTypeOK'
<1>1. orders' \in [Order -> Row]
  BY CreateOrderType DEF WriteOrder, Status
<1>2. <<"order.placed">> \in Seq(EventType) /\ <<>> \in Seq(EventType)
  BY DEF EventType
<1>3. outbox' \in [Order -> Seq(EventType)]
  BY <1>2, InsertOutboxEventsType DEF WriteOrder
<1>4. QED
  BY <1>1, <1>3 DEF OrdersTypeOK, WriteOrder

\* Every step of placeOrder keeps every type.
LEMMA PlaceOrderTypeOK ==
  ASSUME TypeOK, NEW o \in Order, PlaceOrderStep(o) \/ PlaceOrderCrashes(o)
  PROVE  TypeOK'
<1> USE DEF TypeOK, Goto, Mishap, history, placeVars, paymentVars, ordersVars
<1>1. CASE \/ ReserveStock(o) \/ ReserveRefused(o) \/ ReserveAckLost(o)
           \/ BeginTransactionFails(o) \/ InsertOrderFails(o)
  BY <1>1 DEF ReserveStock, ReserveRefused, ReserveAckLost, BeginTransactionFails,
              InsertOrderFails, OrdersTypeOK
<1>2. ASSUME NEW method \in PaymentMethod,
             InsertOrder(o, method) \/ InsertOrderAckLost(o, method)
      PROVE  TypeOK'
  BY <1>2, WriteOrderTypeOK DEF InsertOrder, InsertOrderAckLost
<1>3. CASE \/ InitOnlinePayment(o) \/ InitOnlinePaymentFails(o)
           \/ InitOnlinePaymentAckLost(o)
  BY <1>3 DEF InitOnlinePayment, InitOnlinePaymentFails, InitOnlinePaymentAckLost,
              OrdersTypeOK
<1>4. CASE VoidOrderSafe(o)
  <2>1. orders' \in [Order -> Row]
    BY <1>4, UpdateOrderStatusType DEF VoidOrderSafe, Status, Stamp
  <2>2. QED
    BY <1>4, <2>1 DEF VoidOrderSafe, OrdersTypeOK
<1>5. CASE \/ VoidOrderFails(o) \/ ReleaseStockSafe(o) \/ ReleaseStockFails(o)
           \/ PlaceOrderCrashes(o)
  BY <1>5 DEF VoidOrderFails, ReleaseStockSafe, ReleaseStockFails, PlaceOrderCrashes,
              OrdersTypeOK
<1>6. QED
  BY <1>1, <1>2, <1>3, <1>4, <1>5 DEF PlaceOrderStep

\* Every step of a payment, a webhook or its handler keeps every type.
LEMMA PaymentTypeOK ==
  ASSUME TypeOK,
         \/ \E t \in Txn, o \in Order, outcome \in Outcome : CustomerPays(t, o, outcome)
         \/ \E m \in attempts : DeliverWebhook(m)
         \/ \E h \in handling : WebhookStep(h) \/ WebhookFails(h) \/ WebhookCrashes(h)
  PROVE  TypeOK'
<1> USE DEF TypeOK, history, placeVars, ordersVars
<1>1. ASSUME NEW t \in Txn, NEW o \in Order, NEW outcome \in Outcome,
             CustomerPays(t, o, outcome)
      PROVE  TypeOK'
  <2>1. [id |-> t, order |-> o, outcome |-> outcome] \in Attempt
    BY OutcomeAssumption DEF Attempt
  <2>2. attempts' \subseteq Attempt
    BY <1>1, <2>1 DEF CustomerPays
  <2>3. QED
    BY <1>1, <2>2 DEF CustomerPays, OrdersTypeOK
<1>2. ASSUME NEW m \in attempts, DeliverWebhook(m)
      PROVE  TypeOK'
  <2>1. m \in Attempt /\ m.id \in Txn
    BY DEF Attempt
  <2>2. [msg |-> m, pc |-> "recorded", seen |-> "none", active |-> FALSE] \in Handler
    BY <2>1 DEF Handler
  <2>3. CASE RecordWebhook(m)
    BY <2>1, <2>2, <2>3 DEF RecordWebhook, OrdersTypeOK
  <2>4. CASE SkipDuplicate(m)
    BY <2>1, <2>4 DEF SkipDuplicate, OrdersTypeOK
  <2>5. QED
    BY <1>2, <2>3, <2>4 DEF DeliverWebhook
<1>3. ASSUME NEW h \in handling, WebhookFails(h) \/ WebhookCrashes(h) \/ MarkProcessed(h)
      PROVE  TypeOK'
  <2>1. h.msg.id \in Txn
    BY DEF Handler, Attempt
  <2>2. handling' \subseteq Handler
    BY <1>3 DEF WebhookFails, WebhookCrashes, MarkProcessed
  <2>3. QED
    BY <1>3, <2>1, <2>2 DEF WebhookFails, WebhookCrashes, MarkProcessed, OrdersTypeOK
<1>4. ASSUME NEW h \in handling, ReadOrder(h) \/ ReadSession(h) \/ IgnoreWebhook(h)
      PROVE  TypeOK'
  <2>1. h.msg \in Attempt /\ h.msg.order \in Order /\ h \in Handler
    BY DEF Handler, Attempt
  <2>2. orders[h.msg.order].status \in Status \cup {"none"}
    BY <2>1 DEF OrdersTypeOK, Row
  <2>3. CASE ReadOrder(h)
    <3>1. [h EXCEPT !.pc = "order", !.seen = orders[h.msg.order].status] \in Handler
      BY <2>1, <2>2 DEF Handler
    <3>2. QED
      BY <2>3, <3>1 DEF ReadOrder, Advance, OrdersTypeOK
  <2>4. CASE ReadSession(h)
    <3>1. (session[h.msg.order] = "initialized") \in BOOLEAN
      OBVIOUS
    <3>2. [h EXCEPT !.pc = "session", !.active = session[h.msg.order] = "initialized"]
            \in Handler
      BY <2>1, <3>1 DEF Handler
    <3>3. QED
      BY <2>4, <3>2 DEF ReadSession, Advance, OrdersTypeOK
  <2>5. CASE IgnoreWebhook(h)
    BY <2>1, <2>5 DEF IgnoreWebhook, Advance, Handler, OrdersTypeOK
  <2>6. QED
    BY <1>4, <2>3, <2>4, <2>5
<1>5. ASSUME NEW h \in handling, CaptureSession(h) \/ FailSession(h)
      PROVE  TypeOK'
  <2>1. h.msg \in Attempt /\ h.msg.order \in Order /\ h.msg.id \in Txn /\ h \in Handler
    BY DEF Handler, Attempt
  <2>2. handling' \subseteq Handler
    BY <1>5, <2>1 DEF CaptureSession, FailSession, Advance, Handler
  <2>3. charges' \subseteq Charge
    BY <1>5, <2>1 DEF CaptureSession, FailSession, CreateCharge, Charge
  <2>4. orders' \in [Order -> Row]
    BY <1>5, <2>1, UpdateOrderStatusType
    DEF CaptureSession, FailSession, OrdersTypeOK, Status
  <2>5. /\ <<"payment.completed", "order.placed">> \in Seq(EventType)
        /\ <<"payment.completed">> \in Seq(EventType)
        /\ <<"payment.failed">> \in Seq(EventType)
    BY DEF EventType
  <2>6. outbox' \in [Order -> Seq(EventType)]
    <3>1. CASE CaptureSession(h)
      BY <3>1, <2>1, <2>5, InsertOutboxEventsType DEF CaptureSession
    <3>2. CASE FailSession(h)
      BY <3>2, <2>1, <2>5, InsertOutboxEventsType DEF FailSession
    <3>3. QED
      BY <1>5, <3>1, <3>2
  <2>7. QED
    BY <1>5, <2>2, <2>3, <2>4, <2>6 DEF CaptureSession, FailSession, OrdersTypeOK
<1>6. QED
  BY <1>1, <1>2, <1>3, <1>4, <1>5 DEF WebhookStep

\* Type correctness of the checkout: rows, outbox, requests in flight and the
\* whole payment side keep their shape.
THEOREM TypeCorrect == Spec => []TypeOK
<1>1. Init => TypeOK
  BY DEF Init, OrdersInit, TypeOK, OrdersTypeOK, NoRow, Row
<1>2. TypeOK /\ [Next]_vars => TypeOK'
  <2> SUFFICES ASSUME TypeOK, [Next]_vars PROVE TypeOK'
    OBVIOUS
  <2>1. CASE UpdateStatusNext /\ UNCHANGED <<placeVars, paymentVars>>
    BY <2>1, UpdateStatusTypeOK DEF TypeOK, history, placeVars, paymentVars
  <2>2. CASE UNCHANGED vars
    BY <2>2 DEF TypeOK, OrdersTypeOK, vars, ordersVars, history, placeVars, paymentVars
  <2>3. QED
    BY <2>1, <2>2, PlaceOrderTypeOK, PaymentTypeOK DEF Next
<1>3. QED
  BY <1>1, <1>2, PTL DEF Spec

-----------------------------------------------------------------------------
(* An online order reaches the kitchen only when it is paid for.           *)

\* An order whose placeOrder has not inserted it yet has no row.
FreshOrdersHaveNoRow ==
  \A o \in Order : placing[o] \in {"idle", "reserved"} => ~Exists(o)

\* Kashier only knows of orders whose placeOrder succeeded, and a handler only
\* works on what Kashier sent.
PaymentsAreOfPlacedOrders ==
  /\ \A m \in attempts : placing[m.order] = "done"
  /\ \A h \in handling : h.msg \in attempts

\* A PATCH in flight is about an existing order, and one that will make an
\* online order live was checked when the order was live, hence paid for.
PatchesOfPaidOrders ==
  \A p \in patching :
    /\ Exists(p.order)
    /\ orders[p.order].method = "online" /\ p.rule.to \in Live => Charged(p.order)

\* The inductive invariant behind PaidBeforeKitchen.
PaidInv ==
  /\ FreshOrdersHaveNoRow
  /\ PaymentsAreOfPlacedOrders
  /\ PatchesOfPaidOrders
  /\ PaidBeforeKitchen

\* A PATCH can only be checked for a live target when the order is live, or
\* the caller would have to be the system, which resolveStatusActor never says.
LEMMA PatchesReviveNothing ==
  ASSUME NEW row, NEW caller \in Callers, NEW to, NEW reason, NEW accepted, NEW windowOver_,
         NEW actor \in ResolveStatusActor(caller, row),
         NEW rule \in AssertTransition(row.status, to, actor, reason, accepted, windowOver_),
         rule.to \in Live
  PROVE  row.status \in Live
<1>1. rule \in TRANSITIONS /\ rule.from = row.status /\ actor \in rule.actors
  BY DEF AssertTransition
<1>2. actor # "system"
  BY DEF ResolveStatusActor
<1>3. QED
  BY <1>1, <1>2, OnlySystemRevives

\* A step of updateStatus keeps PaidInv.
LEMMA UpdateStatusPaid ==
  ASSUME TypeOK, PaidInv, UpdateStatusNext, UNCHANGED <<placeVars, paymentVars>>
  PROVE  PaidInv'
<1> USE DEF PaidInv, placeVars, paymentVars
<1>0. PaymentsAreOfPlacedOrders' /\ (\A o \in Order : Charged(o)' = Charged(o))
  BY DEF PaymentsAreOfPlacedOrders, Charged
<1>1. ASSUME NEW r \in Request, NEW o \in Order, NEW caller \in Callers, NEW to \in Status,
             NEW reason \in BOOLEAN, BeginUpdateStatus(r, o, caller, to, reason)
      PROVE  PaidInv'
  <2>1. FreshOrdersHaveNoRow' /\ PaidBeforeKitchen'
    BY <1>0, <1>1 DEF BeginUpdateStatus, FreshOrdersHaveNoRow, PaidBeforeKitchen, Exists
  <2>2. PICK actor \in ResolveStatusActor(caller, orders[o]) :
        \E rule \in AssertTransition(orders[o].status, to, actor, reason,
                                     "accepted_at" \in orders[o].stamps, o \in windowOver) :
          patching' = patching \cup {[req |-> r, order |-> o, rule |-> rule]}
    BY <1>1 DEF BeginUpdateStatus
  <2>3. PICK rule \in AssertTransition(orders[o].status, to, actor, reason,
                                       "accepted_at" \in orders[o].stamps, o \in windowOver) :
          patching' = patching \cup {[req |-> r, order |-> o, rule |-> rule]}
    BY <2>2
  <2>4. rule.to \in Live => orders[o].status \in Live
    BY PatchesReviveNothing
  <2>5. orders[o].method = "online" /\ rule.to \in Live => Charged(o)
    BY <2>4 DEF PaidBeforeKitchen
  <2>6. PatchesOfPaidOrders'
    BY <1>0, <1>1, <2>3, <2>5
    DEF BeginUpdateStatus, PatchesOfPaidOrders, Exists, TypeOK, OrdersTypeOK, PatchState
  <2>7. QED
    BY <1>0, <2>1, <2>6
<1>2. ASSUME NEW p \in patching, CommitUpdateStatus(p)
      PROVE  PaidInv'
  <2>1. p.order \in Order /\ p.rule.to \in Status
    BY TransitionsType DEF TypeOK, OrdersTypeOK, PatchState
  <2>2. /\ orders'[p.order].status = p.rule.to
        /\ \A o \in Order : orders'[o].method = orders[o].method
        /\ \A o \in Order \ {p.order} : orders'[o] = orders[o]
    BY <1>2, <2>1 DEF CommitUpdateStatus, UpdateOrderStatus, TypeOK, OrdersTypeOK, Row
  <2>3. \A o \in Order : Exists(o) => Exists(o)'
    BY <2>1, <2>2 DEF Exists, Status
  <2>4. FreshOrdersHaveNoRow'
    BY <2>1, <2>2 DEF FreshOrdersHaveNoRow, PatchesOfPaidOrders, Exists
  <2>5. PaidBeforeKitchen'
    BY <1>0, <2>1, <2>2 DEF PaidBeforeKitchen, PatchesOfPaidOrders
  <2>6. PatchesOfPaidOrders'
    BY <1>0, <1>2, <2>2, <2>3
    DEF CommitUpdateStatus, PatchesOfPaidOrders, TypeOK, OrdersTypeOK, PatchState
  <2>7. QED
    BY <1>0, <2>4, <2>5, <2>6
<1>3. ASSUME NEW p \in patching, AbortUpdateStatus(p)
      PROVE  PaidInv'
  BY <1>0, <1>3 DEF AbortUpdateStatus, FreshOrdersHaveNoRow, PaidBeforeKitchen,
                    PatchesOfPaidOrders, Exists, TypeOK, OrdersTypeOK, PatchState
<1>4. ASSUME NEW o \in Order, CancelWindowCloses(o)
      PROVE  PaidInv'
  BY <1>0, <1>4 DEF CancelWindowCloses, FreshOrdersHaveNoRow, PaidBeforeKitchen,
                    PatchesOfPaidOrders, Exists, TypeOK, OrdersTypeOK, PatchState
<1>5. QED
  BY <1>1, <1>2, <1>3, <1>4 DEF UpdateStatusNext

\* A step of placeOrder keeps PaidInv.
LEMMA PlaceOrderPaid ==
  ASSUME TypeOK, PaidInv, NEW o \in Order, PlaceOrderStep(o) \/ PlaceOrderCrashes(o)
  PROVE  PaidInv'
<1> USE DEF PaidInv, Goto
<1>0. /\ attempts' = attempts /\ handling' = handling /\ charges' = charges
      /\ patching' = patching
      /\ placing[o] # "done"
      /\ placing' = [placing EXCEPT ![o] = placing'[o]]
  BY DEF PlaceOrderStep, PlaceOrderCrashes, ReserveStock, ReserveRefused, ReserveAckLost,
         BeginTransactionFails, InsertOrder, InsertOrderFails, InsertOrderAckLost, WriteOrder,
         InitOnlinePayment, InitOnlinePaymentFails, InitOnlinePaymentAckLost, VoidOrderSafe,
         VoidOrderFails, ReleaseStockSafe, ReleaseStockFails, TypeOK, ordersVars, paymentVars
<1>1. PaymentsAreOfPlacedOrders' /\ (\A q \in Order : Charged(q)' = Charged(q))
  BY <1>0 DEF PaymentsAreOfPlacedOrders, Charged, TypeOK, Attempt
<1>2. CASE orders' = orders
  <2>1. placing'[o] \in {"idle", "reserved"} => placing[o] \in {"idle", "reserved"}
    BY DEF PlaceOrderStep, PlaceOrderCrashes, ReserveStock, ReserveRefused, ReserveAckLost,
           BeginTransactionFails, InsertOrder, InsertOrderFails, InsertOrderAckLost,
           InitOnlinePayment, InitOnlinePaymentFails, InitOnlinePaymentAckLost, VoidOrderSafe,
           VoidOrderFails, ReleaseStockSafe, ReleaseStockFails, TypeOK
  <2>2. QED
    BY <1>0, <1>1, <1>2, <2>1
    DEF FreshOrdersHaveNoRow, PaidBeforeKitchen, PatchesOfPaidOrders, Exists, TypeOK,
        OrdersTypeOK, PatchState
<1>3. ASSUME NEW method \in PaymentMethod,
             InsertOrder(o, method) \/ InsertOrderAckLost(o, method)
      PROVE  PaidInv'
  <2>1. /\ ~Exists(o)
        /\ placing'[o] \notin {"idle", "reserved"}
    BY <1>3 DEF InsertOrder, InsertOrderAckLost, FreshOrdersHaveNoRow, TypeOK
  <2>2. /\ orders'[o].method = "online" => orders'[o].status \notin Live
        /\ \A q \in Order \ {o} : orders'[q] = orders[q]
    <3>1. orders' = CreateOrder(o, IF method = "online" THEN "pending_payment" ELSE "placed",
                                method)
      BY <1>3 DEF InsertOrder, InsertOrderAckLost, WriteOrder
    <3>2. /\ orders'[o].method = method
          /\ orders'[o].status = IF method = "online" THEN "pending_payment" ELSE "placed"
          /\ \A q \in Order \ {o} : orders'[q] = orders[q]
      BY <3>1 DEF CreateOrder, NoRow, TypeOK, OrdersTypeOK
    <3>3. QED
      BY <3>2 DEF Live
  <2>3. \A p \in patching : p.order \in Order \ {o}
    BY <2>1 DEF PatchesOfPaidOrders, TypeOK, OrdersTypeOK, PatchState
  <2>4. FreshOrdersHaveNoRow'
    BY <1>0, <2>1, <2>2 DEF FreshOrdersHaveNoRow, Exists, TypeOK
  <2>5. PaidBeforeKitchen'
    BY <1>1, <2>2 DEF PaidBeforeKitchen
  <2>6. PatchesOfPaidOrders'
    BY <1>0, <1>1, <2>2, <2>3 DEF PatchesOfPaidOrders, Exists
  <2>7. QED
    BY <1>1, <2>4, <2>5, <2>6
<1>4. CASE VoidOrderSafe(o)
  <2>1. /\ orders'[o].status = "cancelled"
        /\ \A q \in Order : orders'[q].method = orders[q].method
        /\ \A q \in Order \ {o} : orders'[q] = orders[q]
        /\ placing'[o] \notin {"idle", "reserved"}
    BY <1>4 DEF VoidOrderSafe, UpdateOrderStatus, TypeOK, OrdersTypeOK, Row
  <2>2. FreshOrdersHaveNoRow'
    BY <1>0, <2>1 DEF FreshOrdersHaveNoRow, Exists, TypeOK
  <2>3. PaidBeforeKitchen'
    BY <1>1, <2>1 DEF PaidBeforeKitchen, Live
  <2>4. \A q \in Order : Exists(q) => Exists(q)'
    BY <2>1 DEF Exists
  <2>5. PatchesOfPaidOrders'
    BY <1>0, <1>1, <2>1, <2>4 DEF PatchesOfPaidOrders, TypeOK, OrdersTypeOK, PatchState
  <2>6. QED
    BY <1>1, <2>2, <2>3, <2>5
<1>5. QED
  BY <1>2, <1>3, <1>4
  DEF PlaceOrderStep, PlaceOrderCrashes, ReserveStock, ReserveRefused, ReserveAckLost,
      BeginTransactionFails, InsertOrderFails, InitOnlinePayment, InitOnlinePaymentFails,
      InitOnlinePaymentAckLost, VoidOrderFails, ReleaseStockSafe, ReleaseStockFails, ordersVars

\* A step of a payment, a webhook or its handler keeps PaidInv.
LEMMA PaymentPaid ==
  ASSUME TypeOK, PaidInv,
         \/ \E t \in Txn, o \in Order, outcome \in Outcome : CustomerPays(t, o, outcome)
         \/ \E m \in attempts : DeliverWebhook(m)
         \/ \E h \in handling : WebhookStep(h) \/ WebhookFails(h) \/ WebhookCrashes(h)
  PROVE  PaidInv'
<1> USE DEF PaidInv
<1>0. placing' = placing /\ patching' = patching
  BY DEF CustomerPays, DeliverWebhook, RecordWebhook, SkipDuplicate, WebhookStep, ReadOrder,
         ReadSession, IgnoreWebhook, CaptureSession, FailSession, MarkProcessed, WebhookFails,
         WebhookCrashes, placeVars, ordersVars
<1>1. PaymentsAreOfPlacedOrders'
  <2>1. ASSUME NEW t \in Txn, NEW o \in Order, NEW outcome \in Outcome,
               CustomerPays(t, o, outcome)
        PROVE  PaymentsAreOfPlacedOrders'
    BY <1>0, <2>1 DEF CustomerPays, PaymentsAreOfPlacedOrders
  <2>2. ASSUME NEW m \in attempts, DeliverWebhook(m)
        PROVE  PaymentsAreOfPlacedOrders'
    BY <1>0, <2>2 DEF DeliverWebhook, RecordWebhook, SkipDuplicate, PaymentsAreOfPlacedOrders
  <2>3. ASSUME NEW h \in handling, WebhookStep(h) \/ WebhookFails(h) \/ WebhookCrashes(h)
        PROVE  PaymentsAreOfPlacedOrders'
    <3>1. attempts' = attempts
      BY <2>3 DEF WebhookStep, ReadOrder, ReadSession, IgnoreWebhook, CaptureSession,
                  FailSession, MarkProcessed, WebhookFails, WebhookCrashes
    <3>2. h \in Handler
      BY DEF TypeOK
    <3>3. CASE MarkProcessed(h) \/ WebhookFails(h) \/ WebhookCrashes(h)
      BY <1>0, <3>1, <3>3 DEF MarkProcessed, WebhookFails, WebhookCrashes,
                              PaymentsAreOfPlacedOrders
    <3>4. CASE ReadOrder(h)
      BY <1>0, <3>1, <3>2, <3>4 DEF ReadOrder, Advance, Handler, PaymentsAreOfPlacedOrders
    <3>5. CASE ReadSession(h)
      BY <1>0, <3>1, <3>2, <3>5 DEF ReadSession, Advance, Handler, PaymentsAreOfPlacedOrders
    <3>6. CASE IgnoreWebhook(h)
      BY <1>0, <3>1, <3>2, <3>6 DEF IgnoreWebhook, Advance, Handler, PaymentsAreOfPlacedOrders
    <3>7. CASE CaptureSession(h)
      BY <1>0, <3>1, <3>2, <3>7 DEF CaptureSession, Advance, Handler, PaymentsAreOfPlacedOrders
    <3>8. CASE FailSession(h)
      BY <1>0, <3>1, <3>2, <3>8 DEF FailSession, Advance, Handler, PaymentsAreOfPlacedOrders
    <3>9. QED
      BY <2>3, <3>3, <3>4, <3>5, <3>6, <3>7, <3>8 DEF WebhookStep
  <2>4. QED
    BY <2>1, <2>2, <2>3
<1>2. \A q \in Order : Charged(q) => Charged(q)'
  BY DEF CustomerPays, DeliverWebhook, RecordWebhook, SkipDuplicate, WebhookStep, ReadOrder,
         ReadSession, IgnoreWebhook, CaptureSession, FailSession, MarkProcessed, WebhookFails,
         WebhookCrashes, CreateCharge, Charged
<1>3. CASE orders' = orders
  BY <1>0, <1>1, <1>2, <1>3
  DEF FreshOrdersHaveNoRow, PaidBeforeKitchen, PatchesOfPaidOrders, Exists, TypeOK,
      OrdersTypeOK, PatchState
<1>4. ASSUME NEW h \in handling, CaptureSession(h)
      PROVE  PaidInv'
  <2> DEFINE o == h.msg.order
  <2>1. o \in Order /\ placing[o] = "done"
    BY DEF TypeOK, Handler, Attempt, PaymentsAreOfPlacedOrders
  <2>2. Charged(o)'
    <3> DEFINE row == [key |-> h.msg.id, order |-> o, status |-> "succeeded"]
    <3>1. row \in charges'
      BY <1>4 DEF CaptureSession, CreateCharge
    <3>2. row.order = o /\ row.status = "succeeded"
      OBVIOUS
    <3> HIDE DEF row
    <3>3. QED
      BY <3>1, <3>2 DEF Charged
  <2>3. /\ \A q \in Order : orders'[q].method = orders[q].method
        /\ \A q \in Order \ {o} : orders'[q] = orders[q]
        /\ orders'[o].status \in {orders[o].status, "placed"}
    BY <1>4, <2>1 DEF CaptureSession, UpdateOrderStatus, TypeOK, OrdersTypeOK, Row
  <2> HIDE DEF o
  <2>4. \A q \in Order : Exists(q) => Exists(q)'
    BY <2>1, <2>3 DEF Exists
  <2>5. FreshOrdersHaveNoRow'
    BY <1>0, <2>1, <2>3 DEF FreshOrdersHaveNoRow, Exists
  <2>6. PaidBeforeKitchen'
    BY <1>2, <2>1, <2>2, <2>3 DEF PaidBeforeKitchen
  <2>7. PatchesOfPaidOrders'
    BY <1>0, <1>2, <2>3, <2>4 DEF PatchesOfPaidOrders, TypeOK, OrdersTypeOK, PatchState
  <2>8. QED
    BY <1>1, <2>5, <2>6, <2>7
<1>5. QED
  BY <1>3, <1>4
  DEF CustomerPays, DeliverWebhook, RecordWebhook, SkipDuplicate, WebhookStep, ReadOrder,
      ReadSession, IgnoreWebhook, FailSession, MarkProcessed, WebhookFails, WebhookCrashes,
      ordersVars

\* PaidInv is an invariant of the specification.
LEMMA PaidInvariant == Spec => []PaidInv
<1>1. Init => PaidInv
  BY DEF Init, OrdersInit, PaidInv, FreshOrdersHaveNoRow, PaymentsAreOfPlacedOrders,
         PatchesOfPaidOrders, PaidBeforeKitchen, Exists, NoRow, Live, Status
<1>2. TypeOK /\ PaidInv /\ [Next]_vars => PaidInv'
  <2> SUFFICES ASSUME TypeOK, PaidInv, [Next]_vars PROVE PaidInv'
    OBVIOUS
  <2>1. CASE UNCHANGED vars
    BY <2>1 DEF PaidInv, FreshOrdersHaveNoRow, PaymentsAreOfPlacedOrders, PatchesOfPaidOrders,
                PaidBeforeKitchen, Charged, Exists, vars, ordersVars, placeVars, paymentVars
  <2>2. QED
    BY <2>1, UpdateStatusPaid, PlaceOrderPaid, PaymentPaid DEF Next
<1>3. QED
  BY <1>1, <1>2, TypeCorrect, PTL DEF Spec

\* PaidBeforeKitchen holds for any number of orders, PATCH requests, payment
\* attempts and faults: the charge is committed with the step to placed, and
\* every later live status was reached from a live one.
THEOREM OnlineOrdersArePaid == Spec => []PaidBeforeKitchen
<1>1. PaidInv => PaidBeforeKitchen
  BY DEF PaidInv
<1>2. QED
  BY <1>1, PaidInvariant, PTL

-----------------------------------------------------------------------------
(* A live order keeps its stock, unless its commit was taken to have failed.*)

\* Until it compensates, placeOrder holds the stock it reserved.
StockHeldUntilCompensation ==
  \A o \in Order : placing[o] \in {"reserved", "paying", "done"} => stock[o] = "reserved"

\* Only an order whose placeOrder succeeded is live, or made live by a PATCH,
\* or one whose placeOrder took its commit to have failed.
LiveOrdersAreDone ==
  /\ \A o \in Order : orders[o].status \in Live => placing[o] = "done" \/ o \in unsure
  /\ \A p \in patching :
       p.rule.to \in Live => placing[p.order] = "done" \/ p.order \in unsure

\* With PaidInv, the inductive invariant behind LiveOrderHoldsStock.
StockInv == StockHeldUntilCompensation /\ LiveOrdersAreDone

\* A step of updateStatus keeps StockInv.
LEMMA UpdateStatusStock ==
  ASSUME TypeOK, StockInv, UpdateStatusNext, UNCHANGED <<placeVars, paymentVars>>
  PROVE  StockInv'
<1> USE DEF StockInv, placeVars, history
<1>0. StockHeldUntilCompensation'
  BY DEF StockHeldUntilCompensation
<1>1. ASSUME NEW r \in Request, NEW o \in Order, NEW caller \in Callers, NEW to \in Status,
             NEW reason \in BOOLEAN, BeginUpdateStatus(r, o, caller, to, reason)
      PROVE  StockInv'
  <2>1. PICK actor \in ResolveStatusActor(caller, orders[o]) :
        \E rule \in AssertTransition(orders[o].status, to, actor, reason,
                                     "accepted_at" \in orders[o].stamps, o \in windowOver) :
          patching' = patching \cup {[req |-> r, order |-> o, rule |-> rule]}
    BY <1>1 DEF BeginUpdateStatus
  <2>2. PICK rule \in AssertTransition(orders[o].status, to, actor, reason,
                                       "accepted_at" \in orders[o].stamps, o \in windowOver) :
          patching' = patching \cup {[req |-> r, order |-> o, rule |-> rule]}
    BY <2>1
  <2>3. rule.to \in Live => orders[o].status \in Live
    BY PatchesReviveNothing
  <2>4. QED
    BY <1>0, <1>1, <2>2, <2>3 DEF BeginUpdateStatus, LiveOrdersAreDone
<1>2. ASSUME NEW p \in patching, CommitUpdateStatus(p)
      PROVE  StockInv'
  <2>1. p.order \in Order
    BY DEF TypeOK, OrdersTypeOK, PatchState
  <2>2. /\ orders'[p.order].status = p.rule.to
        /\ \A o \in Order \ {p.order} : orders'[o] = orders[o]
    BY <1>2, <2>1 DEF CommitUpdateStatus, UpdateOrderStatus, TypeOK, OrdersTypeOK, Row
  <2>3. QED
    BY <1>0, <1>2, <2>1, <2>2 DEF CommitUpdateStatus, LiveOrdersAreDone
<1>3. ASSUME NEW p \in patching, AbortUpdateStatus(p)
      PROVE  StockInv'
  BY <1>0, <1>3 DEF AbortUpdateStatus, LiveOrdersAreDone
<1>4. ASSUME NEW o \in Order, CancelWindowCloses(o)
      PROVE  StockInv'
  BY <1>0, <1>4 DEF CancelWindowCloses, LiveOrdersAreDone
<1>5. QED
  BY <1>1, <1>2, <1>3, <1>4 DEF UpdateStatusNext

\* A step of placeOrder keeps StockInv: a lost commit makes its order unsure.
LEMMA PlaceOrderStock ==
  ASSUME TypeOK, PaidInv, StockInv,
         NEW o \in Order, PlaceOrderStep(o) \/ PlaceOrderCrashes(o)
  PROVE  StockInv'
<1> USE DEF StockInv, Goto, Mishap, history
<1>1. /\ patching' = patching
      /\ \A q \in Order \ {o} : placing'[q] = placing[q] /\ stock'[q] = stock[q]
      /\ placing[o] # "done"
      /\ unsure \subseteq unsure' /\ unsure' \subseteq unsure \cup {o}
  BY DEF PlaceOrderStep, PlaceOrderCrashes, ReserveStock, ReserveRefused, ReserveAckLost,
         BeginTransactionFails, InsertOrder, InsertOrderFails, InsertOrderAckLost, WriteOrder,
         InitOnlinePayment, InitOnlinePaymentFails, InitOnlinePaymentAckLost, VoidOrderSafe,
         VoidOrderFails, ReleaseStockSafe, ReleaseStockFails, TypeOK, ordersVars
<1>2. placing'[o] \in {"reserved", "paying", "done"} => stock'[o] = "reserved"
  BY DEF PlaceOrderStep, PlaceOrderCrashes, ReserveStock, ReserveRefused, ReserveAckLost,
         BeginTransactionFails, InsertOrder, InsertOrderFails, InsertOrderAckLost,
         InitOnlinePayment, InitOnlinePaymentFails, InitOnlinePaymentAckLost, VoidOrderSafe,
         VoidOrderFails, ReleaseStockSafe, ReleaseStockFails, TypeOK,
         StockHeldUntilCompensation
<1>3. StockHeldUntilCompensation'
  BY <1>1, <1>2 DEF StockHeldUntilCompensation
<1>4. o \in unsure \/ (/\ orders[o].status \notin Live
                       /\ \A p \in patching : p.order = o => p.rule.to \notin Live)
  BY <1>1 DEF LiveOrdersAreDone
<1>5. orders'[o].status \in Live => placing'[o] = "done" \/ o \in unsure'
  <2>1. CASE orders' = orders
    BY <1>1, <1>4, <2>1
  <2>2. ASSUME NEW method \in PaymentMethod, InsertOrder(o, method)
        PROVE  orders'[o].status \in Live => placing'[o] = "done"
    <3>1. orders'[o].status = IF method = "online" THEN "pending_payment" ELSE "placed"
      BY <2>2 DEF InsertOrder, WriteOrder, CreateOrder, NoRow, TypeOK, OrdersTypeOK
    <3>2. QED
      BY <2>2, <3>1 DEF InsertOrder, TypeOK, Live
  <2>3. CASE VoidOrderSafe(o)
    BY <2>3 DEF VoidOrderSafe, UpdateOrderStatus, TypeOK, OrdersTypeOK, Row, Live
  <2>4. ASSUME NEW method \in PaymentMethod, InsertOrderAckLost(o, method)
        PROVE  o \in unsure'
    BY <2>4 DEF InsertOrderAckLost
  <2>5. QED
    BY <2>1, <2>2, <2>3, <2>4
    DEF PlaceOrderStep, PlaceOrderCrashes, ReserveStock, ReserveRefused, ReserveAckLost,
        BeginTransactionFails, InsertOrderFails, InitOnlinePayment,
        InitOnlinePaymentFails, InitOnlinePaymentAckLost, VoidOrderFails, ReleaseStockSafe,
        ReleaseStockFails, ordersVars
<1>6. \A q \in Order \ {o} : orders'[q] = orders[q]
  BY DEF PlaceOrderStep, PlaceOrderCrashes, ReserveStock, ReserveRefused, ReserveAckLost,
         BeginTransactionFails, InsertOrder, InsertOrderFails, InsertOrderAckLost, WriteOrder,
         CreateOrder, InitOnlinePayment, InitOnlinePaymentFails, InitOnlinePaymentAckLost,
         VoidOrderSafe, UpdateOrderStatus, VoidOrderFails, ReleaseStockSafe,
         ReleaseStockFails, TypeOK, OrdersTypeOK, ordersVars
<1>7. QED
  BY <1>1, <1>3, <1>4, <1>5, <1>6 DEF LiveOrdersAreDone, TypeOK, OrdersTypeOK, PatchState

\* A step of a payment, a webhook or its handler keeps StockInv: it makes an
\* order live only if the customer could pay, so after placeOrder succeeded.
LEMMA PaymentStock ==
  ASSUME TypeOK, PaidInv, StockInv,
         \/ \E t \in Txn, o \in Order, outcome \in Outcome : CustomerPays(t, o, outcome)
         \/ \E m \in attempts : DeliverWebhook(m)
         \/ \E h \in handling : WebhookStep(h) \/ WebhookFails(h) \/ WebhookCrashes(h)
  PROVE  StockInv'
<1> USE DEF StockInv
<1>1. UNCHANGED <<placing, stock, unsure, patching>>
  BY DEF CustomerPays, DeliverWebhook, RecordWebhook, SkipDuplicate, WebhookStep, ReadOrder,
         ReadSession, IgnoreWebhook, CaptureSession, FailSession, MarkProcessed, WebhookFails,
         WebhookCrashes, placeVars, ordersVars, history
<1>2. CASE orders' = orders
  BY <1>1, <1>2 DEF StockHeldUntilCompensation, LiveOrdersAreDone
<1>3. ASSUME NEW h \in handling, CaptureSession(h)
      PROVE  StockInv'
  <2>1. h.msg.order \in Order /\ placing[h.msg.order] = "done"
    BY DEF TypeOK, Handler, Attempt, PaidInv, PaymentsAreOfPlacedOrders
  <2>2. \A q \in Order \ {h.msg.order} : orders'[q] = orders[q]
    BY <1>3, <2>1 DEF CaptureSession, UpdateOrderStatus, TypeOK, OrdersTypeOK
  <2>3. QED
    BY <1>1, <2>1, <2>2 DEF StockHeldUntilCompensation, LiveOrdersAreDone
<1>4. QED
  BY <1>2, <1>3
  DEF CustomerPays, DeliverWebhook, RecordWebhook, SkipDuplicate, WebhookStep, ReadOrder,
      ReadSession, IgnoreWebhook, FailSession, MarkProcessed, WebhookFails, WebhookCrashes,
      ordersVars

\* LiveOrderHoldsStock holds for any number of orders, requests and attempts,
\* under every fault.
THEOREM LiveOrdersHoldStock == Spec => []LiveOrderHoldsStock
<1>1. Init => StockInv
  BY DEF Init, OrdersInit, StockInv, StockHeldUntilCompensation, LiveOrdersAreDone, NoRow,
         Live, Status
<1>2. TypeOK /\ PaidInv /\ StockInv /\ [Next]_vars => StockInv'
  <2> SUFFICES ASSUME TypeOK, PaidInv, StockInv, [Next]_vars PROVE StockInv'
    OBVIOUS
  <2>1. CASE UNCHANGED vars
    BY <2>1 DEF StockInv, StockHeldUntilCompensation, LiveOrdersAreDone, vars, ordersVars,
                placeVars, history
  <2>2. QED
    BY <2>1, UpdateStatusStock, PlaceOrderStock, PaymentStock DEF Next
<1>3. StockInv => LiveOrderHoldsStock
  BY DEF StockInv, StockHeldUntilCompensation, LiveOrdersAreDone, LiveOrderHoldsStock
<1>4. QED
  BY <1>1, <1>2, <1>3, TypeCorrect, PaidInvariant, PTL DEF Spec
=============================================================================

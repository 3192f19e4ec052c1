----------------------- MODULE CheckoutOutcomeProofs -----------------------
(***************************************************************************)
(* What a checkout leaves behind: nothing when it failed, a ledger row when*)
(* it was paid, and order.placed told once and before any decision of the  *)
(* restaurant.  Last, that all of it together implements the abstract sale.*)
(* The theorems hold for every set of orders, requests and attempts, and   *)
(* under every fault.                                                      *)
(***************************************************************************)
EXTENDS CheckoutProofs, FiniteSetTheorems, SequenceTheorems

-----------------------------------------------------------------------------
(* updateStatus as the other handlers meet it.                             *)

\* A new PATCH in flight carries a rule that leads from the status the order
\* has now and that somebody else than the system may apply.
LEMMA PatchesBeginWhereOrdersStand ==
  ASSUME NEW r \in Request, NEW o \in Order, NEW caller \in Callers, NEW to \in Status,
         NEW reason \in BOOLEAN, BeginUpdateStatus(r, o, caller, to, reason)
  PROVE  \E rule \in TRANSITIONS :
           /\ rule.from = orders[o].status
           /\ rule.actors # {"system"}
           /\ patching' = patching \cup {[req |-> r, order |-> o, rule |-> rule]}
<1>1. PICK actor \in ResolveStatusActor(caller, orders[o]) :
      \E rule \in AssertTransition(orders[o].status, to, actor, reason,
                                   "accepted_at" \in orders[o].stamps, o \in windowOver) :
        patching' = patching \cup {[req |-> r, order |-> o, rule |-> rule]}
  BY DEF BeginUpdateStatus
<1>2. PICK rule \in AssertTransition(orders[o].status, to, actor, reason,
                                     "accepted_at" \in orders[o].stamps, o \in windowOver) :
        patching' = patching \cup {[req |-> r, order |-> o, rule |-> rule]}
  BY <1>1
<1>3. rule \in TRANSITIONS /\ rule.from = orders[o].status /\ actor \in rule.actors
  BY DEF AssertTransition
<1>4. actor # "system"
  BY DEF ResolveStatusActor
<1>5. QED
  BY <1>2, <1>3, <1>4

\* The commit of a PATCH writes the status of its rule and touches no other order.
LEMMA PatchesWriteTheirRule ==
  ASSUME TypeOK, NEW p \in patching, CommitUpdateStatus(p)
  PROVE  /\ p.order \in Order /\ p.rule \in TRANSITIONS /\ p.rule.to \in Status
         /\ orders'[p.order].status = p.rule.to
         /\ \A o \in Order : orders'[o].method = orders[o].method
         /\ \A o \in Order \ {p.order} : orders'[o] = orders[o]
         /\ patching' = patching \ {p}
<1>1. p.order \in Order /\ p.rule \in TRANSITIONS
  BY DEF TypeOK, OrdersTypeOK, PatchState
<1>2. p.rule.to \in Status
  BY <1>1, TransitionsType
<1>3. QED
  BY <1>1, <1>2 DEF CommitUpdateStatus, UpdateOrderStatus, TypeOK, OrdersTypeOK, Row

\* What the transaction of placeOrder writes: a row that waits for its payment
\* or is placed, and nothing about any other order.
LEMMA InsertedOrders ==
  ASSUME TypeOK, NEW o \in Order, NEW method \in PaymentMethod, WriteOrder(o, method)
  PROVE  /\ orders'[o].status = IF method = "online" THEN "pending_payment" ELSE "placed"
         /\ orders'[o].method = method
         /\ \A q \in Order \ {o} : orders'[q] = orders[q]
BY DEF WriteOrder, CreateOrder, NoRow, TypeOK, OrdersTypeOK

\* The void of placeOrder cancels its own order.
LEMMA VoidedOrders ==
  ASSUME TypeOK, NEW o \in Order, VoidOrderSafe(o)
  PROVE  /\ orders'[o].status = "cancelled"
         /\ \A q \in Order : orders'[q].method = orders[q].method
         /\ \A q \in Order \ {o} : orders'[q] = orders[q]
BY DEF VoidOrderSafe, UpdateOrderStatus, TypeOK, OrdersTypeOK, Row

\* Only CaptureSession changes the orders table on the payment side, and only
\* the order it is about, which placeOrder has finished with.
LEMMA CapturedOrders ==
  ASSUME TypeOK, PaidInv, NEW h \in handling, CaptureSession(h)
  PROVE  /\ h.msg \in attempts /\ h.msg.order \in Order /\ placing[h.msg.order] = "done"
         /\ orders'[h.msg.order].status =
              IF h.seen = "pending_payment" THEN "placed" ELSE orders[h.msg.order].status
         /\ \A q \in Order : orders'[q].method = orders[q].method
         /\ \A q \in Order \ {h.msg.order} : orders'[q] = orders[q]
<1>1. h.msg \in attempts /\ h.msg.order \in Order /\ placing[h.msg.order] = "done"
  BY DEF TypeOK, Handler, Attempt, PaidInv, PaymentsAreOfPlacedOrders
<1>2. QED
  BY <1>1 DEF CaptureSession, UpdateOrderStatus, TypeOK, OrdersTypeOK, Row

-----------------------------------------------------------------------------
(* A failed checkout leaves nothing.                                       *)

\* Stock is reserved by a placeOrder at work or done with, mishaps aside.
FailedOrdersHoldNoStock ==
  /\ \A o \in Order : placing[o] = "idle" => stock[o] = "none"
  /\ \A o \in Order \ mishaps : placing[o] = "failed" => stock[o] # "reserved"

\* Until placeOrder succeeds, an order can only wait for its payment or be
\* cancelled; nobody has a rule that would take it anywhere else.
UnfinishedOrdersAreUndone ==
  /\ \A o \in Order \ mishaps : placing[o] # "done" =>
       orders[o].status \in {"none", "pending_payment", "cancelled"}
  /\ \A o \in Order \ mishaps : placing[o] \in {"releasing", "failed"} =>
       orders[o].status # "pending_payment"
  /\ \A p \in patching :
       placing[p.order] # "done" /\ p.order \notin mishaps => p.rule.to = "cancelled"

\* With PaidInv, the inductive invariant behind FailedCheckoutLeavesNothing.
UndoInv == FailedOrdersHoldNoStock /\ UnfinishedOrdersAreUndone

\* Nobody but the system takes an order out of pending_payment other than by
\* cancelling it, and a cancelled order goes nowhere.
LEMMA WaitingOrdersAreOnlyCancelled ==
  \A rule \in TRANSITIONS :
    /\ rule.from \in {"none", "pending_payment", "cancelled"}
    /\ rule.actors # {"system"}
    => rule.to = "cancelled"
BY DEF TRANSITIONS, Rule, ReasonedRule

\* A step of updateStatus keeps UndoInv.
LEMMA UpdateStatusUndo ==
  ASSUME TypeOK, UndoInv, UpdateStatusNext, UNCHANGED <<placeVars, paymentVars>>
  PROVE  UndoInv'
<1> USE DEF UndoInv, placeVars, history
<1>0. FailedOrdersHoldNoStock'
  BY DEF FailedOrdersHoldNoStock
<1>1. ASSUME NEW r \in Request, NEW o \in Order, NEW caller \in Callers, NEW to \in Status,
             NEW reason \in BOOLEAN, BeginUpdateStatus(r, o, caller, to, reason)
      PROVE  UndoInv'
  <2>1. PICK rule \in TRANSITIONS :
          /\ rule.from = orders[o].status
          /\ rule.actors # {"system"}
          /\ patching' = patching \cup {[req |-> r, order |-> o, rule |-> rule]}
    BY <1>1, PatchesBeginWhereOrdersStand
  <2>2. placing[o] # "done" /\ o \notin mishaps => rule.to = "cancelled"
    BY <2>1, WaitingOrdersAreOnlyCancelled DEF UnfinishedOrdersAreUndone
  <2>3. QED
    BY <1>0, <1>1, <2>1, <2>2 DEF BeginUpdateStatus, UnfinishedOrdersAreUndone
<1>2. ASSUME NEW p \in patching, CommitUpdateStatus(p)
      PROVE  UndoInv'
  BY <1>0, <1>2, PatchesWriteTheirRule DEF UnfinishedOrdersAreUndone
<1>3. ASSUME NEW p \in patching, AbortUpdateStatus(p)
      PROVE  UndoInv'
  BY <1>0, <1>3 DEF AbortUpdateStatus, UnfinishedOrdersAreUndone
<1>4. ASSUME NEW o \in Order, CancelWindowCloses(o)
      PROVE  UndoInv'
  BY <1>0, <1>4 DEF CancelWindowCloses, UnfinishedOrdersAreUndone
<1>5. QED
  BY <1>1, <1>2, <1>3, <1>4 DEF UpdateStatusNext

\* What a step of placeOrder leaves alone.
LEMMA PlaceOrderFrame ==
  ASSUME TypeOK, NEW o \in Order, PlaceOrderStep(o) \/ PlaceOrderCrashes(o)
  PROVE  /\ patching' = patching
         /\ \A q \in Order \ {o} : /\ placing'[q] = placing[q] /\ stock'[q] = stock[q]
                                   /\ orders'[q] = orders[q]
         /\ placing[o] # "done" /\ placing'[o] # "idle"
         /\ mishaps' \in {mishaps, mishaps \cup {o}}
<1> USE DEF Goto, Mishap, history
<1>1. /\ patching' = patching
      /\ \A q \in Order \ {o} : placing'[q] = placing[q] /\ stock'[q] = stock[q]
      /\ placing[o] # "done"
      /\ placing'[o] # "idle"
      /\ mishaps' \in {mishaps, mishaps \cup {o}}
  BY DEF PlaceOrderStep, PlaceOrderCrashes, ReserveStock, ReserveRefused, ReserveAckLost,
         BeginTransactionFails, InsertOrder, InsertOrderFails, InsertOrderAckLost, WriteOrder,
         InitOnlinePayment, InitOnlinePaymentFails, InitOnlinePaymentAckLost, VoidOrderSafe,
         VoidOrderFails, ReleaseStockSafe, ReleaseStockFails, TypeOK, ordersVars
<1>2. \A q \in Order \ {o} : orders'[q] = orders[q]
  <2>1. CASE \E method \in PaymentMethod : InsertOrder(o, method) \/ InsertOrderAckLost(o, method)
    BY <2>1, InsertedOrders DEF InsertOrder, InsertOrderAckLost
  <2>2. CASE VoidOrderSafe(o)
    BY <2>2, VoidedOrders
  <2>3. QED
    BY <2>1, <2>2
    DEF PlaceOrderStep, PlaceOrderCrashes, ReserveStock, ReserveRefused, ReserveAckLost,
        BeginTransactionFails, InsertOrderFails, InitOnlinePayment, InitOnlinePaymentFails,
        InitOnlinePaymentAckLost, VoidOrderFails, ReleaseStockSafe, ReleaseStockFails, ordersVars
<1>3. QED
  BY <1>1, <1>2

\* A mishap of placeOrder concerns no order but its own.
LEMMA MishapUndo ==
  ASSUME TypeOK, UndoInv, NEW o \in Order, PlaceOrderStep(o) \/ PlaceOrderCrashes(o),
         o \in mishaps'
  PROVE  UndoInv'
<1> USE DEF UndoInv
<1>1. \A q \in Order \ mishaps' : q # o /\ q \notin mishaps
  BY PlaceOrderFrame
<1>2. FailedOrdersHoldNoStock'
  BY <1>1, PlaceOrderFrame DEF FailedOrdersHoldNoStock
<1>3. UnfinishedOrdersAreUndone'
  <2>1. \A p \in patching : p.order \in Order
    BY DEF TypeOK, OrdersTypeOK, PatchState
  <2>2. QED
    BY <1>1, <2>1, PlaceOrderFrame DEF UnfinishedOrdersAreUndone
<1>4. QED
  BY <1>2, <1>3

\* A step of placeOrder without mishap keeps UndoInv: a failure goes through the
\* void and the release.
LEMMA PlaceOrderUndo ==
  ASSUME TypeOK, PaidInv, UndoInv,
         NEW o \in Order, PlaceOrderStep(o) \/ PlaceOrderCrashes(o), o \notin mishaps'
  PROVE  UndoInv'
<1> USE DEF UndoInv, Goto, Mishap, history
<1>1. /\ patching' = patching
      /\ \A q \in Order \ {o} : placing'[q] = placing[q] /\ stock'[q] = stock[q]
      /\ placing[o] # "done"
      /\ placing'[o] # "idle"
      /\ mishaps' = mishaps
  BY DEF PlaceOrderStep, PlaceOrderCrashes, ReserveStock, ReserveRefused, ReserveAckLost,
         BeginTransactionFails, InsertOrder, InsertOrderFails, InsertOrderAckLost, WriteOrder,
         InitOnlinePayment, InitOnlinePaymentFails, InitOnlinePaymentAckLost, VoidOrderSafe,
         VoidOrderFails, ReleaseStockSafe, ReleaseStockFails, TypeOK, ordersVars
<1>2. placing'[o] = "failed" => stock'[o] # "reserved"
  BY DEF PlaceOrderStep, PlaceOrderCrashes, ReserveStock, ReserveRefused, ReserveAckLost,
         BeginTransactionFails, InsertOrder, InsertOrderFails, InsertOrderAckLost,
         InitOnlinePayment, InitOnlinePaymentFails, InitOnlinePaymentAckLost, VoidOrderSafe,
         VoidOrderFails, ReleaseStockSafe, ReleaseStockFails, TypeOK,
         FailedOrdersHoldNoStock
<1>3. FailedOrdersHoldNoStock'
  BY <1>1, <1>2 DEF FailedOrdersHoldNoStock
<1>4. /\ o \notin mishaps
      /\ orders[o].status \in {"none", "pending_payment", "cancelled"}
      /\ \A p \in patching : p.order = o => p.rule.to = "cancelled"
  BY <1>1 DEF UnfinishedOrdersAreUndone
<1>5. ASSUME orders' = orders, ~VoidOrderSafe(o)
      PROVE  /\ orders'[o].status \in {"none", "pending_payment", "cancelled"}
             /\ placing'[o] \in {"releasing", "failed"} =>
                  orders'[o].status # "pending_payment"
  <2>1. placing'[o] \in {"releasing", "failed"} => orders[o].status # "pending_payment"
    <3>1. placing[o] \in {"idle", "reserved"} => orders[o].status = "none"
      BY DEF PaidInv, FreshOrdersHaveNoRow, Exists
    <3>2. placing[o] \in {"releasing", "failed"} => orders[o].status # "pending_payment"
      BY <1>4 DEF UnfinishedOrdersAreUndone
    <3>3. placing'[o] \in {"releasing", "failed"}
            => placing[o] \in {"idle", "reserved", "releasing", "failed"}
      BY <1>5
      DEF PlaceOrderStep, PlaceOrderCrashes, ReserveStock, ReserveRefused, ReserveAckLost,
          BeginTransactionFails, InsertOrder, InsertOrderFails, InsertOrderAckLost,
          InitOnlinePayment, InitOnlinePaymentFails, InitOnlinePaymentAckLost,
          VoidOrderFails, ReleaseStockSafe, ReleaseStockFails, TypeOK
    <3>4. QED
      BY <3>1, <3>2, <3>3
  <2>2. QED
    BY <1>4, <1>5, <2>1
<1>6. ASSUME NEW method \in PaymentMethod, InsertOrder(o, method)
      PROVE  /\ placing'[o] # "done" => orders'[o].status = "pending_payment"
             /\ placing'[o] \notin {"releasing", "failed"}
             /\ \A q \in Order \ {o} : orders'[q] = orders[q]
  <2>1. /\ orders'[o].status = IF method = "online" THEN "pending_payment" ELSE "placed"
        /\ \A q \in Order \ {o} : orders'[q] = orders[q]
    BY <1>6, InsertedOrders DEF InsertOrder
  <2>2. placing'[o] = IF method = "online" THEN "paying" ELSE "done"
    BY <1>6 DEF InsertOrder, TypeOK
  <2>3. QED
    BY <2>1, <2>2
<1>7. /\ placing'[o] # "done" => orders'[o].status \in {"none", "pending_payment", "cancelled"}
      /\ placing'[o] \in {"releasing", "failed"} => orders'[o].status # "pending_payment"
      /\ \A q \in Order \ {o} : orders'[q] = orders[q]
  <2>1. CASE VoidOrderSafe(o)
    BY <2>1, VoidedOrders
  <2>2. CASE \E method \in PaymentMethod : InsertOrder(o, method)
    BY <1>6, <2>2
  <2>3. CASE orders' = orders /\ ~VoidOrderSafe(o)
    BY <1>4, <1>5, <2>3
  <2>4. QED
    BY <2>1, <2>2, <2>3
    DEF PlaceOrderStep, PlaceOrderCrashes, ReserveStock, ReserveRefused, ReserveAckLost,
        BeginTransactionFails, InsertOrderFails, InsertOrderAckLost, InitOnlinePayment,
        InitOnlinePaymentFails, InitOnlinePaymentAckLost, VoidOrderFails, ReleaseStockSafe,
        ReleaseStockFails, ordersVars
<1>8. UnfinishedOrdersAreUndone'
  <2>1. \A q \in Order \ mishaps : placing'[q] # "done" =>
          orders'[q].status \in {"none", "pending_payment", "cancelled"}
    BY <1>1, <1>7 DEF UnfinishedOrdersAreUndone
  <2>2. \A q \in Order \ mishaps : placing'[q] \in {"releasing", "failed"} =>
          orders'[q].status # "pending_payment"
    BY <1>1, <1>7 DEF UnfinishedOrdersAreUndone
  <2>3. \A p \in patching :
          placing'[p.order] # "done" /\ p.order \notin mishaps => p.rule.to = "cancelled"
    BY <1>1, <1>4 DEF UnfinishedOrdersAreUndone, TypeOK, OrdersTypeOK, PatchState
  <2>4. QED
    BY <1>1, <2>1, <2>2, <2>3 DEF UnfinishedOrdersAreUndone
<1>9. QED
  BY <1>3, <1>8

\* A step of a payment, a webhook or its handler keeps UndoInv: it is about an
\* order whose placeOrder succeeded.
LEMMA PaymentUndo ==
  ASSUME TypeOK, PaidInv, UndoInv,
         \/ \E t \in Txn, o \in Order, outcome \in Outcome : CustomerPays(t, o, outcome)
         \/ \E m \in attempts : DeliverWebhook(m)
         \/ \E h \in handling : WebhookStep(h) \/ WebhookFails(h) \/ WebhookCrashes(h)
  PROVE  UndoInv'
<1> USE DEF UndoInv
<1>1. UNCHANGED <<placing, stock, mishaps, patching>>
  BY DEF CustomerPays, DeliverWebhook, RecordWebhook, SkipDuplicate, WebhookStep, ReadOrder,
         ReadSession, IgnoreWebhook, CaptureSession, FailSession, MarkProcessed, WebhookFails,
         WebhookCrashes, placeVars, history, ordersVars
<1>2. CASE orders' = orders
  BY <1>1, <1>2 DEF FailedOrdersHoldNoStock, UnfinishedOrdersAreUndone
<1>3. ASSUME NEW h \in handling, CaptureSession(h)
      PROVE  UndoInv'
  BY <1>1, <1>3, CapturedOrders DEF FailedOrdersHoldNoStock, UnfinishedOrdersAreUndone
<1>4. QED
  BY <1>2, <1>3
  DEF CustomerPays, DeliverWebhook, RecordWebhook, SkipDuplicate, WebhookStep, ReadOrder,
      ReadSession, IgnoreWebhook, FailSession, MarkProcessed, WebhookFails, WebhookCrashes,
      ordersVars

\* FailedCheckoutLeavesNothing holds for any number of orders, requests and
\* attempts, and beside every fault: every failure of placeOrder but the mishaps
\* passes through the void of its order and the release of its stock.
THEOREM FailedCheckoutsAreUndone == Spec => []FailedCheckoutLeavesNothing
<1>1. Init => UndoInv
  BY DEF Init, OrdersInit, UndoInv, FailedOrdersHoldNoStock, UnfinishedOrdersAreUndone, NoRow
<1>2. TypeOK /\ PaidInv /\ UndoInv /\ [Next]_vars => UndoInv'
  <2> SUFFICES ASSUME TypeOK, PaidInv, UndoInv, [Next]_vars PROVE UndoInv'
    OBVIOUS
  <2>1. CASE UNCHANGED vars
    BY <2>1 DEF UndoInv, FailedOrdersHoldNoStock, UnfinishedOrdersAreUndone, vars, ordersVars,
                placeVars, history
  <2>2. QED
    BY <2>1, UpdateStatusUndo, MishapUndo, PlaceOrderUndo, PaymentUndo DEF Next
<1>3. UndoInv => FailedCheckoutLeavesNothing
  BY DEF UndoInv, FailedOrdersHoldNoStock, UnfinishedOrdersAreUndone,
         FailedCheckoutLeavesNothing
<1>4. QED
  BY <1>1, <1>2, <1>3, TypeCorrect, PaidInvariant, PTL DEF Spec

-----------------------------------------------------------------------------
(* A successful payment that was answered 200 has left a trace.            *)

\* The ledger has a row of the order: a payment, or a declined attempt.
Entered(o) == Charged(o) \/ Declined(o)

\* The session of an order that can be paid for is active until an attempt is booked.
SessionsWaitForPayment ==
  \A o \in Order : placing[o] = "done" /\ orders[o].method = "online"
    => session[o] = "initialized" \/ Entered(o)

\* Attempts have ids of their own and are of orders paid online.
AttemptsAreOnline ==
  /\ \A m \in attempts : orders[m.order].method = "online"
  /\ \A m, n \in attempts : m.id = n.id => m = n

\* A webhook is answered only when recorded, and marked processed only when the
\* ledger has a row of its order; a handler that found no session came after that.
ProcessedIsEntered ==
  /\ \A t \in Txn : t \in acked => hooks[t] # "none"
  /\ \A t \in Txn : hooks[t] # "none" => \E m \in attempts : m.id = t
  /\ \A m \in attempts : hooks[m.id] = "processed" => Entered(m.order)
  /\ \A h \in handling :
       (h.pc = "session" /\ ~h.active) \/ h.pc = "committed" => Entered(h.msg.order)

\* With PaidInv, the inductive invariant behind LostPaymentLeavesTrace.
LedgerInv == SessionsWaitForPayment /\ AttemptsAreOnline /\ ProcessedIsEntered

\* No step takes a charge out of the ledger.
LEMMA ChargesStay ==
  ASSUME Next
  PROVE  \A o \in Order : Entered(o) => Entered(o)'
<1>1. charges \subseteq charges'
  BY DEF Next, PlaceOrderStep, PlaceOrderCrashes, ReserveStock, ReserveRefused,
         ReserveAckLost, BeginTransactionFails, InsertOrder, InsertOrderFails,
         InsertOrderAckLost, InitOnlinePayment, InitOnlinePaymentFails,
         InitOnlinePaymentAckLost, VoidOrderSafe, VoidOrderFails, ReleaseStockSafe,
         ReleaseStockFails, CustomerPays, DeliverWebhook, RecordWebhook, SkipDuplicate,
         WebhookStep, ReadOrder, ReadSession, IgnoreWebhook, CaptureSession, FailSession,
         MarkProcessed, WebhookFails, WebhookCrashes, CreateCharge, paymentVars
<1>2. QED
  BY <1>1 DEF Entered, Charged, Declined

\* A captured or failed session has its row in the ledger.
LEMMA ReconciledIsEntered ==
  ASSUME NEW h \in handling, CaptureSession(h) \/ FailSession(h)
  PROVE  Entered(h.msg.order)'
<1>1. PICK status \in {"succeeded", "failed"} :
        [key |-> h.msg.id, order |-> h.msg.order, status |-> status] \in charges'
  BY DEF CaptureSession, FailSession, CreateCharge
<1> DEFINE row == [key |-> h.msg.id, order |-> h.msg.order, status |-> status]
<1>2. row \in charges' /\ row.order = h.msg.order /\ row.status \in {"succeeded", "failed"}
  BY <1>1
<1> HIDE DEF row
<1>3. QED
  BY <1>2 DEF Entered, Charged, Declined

\* A step that leaves the payment side alone keeps LedgerInv, if it leaves the
\* payment methods alone too.
LEMMA OrderSideLedger ==
  ASSUME TypeOK, PaidInv, LedgerInv, UNCHANGED <<placing, paymentVars>>,
         \A o \in Order : orders'[o].method = orders[o].method
  PROVE  LedgerInv'
<1> USE DEF paymentVars
<1>1. \A o \in Order : Entered(o)' = Entered(o)
  BY DEF Entered, Charged, Declined
<1>2. \A m \in attempts : m.order \in Order
  BY DEF TypeOK, Attempt
<1>3. \A h \in handling : h.msg.order \in Order
  BY DEF TypeOK, Handler, Attempt
<1>4. QED
  BY <1>1, <1>2, <1>3 DEF LedgerInv, SessionsWaitForPayment, AttemptsAreOnline, ProcessedIsEntered

\* A step of placeOrder keeps LedgerInv: nobody has paid for its order yet.
LEMMA PlaceOrderLedger ==
  ASSUME TypeOK, PaidInv, LedgerInv,
         NEW o \in Order, PlaceOrderStep(o) \/ PlaceOrderCrashes(o)
  PROVE  LedgerInv'
<1> USE DEF Goto, paymentVars
<1>1. /\ UNCHANGED <<attempts, acked, hooks, handling, charges>>
      /\ placing[o] # "done"
      /\ \A q \in Order \ {o} : placing'[q] = placing[q] /\ session'[q] = session[q]
  BY DEF PlaceOrderStep, PlaceOrderCrashes, ReserveStock, ReserveRefused, ReserveAckLost,
         BeginTransactionFails, InsertOrder, InsertOrderFails, InsertOrderAckLost,
         InitOnlinePayment, InitOnlinePaymentFails, InitOnlinePaymentAckLost, VoidOrderSafe,
         VoidOrderFails, ReleaseStockSafe, ReleaseStockFails, TypeOK
<1>2. \A q \in Order : Entered(q)' = Entered(q)
  BY <1>1 DEF Entered, Charged, Declined
<1>3. /\ placing'[o] = "done" /\ orders'[o].method = "online" => session'[o] = "initialized"
      /\ \A q \in Order \ {o} : orders'[q] = orders[q]
  <2>1. ASSUME NEW method \in PaymentMethod,
               InsertOrder(o, method) \/ InsertOrderAckLost(o, method)
        PROVE  /\ placing'[o] = "done" => orders'[o].method # "online"
               /\ \A q \in Order \ {o} : orders'[q] = orders[q]
    BY <2>1, InsertedOrders DEF InsertOrder, InsertOrderAckLost, TypeOK
  <2>2. CASE VoidOrderSafe(o)
    BY <2>2, VoidedOrders DEF VoidOrderSafe, TypeOK
  <2>3. CASE InitOnlinePayment(o)
    BY <2>3 DEF InitOnlinePayment, TypeOK, ordersVars
  <2>4. QED
    BY <2>1, <2>2, <2>3
    DEF PlaceOrderStep, PlaceOrderCrashes, ReserveStock, ReserveRefused, ReserveAckLost,
        BeginTransactionFails, InsertOrderFails, InitOnlinePaymentFails,
        InitOnlinePaymentAckLost, VoidOrderFails, ReleaseStockSafe, ReleaseStockFails,
        ordersVars, TypeOK
<1>4. SessionsWaitForPayment'
  BY <1>1, <1>2, <1>3 DEF LedgerInv, SessionsWaitForPayment
<1>5. AttemptsAreOnline'
  <2>1. \A m \in attempts : m.order \in Order \ {o}
    BY <1>1 DEF TypeOK, Attempt, PaidInv, PaymentsAreOfPlacedOrders
  <2>2. QED
    BY <1>1, <1>3, <2>1 DEF LedgerInv, AttemptsAreOnline
<1>6. ProcessedIsEntered'
  <2>1. /\ \A m \in attempts : m.order \in Order
        /\ \A h \in handling : h.msg.order \in Order
    BY DEF TypeOK, Handler, Attempt
  <2>2. QED
    BY <1>1, <1>2, <2>1 DEF LedgerInv, ProcessedIsEntered
<1>7. QED
  BY <1>4, <1>5, <1>6 DEF LedgerInv

\* A handler that goes on with the message it has, and claims nothing false,
\* keeps LedgerInv.
LEMMA HandlerMovesLedger ==
  ASSUME TypeOK, PaidInv, LedgerInv, Next, NEW h \in handling, NEW next,
         Advance(h, next), next.msg = h.msg,
         (next.pc = "session" /\ ~next.active) \/ next.pc = "committed"
           => Entered(h.msg.order)',
         UNCHANGED <<placing, attempts, acked, hooks>>,
         \A o \in Order : orders'[o].method = orders[o].method,
         \A o \in Order : session'[o] = session[o] \/ Entered(o)'
  PROVE  LedgerInv'
<1>1. \A o \in Order : Entered(o) => Entered(o)'
  BY ChargesStay
<1>2. /\ \A m \in attempts : m.order \in Order
      /\ \A g \in handling : g.msg.order \in Order
  BY DEF TypeOK, Handler, Attempt
<1>3. SessionsWaitForPayment'
  BY <1>1 DEF LedgerInv, SessionsWaitForPayment
<1>4. AttemptsAreOnline'
  BY <1>2 DEF LedgerInv, AttemptsAreOnline
<1>5. ProcessedIsEntered'
  <2>1. \A m \in attempts : hooks[m.id] = "processed" => Entered(m.order)'
    BY <1>1, <1>2 DEF LedgerInv, ProcessedIsEntered
  <2>2. \A g \in handling' :
          (g.pc = "session" /\ ~g.active) \/ g.pc = "committed" => Entered(g.msg.order)'
    BY <1>1, <1>2 DEF LedgerInv, ProcessedIsEntered, Advance
  <2>3. QED
    BY <2>1, <2>2 DEF LedgerInv, ProcessedIsEntered
<1>6. QED
  BY <1>3, <1>4, <1>5 DEF LedgerInv

\* A step of a payment, a webhook or its handler keeps LedgerInv, also when the
\* handler fails or dies.
LEMMA PaymentLedger ==
  ASSUME TypeOK, PaidInv, LedgerInv, Next,
         \/ \E t \in Txn, o \in Order, outcome \in Outcome : CustomerPays(t, o, outcome)
         \/ \E m \in attempts : DeliverWebhook(m)
         \/ \E h \in handling : WebhookStep(h) \/ WebhookFails(h) \/ WebhookCrashes(h)
  PROVE  LedgerInv'
<1>0. \A o \in Order : Entered(o) => Entered(o)'
  BY ChargesStay
<1>1. /\ \A m \in attempts : m.order \in Order /\ m.id \in Txn
      /\ \A h \in handling : h.msg.order \in Order /\ h.msg \in attempts
  BY DEF TypeOK, Handler, Attempt, PaidInv, PaymentsAreOfPlacedOrders
<1>2. ASSUME NEW t \in Txn, NEW o \in Order, NEW outcome \in Outcome,
             CustomerPays(t, o, outcome)
      PROVE  LedgerInv'
  <2> DEFINE new == [id |-> t, order |-> o, outcome |-> outcome]
  <2>2. UNCHANGED <<orders, placing, session, acked, hooks, handling, charges>>
    BY <1>2 DEF CustomerPays, ordersVars, placeVars
  <2>3. attempts' = attempts \cup {new} /\ (\A m \in attempts : m.id # t)
    BY <1>2 DEF CustomerPays
  <2>4. new.id = t /\ new.order = o /\ orders[o].method = "online"
    BY <1>2 DEF CustomerPays
  <2> HIDE DEF new
  <2>5. hooks[t] = "none"
    BY <2>3 DEF LedgerInv, ProcessedIsEntered
  <2>6. SessionsWaitForPayment'
    BY <1>0, <2>2 DEF LedgerInv, SessionsWaitForPayment
  <2>7. AttemptsAreOnline'
    BY <2>2, <2>3, <2>4 DEF LedgerInv, AttemptsAreOnline
  <2>8. ProcessedIsEntered'
    BY <1>0, <1>1, <2>2, <2>3, <2>4, <2>5 DEF LedgerInv, ProcessedIsEntered
  <2>9. QED
    BY <2>6, <2>7, <2>8 DEF LedgerInv
<1>3. ASSUME NEW m \in attempts, RecordWebhook(m)
      PROVE  LedgerInv'
  <2> DEFINE new == [msg |-> m, pc |-> "recorded", seen |-> "none", active |-> FALSE]
  <2>1. UNCHANGED <<orders, placing, session, attempts, acked, charges>>
    BY <1>3 DEF RecordWebhook, ordersVars, placeVars
  <2>2. /\ handling' = handling \cup {new}
        /\ hooks' = [hooks EXCEPT ![m.id] = "recorded"]
        /\ new.msg = m /\ new.pc = "recorded"
    BY <1>3 DEF RecordWebhook
  <2> HIDE DEF new
  <2>3. SessionsWaitForPayment' /\ AttemptsAreOnline'
    BY <1>0, <2>1 DEF LedgerInv, SessionsWaitForPayment, AttemptsAreOnline
  <2>4. ProcessedIsEntered'
    <3>1. \A n \in attempts : n.id = m.id => n = m
      BY DEF LedgerInv, AttemptsAreOnline
    <3>2. \A t \in Txn : hooks'[t] = IF t = m.id THEN "recorded" ELSE hooks[t]
      BY <1>1, <2>2 DEF TypeOK
    <3>3. QED
      BY <1>0, <1>1, <2>1, <2>2, <3>1, <3>2 DEF LedgerInv, ProcessedIsEntered
  <2>5. QED
    BY <2>3, <2>4 DEF LedgerInv
<1>4. ASSUME NEW m \in attempts, SkipDuplicate(m)
      PROVE  LedgerInv'
  <2>1. UNCHANGED <<orders, placing, session, attempts, hooks, handling, charges>>
    BY <1>4 DEF SkipDuplicate, ordersVars, placeVars
  <2>2. SessionsWaitForPayment' /\ AttemptsAreOnline'
    BY <1>0, <2>1 DEF LedgerInv, SessionsWaitForPayment, AttemptsAreOnline
  <2>3. ProcessedIsEntered'
    BY <1>0, <1>1, <1>4, <2>1 DEF SkipDuplicate, LedgerInv, ProcessedIsEntered
  <2>4. QED
    BY <2>2, <2>3 DEF LedgerInv
<1>5. ASSUME NEW h \in handling, ReadOrder(h)
      PROVE  LedgerInv'
  BY <1>5, HandlerMovesLedger DEF ReadOrder, TypeOK, Handler, ordersVars, placeVars
<1>6. ASSUME NEW h \in handling, ReadSession(h)
      PROVE  LedgerInv'
  <2> DEFINE o == h.msg.order
             next == [h EXCEPT !.pc = "session", !.active = session[o] = "initialized"]
  <2>1. placing[o] = "done" /\ orders[o].method = "online" /\ o \in Order
    BY <1>1 DEF PaidInv, PaymentsAreOfPlacedOrders, LedgerInv, AttemptsAreOnline
  <2>2. next.msg = h.msg /\ (~next.active => Entered(o)) /\ next.pc = "session"
    BY <2>1 DEF TypeOK, Handler, LedgerInv, SessionsWaitForPayment
  <2>3. Advance(h, next)
        /\ UNCHANGED <<orders, placing, session, attempts, acked, hooks>>
    BY <1>6 DEF ReadSession, ordersVars, placeVars
  <2> HIDE DEF next
  <2>4. QED
    BY <1>0, <2>1, <2>2, <2>3, HandlerMovesLedger
<1>7. ASSUME NEW h \in handling, IgnoreWebhook(h)
      PROVE  LedgerInv'
  <2> DEFINE next == [h EXCEPT !.pc = "committed"]
  <2>1. next.msg = h.msg
    BY DEF TypeOK, Handler
  <2>2. Entered(h.msg.order)'
    BY <1>0, <1>1, <1>7 DEF IgnoreWebhook, LedgerInv, ProcessedIsEntered
  <2>3. Advance(h, next)
        /\ UNCHANGED <<orders, placing, session, attempts, acked, hooks>>
    BY <1>7 DEF IgnoreWebhook, ordersVars, placeVars
  <2> HIDE DEF next
  <2>4. QED
    BY <2>1, <2>2, <2>3, HandlerMovesLedger
<1>8. ASSUME NEW h \in handling, CaptureSession(h) \/ FailSession(h)
      PROVE  LedgerInv'
  <2> DEFINE next == [h EXCEPT !.pc = "committed"]
  <2>1. next.msg = h.msg
    BY DEF TypeOK, Handler
  <2>2. Entered(h.msg.order)'
    BY <1>8, ReconciledIsEntered
  <2>3. Advance(h, next) /\ UNCHANGED <<placing, attempts, acked, hooks>>
    BY <1>8 DEF CaptureSession, FailSession, placeVars
  <2>4. /\ \A o \in Order : orders'[o].method = orders[o].method
        /\ \A o \in Order : session'[o] = session[o] \/ o = h.msg.order
    BY <1>8, CapturedOrders DEF CaptureSession, FailSession, TypeOK
  <2> HIDE DEF next
  <2>5. QED
    BY <2>1, <2>2, <2>3, <2>4, HandlerMovesLedger
<1>9. ASSUME NEW h \in handling, MarkProcessed(h)
      PROVE  LedgerInv'
  <2>1. UNCHANGED <<orders, placing, session, attempts, charges>>
    BY <1>9 DEF MarkProcessed, ordersVars, placeVars
  <2>2. SessionsWaitForPayment' /\ AttemptsAreOnline'
    BY <1>0, <2>1 DEF LedgerInv, SessionsWaitForPayment, AttemptsAreOnline
  <2>3. ProcessedIsEntered'
    <3>1. Entered(h.msg.order)' /\ h.msg \in attempts
      BY <1>0, <1>1, <1>9 DEF MarkProcessed, LedgerInv, ProcessedIsEntered
    <3>2. \A t \in Txn : hooks'[t] = IF t = h.msg.id THEN "processed" ELSE hooks[t]
      BY <1>9 DEF MarkProcessed, TypeOK
    <3>3. /\ \A m \in attempts : m.id = h.msg.id => m = h.msg
          /\ handling' = handling \ {h} /\ acked' = acked \cup {h.msg.id}
      BY <1>9, <3>1 DEF MarkProcessed, LedgerInv, AttemptsAreOnline
    <3>4. QED
      BY <1>0, <1>1, <2>1, <3>1, <3>2, <3>3 DEF LedgerInv, ProcessedIsEntered
  <2>4. QED
    BY <2>2, <2>3 DEF LedgerInv
<1>10. ASSUME NEW h \in handling, WebhookFails(h) \/ WebhookCrashes(h)
       PROVE  LedgerInv'
  <2>1. UNCHANGED <<orders, placing, session, attempts, acked, charges>>
        /\ handling' \subseteq handling
        /\ hooks' \in {hooks, [hooks EXCEPT ![h.msg.id] = "error"]}
    BY <1>10 DEF WebhookFails, WebhookCrashes, ordersVars, placeVars
  <2>2. SessionsWaitForPayment' /\ AttemptsAreOnline'
    BY <1>0, <2>1 DEF LedgerInv, SessionsWaitForPayment, AttemptsAreOnline
  <2>3. ProcessedIsEntered'
    <3>1. \A t \in Txn : hooks'[t] = hooks[t] \/ (t = h.msg.id /\ hooks'[t] = "error")
      BY <1>1, <2>1 DEF TypeOK
    <3>2. QED
      BY <1>0, <1>1, <2>1, <3>1 DEF LedgerInv, ProcessedIsEntered
  <2>4. QED
    BY <2>2, <2>3 DEF LedgerInv
<1>11. QED
  BY <1>2, <1>3, <1>4, <1>5, <1>6, <1>7, <1>8, <1>9, <1>10 DEF DeliverWebhook, WebhookStep

\* LostPaymentLeavesTrace holds for any number of orders, requests and attempts,
\* declined or not, and under every fault: a handler marks its row processed only
\* when its order is in the ledger.
THEOREM LostPaymentsLeaveTraces == Spec => []LostPaymentLeavesTrace
<1>1. Init => LedgerInv
  BY DEF Init, LedgerInv, SessionsWaitForPayment, AttemptsAreOnline, ProcessedIsEntered
<1>2. TypeOK /\ PaidInv /\ LedgerInv /\ [Next]_vars => LedgerInv'
  <2> SUFFICES ASSUME TypeOK, PaidInv, LedgerInv, [Next]_vars PROVE LedgerInv'
    OBVIOUS
  <2>1. CASE UNCHANGED vars
    BY <2>1, OrderSideLedger DEF vars, ordersVars, placeVars
  <2>2. CASE UpdateStatusNext /\ UNCHANGED <<placeVars, paymentVars>>
    <3>1. \A o \in Order : orders'[o].method = orders[o].method
      BY <2>2, PatchesWriteTheirRule
      DEF UpdateStatusNext, BeginUpdateStatus, AbortUpdateStatus, CancelWindowCloses
    <3>2. QED
      BY <2>2, <3>1, OrderSideLedger DEF placeVars
  <2>3. QED
    BY <2>1, <2>2, PlaceOrderLedger, PaymentLedger DEF Next
<1>3. TypeOK /\ LedgerInv => LostPaymentLeavesTrace
  <2> SUFFICES ASSUME TypeOK, LedgerInv, NEW m \in attempts, m.id \in acked
               PROVE  Entered(m.order) \/ hooks[m.id] \in {"recorded", "error"}
    BY DEF LostPaymentLeavesTrace, Entered
  <2>1. hooks[m.id] \in {"none", "recorded", "processed", "error"} /\ m.id \in Txn
    BY DEF TypeOK, Attempt
  <2>2. QED
    BY <2>1 DEF LedgerInv, ProcessedIsEntered
<1>4. QED
  BY <1>1, <1>2, <1>3, TypeCorrect, PaidInvariant, PTL DEF Spec

-----------------------------------------------------------------------------
(* order.placed is told once, and before the restaurant's decision.        *)

\* A sequence of events with order.placed among them.
Tells(s) == \E i \in DOMAIN s : s[i] = "order.placed"

\* The order PlacedToldOnceAndFirst asks for, of one sequence of events.
InOrder(s) ==
  \A i \in DOMAIN s :
    /\ s[i] \in {"order.accepted", "order.rejected"} =>
         \E j \in 1 .. (i - 1) : s[j] = "order.placed"
    /\ s[i] = "order.placed" => \A j \in 1 .. (i - 1) : s[j] # "order.placed"

\* An event appended that is not order.placed keeps the order, if order.placed
\* was told before a decision of the restaurant.
LEMMA OtherEventsKeepOrder ==
  ASSUME NEW s \in Seq(EventType), InOrder(s), NEW e \in EventType \ {"order.placed"},
         e \in {"order.accepted", "order.rejected"} => Tells(s)
  PROVE  /\ InOrder(s \o <<e>>)
         /\ Tells(s \o <<e>>) <=> Tells(s)
<1> DEFINE t == s \o <<e>>
<1>1. /\ Len(s) \in Nat /\ DOMAIN s = 1 .. Len(s)
      /\ DOMAIN t = 1 .. (Len(s) + 1)
      /\ \A i \in 1 .. Len(s) : t[i] = s[i]
      /\ t[Len(s) + 1] = e
  OBVIOUS
<1> HIDE DEF t
<1>2. InOrder(t)
  BY <1>1 DEF InOrder, Tells
<1>3. Tells(t) <=> Tells(s)
  BY <1>1 DEF Tells
<1>4. QED
  BY <1>2, <1>3 DEF t

\* order.placed appended keeps the order, if it had not been told.
LEMMA FirstTellingKeepsOrder ==
  ASSUME NEW s \in Seq(EventType), InOrder(s), ~Tells(s)
  PROVE  InOrder(s \o <<"order.placed">>) /\ Tells(s \o <<"order.placed">>)
<1> DEFINE t == s \o <<"order.placed">>
<1>1. /\ Len(s) \in Nat /\ DOMAIN s = 1 .. Len(s)
      /\ DOMAIN t = 1 .. (Len(s) + 1)
      /\ \A i \in 1 .. Len(s) : t[i] = s[i]
      /\ t[Len(s) + 1] = "order.placed"
  OBVIOUS
<1> HIDE DEF t
<1>2. InOrder(t)
  BY <1>1 DEF InOrder, Tells
<1>3. Tells(t)
  BY <1>1 DEF Tells
<1>4. QED
  BY <1>2, <1>3 DEF t

\* A successful payment that places the order tells both of its events.
LEMMA PaymentTellingKeepsOrder ==
  ASSUME NEW s \in Seq(EventType), InOrder(s), ~Tells(s)
  PROVE  /\ InOrder(s \o <<"payment.completed", "order.placed">>)
         /\ Tells(s \o <<"payment.completed", "order.placed">>)
<1> DEFINE t == s \o <<"payment.completed", "order.placed">>
<1>1. /\ Len(s) \in Nat /\ DOMAIN s = 1 .. Len(s)
      /\ DOMAIN t = 1 .. (Len(s) + 2)
      /\ \A i \in 1 .. Len(s) : t[i] = s[i]
      /\ t[Len(s) + 1] = "payment.completed" /\ t[Len(s) + 2] = "order.placed"
  OBVIOUS
<1> HIDE DEF t
<1>2. InOrder(t)
  BY <1>1 DEF InOrder, Tells
<1>3. Tells(t)
  BY <1>1 DEF Tells
<1>4. QED
  BY <1>2, <1>3 DEF t

\* Nothing is told of an order that placeOrder has not inserted.
FreshOrdersAreUntold ==
  \A o \in Order : placing[o] \in {"idle", "reserved"} => outbox[o] = <<>>

\* The unique row of a webhook lets one handler at it, and there is one
\* successful attempt per order.
OneHandlerPerSuccess ==
  /\ \A h \in handling : hooks[h.msg.id] # "none"
  /\ \A h, g \in handling : h.msg.id = g.msg.id => h = g
  /\ \A m, n \in attempts : m.id = n.id => m = n
  /\ \A m, n \in attempts :
       m.order = n.order /\ m.outcome = "SUCCESS" /\ n.outcome = "SUCCESS" => m = n

\* An order is not told of while it waits for its payment, nor while a handler
\* is about to tell it.
WaitingOrdersAreUntold ==
  /\ \A o \in Order : orders[o].status = "pending_payment" => ~Tells(outbox[o])
  /\ \A h \in handling :
       /\ h.pc \in {"order", "session"}
       /\ h.msg.outcome = "SUCCESS"
       /\ h.seen = "pending_payment"
       => ~Tells(outbox[h.msg.order])

\* A live order has been told of, and so has one that a PATCH is about to keep
\* live or to reject.
LiveOrdersAreTold ==
  /\ \A o \in Order : orders[o].status \in Live => Tells(outbox[o])
  /\ \A p \in patching : p.rule.to \in Live \cup {"rejected"} => Tells(outbox[p.order])

\* With PaidInv, the inductive invariant behind PlacedToldOnceAndFirst.
TellInv ==
  /\ FreshOrdersAreUntold
  /\ OneHandlerPerSuccess
  /\ WaitingOrdersAreUntold
  /\ LiveOrdersAreTold
  /\ \A o \in Order : InOrder(outbox[o])

\* Nobody but the system makes an order live or rejected that was not live,
\* and nobody takes one back to pending_payment.
LEMMA DecisionsAreOfLiveOrders ==
  \A rule \in TRANSITIONS :
    /\ rule.to # "pending_payment"
    /\ rule.to \in Live \cup {"rejected"} /\ rule.actors # {"system"} => rule.from \in Live
BY DEF TRANSITIONS, Rule, ReasonedRule, Live, Status

\* A step of updateStatus keeps TellInv.
LEMMA UpdateStatusTell ==
  ASSUME TypeOK, PaidInv, TellInv, UpdateStatusNext, UNCHANGED <<placeVars, paymentVars>>
  PROVE  TellInv'
<1> USE DEF TellInv, placeVars, paymentVars
<1>0. OneHandlerPerSuccess'
  BY DEF OneHandlerPerSuccess
<1>1. ASSUME NEW r \in Request, NEW o \in Order, NEW caller \in Callers, NEW to \in Status,
             NEW reason \in BOOLEAN, BeginUpdateStatus(r, o, caller, to, reason)
      PROVE  TellInv'
  <2>1. PICK rule \in TRANSITIONS :
          /\ rule.from = orders[o].status
          /\ rule.actors # {"system"}
          /\ patching' = patching \cup {[req |-> r, order |-> o, rule |-> rule]}
    BY <1>1, PatchesBeginWhereOrdersStand
  <2>2. rule.to \in Live \cup {"rejected"} => Tells(outbox[o])
    BY <2>1, DecisionsAreOfLiveOrders DEF LiveOrdersAreTold
  <2>3. UNCHANGED <<orders, outbox>>
    BY <1>1 DEF BeginUpdateStatus
  <2>4. LiveOrdersAreTold'
    BY <2>1, <2>2, <2>3 DEF LiveOrdersAreTold
  <2>5. QED
    BY <1>0, <2>3, <2>4 DEF FreshOrdersAreUntold, WaitingOrdersAreUntold
<1>2. ASSUME NEW p \in patching, CommitUpdateStatus(p)
      PROVE  TellInv'
  <2> DEFINE o == p.order
             s == outbox[o]
  <2>1. /\ o \in Order /\ p.rule \in TRANSITIONS /\ p.rule.to \in Status
        /\ orders'[o].status = p.rule.to
        /\ \A q \in Order \ {o} : orders'[q] = orders[q]
        /\ patching' = patching \ {p}
    BY <1>2, PatchesWriteTheirRule
  <2>2. /\ s \in Seq(EventType) /\ InOrder(s)
        /\ outbox' = [outbox EXCEPT ![o] = s \o EventForStatus(p.rule.to)]
    BY <1>2, <2>1 DEF CommitUpdateStatus, InsertOutboxEvents, TypeOK, OrdersTypeOK
  <2>3. p.rule.to \in Live \cup {"rejected"} => Tells(s)
    BY DEF LiveOrdersAreTold
  <2>4. p.rule.to # "pending_payment" /\ placing[o] \notin {"idle", "reserved"}
    BY <2>1, DecisionsAreOfLiveOrders
    DEF PaidInv, PatchesOfPaidOrders, FreshOrdersHaveNoRow
  <2>5. InOrder(outbox'[o]) /\ (Tells(outbox'[o]) <=> Tells(s))
    <3>1. outbox'[o] = s \o EventForStatus(p.rule.to)
      BY <2>1, <2>2 DEF TypeOK, OrdersTypeOK
    <3>2. CASE EventForStatus(p.rule.to) = <<>>
      BY <2>2, <3>1, <3>2
    <3>3. CASE p.rule.to = "accepted"
      BY <2>2, <2>3, <3>1, <3>3, OtherEventsKeepOrder DEF EventForStatus, EventType, Live, Status
    <3>4. CASE p.rule.to = "rejected"
      BY <2>2, <2>3, <3>1, <3>4, OtherEventsKeepOrder DEF EventForStatus, EventType
    <3>5. CASE p.rule.to = "cancelled"
      BY <2>2, <3>1, <3>5, OtherEventsKeepOrder DEF EventForStatus, EventType
    <3>6. QED
      BY <3>2, <3>3, <3>4, <3>5 DEF EventForStatus
  <2>6. \A q \in Order \ {o} : outbox'[q] = outbox[q]
    BY <2>2 DEF TypeOK, OrdersTypeOK
  <2>7. \A q \in Order : InOrder(outbox'[q]) /\ (Tells(outbox'[q]) <=> Tells(outbox[q]))
    BY <2>5, <2>6
  <2>8. FreshOrdersAreUntold'
    BY <2>4, <2>6 DEF FreshOrdersAreUntold
  <2>9. WaitingOrdersAreUntold'
    <3>1. \A h \in handling : h.msg.order \in Order
      BY DEF TypeOK, Handler, Attempt
    <3>2. QED
      BY <2>1, <2>4, <2>7, <3>1 DEF WaitingOrdersAreUntold
  <2>10. LiveOrdersAreTold'
    <3>1. \A q \in patching : q.order \in Order
      BY DEF TypeOK, OrdersTypeOK, PatchState
    <3>2. QED
      BY <2>1, <2>3, <2>7, <3>1 DEF LiveOrdersAreTold
  <2>11. QED
    BY <1>0, <2>7, <2>8, <2>9, <2>10
<1>3. ASSUME NEW p \in patching, AbortUpdateStatus(p)
      PROVE  TellInv'
  BY <1>0, <1>3
  DEF AbortUpdateStatus, FreshOrdersAreUntold, WaitingOrdersAreUntold, LiveOrdersAreTold
<1>4. ASSUME NEW o \in Order, CancelWindowCloses(o)
      PROVE  TellInv'
  BY <1>0, <1>4
  DEF CancelWindowCloses, FreshOrdersAreUntold, WaitingOrdersAreUntold, LiveOrdersAreTold
<1>5. QED
  BY <1>1, <1>2, <1>3, <1>4 DEF UpdateStatusNext

\* The insert of an order tells of it exactly when it is placed at once.
LEMMA InsertTells ==
  ASSUME TypeOK, PaidInv, TellInv, NEW o \in Order, NEW method \in PaymentMethod,
         InsertOrder(o, method) \/ InsertOrderAckLost(o, method)
  PROVE  /\ InOrder(outbox'[o])
         /\ orders'[o].status = "pending_payment" => ~Tells(outbox'[o])
         /\ orders'[o].status \in Live => Tells(outbox'[o])
         /\ \A q \in Order \ {o} : orders'[q] = orders[q] /\ outbox'[q] = outbox[q]
<1>1. WriteOrder(o, method) /\ placing[o] = "reserved"
  BY DEF InsertOrder, InsertOrderAckLost, Goto
<1>2. /\ orders'[o].status = IF method = "online" THEN "pending_payment" ELSE "placed"
      /\ \A q \in Order \ {o} : orders'[q] = orders[q]
  BY <1>1, InsertedOrders
<1>3. outbox[o] = <<>> /\ outbox[o] \in Seq(EventType)
  BY <1>1 DEF TellInv, FreshOrdersAreUntold, TypeOK, OrdersTypeOK
<1>4. ~Tells(outbox[o]) /\ InOrder(outbox[o])
  BY <1>3 DEF Tells, InOrder
<1>5. outbox' = [outbox EXCEPT ![o] =
                   @ \o (IF method = "cod" THEN <<"order.placed">> ELSE <<>>)]
  BY <1>1 DEF WriteOrder, InsertOutboxEvents
<1>6. CASE method = "cod"
  <2>1. outbox'[o] = outbox[o] \o <<"order.placed">>
    BY <1>5, <1>6 DEF TypeOK, OrdersTypeOK
  <2>2. InOrder(outbox'[o]) /\ Tells(outbox'[o])
    BY <1>3, <1>4, <2>1, FirstTellingKeepsOrder
  <2>3. QED
    BY <1>2, <1>5, <1>6, <2>2 DEF TypeOK, OrdersTypeOK
<1>7. CASE method # "cod"
  <2>1. outbox' = outbox
    <3>1. outbox[o] \o <<>> = outbox[o]
      BY <1>3
    <3>2. QED
      BY <1>5, <1>7, <3>1 DEF TypeOK, OrdersTypeOK
  <2>2. orders'[o].status = "pending_payment"
    BY <1>2, <1>7 DEF PaymentMethod
  <2>3. QED
    BY <1>2, <1>4, <2>1, <2>2 DEF Live
<1>8. QED
  BY <1>6, <1>7

\* A step of placeOrder keeps TellInv.
LEMMA PlaceOrderTell ==
  ASSUME TypeOK, PaidInv, TellInv, NEW o \in Order, PlaceOrderStep(o) \/ PlaceOrderCrashes(o)
  PROVE  TellInv'
<1> USE DEF Goto, paymentVars
<1>1. /\ UNCHANGED <<attempts, hooks, handling, patching>>
      /\ placing[o] # "done"
      /\ \A q \in Order \ {o} : placing'[q] = placing[q]
      /\ placing'[o] \in {"idle", "reserved"} =>
           placing[o] \in {"idle", "reserved"} /\ outbox'[o] = outbox[o]
  BY DEF PlaceOrderStep, PlaceOrderCrashes, ReserveStock, ReserveRefused, ReserveAckLost,
         BeginTransactionFails, InsertOrder, InsertOrderFails, InsertOrderAckLost, WriteOrder,
         InitOnlinePayment, InitOnlinePaymentFails, InitOnlinePaymentAckLost, VoidOrderSafe,
         VoidOrderFails, ReleaseStockSafe, ReleaseStockFails, TypeOK, ordersVars
<1>2. /\ \A q \in Order \ {o} : orders'[q] = orders[q] /\ outbox'[q] = outbox[q]
      /\ InOrder(outbox'[o])
      /\ orders'[o].status = "pending_payment" => ~Tells(outbox'[o])
      /\ orders'[o].status \in Live => Tells(outbox'[o])
      /\ Tells(outbox[o]) => Tells(outbox'[o])
  <2>1. CASE UNCHANGED <<orders, outbox>>
    BY <2>1 DEF TellInv, WaitingOrdersAreUntold, LiveOrdersAreTold
  <2>2. ASSUME NEW method \in PaymentMethod,
               InsertOrder(o, method) \/ InsertOrderAckLost(o, method)
        PROVE  ~Tells(outbox[o])
    <3>1. outbox[o] = <<>>
      BY <2>2 DEF InsertOrder, InsertOrderAckLost, TellInv, FreshOrdersAreUntold
    <3>2. QED
      BY <3>1 DEF Tells
  <2>3. CASE \E method \in PaymentMethod :
               InsertOrder(o, method) \/ InsertOrderAckLost(o, method)
    BY <2>2, <2>3, InsertTells
  <2>4. CASE VoidOrderSafe(o)
    <3>1. outbox' = outbox
      BY <2>4 DEF VoidOrderSafe
    <3>2. QED
      BY <2>4, <3>1, VoidedOrders DEF TellInv, Live
  <2>5. QED
    BY <2>1, <2>3, <2>4
    DEF PlaceOrderStep, PlaceOrderCrashes, ReserveStock, ReserveRefused, ReserveAckLost,
        BeginTransactionFails, InsertOrderFails, InitOnlinePayment, InitOnlinePaymentFails,
        InitOnlinePaymentAckLost, VoidOrderFails, ReleaseStockSafe, ReleaseStockFails,
        ordersVars
<1>3. FreshOrdersAreUntold'
  BY <1>1, <1>2 DEF TellInv, FreshOrdersAreUntold
<1>4. OneHandlerPerSuccess'
  BY <1>1 DEF TellInv, OneHandlerPerSuccess
<1>5. WaitingOrdersAreUntold'
  <2>1. \A h \in handling : h.msg.order \in Order \ {o}
    BY <1>1 DEF TypeOK, Handler, Attempt, PaidInv, PaymentsAreOfPlacedOrders
  <2>2. QED
    BY <1>1, <1>2, <2>1 DEF TellInv, WaitingOrdersAreUntold
<1>6. LiveOrdersAreTold'
  <2>1. \A p \in patching : p.order \in Order
    BY DEF TypeOK, OrdersTypeOK, PatchState
  <2>2. QED
    BY <1>1, <1>2, <2>1 DEF TellInv, LiveOrdersAreTold
<1>7. QED
  BY <1>2, <1>3, <1>4, <1>5, <1>6 DEF TellInv

\* A webhook has one handler at a time, and an order one successful attempt.
LEMMA PaymentOneHandler ==
  ASSUME TypeOK, PaidInv, OneHandlerPerSuccess,
         \/ \E t \in Txn, o \in Order, outcome \in Outcome : CustomerPays(t, o, outcome)
         \/ \E m \in attempts : DeliverWebhook(m)
         \/ \E h \in handling : WebhookStep(h) \/ WebhookFails(h) \/ WebhookCrashes(h)
  PROVE  OneHandlerPerSuccess'
<1> USE DEF OneHandlerPerSuccess
<1>1. ASSUME NEW t \in Txn, NEW o \in Order, NEW outcome \in Outcome,
             CustomerPays(t, o, outcome)
      PROVE  OneHandlerPerSuccess'
  <2> DEFINE new == [id |-> t, order |-> o, outcome |-> outcome]
  <2>1. /\ UNCHANGED <<hooks, handling>>
        /\ attempts' = attempts \cup {new}
        /\ \A m \in attempts : m.id # t
        /\ \A m \in attempts : m.order = o => m.outcome # "SUCCESS"
    BY <1>1 DEF CustomerPays
  <2>2. new.id = t /\ new.order = o
    OBVIOUS
  <2> HIDE DEF new
  <2>3. QED
    BY <2>1, <2>2
<1>2. ASSUME NEW m \in attempts, DeliverWebhook(m)
      PROVE  OneHandlerPerSuccess'
  <2>1. CASE RecordWebhook(m)
    <3> DEFINE new == [msg |-> m, pc |-> "recorded", seen |-> "none", active |-> FALSE]
    <3>1. /\ UNCHANGED attempts
          /\ handling' = handling \cup {new}
          /\ new.msg = m
          /\ hooks[m.id] = "none"
      BY <2>1 DEF RecordWebhook
    <3> HIDE DEF new
    <3>2. /\ m.id \in Txn
          /\ \A h \in handling : h.msg.id \in Txn
      BY DEF TypeOK, Handler, Attempt
    <3>3. \A t \in Txn : hooks'[t] = IF t = m.id THEN "recorded" ELSE hooks[t]
      BY <2>1, <3>2 DEF RecordWebhook, TypeOK
    <3>4. QED
      BY <3>1, <3>2, <3>3
  <2>2. CASE SkipDuplicate(m)
    BY <2>2 DEF SkipDuplicate
  <2>3. QED
    BY <1>2, <2>1, <2>2 DEF DeliverWebhook
<1>3. ASSUME NEW h \in handling, NEW next, Advance(h, next), next.msg = h.msg,
             UNCHANGED <<attempts, hooks>>
      PROVE  OneHandlerPerSuccess'
  BY <1>3 DEF Advance
<1>4. ASSUME NEW h \in handling, WebhookStep(h) \/ WebhookFails(h) \/ WebhookCrashes(h)
      PROVE  OneHandlerPerSuccess'
  <2>1. h \in Handler
    BY DEF TypeOK
  <2>2. CASE ReadOrder(h)
    BY <1>3, <2>1, <2>2 DEF ReadOrder, Handler
  <2>3. CASE ReadSession(h)
    BY <1>3, <2>1, <2>3 DEF ReadSession, Handler
  <2>4. CASE IgnoreWebhook(h)
    BY <1>3, <2>1, <2>4 DEF IgnoreWebhook, Handler
  <2>5. CASE CaptureSession(h)
    BY <1>3, <2>1, <2>5 DEF CaptureSession, Handler
  <2>6. CASE FailSession(h)
    BY <1>3, <2>1, <2>6 DEF FailSession, Handler
  <2>7. CASE MarkProcessed(h) \/ WebhookFails(h) \/ WebhookCrashes(h)
    <3>1. /\ UNCHANGED attempts
          /\ handling' = handling \ {h}
      BY <2>7 DEF MarkProcessed, WebhookFails, WebhookCrashes
    <3>2. \A t \in Txn : hooks[t] # "none" => hooks'[t] # "none"
      BY <2>7 DEF MarkProcessed, WebhookFails, WebhookCrashes, TypeOK
    <3>3. \A g \in handling : g.msg.id \in Txn
      BY DEF TypeOK, Handler, Attempt
    <3>4. QED
      BY <3>1, <3>2, <3>3
  <2>8. QED
    BY <1>4, <2>2, <2>3, <2>4, <2>5, <2>6, <2>7 DEF WebhookStep
<1>5. QED
  BY <1>1, <1>2, <1>4

\* A step of a handler that tells nothing, and leaves the orders alone, keeps
\* TellInv if the handler knows of no older status than it did.
LEMMA SilentStepsTell ==
  ASSUME TypeOK, PaidInv, TellInv, OneHandlerPerSuccess',
         UNCHANGED <<orders, outbox, placing, patching>>,
         \A g \in handling' :
           g.pc \in {"order", "session"} =>
             \/ orders[g.msg.order].status = g.seen /\ g.msg.order \in Order
             \/ \E h \in handling : /\ h.pc \in {"order", "session"}
                                    /\ h.msg = g.msg /\ h.seen = g.seen
  PROVE  TellInv'
BY DEF TellInv, FreshOrdersAreUntold, WaitingOrdersAreUntold, LiveOrdersAreTold

\* A declined payment tells payment.failed, which concerns no decision.
LEMMA FailSessionTell ==
  ASSUME TypeOK, PaidInv, TellInv, OneHandlerPerSuccess', NEW h \in handling, FailSession(h)
  PROVE  TellInv'
<1> DEFINE o == h.msg.order
<1>1. o \in Order /\ placing[o] = "done" /\ h \in Handler
  BY DEF TypeOK, Handler, Attempt, PaidInv, PaymentsAreOfPlacedOrders
<1>2. /\ UNCHANGED <<orders, placing, patching>>
      /\ handling' = (handling \ {h}) \cup {[h EXCEPT !.pc = "committed"]}
      /\ outbox' = [outbox EXCEPT ![o] = @ \o <<"payment.failed">>]
  BY DEF FailSession, Advance, InsertOutboxEvents, placeVars
<1>3. outbox[o] \in Seq(EventType) /\ outbox'[o] = outbox[o] \o <<"payment.failed">>
  BY <1>1, <1>2 DEF TypeOK, OrdersTypeOK
<1>4. InOrder(outbox'[o]) /\ (Tells(outbox'[o]) <=> Tells(outbox[o]))
  BY <1>1, <1>3, OtherEventsKeepOrder DEF TellInv, EventType
<1>5. \A q \in Order \ {o} : outbox'[q] = outbox[q]
  BY <1>2 DEF TypeOK, OrdersTypeOK
<1>6. \A q \in Order : InOrder(outbox'[q]) /\ (Tells(outbox'[q]) <=> Tells(outbox[q]))
  BY <1>4, <1>5 DEF TellInv
<1>7. FreshOrdersAreUntold'
  BY <1>1, <1>2, <1>5 DEF TellInv, FreshOrdersAreUntold
<1>8. WaitingOrdersAreUntold'
  <2>1. \A g \in handling : g.msg.order \in Order
    BY DEF TypeOK, Handler, Attempt
  <2>2. [h EXCEPT !.pc = "committed"].pc = "committed"
    BY <1>1 DEF Handler
  <2>3. QED
    BY <1>2, <1>6, <2>1, <2>2 DEF TellInv, WaitingOrdersAreUntold
<1>9. LiveOrdersAreTold'
  BY <1>2, <1>6 DEF TellInv, LiveOrdersAreTold, TypeOK, OrdersTypeOK, PatchState
<1>10. QED
  BY <1>6, <1>7, <1>8, <1>9 DEF TellInv

\* A successful payment tells order.placed if its handler read that the order
\* waited for it; no other handler is about to tell it again.
LEMMA CaptureSessionTell ==
  ASSUME TypeOK, PaidInv, TellInv, OneHandlerPerSuccess', NEW h \in handling,
         CaptureSession(h)
  PROVE  TellInv'
<1> DEFINE o == h.msg.order
           places == h.seen = "pending_payment"
           next == [h EXCEPT !.pc = "committed"]
<1>1. /\ o \in Order /\ placing[o] = "done" /\ h \in Handler /\ h.msg \in attempts
      /\ orders'[o].status = IF places THEN "placed" ELSE orders[o].status
      /\ \A q \in Order \ {o} : orders'[q] = orders[q]
  BY CapturedOrders DEF TypeOK
<1>2. /\ UNCHANGED <<placing, patching>>
      /\ h.pc = "session" /\ h.msg.outcome = "SUCCESS"
      /\ handling' = (handling \ {h}) \cup {next}
      /\ outbox' = [outbox EXCEPT ![o] =
                      @ \o (IF places THEN <<"payment.completed", "order.placed">>
                                      ELSE <<"payment.completed">>)]
  BY DEF CaptureSession, Advance, InsertOutboxEvents, placeVars
<1>3. next.pc = "committed"
  BY <1>1 DEF Handler
<1> HIDE DEF next
<1>4. outbox[o] \in Seq(EventType) /\ InOrder(outbox[o])
  BY <1>1 DEF TypeOK, OrdersTypeOK, TellInv
<1>5. /\ InOrder(outbox'[o])
      /\ Tells(outbox'[o]) <=> places \/ Tells(outbox[o])
  <2>1. CASE places
    <3>1. ~Tells(outbox[o])
      BY <1>2, <2>1 DEF TellInv, WaitingOrdersAreUntold
    <3>2. outbox'[o] = outbox[o] \o <<"payment.completed", "order.placed">>
      BY <1>1, <1>2, <2>1 DEF TypeOK, OrdersTypeOK
    <3>3. QED
      BY <1>4, <2>1, <3>1, <3>2, PaymentTellingKeepsOrder
  <2>2. CASE ~places
    <3>1. outbox'[o] = outbox[o] \o <<"payment.completed">>
      BY <1>1, <1>2, <2>2 DEF TypeOK, OrdersTypeOK
    <3>2. QED
      BY <1>4, <2>2, <3>1, OtherEventsKeepOrder DEF EventType
  <2>3. QED
    BY <2>1, <2>2
<1>6. \A q \in Order \ {o} : outbox'[q] = outbox[q]
  BY <1>2 DEF TypeOK, OrdersTypeOK
<1>7. FreshOrdersAreUntold'
  BY <1>1, <1>2, <1>6 DEF TellInv, FreshOrdersAreUntold
<1>8. WaitingOrdersAreUntold'
  <2>1. \A q \in Order : orders'[q].status = "pending_payment" => ~Tells(outbox'[q])
    BY <1>1, <1>5, <1>6 DEF TellInv, WaitingOrdersAreUntold
  <2>2. \A g \in handling : g.msg.order \in Order /\ g.msg \in attempts
    BY DEF TypeOK, Handler, Attempt, PaidInv, PaymentsAreOfPlacedOrders
  <2>3. \A g \in handling \ {h} : g.msg.outcome = "SUCCESS" => g.msg.order # o
    <3>1. \A m, n \in attempts :
            m.order = n.order /\ m.outcome = "SUCCESS" /\ n.outcome = "SUCCESS" => m = n
      BY DEF TellInv, OneHandlerPerSuccess
    <3>2. \A g \in handling : g.msg = h.msg => g = h
      BY DEF TellInv, OneHandlerPerSuccess
    <3>3. QED
      BY <1>1, <1>2, <2>2, <3>1, <3>2
  <2>4. \A g \in handling \ {h} :
          /\ g.pc \in {"order", "session"}
          /\ g.msg.outcome = "SUCCESS"
          /\ g.seen = "pending_payment"
          => ~Tells(outbox'[g.msg.order])
    BY <1>6, <2>2, <2>3 DEF TellInv, WaitingOrdersAreUntold
  <2>5. QED
    BY <1>2, <1>3, <2>1, <2>4 DEF WaitingOrdersAreUntold
<1>9. LiveOrdersAreTold'
  BY <1>1, <1>2, <1>5, <1>6 DEF TellInv, LiveOrdersAreTold, TypeOK, OrdersTypeOK, PatchState
<1>10. QED
  BY <1>4, <1>5, <1>6, <1>7, <1>8, <1>9 DEF TellInv

\* A step of a payment, a webhook or its handler keeps TellInv.
LEMMA PaymentTell ==
  ASSUME TypeOK, PaidInv, TellInv,
         \/ \E t \in Txn, o \in Order, outcome \in Outcome : CustomerPays(t, o, outcome)
         \/ \E m \in attempts : DeliverWebhook(m)
         \/ \E h \in handling : WebhookStep(h) \/ WebhookFails(h) \/ WebhookCrashes(h)
  PROVE  TellInv'
<1>0. OneHandlerPerSuccess'
  BY PaymentOneHandler DEF TellInv
<1>1. CASE \E t \in Txn, o \in Order, outcome \in Outcome : CustomerPays(t, o, outcome)
  BY <1>0, <1>1, SilentStepsTell DEF CustomerPays, ordersVars, placeVars
<1>2. ASSUME NEW m \in attempts, DeliverWebhook(m)
      PROVE  TellInv'
  BY <1>0, <1>2, SilentStepsTell
  DEF DeliverWebhook, RecordWebhook, SkipDuplicate, ordersVars, placeVars
<1>3. ASSUME NEW h \in handling, MarkProcessed(h) \/ WebhookFails(h) \/ WebhookCrashes(h)
      PROVE  TellInv'
  BY <1>0, <1>3, SilentStepsTell
  DEF MarkProcessed, WebhookFails, WebhookCrashes, ordersVars, placeVars
<1>4. ASSUME NEW h \in handling, NEW next, Advance(h, next),
             UNCHANGED <<orders, outbox, placing, patching>>,
             next.pc \in {"order", "session"} =>
               \/ orders[next.msg.order].status = next.seen /\ next.msg.order \in Order
               \/ h.pc \in {"order", "session"} /\ h.msg = next.msg /\ h.seen = next.seen
      PROVE  TellInv'
  BY <1>0, <1>4, SilentStepsTell DEF Advance
<1>5. ASSUME NEW h \in handling, ReadOrder(h)
      PROVE  TellInv'
  <2> DEFINE next == [h EXCEPT !.pc = "order", !.seen = orders[h.msg.order].status]
  <2>1. /\ next.msg = h.msg /\ next.seen = orders[h.msg.order].status
        /\ h.msg.order \in Order
    BY DEF TypeOK, Handler, Attempt
  <2>2. Advance(h, next) /\ UNCHANGED <<orders, outbox, placing, patching>>
    BY <1>5 DEF ReadOrder, ordersVars, placeVars
  <2> HIDE DEF next
  <2>3. QED
    BY <1>4, <2>1, <2>2
<1>6. ASSUME NEW h \in handling, ReadSession(h)
      PROVE  TellInv'
  <2> DEFINE next == [h EXCEPT !.pc = "session",
                               !.active = session[h.msg.order] = "initialized"]
  <2>1. next.msg = h.msg /\ next.seen = h.seen /\ h.pc = "order"
    BY <1>6 DEF TypeOK, Handler, ReadSession
  <2>2. Advance(h, next) /\ UNCHANGED <<orders, outbox, placing, patching>>
    BY <1>6 DEF ReadSession, ordersVars, placeVars
  <2> HIDE DEF next
  <2>3. QED
    BY <1>4, <2>1, <2>2
<1>7. ASSUME NEW h \in handling, IgnoreWebhook(h)
      PROVE  TellInv'
  <2> DEFINE next == [h EXCEPT !.pc = "committed"]
  <2>1. next.pc = "committed"
    BY DEF TypeOK, Handler
  <2>2. Advance(h, next) /\ UNCHANGED <<orders, outbox, placing, patching>>
    BY <1>7 DEF IgnoreWebhook, ordersVars, placeVars
  <2> HIDE DEF next
  <2>3. QED
    BY <1>4, <2>1, <2>2
<1>8. QED
  BY <1>0, <1>1, <1>2, <1>3, <1>5, <1>6, <1>7, FailSessionTell, CaptureSessionTell
  DEF WebhookStep

\* TellInv is an invariant of the specification.
LEMMA TellInvariant == Spec => []TellInv
<1>1. Init => TellInv
  BY DEF Init, OrdersInit, TellInv, FreshOrdersAreUntold, OneHandlerPerSuccess,
         WaitingOrdersAreUntold, LiveOrdersAreTold, Tells, InOrder, NoRow, Live, Status
<1>2. TypeOK /\ PaidInv /\ TellInv /\ [Next]_vars => TellInv'
  <2> SUFFICES ASSUME TypeOK, PaidInv, TellInv, [Next]_vars PROVE TellInv'
    OBVIOUS
  <2>1. CASE UNCHANGED vars
    BY <2>1 DEF TellInv, FreshOrdersAreUntold, OneHandlerPerSuccess, WaitingOrdersAreUntold,
                LiveOrdersAreTold, vars, ordersVars, placeVars, paymentVars
  <2>2. QED
    BY <2>1, UpdateStatusTell, PlaceOrderTell, PaymentTell DEF Next
<1>3. QED
  BY <1>1, <1>2, TypeCorrect, PaidInvariant, PTL DEF Spec

\* PlacedToldOnceAndFirst holds for any number of orders, PATCH requests and
\* attempts, under every fault: the row of payment_webhook_events lets one
\* handler at a payment, and only live orders are decided on.
THEOREM PlacedIsToldOnceAndFirst == Spec => []PlacedToldOnceAndFirst
<1>1. TellInv => PlacedToldOnceAndFirst
  BY DEF TellInv, InOrder, PlacedToldOnceAndFirst
<1>2. QED
  BY <1>1, TellInvariant, PTL

-----------------------------------------------------------------------------
(* Checkout is a sale.  An event inserted is told once more, a step that   *)
(* inserts none leaves the sale as it is or stops or resumes an order.     *)

\* How often an event is in the outbox of an order.
Count(s, event) == Cardinality({ i \in DOMAIN s : s[i] = event })

\* An event appended is counted once more, and no other is.
LEMMA CountOfOneMore ==
  ASSUME NEW s \in Seq(EventType), NEW d \in EventType, NEW event
  PROVE  /\ Count(s, event) \in Nat
         /\ Count(s \o <<d>>, event) = Count(s, event) + (IF event = d THEN 1 ELSE 0)
<1> DEFINE t == s \o <<d>>
           at == { i \in DOMAIN s : s[i] = event }
<1>1. /\ Len(s) \in Nat /\ DOMAIN s = 1 .. Len(s)
      /\ DOMAIN t = 1 .. (Len(s) + 1)
      /\ \A i \in 1 .. Len(s) : t[i] = s[i]
      /\ t[Len(s) + 1] = d
  OBVIOUS
<1> HIDE DEF t
<1>2. IsFiniteSet(at)
  <2>1. IsFiniteSet(1 .. Len(s)) /\ at \in SUBSET (1 .. Len(s))
    BY <1>1, FS_Interval
  <2>2. QED
    BY <2>1, FS_Subset
<1>3. { i \in DOMAIN t : t[i] = event } = IF event = d THEN at \cup {Len(s) + 1} ELSE at
  BY <1>1
<1>4. Len(s) + 1 \notin at
  BY <1>1
<1>5. Cardinality(at) \in Nat
  BY <1>2, FS_CardinalityType
<1>6. Cardinality(at \cup {Len(s) + 1}) = Cardinality(at) + 1
  BY <1>2, <1>4, FS_AddElement
<1> HIDE DEF at
<1>7. CASE event = d
  <2>1. { i \in DOMAIN t : t[i] = event } = at \cup {Len(s) + 1}
    BY <1>3, <1>7
  <2>2. Cardinality({ i \in DOMAIN t : t[i] = event }) = Cardinality(at) + 1
    BY <1>6, <2>1
  <2>3. QED
    BY <1>5, <1>7, <2>2 DEF Count, at, t
<1>8. CASE event # d
  <2>1. { i \in DOMAIN t : t[i] = event } = at
    BY <1>3, <1>8
  <2>2. Cardinality({ i \in DOMAIN t : t[i] = event }) = Cardinality(at)
    BY <2>1
  <2>3. QED
    <3>1. Cardinality(at) = Cardinality(at) + 0
      BY <1>5
    <3>2. Count(t, event) = Cardinality(at) /\ Count(s, event) = Cardinality(at)
      BY <2>2 DEF Count, at
    <3>3. QED
      BY <1>5, <1>8, <3>1, <3>2 DEF t
<1>9. QED
  BY <1>7, <1>8

\* Nothing appended changes no count, two events appended change two.
LEMMA CountOfNoneOrTwoMore ==
  ASSUME NEW s \in Seq(EventType), NEW c \in EventType, NEW d \in EventType, NEW event
  PROVE  /\ Count(s \o <<>>, event) = Count(s, event)
         /\ c # d => Count(s \o <<c, d>>, event)
                       = Count(s, event) + (IF event \in {c, d} THEN 1 ELSE 0)
<1>1. s \o <<>> = s
  BY ConcatEmptySeq
<1>2. s \o <<c, d>> = (s \o <<c>>) \o <<d>> /\ s \o <<c>> \in Seq(EventType)
  <2>1. <<c>> \in Seq(EventType) /\ <<d>> \in Seq(EventType)
    OBVIOUS
  <2>2. <<c>> \o <<d>> \in Seq(EventType) /\ <<c, d>> \in Seq(EventType)
    BY <2>1, ConcatProperties
  <2>3. <<c>> \o <<d>> = <<c, d>>
    <3>1. Len(<<c>> \o <<d>>) = 2 /\ Len(<<c, d>>) = 2
      OBVIOUS
    <3>2. \A i \in 1 .. 2 : (<<c>> \o <<d>>)[i] = <<c, d>>[i]
      OBVIOUS
    <3>3. QED
      BY <2>2, <3>1, <3>2, SeqEqual
  <2>4. (s \o <<c>>) \o <<d>> = s \o (<<c>> \o <<d>>)
    BY <2>1, ConcatAssociative
  <2>5. s \o <<c>> \in Seq(EventType)
    BY <2>1, ConcatProperties
  <2>6. QED
    BY <2>3, <2>4, <2>5, Zenon
<1>3. /\ Count(s, event) \in Nat
      /\ Count(s \o <<c>>, event) = Count(s, event) + (IF event = c THEN 1 ELSE 0)
  BY CountOfOneMore
<1>4. Count((s \o <<c>>) \o <<d>>, event)
        = Count(s \o <<c>>, event) + (IF event = d THEN 1 ELSE 0)
  <2> DEFINE t == s \o <<c>>
  <2>1. t \in Seq(EventType)
    BY <1>2
  <2> HIDE DEF t
  <2>2. Count(t \o <<d>>, event) = Count(t, event) + (IF event = d THEN 1 ELSE 0)
    BY <2>1, CountOfOneMore
  <2>3. QED
    BY <2>2 DEF t
<1>5. Count(s \o <<>>, event) = Count(s, event)
  BY <1>1
<1>6. Count(s \o <<c, d>>, event)
        = Count(s, event) + (IF event = c THEN 1 ELSE 0) + (IF event = d THEN 1 ELSE 0)
  <2>1. Count(s \o <<c, d>>, event)
          = Count(s \o <<c>>, event) + (IF event = d THEN 1 ELSE 0)
    BY <1>2, <1>4
  <2>2. QED
    BY <1>3, <2>1
<1>7. c # d => (IF event = c THEN 1 ELSE 0) + (IF event = d THEN 1 ELSE 0)
                 = IF event \in {c, d} THEN 1 ELSE 0
  OBVIOUS
<1>8. QED
  BY <1>3, <1>5, <1>6, <1>7

\* An order is told of when order.placed is counted.
LEMMA ToldWhenCounted ==
  ASSUME NEW s \in Seq(EventType)
  PROVE  /\ Count(s, "order.placed") \in Nat
         /\ Tells(s) <=> Count(s, "order.placed") > 0
         /\ Tells(s) <=> Count(s, "order.placed") # 0
<1> DEFINE at == { i \in DOMAIN s : s[i] = "order.placed" }
<1>1. IsFiniteSet(at)
  <2>1. IsFiniteSet(1 .. Len(s)) /\ at \in SUBSET (1 .. Len(s))
    BY FS_Interval
  <2>2. QED
    BY <2>1, FS_Subset
<1>2. Cardinality(at) \in Nat /\ (Cardinality(at) = 0 <=> at = {})
  BY <1>1, FS_CardinalityType, FS_EmptySet
<1>3. Tells(s) <=> at # {}
  BY DEF Tells
<1> HIDE DEF at
<1>4. QED
  BY <1>2, <1>3 DEF Count, at

\* The state of the sale, as a checkout shows it.
AtDoor == { o \in Order : orders[o].method = "cod" }
On == { o \in Order : orders[o].status \in Live }
Told == [x \in Order \X SaleEvent |-> TimesTold(x[1], x[2])]
saleVars == <<AtDoor, attempts, charges, Told, On>>

\* What is told shows in the counts of events, and in them alone.
LEMMA NewsAreTold ==
  ASSUME NEW news,
         \A o \in Order : \A event \in SaleEvent :
           Count(outbox'[o], event)
             = Count(outbox[o], event) + (IF <<o, event>> \in news THEN 1 ELSE 0)
  PROVE  Restaurant!Tell(news)
<1>1. \A o \in Order : \A event \in SaleEvent :
        /\ TimesTold(o, event) = Count(outbox[o], event)
        /\ TimesTold(o, event)' = Count(outbox'[o], event)
  BY DEF TimesTold, Count
<1>2. \A x \in Order \X SaleEvent :
        /\ x = <<x[1], x[2]>> /\ x[1] \in Order /\ x[2] \in SaleEvent
        /\ Told[x] = TimesTold(x[1], x[2])
  BY DEF Told
<1>3. \A x \in Order \X SaleEvent :
        TimesTold(x[1], x[2])' = Told[x] + (IF x \in news THEN 1 ELSE 0)
  <2> SUFFICES ASSUME NEW x \in Order \X SaleEvent
               PROVE  TimesTold(x[1], x[2])' = Told[x] + (IF x \in news THEN 1 ELSE 0)
    OBVIOUS
  <2>1. PICK o \in Order, event \in SaleEvent : x = <<o, event>>
    BY <1>2
  <2>2. TimesTold(o, event)' = Told[x] + (IF x \in news THEN 1 ELSE 0)
    BY <1>1, <1>2, <2>1
  <2>3. QED
    BY <2>1, <2>2
<1>4. Told' = [x \in Order \X SaleEvent |-> Told[x] + (IF x \in news THEN 1 ELSE 0)]
  BY <1>3 DEF Told
<1>5. QED
  BY <1>4 DEF Told, Restaurant!Tell, Restaurant!Event, SaleEvent

\* An event inserted is told of its order, two are told together.
LEMMA InsertedEventsAreTold ==
  ASSUME TypeOK, NEW o \in Order, NEW c \in EventType, NEW d \in EventType
  PROVE  /\ outbox' = InsertOutboxEvents(o, <<d>>) => Restaurant!Tell({<<o, d>>})
         /\ c # d /\ outbox' = InsertOutboxEvents(o, <<c, d>>)
              => Restaurant!Tell({<<o, c>>} \cup {<<o, d>>})
<1>1. \A q \in Order : outbox[q] \in Seq(EventType)
  BY DEF TypeOK, OrdersTypeOK
<1>2. \A q \in Order : \A event \in SaleEvent : Count(outbox[q], event) \in Nat
  BY <1>1, CountOfOneMore DEF EventType
<1>3. ASSUME outbox' = InsertOutboxEvents(o, <<d>>)
      PROVE  Restaurant!Tell({<<o, d>>})
  <2>1. /\ outbox'[o] = outbox[o] \o <<d>>
        /\ \A q \in Order \ {o} : outbox'[q] = outbox[q]
    BY <1>3 DEF InsertOutboxEvents, TypeOK, OrdersTypeOK
  <2>2. \A event \in SaleEvent :
          Count(outbox'[o], event) = Count(outbox[o], event) + (IF event = d THEN 1 ELSE 0)
    BY <1>1, <2>1, CountOfOneMore
  <2>3. \A q \in Order : \A event \in SaleEvent :
          Count(outbox'[q], event)
            = Count(outbox[q], event) + (IF <<q, event>> \in {<<o, d>>} THEN 1 ELSE 0)
    <3> TAKE q \in Order
    <3> TAKE event \in SaleEvent
    <3>1. CASE q = o
      <4>1. <<q, event>> \in {<<o, d>>} <=> event = d
        BY <3>1
      <4>2. QED
        BY <2>2, <3>1, <4>1
    <3>2. CASE q # o
      <4>1. <<q, event>> \notin {<<o, d>>}
        BY <3>2
      <4>2. Count(outbox'[q], event) = Count(outbox[q], event)
        BY <2>1, <3>2
      <4>3. QED
        BY <1>2, <4>1, <4>2
    <3>3. QED
      BY <3>1, <3>2
  <2>4. QED
    BY <2>3, NewsAreTold
<1>4. ASSUME c # d, outbox' = InsertOutboxEvents(o, <<c, d>>)
      PROVE  Restaurant!Tell({<<o, c>>} \cup {<<o, d>>})
  <2>1. /\ outbox'[o] = outbox[o] \o <<c, d>>
        /\ \A q \in Order \ {o} : outbox'[q] = outbox[q]
    BY <1>4 DEF InsertOutboxEvents, TypeOK, OrdersTypeOK
  <2>2. \A event \in SaleEvent :
          Count(outbox'[o], event)
            = Count(outbox[o], event) + (IF event \in {c, d} THEN 1 ELSE 0)
    <3> TAKE event \in SaleEvent
    <3>1. Count(outbox[o] \o <<c, d>>, event)
            = Count(outbox[o], event) + (IF event \in {c, d} THEN 1 ELSE 0)
      BY <1>1, <1>4, CountOfNoneOrTwoMore
    <3>2. QED
      BY <2>1, <3>1
  <2>3. \A q \in Order : \A event \in SaleEvent :
          Count(outbox'[q], event)
            = Count(outbox[q], event)
              + (IF <<q, event>> \in {<<o, c>>} \cup {<<o, d>>} THEN 1 ELSE 0)
    <3> TAKE q \in Order
    <3> TAKE event \in SaleEvent
    <3>1. CASE q = o
      <4>1. <<q, event>> \in {<<o, c>>} \cup {<<o, d>>} <=> event \in {c, d}
        BY <3>1
      <4>2. QED
        BY <2>2, <3>1, <4>1
    <3>2. CASE q # o
      <4>1. <<q, event>> \notin {<<o, c>>} \cup {<<o, d>>}
        BY <3>2
      <4>2. Count(outbox'[q], event) = Count(outbox[q], event)
        BY <2>1, <3>2
      <4>3. QED
        BY <1>2, <4>1, <4>2
    <3>3. QED
      BY <3>1, <3>2
  <2>4. QED
    BY <2>3, NewsAreTold
<1>5. QED
  BY <1>3, <1>4

\* An event the sale knows nothing of, or none at all, tells nothing in it.
LEMMA OtherEventsAreNoNews ==
  ASSUME TypeOK, NEW o \in Order, NEW events,
         outbox' = InsertOutboxEvents(o, events),
         events = <<>> \/ \E d \in EventType \ SaleEvent : events = <<d>>
  PROVE  Told' = Told
<1>1. /\ outbox[o] \in Seq(EventType)
      /\ outbox'[o] = outbox[o] \o events
      /\ \A q \in Order \ {o} : outbox'[q] = outbox[q]
  BY DEF InsertOutboxEvents, TypeOK, OrdersTypeOK
<1>2. \A event \in SaleEvent : Count(outbox'[o], event) = Count(outbox[o], event)
  <2>1. CASE events = <<>>
    BY <1>1, <2>1, CountOfNoneOrTwoMore DEF EventType
  <2>2. ASSUME NEW d \in EventType \ SaleEvent, events = <<d>>, NEW event \in SaleEvent
        PROVE  Count(outbox'[o], event) = Count(outbox[o], event)
    <3>1. /\ Count(outbox[o], event) \in Nat
          /\ Count(outbox[o] \o <<d>>, event)
               = Count(outbox[o], event) + (IF event = d THEN 1 ELSE 0)
      BY <1>1, CountOfOneMore
    <3>2. QED
      BY <1>1, <2>2, <3>1
  <2>3. QED
    BY <2>1, <2>2
<1>3. \A x \in Order \X SaleEvent : TimesTold(x[1], x[2])' = TimesTold(x[1], x[2])
  <2>1. \A q \in Order : \A event \in SaleEvent :
          /\ TimesTold(q, event) = Count(outbox[q], event)
          /\ TimesTold(q, event)' = Count(outbox'[q], event)
    BY DEF TimesTold, Count
  <2>2. \A q \in Order : \A event \in SaleEvent : TimesTold(q, event)' = TimesTold(q, event)
    <3>1. \A q \in Order : \A event \in SaleEvent :
            Count(outbox'[q], event) = Count(outbox[q], event)
      BY <1>1, <1>2
    <3>2. QED
      BY <2>1, <3>1
  <2> TAKE x \in Order \X SaleEvent
  <2>3. PICK q \in Order, event \in SaleEvent : x = <<q, event>>
    OBVIOUS
  <2>4. x[1] = q /\ x[2] = event
    BY <2>3
  <2>5. TimesTold(q, event)' = TimesTold(q, event)
    BY <2>2
  <2>6. QED
    BY <2>4, <2>5
<1>4. QED
  BY <1>3 DEF Told

\* Until placeOrder inserts an order, nothing is known of how it is paid for.
FreshOrdersHaveNoMethod ==
  \A o \in Order : placing[o] \in {"idle", "reserved"} => orders[o].method = "none"

\* The insert of an order takes it to be paid at the door, and tells of it, or
\* leaves the sale as it is.
LEMMA InsertIsTaking ==
  ASSUME TypeOK, PaidInv, TellInv, FreshOrdersHaveNoMethod,
         NEW o \in Order, NEW method \in PaymentMethod, placing[o] = "reserved",
         WriteOrder(o, method), UNCHANGED paymentVars
  PROVE  Restaurant!TakeAtDoor(o) \/ UNCHANGED saleVars
<1>1. /\ orders[o].status = "none" /\ orders[o].method = "none"
      /\ outbox[o] = <<>>
      /\ \A m \in attempts : m.order # o
  BY DEF PaidInv, FreshOrdersHaveNoRow, PaymentsAreOfPlacedOrders, Exists, TellInv,
         FreshOrdersAreUntold, FreshOrdersHaveNoMethod
<1>2. /\ orders'[o].status = IF method = "online" THEN "pending_payment" ELSE "placed"
      /\ orders'[o].method = method
      /\ \A q \in Order \ {o} : orders'[q] = orders[q]
  BY InsertedOrders
<1>3. UNCHANGED <<attempts, charges>>
  BY DEF paymentVars
<1>4. CASE method = "cod"
  <2>1. AtDoor' = AtDoor \cup {o} /\ On' = On \cup {o}
    BY <1>2, <1>4 DEF AtDoor, On, Live, Status
  <2>2. Told[<<o, "order.placed">>] = 0
    <3>1. Count(outbox[o], "order.placed") = 0
      BY <1>1, FS_EmptySet DEF Count
    <3>2. Told[<<o, "order.placed">>] = TimesTold(o, "order.placed")
      BY DEF Told, SaleEvent
    <3>3. QED
      BY <3>1, <3>2 DEF TimesTold, Count
  <2>3. Restaurant!Tell({<<o, "order.placed">>})
    <3>1. outbox' = InsertOutboxEvents(o, <<"order.placed">>) /\ "order.placed" \in EventType
      BY <1>4 DEF WriteOrder, EventType
    <3>2. QED
      BY <3>1, InsertedEventsAreTold
  <2>4. {} \cup {<<o, "order.placed">>} = {<<o, "order.placed">>}
    OBVIOUS
  <2>5. Restaurant!Place(o, {})
    BY <2>1, <2>2, <2>3, <2>4 DEF Restaurant!Place, Told, On
  <2>6. QED
    BY <1>1, <1>3, <2>1, <2>5 DEF Restaurant!TakeAtDoor, AtDoor
<1>5. CASE method = "online"
  <2>1. AtDoor' = AtDoor /\ On' = On
    BY <1>1, <1>2, <1>5 DEF AtDoor, On, Live, Status
  <2>2. Told' = Told
    BY <1>5, OtherEventsAreNoNews DEF WriteOrder
  <2>3. QED
    BY <1>3, <2>1, <2>2 DEF saleVars
<1>6. QED
  BY <1>4, <1>5 DEF PaymentMethod

\* A step of placeOrder takes an order, stops one, or leaves the sale as it is.
LEMMA PlaceOrderSells ==
  ASSUME TypeOK, PaidInv, TellInv, FreshOrdersHaveNoMethod,
         NEW o \in Order, PlaceOrderStep(o) \/ PlaceOrderCrashes(o)
  PROVE  [Restaurant!Next]_saleVars /\ FreshOrdersHaveNoMethod'
<1> USE DEF Goto
<1>1. /\ \A q \in Order \ {o} : placing'[q] = placing[q]
      /\ placing'[o] \in {"idle", "reserved"} => placing[o] \in {"idle", "reserved"}
      /\ UNCHANGED <<attempts, charges>>
  BY DEF PlaceOrderStep, PlaceOrderCrashes, ReserveStock, ReserveRefused, ReserveAckLost,
         BeginTransactionFails, InsertOrder, InsertOrderFails, InsertOrderAckLost,
         InitOnlinePayment, InitOnlinePaymentFails, InitOnlinePaymentAckLost, VoidOrderSafe,
         VoidOrderFails, ReleaseStockSafe, ReleaseStockFails, TypeOK, paymentVars
<1>2. CASE UNCHANGED <<orders, outbox>>
  <2>1. UNCHANGED <<AtDoor, On, Told>>
    BY <1>2 DEF AtDoor, On, Told, TimesTold
  <2>2. QED
    BY <1>1, <1>2, <2>1 DEF saleVars, FreshOrdersHaveNoMethod
<1>3. ASSUME NEW method \in PaymentMethod,
             InsertOrder(o, method) \/ InsertOrderAckLost(o, method)
      PROVE  [Restaurant!Next]_saleVars /\ FreshOrdersHaveNoMethod'
  <2>1. placing[o] = "reserved" /\ WriteOrder(o, method) /\ UNCHANGED paymentVars
    BY <1>3 DEF InsertOrder, InsertOrderAckLost
  <2>2. placing'[o] \notin {"idle", "reserved"}
    BY <1>3 DEF InsertOrder, InsertOrderAckLost, TypeOK
  <2>3. FreshOrdersHaveNoMethod'
    BY <1>1, <2>1, <2>2, InsertedOrders DEF FreshOrdersHaveNoMethod
  <2>4. QED
    BY <2>1, <2>3, InsertIsTaking DEF Restaurant!Next
<1>4. CASE VoidOrderSafe(o)
  <2>1. /\ orders'[o].status = "cancelled"
        /\ \A q \in Order : orders'[q].method = orders[q].method
        /\ \A q \in Order \ {o} : orders'[q] = orders[q]
    BY <1>4, VoidedOrders
  <2>2. AtDoor' = AtDoor /\ On' = On \ {o}
    BY <2>1 DEF AtDoor, On, Live
  <2>3. Told' = Told
    BY <1>4 DEF VoidOrderSafe, Told, TimesTold
  <2>4. Restaurant!Stop(o)
    BY <1>1, <2>2, <2>3 DEF Restaurant!Stop, AtDoor, On, Told
  <2>5. QED
    BY <1>1, <2>1, <2>4 DEF Restaurant!Next, FreshOrdersHaveNoMethod
<1>5. QED
  BY <1>2, <1>3, <1>4
  DEF PlaceOrderStep, PlaceOrderCrashes, ReserveStock, ReserveRefused, ReserveAckLost,
      BeginTransactionFails, InsertOrderFails, InitOnlinePayment, InitOnlinePaymentFails,
      InitOnlinePaymentAckLost, VoidOrderFails, ReleaseStockSafe, ReleaseStockFails,
      ordersVars

\* A step of updateStatus lets an order go on that was told of, stops one, or
\* leaves the sale as it is.
LEMMA UpdateStatusSells ==
  ASSUME TypeOK, PaidInv, TellInv, FreshOrdersHaveNoMethod,
         UpdateStatusNext, UNCHANGED <<placeVars, paymentVars>>
  PROVE  [Restaurant!Next]_saleVars /\ FreshOrdersHaveNoMethod'
<1>1. UNCHANGED <<placing, attempts, charges>>
  BY DEF placeVars, paymentVars
<1>2. CASE UNCHANGED <<orders, outbox>>
  <2>1. UNCHANGED <<AtDoor, On, Told>>
    BY <1>2 DEF AtDoor, On, Told, TimesTold
  <2>2. QED
    BY <1>1, <1>2, <2>1 DEF saleVars, FreshOrdersHaveNoMethod
<1>3. ASSUME NEW p \in patching, CommitUpdateStatus(p)
      PROVE  [Restaurant!Next]_saleVars /\ FreshOrdersHaveNoMethod'
  <2> DEFINE o == p.order
             to == p.rule.to
  <2>1. /\ o \in Order /\ to \in Status
        /\ orders'[o].status = to
        /\ \A q \in Order : orders'[q].method = orders[q].method
        /\ \A q \in Order \ {o} : orders'[q] = orders[q]
    BY <1>3, PatchesWriteTheirRule
  <2>2. AtDoor' = AtDoor
    BY <2>1 DEF AtDoor
  <2>3. Told' = Told
    <3>1. outbox' = InsertOutboxEvents(o, EventForStatus(to))
      BY <1>3 DEF CommitUpdateStatus
    <3>2. \/ EventForStatus(to) = <<>>
          \/ \E d \in EventType \ SaleEvent : EventForStatus(to) = <<d>>
      BY DEF EventForStatus, EventType, SaleEvent
    <3>3. QED
      BY <2>1, <3>1, <3>2, OtherEventsAreNoNews
  <2>4. CASE to \in Live
    <3>1. Told[<<o, "order.placed">>] > 0
      <4>1. Tells(outbox[o]) /\ outbox[o] \in Seq(EventType)
        BY <2>1, <2>4 DEF TellInv, LiveOrdersAreTold, TypeOK, OrdersTypeOK
      <4>2. Count(outbox[o], "order.placed") > 0
        BY <4>1, ToldWhenCounted
      <4>3. Told[<<o, "order.placed">>] = TimesTold(o, "order.placed")
        BY <2>1 DEF Told, SaleEvent
      <4>4. QED
        BY <4>2, <4>3 DEF TimesTold, Count
    <3>2. On' = On \cup {o}
      BY <2>1, <2>4 DEF On
    <3>3. Restaurant!GoOn(o)
      BY <1>1, <2>2, <2>3, <3>1, <3>2 DEF Restaurant!GoOn, AtDoor, On, Told
    <3>4. QED
      BY <1>1, <2>1, <3>3 DEF Restaurant!Next, FreshOrdersHaveNoMethod
  <2>5. CASE to \notin Live
    <3>1. On' = On \ {o}
      BY <2>1, <2>5 DEF On
    <3>2. Restaurant!Stop(o)
      BY <1>1, <2>2, <2>3, <3>1 DEF Restaurant!Stop, AtDoor, On, Told
    <3>3. QED
      BY <1>1, <2>1, <3>2 DEF Restaurant!Next, FreshOrdersHaveNoMethod
  <2>6. QED
    BY <2>4, <2>5
<1>4. QED
  BY <1>2, <1>3 DEF UpdateStatusNext, BeginUpdateStatus, AbortUpdateStatus, CancelWindowCloses

\* The transaction of a successful payment books it; it is told of with the
\* order it pays for, if its handler read that the order waited for it.
LEMMA CaptureIsBooking ==
  ASSUME TypeOK, PaidInv, TellInv, NEW h \in handling, CaptureSession(h)
  PROVE  Restaurant!Book(h.msg)
<1> DEFINE m == h.msg
           o == h.msg.order
<1>1. /\ m \in attempts /\ o \in Order /\ m.outcome = "SUCCESS"
      /\ h.pc = "session"
      /\ \A c \in charges : c.key # m.id
      /\ charges' = charges \cup {[key |-> m.id, order |-> o, status |-> "succeeded"]}
      /\ attempts' = attempts
  BY CapturedOrders DEF CaptureSession, CreateCharge
<1>2. AtDoor' = AtDoor
  BY CapturedOrders DEF AtDoor
<1>3. charges' = charges \cup {Restaurant!EntryOf(m)} /\ Restaurant!EventOf(m) = "payment.completed"
  BY <1>1 DEF Restaurant!EntryOf, Restaurant!EventOf
<1>4. CASE h.seen = "pending_payment"
  <2>1. On' = On \cup {o}
    BY <1>1, <1>4, CapturedOrders DEF On, Live, Status
  <2>2. Told[<<o, "order.placed">>] = 0
    <3>1. ~Tells(outbox[o]) /\ outbox[o] \in Seq(EventType)
      BY <1>1, <1>4 DEF TellInv, WaitingOrdersAreUntold, TypeOK, OrdersTypeOK
    <3>2. Count(outbox[o], "order.placed") = 0
      BY <3>1, ToldWhenCounted
    <3>3. Told[<<o, "order.placed">>] = TimesTold(o, "order.placed")
      BY <1>1 DEF Told, SaleEvent
    <3>4. QED
      BY <3>2, <3>3 DEF TimesTold, Count
  <2>3. Restaurant!Tell({<<o, "payment.completed">>} \cup {<<o, "order.placed">>})
    <3>1. outbox' = InsertOutboxEvents(o, <<"payment.completed", "order.placed">>)
      BY <1>4 DEF CaptureSession
    <3>2. "payment.completed" \in EventType /\ "order.placed" \in EventType
      BY DEF EventType
    <3>3. QED
      BY <1>1, <3>1, <3>2, InsertedEventsAreTold
  <2>4. Restaurant!Place(o, {<<o, Restaurant!EventOf(m)>>})
    BY <1>3, <2>1, <2>2, <2>3 DEF Restaurant!Place, Told, On
  <2>5. QED
    BY <1>1, <1>2, <1>3, <2>4 DEF Restaurant!Book, AtDoor
<1>5. CASE h.seen # "pending_payment"
  <2>1. On' = On
    BY <1>5 DEF CaptureSession, On
  <2>2. Restaurant!Tell({<<o, "payment.completed">>})
    <3>1. outbox' = InsertOutboxEvents(o, <<"payment.completed">>)
      BY <1>5 DEF CaptureSession
    <3>2. "payment.completed" \in EventType
      BY DEF EventType
    <3>3. QED
      BY <1>1, <3>1, <3>2, InsertedEventsAreTold
  <2>3. Restaurant!Tell({<<o, Restaurant!EventOf(m)>>})
    BY <1>3, <2>2
  <2>4. QED
    BY <1>1, <1>2, <1>3, <2>1, <2>3 DEF Restaurant!Book, AtDoor, On
<1>6. QED
  BY <1>4, <1>5

\* The transaction of a declined payment books it as that, and tells so.
LEMMA FailedIsBooking ==
  ASSUME TypeOK, PaidInv, NEW h \in handling, FailSession(h)
  PROVE  Restaurant!Book(h.msg)
<1> DEFINE m == h.msg
           o == h.msg.order
<1>1. /\ m \in attempts /\ o \in Order /\ m.outcome = "FAILED"
      /\ \A c \in charges : c.key # m.id
      /\ charges' = charges \cup {[key |-> m.id, order |-> o, status |-> "failed"]}
      /\ attempts' = attempts
  BY DEF FailSession, CreateCharge, TypeOK, Handler, Attempt, PaidInv,
         PaymentsAreOfPlacedOrders
<1>2. AtDoor' = AtDoor /\ On' = On
  BY DEF FailSession, AtDoor, On
<1>3. charges' = charges \cup {Restaurant!EntryOf(m)} /\ Restaurant!EventOf(m) = "payment.failed"
  BY <1>1 DEF Restaurant!EntryOf, Restaurant!EventOf
<1>4. Restaurant!Tell({<<o, Restaurant!EventOf(m)>>})
  <2>1. outbox' = InsertOutboxEvents(o, <<"payment.failed">>)
    BY DEF FailSession
  <2>2. "payment.failed" \in EventType
    BY DEF EventType
  <2>3. Restaurant!Tell({<<o, "payment.failed">>})
    BY <1>1, <2>1, <2>2, InsertedEventsAreTold
  <2>4. QED
    BY <1>3, <2>3
<1>5. QED
  BY <1>1, <1>2, <1>3, <1>4 DEF Restaurant!Book, AtDoor, On

\* A step of a payment, a webhook or its handler makes a payment, books one, or
\* leaves the sale as it is.
LEMMA PaymentSells ==
  ASSUME TypeOK, PaidInv, TellInv, FreshOrdersHaveNoMethod,
         \/ \E t \in Txn, o \in Order, outcome \in Outcome : CustomerPays(t, o, outcome)
         \/ \E m \in attempts : DeliverWebhook(m)
         \/ \E h \in handling : WebhookStep(h) \/ WebhookFails(h) \/ WebhookCrashes(h)
  PROVE  [Restaurant!Next]_saleVars /\ FreshOrdersHaveNoMethod'
<1>1. placing' = placing
  BY DEF CustomerPays, DeliverWebhook, RecordWebhook, SkipDuplicate, WebhookStep, ReadOrder,
         ReadSession, IgnoreWebhook, CaptureSession, FailSession, MarkProcessed, WebhookFails,
         WebhookCrashes, placeVars
<1>2. CASE UNCHANGED <<orders, outbox, attempts, charges>>
  <2>1. UNCHANGED <<AtDoor, On, Told>>
    BY <1>2 DEF AtDoor, On, Told, TimesTold
  <2>2. QED
    BY <1>1, <1>2, <2>1 DEF saleVars, FreshOrdersHaveNoMethod
<1>3. ASSUME NEW t \in Txn, NEW o \in Order, NEW outcome \in Outcome,
             CustomerPays(t, o, outcome)
      PROVE  [Restaurant!Next]_saleVars /\ FreshOrdersHaveNoMethod'
  <2> DEFINE m == [id |-> t, order |-> o, outcome |-> outcome]
  <2>1. /\ UNCHANGED <<orders, outbox, charges>>
        /\ orders[o].method = "online"
        /\ \A n \in attempts : n.id # t /\ (n.order = o => n.outcome # "SUCCESS")
        /\ attempts' = attempts \cup {m}
    BY <1>3 DEF CustomerPays, ordersVars
  <2>2. m \in Attempt /\ m.id = t /\ m.order = o
    BY OutcomeAssumption DEF Attempt
  <2> HIDE DEF m
  <2>3. UNCHANGED <<AtDoor, On, Told>> /\ o \notin AtDoor
    BY <2>1 DEF AtDoor, On, Told, TimesTold
  <2>4. Restaurant!Pay(m)
    BY <2>1, <2>2, <2>3 DEF Restaurant!Pay, AtDoor, On, Told
  <2>5. QED
    BY <1>1, <2>1, <2>2, <2>4 DEF Restaurant!Next, FreshOrdersHaveNoMethod
<1>4. ASSUME NEW h \in handling, CaptureSession(h) \/ FailSession(h)
      PROVE  [Restaurant!Next]_saleVars /\ FreshOrdersHaveNoMethod'
  <2>1. h.msg \in Attempt
    BY DEF TypeOK, Handler
  <2>2. Restaurant!Book(h.msg)
    BY <1>4, CaptureIsBooking, FailedIsBooking
  <2>3. \A q \in Order : orders'[q].method = orders[q].method
    BY <1>4, CapturedOrders DEF FailSession
  <2>4. QED
    BY <1>1, <2>1, <2>2, <2>3 DEF Restaurant!Next, FreshOrdersHaveNoMethod
<1>5. \/ \E t \in Txn, o \in Order, outcome \in Outcome : CustomerPays(t, o, outcome)
      \/ \E h \in handling : CaptureSession(h) \/ FailSession(h)
      \/ UNCHANGED <<orders, outbox, attempts, charges>>
  <2>1. ASSUME NEW h \in handling, WebhookStep(h) \/ WebhookFails(h) \/ WebhookCrashes(h)
        PROVE  \/ CaptureSession(h) \/ FailSession(h)
               \/ UNCHANGED <<orders, outbox, attempts, charges>>
    BY <2>1 DEF WebhookStep, ReadOrder, ReadSession, IgnoreWebhook, MarkProcessed,
                WebhookFails, WebhookCrashes, ordersVars
  <2>2. ASSUME NEW m \in attempts, DeliverWebhook(m)
        PROVE  UNCHANGED <<orders, outbox, attempts, charges>>
    BY <2>2 DEF DeliverWebhook, RecordWebhook, SkipDuplicate, ordersVars
  <2>3. QED
    BY <2>1, <2>2
<1>6. QED
  BY <1>2, <1>3, <1>4, <1>5

\* Checkout implements Sale for every set of orders, requests, attempts and
\* faults: a payment is booked once, as what it was and with its event, an order
\* is told of once, and one that was never told of is never on.
THEOREM CheckoutIsASale == Spec => ImplementsSale
<1>1. Init => Restaurant!Init /\ FreshOrdersHaveNoMethod
  <2> SUFFICES ASSUME Init PROVE Restaurant!Init /\ FreshOrdersHaveNoMethod
    OBVIOUS
  <2>1. AtDoor = {} /\ On = {} /\ FreshOrdersHaveNoMethod
    BY DEF Init, OrdersInit, AtDoor, On, NoRow, Live, Status, FreshOrdersHaveNoMethod
  <2>2. \A o \in Order : \A event \in SaleEvent : TimesTold(o, event) = 0
    BY FS_EmptySet DEF Init, OrdersInit, TimesTold
  <2>3. Told = [x \in Order \X SaleEvent |-> 0]
    BY <2>2 DEF Told
  <2>4. QED
    BY <2>1, <2>3
    DEF Init, Restaurant!Init, AtDoor, On, Told, Restaurant!Event, SaleEvent
<1>2. TypeOK /\ PaidInv /\ TellInv /\ FreshOrdersHaveNoMethod /\ [Next]_vars
        => [Restaurant!Next]_saleVars /\ FreshOrdersHaveNoMethod'
  <2> SUFFICES ASSUME TypeOK, PaidInv, TellInv, FreshOrdersHaveNoMethod, [Next]_vars
               PROVE  [Restaurant!Next]_saleVars /\ FreshOrdersHaveNoMethod'
    OBVIOUS
  <2>1. CASE UNCHANGED vars
    <3>1. UNCHANGED saleVars
      BY <2>1 DEF vars, ordersVars, paymentVars, saleVars, AtDoor, On, Told, TimesTold
    <3>2. QED
      BY <2>1, <3>1 DEF FreshOrdersHaveNoMethod, vars, ordersVars, placeVars
  <2>2. QED
    BY <2>1, UpdateStatusSells, PlaceOrderSells, PaymentSells DEF Next
<1>3. QED
  BY <1>1, <1>2, TypeCorrect, PaidInvariant, TellInvariant, PTL
  DEF Spec, ImplementsSale, Restaurant!Spec, saleVars, AtDoor, Told, On

=============================================================================

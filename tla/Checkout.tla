------------------------------ MODULE Checkout ------------------------------
(***************************************************************************)
(* From basket to kitchen: OrderService.placeOrder with its compensations, *)
(* PaymentService.initOnlinePayment, and KashierWebhookService, running    *)
(* beside each other and beside the PATCH requests of module Orders.       *)
(*                                                                         *)
(* Each handler is cut at every await that reads or writes shared state.   *)
(* Core's stock reservation and Kashier are outside the repository: they   *)
(* are modelled from how this code calls them and is called by them.       *)
(***************************************************************************)
EXTENDS Orders, Naturals, FiniteSets

CONSTANTS
  Txn,        \* Kashier transaction ids, one per payment attempt
  Outcome,    \* outcomes of payment attempts, a subset of {"SUCCESS", "FAILED"}
  Faults      \* which rare failures happen; the ordinary ones always may

ASSUME OutcomeAssumption == Outcome \subseteq {"SUCCESS", "FAILED"}

\* "crash": the process dies between two steps of a handler.
\* "begin": conn.transaction() throws, there is no connection to be had.
\* "compensation": voiding the order or releasing its stock fails as well.
\* "ack": a call takes effect but its caller only sees an error.
\* "webhook": the database fails during the reconciliation of a webhook.
FaultKind == {"crash", "begin", "compensation", "ack", "webhook"}
ASSUME FaultsAssumption == Faults \subseteq FaultKind

VARIABLES
  placing,    \* where placeOrder stands, per order
  unsure,     \* history: orders whose commit looked failed to placeOrder
  mishaps,    \* history: orders whose compensation failed or was never begun
  stock,      \* core's reservation under the idempotency key publicId
  session,    \* status of the order's payment_sessions row
  attempts,   \* payment attempts Kashier has a result for and reports
  acked,      \* transaction ids whose webhook has been answered 200
  hooks,      \* payment_webhook_events: the row of a transaction id
  handling,   \* webhook handlers at work
  charges     \* CHARGE rows of the transactions table

paymentVars == <<session, attempts, acked, hooks, handling, charges>>
history == <<unsure, mishaps>>
placeVars == <<placing, stock, history>>
vars == <<ordersVars, placeVars, paymentVars>>

Attempt == [id : Txn, order : Order, outcome : {"SUCCESS", "FAILED"}]
Handler == [msg : Attempt,
            pc : {"recorded", "order", "session", "committed"},
            seen : Status \cup {"none"},   \* order.status as it was read
            active : BOOLEAN]              \* an active session was found
Charge == [key : Txn, order : Order, status : {"succeeded", "failed"}]

TypeOK ==
  /\ OrdersTypeOK
  /\ placing \in [Order -> {"idle", "reserved", "paying", "voiding", "releasing",
                            "done", "failed"}]
  /\ stock \in [Order -> {"none", "reserved", "released"}]
  /\ unsure \subseteq Order
  /\ mishaps \subseteq Order
  /\ session \in [Order -> {"none", "initialized", "captured", "failed"}]
  /\ attempts \subseteq Attempt
  /\ acked \subseteq Txn
  /\ hooks \in [Txn -> {"none", "recorded", "processed", "error"}]
  /\ handling \subseteq Handler
  /\ charges \subseteq Charge

Init ==
  /\ OrdersInit
  /\ placing = [o \in Order |-> "idle"]
  /\ stock = [o \in Order |-> "none"]
  /\ unsure = {}
  /\ mishaps = {}
  /\ session = [o \in Order |-> "none"]
  /\ attempts = {}
  /\ acked = {}
  /\ hooks = [t \in Txn |-> "none"]
  /\ handling = {}
  /\ charges = {}

Goto(o, from, to) ==
  /\ placing[o] = from
  /\ placing' = [placing EXCEPT ![o] = to]

-----------------------------------------------------------------------------
(* OrderService.placeOrder.                                                *)

\* What leaves an order or its stock behind for good.
Mishap(o) == mishaps' = mishaps \cup {o} /\ UNCHANGED unsure

\* coreReserveStock, after the checks of branch, address and products.
ReserveStock(o) ==
  /\ Goto(o, "idle", "reserved")
  /\ stock' = [stock EXCEPT ![o] = "reserved"]
  /\ UNCHANGED <<ordersVars, history, paymentVars>>

\* Core answers 409, or cannot be reached: placeOrder throws.
ReserveRefused(o) ==
  /\ Goto(o, "idle", "failed")
  /\ UNCHANGED <<ordersVars, stock, history, paymentVars>>

\* Core reserves but every answer is lost: placeOrder throws all the same.
ReserveAckLost(o) ==
  /\ "ack" \in Faults
  /\ Goto(o, "idle", "failed")
  /\ stock' = [stock EXCEPT ![o] = "reserved"]
  /\ Mishap(o)
  /\ UNCHANGED <<ordersVars, paymentVars>>

\* conn.transaction() throws, outside the try that would release the stock.
BeginTransactionFails(o) ==
  /\ "begin" \in Faults
  /\ Goto(o, "reserved", "failed")
  /\ Mishap(o)
  /\ UNCHANGED <<ordersVars, stock, paymentVars>>

\* Slips: an online order starts as placed; order.placed is told for it too.
WritePlaced(o, method) ==
  /\ orders' = CreateOrder(o, "placed", method)
  /\ outbox' = InsertOutboxEvents(o, IF method = "cod" THEN <<"order.placed">> ELSE <<>>)
  /\ UNCHANGED <<patching, windowOver>>
WriteTold(o, method) ==
  /\ orders' = CreateOrder(o, IF method = "online" THEN "pending_payment" ELSE "placed",
                           method)
  /\ outbox' = InsertOutboxEvents(o, <<"order.placed">>)
  /\ UNCHANGED <<patching, windowOver>>

\* What the transaction writes: the row, and order.placed for a COD order.
WriteOrder(o, method) ==
  /\ orders' = CreateOrder(o, IF method = "online" THEN "pending_payment" ELSE "placed",
                           method)
  /\ outbox' = InsertOutboxEvents(o, IF method = "cod" THEN <<"order.placed">> ELSE <<>>)
  /\ UNCHANGED <<patching, windowOver>>

\* Slip: the compensation in a finally block.
InsertThenRelease(o, method) ==
  /\ Goto(o, "reserved", IF method = "online" THEN "paying" ELSE "releasing")
  /\ WriteOrder(o, method)
  /\ UNCHANGED <<stock, history, paymentVars>>

\* createOrder, bulkInsertItems, the outbox row and the commit.
InsertOrder(o, method) ==
  /\ Goto(o, "reserved", IF method = "online" THEN "paying" ELSE "done")
  /\ WriteOrder(o, method)
  /\ UNCHANGED <<stock, history, paymentVars>>

\* Slip: the failure is rethrown before the stock is released.
RethrowAtOnce(o) ==
  /\ Goto(o, "reserved", "failed")
  /\ UNCHANGED <<ordersVars, stock, history, paymentVars>>

\* The transaction fails and rolls back: the stock has to be released.
InsertOrderFails(o) ==
  /\ Goto(o, "reserved", "releasing")
  /\ UNCHANGED <<ordersVars, stock, history, paymentVars>>

\* The commit takes effect but fails for its caller, who compensates.
InsertOrderAckLost(o, method) ==
  /\ "ack" \in Faults
  /\ Goto(o, "reserved", "releasing")
  /\ WriteOrder(o, method)
  /\ unsure' = unsure \cup {o}
  /\ mishaps' = mishaps \cup {o}
  /\ UNCHANGED <<stock, paymentVars>>

\* initOnlinePayment: a session at Kashier and its payment_sessions row.  A
\* new order has no session yet, so the early return for one is never taken.
InitOnlinePayment(o) ==
  /\ Goto(o, "paying", "done")
  /\ session' = [session EXCEPT ![o] = "initialized"]
  /\ UNCHANGED <<ordersVars, stock, history, attempts, acked, hooks, handling, charges>>

\* Kashier is unavailable, or the row cannot be inserted.
InitOnlinePaymentFails(o) ==
  /\ Goto(o, "paying", "voiding")
  /\ UNCHANGED <<ordersVars, stock, history, paymentVars>>

\* The row is inserted but its caller only sees an error.
InitOnlinePaymentAckLost(o) ==
  /\ "ack" \in Faults
  /\ Goto(o, "paying", "voiding")
  /\ session' = [session EXCEPT ![o] = "initialized"]
  /\ UNCHANGED <<ordersVars, stock, history, attempts, acked, hooks, handling, charges>>

\* voidOrderSafe: cancels whatever the status is, and tells nobody.
VoidOrderSafe(o) ==
  /\ Goto(o, "voiding", "releasing")
  /\ orders' = UpdateOrderStatus(o, "cancelled", "cancelled_at")
  /\ UNCHANGED <<outbox, patching, windowOver, stock, history, paymentVars>>

\* voidOrderSafe swallows its own failure; releaseStockSafe comes next anyway.
VoidOrderFails(o) ==
  /\ "compensation" \in Faults
  /\ Goto(o, "voiding", "releasing")
  /\ Mishap(o)
  /\ UNCHANGED <<ordersVars, stock, paymentVars>>

\* releaseStockSafe, then the error is thrown to the customer.
ReleaseStockSafe(o) ==
  /\ Goto(o, "releasing", "failed")
  /\ stock' = [stock EXCEPT ![o] = "released"]
  /\ UNCHANGED <<ordersVars, history, paymentVars>>

ReleaseStockFails(o) ==
  /\ "compensation" \in Faults
  /\ Goto(o, "releasing", "failed")
  /\ Mishap(o)
  /\ UNCHANGED <<ordersVars, stock, paymentVars>>

\* The process dies with the request half done.
PlaceOrderCrashes(o) ==
  /\ "crash" \in Faults
  /\ placing[o] \notin {"idle", "done", "failed"}
  /\ placing' = [placing EXCEPT ![o] = "failed"]
  /\ Mishap(o)
  /\ UNCHANGED <<ordersVars, stock, paymentVars>>

PlaceOrderStep(o) ==
  \/ ReserveStock(o)
  \/ ReserveRefused(o)
  \/ ReserveAckLost(o)
  \/ BeginTransactionFails(o)
  \/ \E method \in PaymentMethod : InsertOrder(o, method)
  \/ InsertOrderFails(o)
  \/ \E method \in PaymentMethod : InsertOrderAckLost(o, method)
  \/ InitOnlinePayment(o)
  \/ InitOnlinePaymentFails(o)
  \/ InitOnlinePaymentAckLost(o)
  \/ VoidOrderSafe(o)
  \/ VoidOrderFails(o)
  \/ ReleaseStockSafe(o)
  \/ ReleaseStockFails(o)

-----------------------------------------------------------------------------
(* Kashier.  A one-time session takes any number of declined attempts and  *)
(* at most one successful one.  Only a customer whose placeOrder has been  *)
(* answered has the redirect URL to pay at.                                *)
CustomerPays(t, o, outcome) ==
  /\ placing[o] = "done"
  /\ orders[o].method = "online"
  /\ \A m \in attempts : m.id # t
  /\ \A m \in attempts : m.order = o => m.outcome # "SUCCESS"
  /\ attempts' = attempts \cup {[id |-> t, order |-> o, outcome |-> outcome]}
  /\ UNCHANGED <<ordersVars, placeVars, session, acked, hooks, handling, charges>>

-----------------------------------------------------------------------------
(* KashierWebhookService.processKashierWebhook.  Kashier sends a webhook   *)
(* again, also while an earlier delivery is still being handled, until one *)
(* delivery is answered 200.                                               *)

\* recordWebhookOrSkip inserts the row, committed on its own, before the work.
RecordWebhook(m) ==
  /\ m.id \notin acked
  /\ hooks[m.id] = "none"
  /\ hooks' = [hooks EXCEPT ![m.id] = "recorded"]
  /\ handling' = handling \cup
       {[msg |-> m, pc |-> "recorded", seen |-> "none", active |-> FALSE]}
  /\ UNCHANGED <<ordersVars, placeVars, session, attempts, acked, charges>>

\* Slip: only a processed webhook counts as a duplicate.
SkipProcessed(m) ==
  /\ m.id \notin acked
  /\ hooks[m.id] = "processed"
  /\ acked' = acked \cup {m.id}
  /\ UNCHANGED <<ordersVars, placeVars, session, attempts, hooks, handling, charges>>

\* The row exists: the delivery is a duplicate and is answered 200.
SkipDuplicate(m) ==
  /\ m.id \notin acked
  /\ hooks[m.id] # "none"
  /\ acked' = acked \cup {m.id}
  /\ UNCHANGED <<ordersVars, placeVars, session, attempts, hooks, handling, charges>>

\* A handler goes on to its next await.
Advance(h, next) == handling' = (handling \ {h}) \cup {next}

\* findOrderByPublicId; placeOrder has committed the row a session belongs to.
ReadOrder(h) ==
  /\ h.pc = "recorded"
  /\ Advance(h, [h EXCEPT !.pc = "order", !.seen = orders[h.msg.order].status])
  /\ UNCHANGED <<ordersVars, placeVars, session, attempts, acked, hooks, charges>>

\* findActiveSessionByOrderId: INITIALIZED is the only active status written.
ReadSession(h) ==
  /\ h.pc = "order"
  /\ Advance(h, [h EXCEPT !.pc = "session",
                          !.active = session[h.msg.order] = "initialized"])
  /\ UNCHANGED <<ordersVars, placeVars, session, attempts, acked, hooks, charges>>

\* No active session: logged, and the webhook is done with.
IgnoreWebhook(h) ==
  /\ h.pc = "session" /\ ~h.active
  /\ Advance(h, [h EXCEPT !.pc = "committed"])
  /\ UNCHANGED <<ordersVars, placeVars, session, attempts, acked, hooks, charges>>

\* Slip: a declined payment is booked like the others.
ChargeSucceeded(m, status) ==
  /\ \A c \in charges : c.key # m.id
  /\ charges' = charges \cup {[key |-> m.id, order |-> m.order, status |-> "succeeded"]}

\* createTransaction; the unique idempotency_key kashier:<id> admits one row.
CreateCharge(m, status) ==
  /\ \A c \in charges : c.key # m.id
  /\ charges' = charges \cup {[key |-> m.id, order |-> m.order, status |-> status]}

\* Slip: the order is not moved on.
CaptureOnly(h) ==
  /\ h.pc = "session" /\ h.active /\ h.msg.outcome = "SUCCESS"
  /\ session' = [session EXCEPT ![h.msg.order] = "captured"]
  /\ CreateCharge(h.msg, "succeeded")
  /\ outbox' = InsertOutboxEvents(h.msg.order, <<"payment.completed">>)
  /\ Advance(h, [h EXCEPT !.pc = "committed"])
  /\ UNCHANGED <<orders, patching, windowOver, placeVars, attempts, acked, hooks>>

\* The SUCCESS transaction.  The status was read before the transaction began,
\* and the UPDATE that places the order does not look at it again.
CaptureSession(h) ==
  LET o == h.msg.order
      places == h.seen = "pending_payment"
  IN
  /\ h.pc = "session" /\ h.active /\ h.msg.outcome = "SUCCESS"
  /\ session' = [session EXCEPT ![o] = "captured"]
  /\ CreateCharge(h.msg, "succeeded")
  /\ orders' = IF places THEN UpdateOrderStatus(o, "placed", NoStamp) ELSE orders
  /\ outbox' = InsertOutboxEvents(o, IF places THEN <<"payment.completed", "order.placed">>
                                               ELSE <<"payment.completed">>)
  /\ Advance(h, [h EXCEPT !.pc = "committed"])
  /\ UNCHANGED <<patching, windowOver, placeVars, attempts, acked, hooks>>

\* The FAILED transaction leaves the order in pending_payment.
FailSession(h) ==
  /\ h.pc = "session" /\ h.active /\ h.msg.outcome = "FAILED"
  /\ session' = [session EXCEPT ![h.msg.order] = "failed"]
  /\ CreateCharge(h.msg, "failed")
  /\ outbox' = InsertOutboxEvents(h.msg.order, <<"payment.failed">>)
  /\ Advance(h, [h EXCEPT !.pc = "committed"])
  /\ UNCHANGED <<orders, patching, windowOver, placeVars, attempts, acked, hooks>>

\* markWebhookProcessed and the 200.
MarkProcessed(h) ==
  /\ h.pc = "committed"
  /\ hooks' = [hooks EXCEPT ![h.msg.id] = "processed"]
  /\ acked' = acked \cup {h.msg.id}
  /\ handling' = handling \ {h}
  /\ UNCHANGED <<ordersVars, placeVars, session, attempts, charges>>

\* Slip: processed_at is stamped in a finally block.
WebhookFailsProcessed(h) ==
  /\ "webhook" \in Faults
  /\ hooks' = [hooks EXCEPT ![h.msg.id] = "processed"]
  /\ handling' = handling \ {h}
  /\ UNCHANGED <<ordersVars, placeVars, session, attempts, acked, charges>>

\* Something throws: process_error is stamped and the answer is a 500.
WebhookFails(h) ==
  /\ "webhook" \in Faults
  /\ hooks' = [hooks EXCEPT ![h.msg.id] = "error"]
  /\ handling' = handling \ {h}
  /\ UNCHANGED <<ordersVars, placeVars, session, attempts, acked, charges>>

\* The process dies, or not even process_error can be stamped.
WebhookCrashes(h) ==
  /\ "crash" \in Faults
  /\ handling' = handling \ {h}
  /\ UNCHANGED <<ordersVars, placeVars, session, attempts, acked, hooks, charges>>

DeliverWebhook(m) == RecordWebhook(m) \/ SkipDuplicate(m)

WebhookStep(h) ==
  \/ ReadOrder(h)
  \/ ReadSession(h)
  \/ IgnoreWebhook(h)
  \/ CaptureSession(h)
  \/ FailSession(h)
  \/ MarkProcessed(h)

-----------------------------------------------------------------------------
Next ==
  \/ \E o \in Order : PlaceOrderStep(o)
  \/ \E o \in Order : PlaceOrderCrashes(o)
  \/ \E t \in Txn, o \in Order, outcome \in Outcome : CustomerPays(t, o, outcome)
  \/ \E m \in attempts : DeliverWebhook(m)
  \/ \E h \in handling : WebhookStep(h)
  \/ \E h \in handling : WebhookFails(h)
  \/ \E h \in handling : WebhookCrashes(h)
  \/ UpdateStatusNext /\ UNCHANGED <<placeVars, paymentVars>>

Spec == Init /\ [][Next]_vars

\* Node runs every handler on; Kashier goes on sending what was not answered
\* 200.  Nothing makes a customer pay, a PATCH arrive or a fault happen.
Fairness ==
  /\ \A o \in Order : WF_vars(placing[o] # "idle" /\ PlaceOrderStep(o))
  /\ WF_vars(\E m \in attempts : DeliverWebhook(m))
  /\ WF_vars(\E h \in handling : WebhookStep(h))

FairSpec == Spec /\ Fairness

-----------------------------------------------------------------------------
(* Properties.                                                             *)

Charged(o) == \E c \in charges : c.order = o /\ c.status = "succeeded"

\* The kitchen never works for an online order nobody paid for: from placed
\* on, the ledger has a succeeded charge.  A PATCH checked before a webhook
\* commits, a void, or a webhook that read an old status must not break it.
PaidBeforeKitchen ==
  \A o \in Order :
    orders[o].method = "online" /\ orders[o].status \in Live => Charged(o)

\* An order that is on keeps the stock reserved for it: no compensation of
\* placeOrder (releaseStockSafe) runs for an order that lives on.  The one
\* exception is an order whose commit took effect and was taken to have failed.
LiveOrderHoldsStock ==
  \A o \in Order :
    orders[o].status \in Live /\ o \notin unsure => stock[o] = "reserved"

\* Consumers of the outbox hear order.placed once, and before they hear that
\* the restaurant accepted or rejected the order.
PlacedToldOnceAndFirst ==
  \A o \in Order : \A i \in DOMAIN outbox[o] :
    /\ outbox[o][i] \in {"order.accepted", "order.rejected"} =>
         \E j \in 1 .. (i - 1) : outbox[o][j] = "order.placed"
    /\ outbox[o][i] = "order.placed" =>
         \A j \in 1 .. (i - 1) : outbox[o][j] # "order.placed"

\* A webhook of a successful payment that Kashier will not send again and
\* nobody is handling has left its charge in the ledger.
AckedSuccessIsLedgered ==
  \A m \in attempts :
    (/\ m.outcome = "SUCCESS"
     /\ m.id \in acked
     /\ \A h \in handling : h.msg # m)
      => Charged(m.order)

\* That does not hold when a handler fails or an attempt was declined before.  What
\* does: a successful payment that Kashier will not report again is in the ledger,
\* or its webhook row is not marked processed, or the ledger has the declined
\* attempt that closed the session, so that it can be found and put right.
Declined(o) == \E c \in charges : c.order = o /\ c.status = "failed"

LostPaymentLeavesTrace ==
  \A m \in attempts :
    m.outcome = "SUCCESS" /\ m.id \in acked
      => \/ Charged(m.order)
         \/ Declined(m.order)
         \/ hooks[m.id] \in {"recorded", "error"}

\* A placeOrder that failed has undone what it did: no order is left waiting
\* for a payment and no stock is left reserved, however the failure, the void,
\* the webhooks and the PATCH requests interleave.  Excepted are the failures that
\* placeOrder does not compensate or cannot know of: a reservation or a commit
\* that it took to have failed, no connection for the transaction, a compensation
\* that fails, a crash.
FailedCheckoutLeavesNothing ==
  \A o \in Order : placing[o] = "failed" /\ o \notin mishaps =>
    /\ orders[o].status \in {"none", "cancelled"}
    /\ stock[o] # "reserved"

\* Checkout is a sale: whatever webhooks repeat and overlap, requests race and
\* processes die, a payment is booked once, as what it was and with its event,
\* and an order is told of once, at the door or with the booking that pays it.
TimesTold(o, event) == Cardinality({ i \in DOMAIN outbox[o] : outbox[o][i] = event })
SaleEvent == {"order.placed", "payment.completed", "payment.failed"}

Restaurant ==
  INSTANCE Sale WITH Payment <- Attempt, made <- attempts, booked <- charges,
                     atDoor <- { o \in Order : orders[o].method = "cod" },
                     told <- [x \in Order \X SaleEvent |-> TimesTold(x[1], x[2])],
                     on <- { o \in Order : orders[o].status \in Live }

ImplementsSale == Restaurant!Spec

\* Every status change of an existing order is a line of the status table.
StatusFollowsTable ==
  [][\A o \in Order :
       Exists(o) /\ orders'[o].status # orders[o].status
         => <<orders[o].status, orders'[o].status>> \in Edge]_vars

\* Kashier is answered 200 in the end, whatever crashes or fails meanwhile.
KashierStopsRetrying == \A t \in Txn : (\E m \in attempts : m.id = t) ~> (t \in acked)

\* A successful payment gets the order out of pending_payment, beside duplicates,
\* PATCH requests and every fault; unless an attempt was declined before it or its
\* handler failed or died, and left the webhook row unprocessed.
LeftUnprocessed(m) ==
  hooks[m.id] \in {"recorded", "error"} /\ \A h \in handling : h.msg # m

PaymentPlacesOrder ==
  \A t \in Txn, o \in Order :
    LET m == [id |-> t, order |-> o, outcome |-> "SUCCESS"]
    IN  m \in attempts ~> \/ orders[o].status # "pending_payment"
                          \/ Declined(o)
                          \/ LeftUnprocessed(m)
=============================================================================

------------------------------- MODULE Orders -------------------------------
(***************************************************************************)
(* The orders table of one region, the transactional outbox written beside *)
(* it, and PATCH .../orders/:publicId/status (OrderService.updateStatus).  *)
(* updateStatus reads the order and checks the transition first and writes *)
(* later, in a transaction whose UPDATE does not look at the status again: *)
(* two steps here, with any other step allowed in between.  The modules    *)
(* Checkout and Delivery add the other writers of the table.               *)
(***************************************************************************)
EXTENDS OrderStatus, Sequences

CONSTANTS
  Order,      \* public ids an order may get
  Agent,      \* user ids of delivery agents
  NoAgent,    \* delivery_agent_id IS NULL
  Request,    \* ids of PATCH requests that may be in flight
  Callers     \* who sends PATCH requests

ASSUME NoAgentIsNoAgent == NoAgent \notin Agent

\* The customer of the order, a member of its branch, an admin, and delivery
\* agents, who can reach the customer's route.  Everybody else is refused.
Caller == {"customer", "restaurant_user", "system_admin"} \cup Agent
ASSUME CallersAssumption == Callers \subseteq Caller

VARIABLES
  orders,     \* the orders table, by public_id
  outbox,     \* event types in outbox_events, per aggregate, in id order
  patching,   \* updateStatus calls between their check and their commit
  windowOver  \* orders older than CUSTOMER_CANCEL_WINDOW_MS

ordersVars == <<orders, outbox, patching, windowOver>>

Row == [status : Status \cup {"none"}, method : PaymentMethod \cup {"none"},
        agent : Agent \cup {NoAgent}, stamps : SUBSET Stamp]
NoRow == [status |-> "none", method |-> "none", agent |-> NoAgent, stamps |-> {}]

EventType == {"order.placed", "order.accepted", "order.rejected", "order.cancelled",
              "order.delivered", "payment.completed", "payment.failed"}

PatchState == [req : Request, order : Order, rule : TRANSITIONS]

OrdersTypeOK ==
  /\ orders \in [Order -> Row]
  /\ outbox \in [Order -> Seq(EventType)]
  /\ patching \subseteq PatchState
  /\ windowOver \subseteq Order

OrdersInit ==
  /\ orders = [o \in Order |-> NoRow]
  /\ outbox = [o \in Order |-> <<>>]
  /\ patching = {}
  /\ windowOver = {}

-----------------------------------------------------------------------------
(* order.repo.ts and outbox.repo.ts: new values of the two tables.         *)

Exists(o) == orders[o].status # "none"

\* createOrder: a row with no agent and every stamp NULL.
CreateOrder(o, status, method) ==
  [orders EXCEPT ![o] = [NoRow EXCEPT !.status = status, !.method = method]]

\* Slip: `if (stampColumn)` forgotten.
StampAlways(o, status, stamp) ==
  [orders EXCEPT ![o].status = status, ![o].stamps = @ \cup {stamp}]

\* updateOrderStatus: WHERE public_id alone, whatever the status is by now.
UpdateOrderStatus(o, status, stamp) ==
  [orders EXCEPT ![o].status = status,
                 ![o].stamps = @ \cup ({stamp} \ {NoStamp})]

\* insertOutboxEvent, for an aggregate of this order.
InsertOutboxEvents(o, events) == [outbox EXCEPT ![o] = @ \o events]

\* OUTBOX_EVENT_FOR_STATUS: the event of a status, as a sequence of at most one.
EventForStatus(status) ==
  CASE status = "accepted"  -> <<"order.accepted">>
    [] status = "rejected"  -> <<"order.rejected">>
    [] status = "cancelled" -> <<"order.cancelled">>
    [] OTHER                -> <<>>

-----------------------------------------------------------------------------
(* OrderService.updateStatus.                                              *)

\* resolveStatusActor: the acting role, none when the caller is refused.
ResolveStatusActor(caller, row) ==
  { actor \in StatusActor :
      \/ caller = "system_admin"    /\ actor = "admin"
      \/ caller = "restaurant_user" /\ actor = "restaurant_member"
      \/ caller = "customer"        /\ actor = "customer"
      \/ caller \in Agent /\ caller = row.agent /\ actor = "agent" }

\* The read of the order and assertTransition on what was read.
BeginUpdateStatus(r, o, caller, to, reason) ==
  /\ \A p \in patching : p.req # r
  /\ Exists(o)
  /\ \E actor \in ResolveStatusActor(caller, orders[o]) :
     \E rule \in AssertTransition(orders[o].status, to, actor, reason,
                                  "accepted_at" \in orders[o].stamps, o \in windowOver) :
       patching' = patching \cup {[req |-> r, order |-> o, rule |-> rule]}
  /\ UNCHANGED <<orders, outbox, windowOver>>

\* The transaction: the status, its stamp and its event, on the earlier check.
CommitUpdateStatus(p) ==
  /\ orders' = UpdateOrderStatus(p.order, p.rule.to, p.rule.stamp)
  /\ outbox' = InsertOutboxEvents(p.order, EventForStatus(p.rule.to))
  /\ patching' = patching \ {p}
  /\ UNCHANGED windowOver

\* The transaction fails and rolls back, or the process dies before it commits.
AbortUpdateStatus(p) ==
  /\ patching' = patching \ {p}
  /\ UNCHANGED <<orders, outbox, windowOver>>

\* Time: the customer's cancellation window of an order runs out.
CancelWindowCloses(o) ==
  /\ Exists(o)
  /\ o \notin windowOver
  /\ windowOver' = windowOver \cup {o}
  /\ UNCHANGED <<orders, outbox, patching>>

UpdateStatusNext ==
  \/ \E r \in Request, o \in Order, caller \in Callers, to \in Status, reason \in BOOLEAN :
       BeginUpdateStatus(r, o, caller, to, reason)
  \/ \E p \in patching : CommitUpdateStatus(p)
  \/ \E p \in patching : AbortUpdateStatus(p)
  \/ \E o \in Order : CancelWindowCloses(o)
=============================================================================

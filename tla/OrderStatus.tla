---------------------------- MODULE OrderStatus ----------------------------
(***************************************************************************)
(* The order status machine of app/order/service/order-status.service.ts: *)
(* which actor may move an order from which status to which, the timestamp *)
(* column the move stamps, and assertTransition, the check every status    *)
(* update of the API goes through.                                         *)
(***************************************************************************)

\* OrderStatus of enums.ts.
Status == {"pending_payment", "placed", "accepted", "rejected", "preparing",
           "ready", "assigned", "picked", "delivered", "cancelled"}

\* StatusActor of enums.ts.
StatusActor == {"customer", "restaurant_member", "agent", "system", "admin"}

\* PaymentMethod of enums.ts.
PaymentMethod == {"online", "cod"}

\* The nullable timestamp columns of an orders row; NoStamp is `stamp: null`.
Stamp == {"accepted_at", "rejected_at", "ready_at", "assigned_at",
          "picked_at", "delivered_at", "cancelled_at"}
NoStamp == "null"

\* One cell of the table: a rule that needs no reason, and one that does.
Rule(from, to, actors, stamp) ==
  [from |-> from, to |-> to, actors |-> actors, stamp |-> stamp, reason |-> FALSE]
ReasonedRule(from, to, actors, stamp) ==
  [from |-> from, to |-> to, actors |-> actors, stamp |-> stamp, reason |-> TRUE]

\* The table: a transition that is not listed is forbidden.
TRANSITIONS ==
  { Rule("pending_payment", "placed", {"system"}, NoStamp),
    Rule("pending_payment", "cancelled", {"customer", "system"}, "cancelled_at"),
    Rule("placed", "accepted", {"restaurant_member"}, "accepted_at"),
    ReasonedRule("placed", "rejected", {"restaurant_member"}, "rejected_at"),
    ReasonedRule("placed", "cancelled",
                 {"customer", "restaurant_member", "system", "admin"}, "cancelled_at"),
    Rule("accepted", "preparing", {"restaurant_member"}, NoStamp),
    ReasonedRule("accepted", "cancelled", {"restaurant_member", "admin"}, "cancelled_at"),
    Rule("preparing", "ready", {"restaurant_member"}, "ready_at"),
    ReasonedRule("preparing", "cancelled", {"restaurant_member", "admin"}, "cancelled_at"),
    Rule("ready", "assigned", {"system"}, "assigned_at"),
    ReasonedRule("ready", "cancelled", {"restaurant_member", "admin"}, "cancelled_at"),
    Rule("assigned", "picked", {"agent"}, "picked_at"),
    ReasonedRule("assigned", "cancelled", {"admin"}, "cancelled_at"),
    Rule("picked", "delivered", {"agent"}, "delivered_at") }

\* A customer cancels a placed order only before it is accepted and within
\* CUSTOMER_CANCEL_WINDOW_MS of its creation (windowOver: that time is up).
CancellationWindowOpen(accepted, windowOver) == ~accepted /\ ~windowOver

\* The rules under which assertTransition lets the actor through: one or none.
AssertTransition(from, to, actor, reason, accepted, windowOver) ==
  { rule \in TRANSITIONS :
      /\ rule.from = from
      /\ rule.to = to
      /\ actor \in rule.actors
      /\ rule.reason => reason
      /\ (actor = "customer" /\ to = "cancelled" /\ from = "placed")
           => CancellationWindowOpen(accepted, windowOver) }

\* The edges of the table, whoever takes them.
Edge == { <<rule.from, rule.to>> : rule \in TRANSITIONS }

\* Statuses an order holds once the restaurant has been told of it and until
\* it is refused or called off: what "the order is on" means.
Live == Status \ {"pending_payment", "rejected", "cancelled"}
============================================================================

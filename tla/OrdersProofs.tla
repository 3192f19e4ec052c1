---------------------------- MODULE OrdersProofs ----------------------------
(***************************************************************************)
(* Lemmas about the status table, the operators on the orders table and    *)
(* the outbox, and OrderService.updateStatus, for the proofs of the        *)
(* modules that extend Orders.                                             *)
(***************************************************************************)
EXTENDS Orders, SequenceTheorems, TLAPS

-----------------------------------------------------------------------------
(* The status table and the operators on the tables.                       *)

\* A line of the status table leads from a status to a status, and stamps a
\* timestamp column or none.
LEMMA TransitionsType ==
  ASSUME NEW rule \in TRANSITIONS
  PROVE  rule.from \in Status /\ rule.to \in Status /\ rule.stamp \in Stamp \cup {NoStamp}
<1>1. rule.from \in Status /\ rule.to \in Status
  BY DEF TRANSITIONS, Rule, ReasonedRule, Status
<1>2. rule.stamp = NoStamp \/ rule.stamp \in Stamp
  BY DEF TRANSITIONS, Rule, ReasonedRule, Stamp
<1>3. QED
  BY <1>1, <1>2

\* Only the system takes an order from a status that is not live to a live one.
LEMMA OnlySystemRevives ==
  \A rule \in TRANSITIONS :
    rule.to \in Live /\ rule.from \notin Live => rule.actors = {"system"}
BY DEF TRANSITIONS, Rule, ReasonedRule, Live, Status

\* updateOrderStatus yields a table of rows.
LEMMA UpdateOrderStatusType ==
  ASSUME OrdersTypeOK, NEW o \in Order, NEW status \in Status,
         NEW stamp \in Stamp \cup {NoStamp}
  PROVE  UpdateOrderStatus(o, status, stamp) \in [Order -> Row]
BY DEF OrdersTypeOK, UpdateOrderStatus, Row, NoStamp

\* createOrder yields a table of rows.
LEMMA CreateOrderType ==
  ASSUME OrdersTypeOK, NEW o \in Order, NEW status \in Status, NEW method \in PaymentMethod
  PROVE  CreateOrder(o, status, method) \in [Order -> Row]
BY DEF OrdersTypeOK, CreateOrder, Row, NoRow

\* insertOutboxEvent yields an outbox.
LEMMA InsertOutboxEventsType ==
  ASSUME OrdersTypeOK, NEW o \in Order, NEW events \in Seq(EventType)
  PROVE  InsertOutboxEvents(o, events) \in [Order -> Seq(EventType)]
BY ConcatProperties DEF OrdersTypeOK, InsertOutboxEvents

\* The event of a status is an event or nothing.
LEMMA EventForStatusType ==
  ASSUME NEW status \in Status
  PROVE  EventForStatus(status) \in Seq(EventType)
BY DEF EventForStatus, Status, EventType

-----------------------------------------------------------------------------
(* Type correctness.                                                       *)

\* Every step of updateStatus keeps the types of the orders side.
LEMMA UpdateStatusTypeOK ==
  ASSUME OrdersTypeOK, UpdateStatusNext
  PROVE  OrdersTypeOK'
<1>1. ASSUME NEW r \in Request, NEW o \in Order, NEW caller \in Callers, NEW to \in Status,
             NEW reason \in BOOLEAN, BeginUpdateStatus(r, o, caller, to, reason)
      PROVE  OrdersTypeOK'
  BY <1>1 DEF OrdersTypeOK, BeginUpdateStatus, AssertTransition, PatchState
<1>2. ASSUME NEW p \in patching, CommitUpdateStatus(p)
      PROVE  OrdersTypeOK'
  <2>1. p.order \in Order /\ p.rule \in TRANSITIONS
    BY DEF OrdersTypeOK, PatchState
  <2>2. p.rule.to \in Status /\ p.rule.stamp \in Stamp \cup {NoStamp}
    BY <2>1, TransitionsType
  <2>3. orders' \in [Order -> Row]
    BY <1>2, <2>1, <2>2, UpdateOrderStatusType DEF CommitUpdateStatus
  <2>4. outbox' \in [Order -> Seq(EventType)]
    BY <1>2, <2>1, <2>2, EventForStatusType, InsertOutboxEventsType DEF CommitUpdateStatus
  <2>5. QED
    BY <1>2, <2>3, <2>4 DEF OrdersTypeOK, CommitUpdateStatus
<1>3. ASSUME NEW p \in patching, AbortUpdateStatus(p)
      PROVE  OrdersTypeOK'
  BY <1>3 DEF OrdersTypeOK, AbortUpdateStatus
<1>4. ASSUME NEW o \in Order, CancelWindowCloses(o)
      PROVE  OrdersTypeOK'
  BY <1>4 DEF OrdersTypeOK, CancelWindowCloses
<1>5. QED
  BY <1>1, <1>2, <1>3, <1>4 DEF UpdateStatusNext
=============================================================================

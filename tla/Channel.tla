------------------------------ MODULE Channel -------------------------------
(***************************************************************************)
(* What the transactional outbox promises: an event is sent when the       *)
(* transaction that wrote it commits, it reaches the exchange at least     *)
(* once, and nothing else ever reaches the exchange.  Deliveries may be    *)
(* repeated, and nothing is said about their order.                        *)
(***************************************************************************)
CONSTANT Event

VARIABLES
  sent,       \* events whose transaction has committed
  delivered   \* events that have reached the exchange

Init == sent = {} /\ delivered = {}

Send(e) == sent' = sent \cup {e} /\ UNCHANGED delivered

Deliver(e) ==
  /\ e \in sent
  /\ delivered' = delivered \cup {e}
  /\ UNCHANGED sent

Next == \E e \in Event : Send(e) \/ Deliver(e)

Spec == Init /\ [][Next]_<<sent, delivered>>
=============================================================================

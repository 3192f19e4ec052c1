-------------------------------- MODULE Sale --------------------------------
(***************************************************************************)
(* What checkout promises the restaurant, the books and the consumers of   *)
(* its events.  A payment that was made is booked at most once, as what it *)
(* was, and told of in the same step.  An order is told of once: when it   *)
(* is taken, to be paid at the door, or in the step that books the payment *)
(* of it; and only an order that was told of is ever on.                   *)
(***************************************************************************)
EXTENDS Naturals

CONSTANTS
  Order,
  Payment     \* records of an id, an order and an outcome

VARIABLES
  atDoor,     \* orders to be paid at the door
  made,       \* payments customers have attempted
  booked,     \* entries of the ledger
  told,       \* how often an event was told of an order
  on          \* orders the restaurant works on

Event == {"order.placed", "payment.completed", "payment.failed"}

Init ==
  /\ atDoor = {}
  /\ made = {}
  /\ booked = {}
  /\ told = [x \in Order \X Event |-> 0]
  /\ on = {}

EntryOf(m) == [key |-> m.id, order |-> m.order,
               status |-> IF m.outcome = "SUCCESS" THEN "succeeded" ELSE "failed"]
EventOf(m) == IF m.outcome = "SUCCESS" THEN "payment.completed" ELSE "payment.failed"

Tell(news) == told' = [x \in Order \X Event |-> told[x] + (IF x \in news THEN 1 ELSE 0)]

\* The restaurant is told of an order, for the first time.
Place(o, news) ==
  /\ told[<<o, "order.placed">>] = 0
  /\ Tell(news \cup {<<o, "order.placed">>})
  /\ on' = on \cup {o}

TakeAtDoor(o) ==
  /\ \A m \in made : m.order # o
  /\ atDoor' = atDoor \cup {o}
  /\ Place(o, {})
  /\ UNCHANGED <<made, booked>>

\* Nothing is paid twice, whatever was declined before.
Pay(m) ==
  /\ m.order \notin atDoor
  /\ \A n \in made : n.id # m.id /\ (n.order = m.order => n.outcome # "SUCCESS")
  /\ made' = made \cup {m}
  /\ UNCHANGED <<atDoor, booked, told, on>>

Book(m) ==
  /\ m \in made /\ \A entry \in booked : entry.key # m.id
  /\ booked' = booked \cup {EntryOf(m)}
  /\ \/ m.outcome = "SUCCESS" /\ Place(m.order, {<<m.order, EventOf(m)>>})
     \/ Tell({<<m.order, EventOf(m)>>}) /\ UNCHANGED on
  /\ UNCHANGED <<atDoor, made>>

\* An order is called off; one decided on meanwhile goes on all the same.
Stop(o) == on' = on \ {o} /\ UNCHANGED <<atDoor, made, booked, told>>
GoOn(o) ==
  /\ told[<<o, "order.placed">>] > 0
  /\ on' = on \cup {o}
  /\ UNCHANGED <<atDoor, made, booked, told>>

Next ==
  \/ \E o \in Order : TakeAtDoor(o) \/ Stop(o) \/ GoOn(o)
  \/ \E m \in Payment : Pay(m) \/ Book(m)

Spec == Init /\ [][Next]_<<atDoor, made, booked, told, on>>
=============================================================================

------------------------------- MODULE Account -------------------------------
(***************************************************************************)
(* What a restaurant's balance promises: no credit is of more than the     *)
(* order's subtotal, what is credited again is kept count of, every payout *)
(* key is debited at most once, and never with more than there is.         *)
(***************************************************************************)
EXTENDS Integers

CONSTANTS Order, Key, Subtotal

VARIABLES
  balance,    \* in minor units
  surplus,    \* how much of what was ever credited, was credited again
  credited,   \* orders that have been credited
  paid        \* keys of the payouts that have been debited

Init == balance = 0 /\ surplus = 0 /\ credited = {} /\ paid = {}

Credit(o) ==
  /\ o \notin credited
  /\ credited' = credited \cup {o}
  /\ balance' - balance \in 0 .. Subtotal[o]
  /\ UNCHANGED <<surplus, paid>>

CreditAgain(o) ==
  /\ o \in credited
  /\ balance' - balance \in 0 .. Subtotal[o]
  /\ surplus' - surplus \in (balance' - balance) .. Subtotal[o]
  /\ UNCHANGED <<credited, paid>>

Pay(k) ==
  /\ k \notin paid
  /\ paid' = paid \cup {k}
  /\ balance - balance' \in 1 .. balance
  /\ UNCHANGED <<surplus, credited>>

Next ==
  \/ \E o \in Order : Credit(o) \/ CreditAgain(o)
  \/ \E k \in Key : Pay(k)

Spec == Init /\ [][Next]_<<balance, surplus, credited, paid>>
=============================================================================

------------------------------ MODULE Finance -------------------------------
(***************************************************************************)
(* The money of one restaurant in one currency: its balance, the ledger    *)
(* (the transactions table), the settlements that credit it, and the       *)
(* payouts an admin records behind the idempotency middleware.             *)
(*                                                                         *)
(* The middleware looks into Redis before the handler and stores the       *)
(* answer after it, without a lock in between: requests with one key may   *)
(* be in the handler together, and answers come and go with Redis.         *)
(* What a settlement does besides money is in module Delivery.             *)
(***************************************************************************)
EXTENDS Integers, FiniteSetsExt

CONSTANTS
  Order,        \* orders on their way to the customer
  Online,       \* those paid online
  Subtotal,     \* orders.subtotal, per order
  DeliveryFee,  \* orders.delivery_fee, per order
  ServiceFee,   \* SERVICE_FEE_MINOR
  Rate,         \* the commissionBps core may answer with
  Key,          \* Idempotency-Key headers of payout requests
  Amount,       \* amounts that may be paid out
  Request,      \* ids of payout requests that may be in flight
  Settlement,   \* ids of settlements that may be in flight
  MaxCredits    \* bound: an order credited this often is not reported again

ASSUME OrdersAssumption == Online \subseteq Order
ASSUME MoneyAssumption ==
  /\ Subtotal \in [Order -> Nat]
  /\ DeliveryFee \in [Order -> Nat]
  /\ ServiceFee \in Nat
  /\ Amount \subseteq Nat \ {0}
ASSUME RateAssumption == Rate \subseteq 0 .. 10000
ASSUME MaxCreditsAssumption == MaxCredits \in Nat

VARIABLES
  balance,    \* restaurant_balances.balance; 0 as well when there is no row
  ledger,     \* rows of transactions that touch the owner's account
  credits,    \* how often each order was credited; delivered from the first on
  settling,   \* settlements between reading the branch and their transaction
  surplus,    \* history: what repeated settlements credited with no row for it
  requests,   \* payout requests at work
  cache,      \* what Redis keeps as the answer to a key
  told        \* bodies clients have received for a key

moneyVars == <<balance, ledger, credits, settling, surplus>>
vars == <<moneyVars, requests, cache, told>>

\* A row's idempotency_key is unique: the kind and what it is about.
RowKind == {"charge", "cod-collect", "commission", "service-fee", "delivery-fee", "payout"}
LedgerRow == [kind : RowKind, ref : Order \cup Key, amount : Nat]

Body == {"payout", "error"}

RequestState == [id : Request, key : Key, amount : Amount,
                 pc : {"lookup", "work", "reply"},
                 body : Body,                       \* the answer of the handler
                 todo : SUBSET {"store", "tell"}]   \* what res.json still has to do

TypeOK ==
  /\ balance \in Int
  /\ ledger \subseteq LedgerRow
  /\ credits \in [Order -> Nat]
  /\ settling \subseteq [id : Settlement, order : Order, commission : Nat]
  /\ surplus \in Nat
  /\ requests \subseteq RequestState
  /\ cache \in [Key -> Body \cup {"none"}]
  /\ told \in [Key -> SUBSET Body]

\* placeOrder: what the customer pays.
Total(o) == Subtotal[o] + DeliveryFee[o] + ServiceFee

LedgerEntry(kind, ref, amount) == [kind |-> kind, ref |-> ref, amount |-> amount]

\* An online order reached the kitchen because its charge had been captured.
Init ==
  /\ balance = 0
  /\ ledger = { LedgerEntry("charge", o, Total(o)) : o \in Online }
  /\ credits = [o \in Order |-> 0]
  /\ settling = {}
  /\ surplus = 0
  /\ requests = {}
  /\ cache = [k \in Key |-> "none"]
  /\ told = [k \in Key |-> {}]

-----------------------------------------------------------------------------
(* The statements on the two tables, which transactions are made of.       *)

\* idempotency_key is unique over all rows.  A payout's is the header as it was
\* sent, which is taken not to be one of a settlement's ("commission:<id>", ...).
Booked(kind, ref) == \E row \in ledger : row.kind = kind /\ row.ref = ref

\* Slips: the sign of the amount; ON CONFLICT DO NOTHING.
CreateNegative(kind, ref, amount) ==
  /\ ~Booked(kind, ref)
  /\ ledger' = ledger \cup {LedgerEntry(kind, ref, -amount)}
CreateOrIgnore(kind, ref, amount) ==
  IF Booked(kind, ref) THEN UNCHANGED ledger
  ELSE ledger' = ledger \cup {LedgerEntry(kind, ref, amount)}

\* The insert fails, and the transaction with it, when the key is taken.
CreateTransaction(kind, ref, amount) ==
  /\ ~Booked(kind, ref)
  /\ ledger' = ledger \cup {LedgerEntry(kind, ref, amount)}

\* Here a row whose key is taken is passed over.
CreateTransactionsIdempotent(rows) ==
  ledger' = ledger \cup { row \in rows : ~Booked(row.kind, row.ref) }

UpsertIncrement(delta) == balance' = balance + delta

\* Slip: the floor is forgotten.
DecrementUnchecked(amount) == balance' = balance - amount

DecrementIfSufficient(amount) ==
  /\ balance >= amount
  /\ balance' = balance - amount

-----------------------------------------------------------------------------
(* SettlementService.settleDelivered.                                      *)

Commission(o, bps) == (Subtotal[o] * bps) \div 10000

\* The branch is read before the transaction; when core cannot be reached the
\* commission is 0.  Nothing asks whether the order has been delivered already:
\* the courier's report may come again, or two at once.
BeginSettle(c, o, bps) ==
  /\ \A s \in settling : s.id # c
  /\ credits[o] < MaxCredits
  /\ settling' = settling \cup {[id |-> c, order |-> o, commission |-> Commission(o, bps)]}
  /\ UNCHANGED <<balance, ledger, credits, surplus, requests, cache, told>>

\* Slip: the delivery fee stays with the restaurant in the ledger.
RowsWithoutFee(o, commission) ==
  { row \in { LedgerEntry("cod-collect", o, IF o \in Online THEN 0 ELSE Total(o)),
              LedgerEntry("commission", o, commission),
              LedgerEntry("service-fee", o, ServiceFee) } : row.amount > 0 }

\* The rows of a settlement; those of nothing are not written.
SettlementRows(o, commission) ==
  { row \in { LedgerEntry("cod-collect", o, IF o \in Online THEN 0 ELSE Total(o)),
              LedgerEntry("commission", o, commission),
              LedgerEntry("service-fee", o, ServiceFee),
              LedgerEntry("delivery-fee", o, DeliveryFee[o]) } : row.amount > 0 }

\* What a settlement credits that its rows do not account for: all of it when
\* they have been there already, only the commission may be booked late.
Unexplained(s) ==
  IF credits[s.order] = 0 THEN 0
  ELSE Subtotal[s.order] - (IF Booked("commission", s.order) THEN s.commission ELSE 0)

\* The balance is raised even when every row has been there already.
CommitSettle(s) ==
  /\ CreateTransactionsIdempotent(SettlementRows(s.order, s.commission))
  /\ UpsertIncrement(Subtotal[s.order] - s.commission)
  /\ credits' = [credits EXCEPT ![s.order] = @ + 1]
  /\ surplus' = surplus + Unexplained(s)
  /\ settling' = settling \ {s}
  /\ UNCHANGED <<requests, cache, told>>

\* The transaction rolls back, or the process dies before it.
SettleFails(s) ==
  /\ settling' = settling \ {s}
  /\ UNCHANGED <<balance, ledger, credits, surplus, requests, cache, told>>

-----------------------------------------------------------------------------
(* POST /admin/restaurants/:id/payouts.                                    *)

BeginPayout(r, k, a) ==
  /\ \A d \in requests : d.id # r
  /\ requests' = requests \cup {[id |-> r, key |-> k, amount |-> a, pc |-> "lookup",
                                 body |-> "error", todo |-> {}]}
  /\ UNCHANGED <<moneyVars, cache, told>>

Continue(d, next) == requests' = (requests \ {d}) \cup {next}
Done(d) == requests' = requests \ {d}

\* The middleware: a stored body is sent as the answer, any other way goes on.
LookUp(d) ==
  /\ d.pc = "lookup"
  /\ IF cache[d.key] = "none"
       THEN Continue(d, [d EXCEPT !.pc = "work"]) /\ UNCHANGED told
       ELSE Done(d) /\ told' = [told EXCEPT ![d.key] = @ \cup {cache[d.key]}]
  /\ UNCHANGED <<moneyVars, cache>>

\* Redis cannot be reached: 503, nothing is done.
LookUpFails(d) ==
  /\ d.pc = "lookup"
  /\ Done(d)
  /\ UNCHANGED <<moneyVars, cache, told>>

\* The handler calls res.json, which the middleware has wrapped.
Reply(d, body) ==
  Continue(d, [d EXCEPT !.pc = "reply", !.body = body, !.todo = {"store", "tell"}])

\* The transaction of recordPayout.
PayOut(d) ==
  /\ d.pc = "work"
  /\ DecrementIfSufficient(d.amount)
  /\ CreateTransaction("payout", d.key, d.amount)
  /\ UNCHANGED <<credits, settling, surplus, cache, told>>

RecordPayout(d) == PayOut(d) /\ Reply(d, "payout")

\* The commit takes effect and throws.
RecordPayoutAckLost(d) == PayOut(d) /\ Reply(d, "error")

\* Slip: the catch swallows the error.
PayoutFailsSilently(d) ==
  /\ d.pc = "work"
  /\ Reply(d, "payout")
  /\ UNCHANGED <<moneyVars, cache, told>>

\* Insufficient balance, a key that is booked already, an unknown restaurant,
\* or a failing statement: all is rolled back and the answer is an error.
PayoutFails(d) ==
  /\ d.pc = "work"
  /\ Reply(d, "error")
  /\ UNCHANGED <<moneyVars, cache, told>>

\* What is left of the request when one thing is done.
After(d, thing) ==
  IF d.todo = {thing} THEN Done(d)
  ELSE Continue(d, [d EXCEPT !.todo = @ \ {thing}])

\* res.json starts the SET and sends the answer; they end in either order.
StoreReply(d) ==
  /\ "store" \in d.todo
  /\ cache' = [cache EXCEPT ![d.key] = d.body]
  /\ After(d, "store")
  /\ UNCHANGED <<moneyVars, told>>

StoreReplyFails(d) ==
  /\ "store" \in d.todo
  /\ After(d, "store")
  /\ UNCHANGED <<moneyVars, cache, told>>

TellReply(d) ==
  /\ "tell" \in d.todo
  /\ told' = [told EXCEPT ![d.key] = @ \cup {d.body}]
  /\ After(d, "tell")
  /\ UNCHANGED <<moneyVars, cache>>

\* The process dies, or the client is gone.
RequestLost(d) ==
  /\ Done(d)
  /\ UNCHANGED <<moneyVars, cache, told>>

\* A day has passed, or Redis has lost the key.
CacheExpires(k) ==
  /\ cache[k] # "none"
  /\ cache' = [cache EXCEPT ![k] = "none"]
  /\ UNCHANGED <<moneyVars, requests, told>>

-----------------------------------------------------------------------------
SettleNext ==
  \/ \E c \in Settlement, o \in Order, bps \in Rate \cup {0} : BeginSettle(c, o, bps)
  \/ \E s \in settling : CommitSettle(s) \/ SettleFails(s)

RequestStep(d) ==
  \/ LookUp(d)
  \/ LookUpFails(d)
  \/ RecordPayout(d)
  \/ RecordPayoutAckLost(d)
  \/ PayoutFails(d)
  \/ StoreReply(d)
  \/ StoreReplyFails(d)
  \/ TellReply(d)
  \/ RequestLost(d)

Next ==
  \/ SettleNext
  \/ \E r \in Request, k \in Key, a \in Amount : BeginPayout(r, k, a)
  \/ \E d \in requests : RequestStep(d)
  \/ \E k \in Key : CacheExpires(k)

Spec == Init /\ [][Next]_vars

-----------------------------------------------------------------------------
(* Properties.                                                             *)

\* The balance never goes negative (restaurant-finance.md, invariant 1),
\* whatever settlements and payouts run beside each other.
BalanceNeverNegative == balance >= 0

\* Credit or debit of the owner's account; a payout takes from the balance.
Signed(row) == IF row.kind \in {"charge", "cod-collect"} THEN row.amount ELSE -row.amount

LedgerNet ==
  MapThenSumSet(Signed, { row \in ledger : row.kind = "payout" \/ credits[row.ref] > 0 })

\* What the documents say: the balance is the net of the ledger, of the rows of
\* delivered orders less the payouts (restaurant-finance.md, invariant 2;
\* balance.integration.test.ts), and a re-run of a settlement never credits
\* twice (transaction.repo.ts).
BalanceIsLedgerNet == balance = LedgerNet

\* What the code does: the first settlement of an order balances to the unit,
\* whatever the rate and the rounding, and so does every payout; what the ledger
\* does not explain was credited by settlements repeated or run at once.
BalanceIsExplained == balance = LedgerNet + surplus

\* A client who has been shown a payout can rely on it: it is in the ledger,
\* however often the request was sent and whatever became of the cached answer.
AnsweredPayoutIsRecorded ==
  \A k \in Key : "payout" \in told[k] => Booked("payout", k)

\* Requests and settlements in any number and order amount to credits and
\* payouts of the abstract account: a payout key is debited once, whatever is
\* retried, and a credit beyond an order's first is counted as surplus.
RestaurantAccount ==
  INSTANCE Account WITH credited <- { o \in Order : credits[o] > 0 },
                        paid <- { k \in Key : Booked("payout", k) }

ImplementsAccount == RestaurantAccount!Spec
=============================================================================

------------------------------ MODULE Delivery ------------------------------
(***************************************************************************)
(* From kitchen to door: the assignment worker (AssignmentService), the    *)
(* couriers' and the admin's API calls on orders (claim, adminAssign,      *)
(* reject, AgentService.transition, SettlementService.settleDelivered),    *)
(* and PresenceService, beside the PATCH requests of module Orders.        *)
(*                                                                         *)
(* The order lives in Postgres; offers, claim locks, attempt counters and  *)
(* presence live in Redis and expire.  No transaction spans the two, so    *)
(* every handler is cut at every await on either of them.                  *)
(***************************************************************************)
EXTENDS Orders, Naturals, FiniteSets

CONSTANTS
  Methods,        \* payment methods of the orders considered
  Worker,         \* processes that run the assignment-tick job
  Reachable,      \* agents that may come online in range of the branch
  Call,           \* ids of API calls that may be in flight
  Kinds,          \* the API calls considered
  Batch,          \* env.delivery.batch
  Candidates,     \* env.delivery.candidates
  MaxAttempts,    \* env.delivery.maxAttempts
  MaxCredits,     \* bound: an order already credited this often is not settled again
  Faults          \* which rare failures happen; the ordinary ones always may

CallKind == {"accept", "assign", "reject", "pick", "settle", "offline"}
ASSUME KindsAssumption == Kinds \subseteq CallKind

\* "crash": a process dies between two steps of a call, or Redis fails there.
\* "tick": the same for the assignment tick.
\* "begin": conn.transaction() throws.
\* "ack": a commit takes effect but its caller only sees an error.
ASSUME DeliveryFaultsAssumption == Faults \subseteq {"crash", "tick", "begin", "ack"}

\* Public ids are numbered by created_at, the order the worker looks at them.
ASSUME OrderAssumption == Order \subseteq Nat

ASSUME MethodsAssumption == Methods \subseteq PaymentMethod

ASSUME ReachableAssumption == Reachable \subseteq Agent

ASSUME WorkerAssumption == IsFiniteSet(Worker)

ASSUME BoundsAssumption ==
  /\ Batch \in Nat
  /\ Candidates \in Nat
  /\ MaxAttempts \in Nat
  /\ MaxCredits \in Nat

VARIABLES
  offer,      \* offer:order:<id>, {} when the key is not there
  claim,      \* claim:order:<id>, NoAgent when the key is not there
  tries,      \* assign:attempts:<id>, 0 when the key is not there
  present,    \* agents in range with an entry in presence:geo and live meta
  busy,       \* presence:busy
  tick,       \* the assignment tick of each worker
  calls,      \* API calls at work on one order
  leaving,    \* where goOffline stands, per agent
  earner,     \* agent_id of the order's agent_earnings row
  booked,     \* orders whose ledger rows (cod-collect:, commission:, ...) exist
  credits,    \* how often the restaurant was credited for the order
  carriers,   \* history: agents whose claim of the order was ever committed
  patched     \* history: orders a PATCH request has set to delivered

redisVars == <<offer, claim, tries, present, busy>>
ledgerVars == <<earner, booked, credits>>
history == <<carriers, patched>>
vars == <<ordersVars, redisVars, tick, calls, leaving, ledgerVars, history>>

TickState == [pc : {"idle", "offer", "attempts", "search", "set", "count"},
              batch : SUBSET Order,     \* snapshot rows still to be tried
              found : SUBSET Agent]     \* the candidates found for the first
IdleTick == [pc |-> "idle", batch |-> {}, found |-> {}]

CallState == [id : Call, agent : Agent, order : Order,
              pc : {"lock", "commit", "release", "busy", "drop", "rewrite",
                    "pick", "settle", "free", "unlock"},
              rest : SUBSET Agent]      \* what a reject leaves of the offer

TypeOK ==
  /\ OrdersTypeOK
  /\ offer \in [Order -> SUBSET Agent]
  /\ claim \in [Order -> Agent \cup {NoAgent}]
  /\ tries \in [Order -> Nat]
  /\ present \subseteq Agent
  /\ busy \subseteq Agent
  /\ tick \in [Worker -> TickState]
  /\ calls \subseteq CallState
  /\ leaving \in [Agent -> {"no", "reset", "forget", "clear"}]
  /\ earner \in [Order -> Agent \cup {NoAgent}]
  /\ booked \subseteq Order
  /\ credits \in [Order -> Nat]
  /\ carriers \in [Order -> SUBSET Agent]
  /\ patched \subseteq Order

\* Every order has been paid or is paid at the door, and is being prepared.
Preparing(method) ==
  [NoRow EXCEPT !.status = "preparing", !.method = method, !.stamps = {"accepted_at"}]

Init ==
  /\ orders \in [Order -> {Preparing(method) : method \in Methods}]
  /\ outbox = [o \in Order |-> IF orders[o].method = "cod"
                                 THEN <<"order.placed", "order.accepted">>
                                 ELSE <<"payment.completed", "order.placed", "order.accepted">>]
  /\ patching = {}
  /\ windowOver = Order
  /\ offer = [o \in Order |-> {}]
  /\ claim = [o \in Order |-> NoAgent]
  /\ tries = [o \in Order |-> 0]
  /\ present = {}
  /\ busy = {}
  /\ tick = [w \in Worker |-> IdleTick]
  /\ calls = {}
  /\ leaving = [a \in Agent |-> "no"]
  /\ earner = [o \in Order |-> NoAgent]
  /\ booked = {}
  /\ credits = [o \in Order |-> 0]
  /\ carriers = [o \in Order |-> {}]
  /\ patched = {}

-----------------------------------------------------------------------------
(* AssignmentService.tickRegion and tryAssign.                             *)

Waiting(o) == orders[o].status = "ready" /\ orders[o].agent = NoAgent

Oldest(S) == CHOOSE o \in S : \A p \in S : o <= p

\* findReadyUnassigned: the oldest Batch of the orders that wait.
FindReadyUnassigned ==
  { o \in Order : /\ Waiting(o)
                  /\ Cardinality({p \in Order : Waiting(p) /\ p < o}) < Batch }

\* tickRegion reads its rows once and tries them one after the other.
StartTick(w) ==
  /\ tick[w].pc = "idle"
  /\ FindReadyUnassigned # {}
  /\ tick' = [tick EXCEPT ![w] = [pc |-> "offer", batch |-> FindReadyUnassigned, found |-> {}]]
  /\ UNCHANGED <<ordersVars, redisVars, calls, leaving, ledgerVars, history>>

TriesOrder(w, o, pc) == tick[w].pc = pc /\ o = Oldest(tick[w].batch)

Goto(w, pc) == tick' = [tick EXCEPT ![w].pc = pc]

\* tryAssign returns: the row is done with, the next one is tried.
Return(w) ==
  LET rest == tick[w].batch \ {Oldest(tick[w].batch)}
  IN  tick' = [tick EXCEPT ![w] = IF rest = {} THEN IdleTick
                                  ELSE [pc |-> "offer", batch |-> rest, found |-> {}]]

\* An order with a live offer is skipped.
CheckOffer(w, o) ==
  /\ TriesOrder(w, o, "offer")
  /\ IF offer[o] = {} THEN Goto(w, "attempts") ELSE Return(w)
  /\ UNCHANGED <<ordersVars, redisVars, calls, leaving, ledgerVars, history>>

\* Slip: `attempts > maxAttempts`.
CheckAttemptsTooLate(w, o) ==
  /\ TriesOrder(w, o, "attempts")
  /\ IF tries[o] <= MaxAttempts THEN Goto(w, "search") ELSE Return(w)
  /\ UNCHANGED <<ordersVars, redisVars, calls, leaving, ledgerVars, history>>

\* An order at the cap is left in ready.
CheckAttempts(w, o) ==
  /\ TriesOrder(w, o, "attempts")
  /\ IF tries[o] < MaxAttempts THEN Goto(w, "search") ELSE Return(w)
  /\ UNCHANGED <<ordersVars, redisVars, calls, leaving, ledgerVars, history>>

\* findCandidates: GEOSEARCH gives the 4 * Candidates nearest, of whom the first
\* Candidates that are online and not busy are found; the distances are not
\* modelled, so any of them may be the nearest.  The reads of one agent after the
\* other are one step here.
FindCandidates(w, o) ==
  /\ TriesOrder(w, o, "search")
  /\ \E near \in SUBSET present : \E found \in SUBSET (near \ busy) :
       /\ near = present \/ Cardinality(near) = 4 * Candidates
       /\ Cardinality(near) <= 4 * Candidates
       /\ found = near \ busy \/ Cardinality(found) = Candidates
       /\ Cardinality(found) <= Candidates
       /\ tick' = [tick EXCEPT ![w].pc = IF found = {} THEN "count" ELSE "set",
                               ![w].found = found]
  /\ UNCHANGED <<ordersVars, redisVars, calls, leaving, ledgerVars, history>>

\* SET NX: an offer made meanwhile by another worker stands.
SetOffer(w, o) ==
  /\ TriesOrder(w, o, "set")
  /\ IF offer[o] = {}
       THEN Goto(w, "count") /\ offer' = [offer EXCEPT ![o] = tick[w].found]
       ELSE Return(w) /\ UNCHANGED offer
  /\ UNCHANGED <<ordersVars, claim, tries, present, busy, calls, leaving, ledgerVars, history>>

\* INCR, after a broadcast or when there was no candidate.
CountAttempt(w, o) ==
  /\ TriesOrder(w, o, "count")
  /\ tries' = [tries EXCEPT ![o] = @ + 1]
  /\ Return(w)
  /\ UNCHANGED <<ordersVars, offer, claim, present, busy, calls, leaving, ledgerVars, history>>

WorkerStep(w) ==
  \/ StartTick(w)
  \/ \E o \in Order :
       \/ CheckOffer(w, o)
       \/ CheckAttempts(w, o)
       \/ FindCandidates(w, o)
       \/ SetOffer(w, o)
       \/ CountAttempt(w, o)

\* Redis fails: tickRegion catches it and goes on with the next row.
TryAssignFails(w) ==
  /\ "tick" \in Faults
  /\ tick[w].pc # "idle"
  /\ Return(w)
  /\ UNCHANGED <<ordersVars, redisVars, calls, leaving, ledgerVars, history>>

WorkerCrashes(w) ==
  /\ "tick" \in Faults
  /\ tick[w].pc # "idle"
  /\ tick' = [tick EXCEPT ![w] = IdleTick]
  /\ UNCHANGED <<ordersVars, redisVars, calls, leaving, ledgerVars, history>>

-----------------------------------------------------------------------------
(* API calls.                                                              *)

Begin(kind, c, a, o, pc, rest) ==
  /\ kind \in Kinds
  /\ \A d \in calls : d.id # c
  /\ calls' = calls \cup {[id |-> c, agent |-> a, order |-> o, pc |-> pc, rest |-> rest]}

At(d, from) == d.pc = from
Continue(d, to) == calls' = (calls \ {d}) \cup {[d EXCEPT !.pc = to]}
Done(d) == calls' = calls \ {d}

\* claim: the agent must be among those the order is offered to.
BeginClaim(c, a, o) ==
  /\ a \in offer[o]
  /\ Begin("accept", c, a, o, "lock", {})
  /\ UNCHANGED <<ordersVars, redisVars, tick, leaving, ledgerVars, history>>

\* adminAssign: any agent, offered or not, busy or not.
BeginAssign(c, a, o) ==
  /\ Begin("assign", c, a, o, "lock", {})
  /\ UNCHANGED <<ordersVars, redisVars, tick, leaving, ledgerVars, history>>

\* SET NX of the claim lock, or OrderAlreadyClaimed.
LockClaim(d) ==
  /\ At(d, "lock")
  /\ IF claim[d.order] = NoAgent
       THEN Continue(d, "commit") /\ claim' = [claim EXCEPT ![d.order] = d.agent]
       ELSE Done(d) /\ UNCHANGED claim
  /\ UNCHANGED <<ordersVars, offer, tries, present, busy, tick, leaving, ledgerVars, history>>

\* conn.transaction() throws outside the try: the lock stays behind.
BeginTransactionFails(d) ==
  /\ "begin" \in Faults
  /\ At(d, "commit")
  /\ Done(d)
  /\ UNCHANGED <<ordersVars, redisVars, tick, leaving, ledgerVars, history>>

\* Slip: the UPDATE trusts the lock.
ClaimAnyOrder(o, a) ==
  orders' = [orders EXCEPT ![o].status = "assigned", ![o].agent = a,
                           ![o].stamps = @ \cup {"assigned_at"}]

\* claimReadyOrderForAgent: the row must still be ready and nobody's.
ClaimReadyOrderForAgent(o, a) ==
  /\ Waiting(o)
  /\ orders' = [orders EXCEPT ![o].status = "assigned", ![o].agent = a,
                              ![o].stamps = @ \cup {"assigned_at"}]

\* The history of who has had an order.
Carries(d) == carriers' = [carriers EXCEPT ![d.order] = @ \cup {d.agent}]

CommitClaim(d) ==
  /\ At(d, "commit")
  /\ ClaimReadyOrderForAgent(d.order, d.agent)
  /\ Carries(d)
  /\ Continue(d, "busy")
  /\ UNCHANGED <<outbox, patching, windowOver, redisVars, tick, leaving, ledgerVars, patched>>

\* The commit takes effect but throws: the catch drops the lock.
CommitClaimAckLost(d) ==
  /\ "ack" \in Faults
  /\ At(d, "commit")
  /\ ClaimReadyOrderForAgent(d.order, d.agent)
  /\ Carries(d)
  /\ Continue(d, "release")
  /\ UNCHANGED <<outbox, patching, windowOver, redisVars, tick, leaving, ledgerVars, patched>>

\* No row was updated: the lock is dropped here, and once more by the catch.
ClaimRefused(d) ==
  /\ At(d, "commit")
  /\ ~Waiting(d.order)
  /\ claim' = [claim EXCEPT ![d.order] = NoAgent]
  /\ Continue(d, "release")
  /\ UNCHANGED <<ordersVars, offer, tries, present, busy, tick, leaving, ledgerVars, history>>

\* A statement fails and the transaction rolls back.
ClaimFails(d) ==
  /\ At(d, "commit")
  /\ Continue(d, "release")
  /\ UNCHANGED <<ordersVars, redisVars, tick, leaving, ledgerVars, history>>

\* Slip: the catch leaves the lock to its TTL.
KeepClaim(d) ==
  /\ At(d, "release")
  /\ Done(d)
  /\ UNCHANGED <<ordersVars, redisVars, tick, leaving, ledgerVars, history>>

\* The catch deletes the lock, whoever holds it by now.
ReleaseClaim(d) ==
  /\ At(d, "release")
  /\ claim' = [claim EXCEPT ![d.order] = NoAgent]
  /\ Done(d)
  /\ UNCHANGED <<ordersVars, offer, tries, present, busy, tick, leaving, ledgerVars, history>>

MarkBusy(d) ==
  /\ At(d, "busy")
  /\ busy' = busy \cup {d.agent}
  /\ Continue(d, "drop")
  /\ UNCHANGED <<ordersVars, offer, claim, tries, present, tick, leaving, ledgerVars, history>>

\* The offer marker goes; the claim lock stays for its TTL.
DropOffer(d) ==
  /\ At(d, "drop")
  /\ offer' = [offer EXCEPT ![d.order] = {}]
  /\ Done(d)
  /\ UNCHANGED <<ordersVars, claim, tries, present, busy, tick, leaving, ledgerVars, history>>

\* Slip: the agent is left among the candidates.
BeginRejectKeeps(c, a, o) ==
  /\ a \in offer[o]
  /\ Begin("reject", c, a, o, "rewrite", offer[o])
  /\ UNCHANGED <<ordersVars, redisVars, tick, leaving, ledgerVars, history>>

\* reject reads the offer, and later writes back what it read less the agent.
BeginReject(c, a, o) ==
  /\ a \in offer[o]
  /\ Begin("reject", c, a, o, "rewrite", offer[o] \ {a})
  /\ UNCHANGED <<ordersVars, redisVars, tick, leaving, ledgerVars, history>>

RewriteOffer(d) ==
  /\ At(d, "rewrite")
  /\ offer' = [offer EXCEPT ![d.order] = d.rest]
  /\ Done(d)
  /\ UNCHANGED <<ordersVars, claim, tries, present, busy, tick, leaving, ledgerVars, history>>

\* AgentService.transition to picked checks, and writes in a later transaction.
BeginPick(c, a, o) ==
  /\ orders[o].agent = a
  /\ orders[o].status = "assigned"
  /\ Begin("pick", c, a, o, "pick", {})
  /\ UNCHANGED <<ordersVars, redisVars, tick, leaving, ledgerVars, history>>

CommitPick(d) ==
  /\ At(d, "pick")
  /\ orders' = UpdateOrderStatus(d.order, "picked", "picked_at")
  /\ Done(d)
  /\ UNCHANGED <<outbox, patching, windowOver, redisVars, tick, leaving, ledgerVars, history>>

\* Slip: any agent may settle.
BeginSettleAnyone(c, a, o) ==
  /\ orders[o].agent # NoAgent
  /\ credits[o] < MaxCredits
  /\ Begin("settle", c, a, o, "settle", {})
  /\ UNCHANGED <<ordersVars, redisVars, tick, leaving, ledgerVars, history>>

\* settleDelivered checks whose the order is, and not its status.
BeginSettle(c, a, o) ==
  /\ orders[o].agent = a
  /\ credits[o] < MaxCredits
  /\ Begin("settle", c, a, o, "settle", {})
  /\ UNCHANGED <<ordersVars, redisVars, tick, leaving, ledgerVars, history>>

\* Slips: the earning is written for COD orders only; the sign of the credit.
CommitSettleCodEarning(d) ==
  LET o == d.order IN
  /\ At(d, "settle")
  /\ booked' = booked \cup {o}
  /\ credits' = [credits EXCEPT ![o] = @ + 1]
  /\ earner' = [earner EXCEPT ![o] = IF orders[o].method = "cod" THEN d.agent ELSE @]
  /\ orders' = UpdateOrderStatus(o, "delivered", "delivered_at")
  /\ outbox' = InsertOutboxEvents(o, <<"order.delivered">>)
  /\ Continue(d, "free")
  /\ UNCHANGED <<patching, windowOver, redisVars, tick, leaving, history>>
CommitSettleDebits(d) ==
  LET o == d.order IN
  /\ At(d, "settle")
  /\ booked' = booked \cup {o}
  /\ credits' = [credits EXCEPT ![o] = @ - 1]
  /\ earner' = [earner EXCEPT ![o] = IF @ = NoAgent THEN d.agent ELSE @]
  /\ orders' = UpdateOrderStatus(o, "delivered", "delivered_at")
  /\ outbox' = InsertOutboxEvents(o, <<"order.delivered">>)
  /\ Continue(d, "free")
  /\ UNCHANGED <<patching, windowOver, redisVars, tick, leaving, history>>

\* The settlement transaction: ledger rows and earning only if they are not
\* there, the credit and the status in any case.
CommitSettle(d) ==
  LET o == d.order IN
  /\ At(d, "settle")
  /\ booked' = booked \cup {o}
  /\ credits' = [credits EXCEPT ![o] = @ + 1]
  /\ earner' = [earner EXCEPT ![o] = IF @ = NoAgent THEN d.agent ELSE @]
  /\ orders' = UpdateOrderStatus(o, "delivered", "delivered_at")
  /\ outbox' = InsertOutboxEvents(o, <<"order.delivered">>)
  /\ Continue(d, "free")
  /\ UNCHANGED <<patching, windowOver, redisVars, tick, leaving, history>>

\* clearBusy, whatever else the agent carries.
FreeCourier(d) ==
  /\ At(d, "free")
  /\ busy' = busy \ {d.agent}
  /\ Continue(d, "unlock")
  /\ UNCHANGED <<ordersVars, offer, claim, tries, present, tick, leaving, ledgerVars, history>>

DropClaim(d) ==
  /\ At(d, "unlock")
  /\ claim' = [claim EXCEPT ![d.order] = NoAgent]
  /\ Done(d)
  /\ UNCHANGED <<ordersVars, offer, tries, present, busy, tick, leaving, ledgerVars, history>>

\* A failure before anything is written, or one that rolls everything back.
CallFails(d) ==
  /\ d.pc \in {"lock", "rewrite", "pick", "settle"}
  /\ Done(d)
  /\ UNCHANGED <<ordersVars, redisVars, tick, leaving, ledgerVars, history>>

\* The process dies between two writes, or Redis cannot be reached.
CallCrashes(d) ==
  /\ "crash" \in Faults
  /\ Done(d)
  /\ UNCHANGED <<ordersVars, redisVars, tick, leaving, ledgerVars, history>>

BeginCall(c, a, o) ==
  \/ BeginClaim(c, a, o)
  \/ BeginAssign(c, a, o)
  \/ BeginReject(c, a, o)
  \/ BeginPick(c, a, o)
  \/ BeginSettle(c, a, o)

CallStep(d) ==
  \/ LockClaim(d)
  \/ BeginTransactionFails(d)
  \/ CommitClaim(d)
  \/ CommitClaimAckLost(d)
  \/ ClaimRefused(d)
  \/ ClaimFails(d)
  \/ ReleaseClaim(d)
  \/ MarkBusy(d)
  \/ DropOffer(d)
  \/ RewriteOffer(d)
  \/ CommitPick(d)
  \/ CommitSettle(d)
  \/ FreeCourier(d)
  \/ DropClaim(d)
  \/ CallFails(d)
  \/ CallCrashes(d)

-----------------------------------------------------------------------------
(* PresenceService.                                                        *)

LeaveGoto(a, from, to) ==
  /\ leaving[a] = from
  /\ leaving' = [leaving EXCEPT ![a] = to]

\* upsert: online and ping; and an agent's coming into range.
ComeOnline(a) ==
  /\ a \in Reachable \ present
  /\ present' = present \cup {a}
  /\ UNCHANGED <<ordersVars, offer, claim, tries, busy, tick, calls, leaving, ledgerVars, history>>

\* goOffline is refused while the agent carries a picked order.
BeginOffline(a) ==
  /\ "offline" \in Kinds
  /\ \A o \in Order : ~(orders[o].agent = a /\ orders[o].status = "picked")
  /\ LeaveGoto(a, "no", "reset")
  /\ UNCHANGED <<ordersVars, redisVars, tick, calls, ledgerVars, history>>

\* Slip: the agent is cleared and the status left as it is.
ResetAgentOnly(a) ==
  /\ LeaveGoto(a, "reset", "forget")
  /\ orders' = [o \in Order |->
       IF orders[o].agent = a /\ orders[o].status = "assigned"
         THEN [orders[o] EXCEPT !.agent = NoAgent, !.stamps = @ \ {"assigned_at"}]
         ELSE orders[o]]
  /\ UNCHANGED <<outbox, patching, windowOver, redisVars, tick, calls, ledgerVars, history>>

\* Every order still assigned to the agent goes back to ready; claim: stays.
ResetAssigned(a) ==
  /\ LeaveGoto(a, "reset", "forget")
  /\ orders' = [o \in Order |->
       IF orders[o].agent = a /\ orders[o].status = "assigned"
         THEN [orders[o] EXCEPT !.status = "ready", !.agent = NoAgent,
                                !.stamps = @ \ {"assigned_at"}]
         ELSE orders[o]]
  /\ UNCHANGED <<outbox, patching, windowOver, redisVars, tick, calls, ledgerVars, history>>

ForgetPresence(a) ==
  /\ LeaveGoto(a, "forget", "clear")
  /\ present' = present \ {a}
  /\ UNCHANGED <<ordersVars, offer, claim, tries, busy, tick, calls, ledgerVars, history>>

ForgetBusy(a) ==
  /\ LeaveGoto(a, "clear", "no")
  /\ busy' = busy \ {a}
  /\ UNCHANGED <<ordersVars, offer, claim, tries, present, tick, calls, ledgerVars, history>>

OfflineCrashes(a) ==
  /\ "crash" \in Faults
  /\ leaving[a] # "no"
  /\ leaving' = [leaving EXCEPT ![a] = "no"]
  /\ UNCHANGED <<ordersVars, redisVars, tick, calls, ledgerVars, history>>

OfflineStep(a) == ResetAssigned(a) \/ ForgetPresence(a) \/ ForgetBusy(a) \/ OfflineCrashes(a)

-----------------------------------------------------------------------------
(* Time: keys of Redis expire.                                             *)

OfferExpires(o) ==
  /\ offer[o] # {}
  /\ offer' = [offer EXCEPT ![o] = {}]
  /\ UNCHANGED <<ordersVars, claim, tries, present, busy, tick, calls, leaving, ledgerVars, history>>

ClaimExpires(o) ==
  /\ claim[o] # NoAgent
  /\ claim' = [claim EXCEPT ![o] = NoAgent]
  /\ UNCHANGED <<ordersVars, offer, tries, present, busy, tick, calls, leaving, ledgerVars, history>>

\* Its hour starts anew with every attempt.  When it is over, be the order at the
\* cap or not, counting starts anew, and so does broadcasting.
AttemptsExpire(o) ==
  /\ tries[o] > 0
  /\ tries' = [tries EXCEPT ![o] = 0]
  /\ UNCHANGED <<ordersVars, offer, claim, present, busy, tick, calls, leaving, ledgerVars, history>>

\* No ping for presenceStaleSec; or the agent has left the range.
PresenceExpires(a) ==
  /\ a \in present
  /\ present' = present \ {a}
  /\ UNCHANGED <<ordersVars, offer, claim, tries, busy, tick, calls, leaving, ledgerVars, history>>

Expire(o) == OfferExpires(o) \/ ClaimExpires(o) \/ AttemptsExpire(o)

-----------------------------------------------------------------------------
\* The orders a PATCH request that commits now sets to delivered: the table lets
\* the order's agent do so, whom the customers' route does not turn away.
DeliveredByPatch ==
  { p.order : p \in { q \in patching : q.rule.to = "delivered" /\ CommitUpdateStatus(q) } }

Next ==
  \/ \E w \in Worker : WorkerStep(w) \/ TryAssignFails(w) \/ WorkerCrashes(w)
  \/ \E c \in Call, a \in Agent, o \in Order : BeginCall(c, a, o)
  \/ \E d \in calls : CallStep(d)
  \/ \E a \in Agent : ComeOnline(a) \/ BeginOffline(a) \/ OfflineStep(a) \/ PresenceExpires(a)
  \/ \E o \in Order : Expire(o)
  \/ /\ UpdateStatusNext
     /\ patched' = patched \cup DeliveredByPatch
     /\ UNCHANGED <<redisVars, tick, calls, leaving, ledgerVars, carriers>>

Spec == Init /\ [][Next]_vars

\* Cron goes on ticking, every handler runs on, and TTLs run out: an offer has
\* one again when reject writes it back.  Ticks do not fail for ever (what a
\* failing tick does is at last what one that does not fail would do), and from
\* then on an order that waits below the cap has its hour renewed by the next
\* attempt, long before it is over.  Nothing makes an agent come online, accept,
\* or the restaurant do anything.
Fairness ==
  /\ \A w \in Worker : WF_vars(WorkerStep(w))
  /\ WF_vars(\E d \in calls : CallStep(d))
  /\ \A o \in Order : WF_vars(OfferExpires(o)) /\ WF_vars(ClaimExpires(o))
  /\ \A w \in Worker : <>[][TryAssignFails(w) \/ WorkerCrashes(w) => WorkerStep(w)]_vars
  /\ \A o \in Order : <>[][AttemptsExpire(o) => ~Waiting(o) \/ tries[o] >= MaxAttempts]_vars

FairSpec == Spec /\ Fairness

-----------------------------------------------------------------------------
(* Properties.                                                             *)

\* An assigned order has a courier (deliveries.md, invariant 1), whatever
\* PATCH, claim, pick and goOffline do to the row between each other's steps.
AssignedHasAgent ==
  \A o \in Order : orders[o].status = "assigned" => orders[o].agent # NoAgent

\* A courier gets an order only by claiming it while it is ready and nobody's,
\* and loses it only by going offline before the pick-up or by its cancellation
\* (where the code keeps the courier and deliveries.md does not).  The lock in Redis
\* does not ensure that: it expires, and a loser deletes the winner's.
ClaimedOrLost(o) ==
  \/ Waiting(o) /\ orders'[o].status = "assigned"
  \/ /\ orders[o].status = "assigned"
     /\ orders'[o].agent = NoAgent
     /\ orders'[o].status \in {"ready", "cancelled"}

AgentHandover ==
  [][\A o \in Order : orders'[o].agent # orders[o].agent => ClaimedOrLost(o)]_vars

\* A delivered order is settled: ledger rows, credit and earning are there
\* (deliveries.md, invariant 2), and order.delivered has been told.  The one way
\* round it is the agent's own PATCH on the customers' route, which writes the
\* status alone.
IsSettled(o) ==
  /\ o \in booked
  /\ credits[o] > 0
  /\ earner[o] # NoAgent
  /\ \E i \in DOMAIN outbox[o] : outbox[o][i] = "order.delivered"

DeliveredIsSettled ==
  \A o \in Order : orders[o].status = "delivered" => IsSettled(o) \/ o \in patched

\* A claim lock nobody is working on is held by the order's courier, so that
\* it never keeps others from an order that waits.
ClaimLockHasHolder ==
  \A o \in Order :
    (/\ claim[o] # NoAgent
     /\ leaving[claim[o]] = "no"
     /\ \A d \in calls : d.order # o \/ d.agent # claim[o])
      => orders[o].agent = claim[o]

\* The one paid for the delivery has had the order.  It need not be the courier who
\* has it now: settleDelivered pays the one it read before its transaction, who may
\* have gone offline in between, with the order in other hands by then.
EarnerCarried == \A o \in Order : earner[o] # NoAgent => earner[o] \in carriers[o]

\* The counter of attempts passes the cap by no more than the workers that read it
\* at the same time: reading it and INCR are two steps.  That bounds each life of
\* the counter; the hour over, broadcasting resumes.
AttemptsCapped ==
  \A o \in Order : tries[o] = 0 \/ tries[o] < MaxAttempts + Cardinality(Worker)

\* A picked order has a courier: going offline is refused while one holds it.
PickedHasAgent ==
  \A o \in Order : orders[o].status = "picked" => orders[o].agent # NoAgent

\* A ready order moves on: somebody takes it, or it uses up its attempts (and
\* then waits for the admin, or for the hour of its counter to end).  Couriers who
\* accept, fail, reject, and write back offers that are gone or that another worker
\* has made anew, and ticks that fail, only delay that.
ReadyOrderIsHandled ==
  \A o \in Order : Waiting(o) ~> (~Waiting(o) \/ tries[o] >= MaxAttempts)
=============================================================================

--------------------------- MODULE DeliveryProofs ---------------------------
(***************************************************************************)
(* Theorems about Delivery, for every set of orders, agents, workers,      *)
(* calls, requests and faults, and every bound.                            *)
(***************************************************************************)
EXTENDS Delivery, OrdersProofs, FiniteSetTheorems

-----------------------------------------------------------------------------
(* Type correctness.                                                       *)

\* A call that goes on stays well formed.
LEMMA ContinueTypeOK ==
  ASSUME calls \subseteq CallState, NEW d \in calls,
         NEW to \in {"commit", "release", "busy", "drop", "free", "unlock"}, Continue(d, to)
  PROVE  calls' \subseteq CallState
<1>1. [d EXCEPT !.pc = to] \in CallState
  BY DEF CallState
<1>2. QED
  BY <1>1 DEF Continue

\* Initially every variable has its type.
LEMMA InitTypeOK == Init => TypeOK
<1> SUFFICES ASSUME Init PROVE TypeOK
  OBVIOUS
<1>1. orders \in [Order -> Row]
  <2>1. \A method \in Methods : Preparing(method) \in Row
    BY MethodsAssumption DEF Preparing, NoRow, Row, Status, PaymentMethod, Stamp
  <2>2. QED
    BY <2>1 DEF Init
<1>2. outbox \in [Order -> Seq(EventType)]
  <2>1. /\ <<"order.placed", "order.accepted">> \in Seq(EventType)
        /\ <<"payment.completed", "order.placed", "order.accepted">> \in Seq(EventType)
    BY DEF EventType
  <2>2. QED
    BY <2>1 DEF Init
<1>3. OrdersTypeOK
  BY <1>1, <1>2 DEF Init, OrdersTypeOK, PatchState
<1>4. tick \in [Worker -> TickState]
  BY DEF Init, IdleTick, TickState
<1>5. QED
  BY <1>3, <1>4 DEF Init, TypeOK, CallState

\* A tick that has searched stays well formed.
LEMMA FoundTickType ==
  ASSUME NEW t \in TickState, NEW pc \in {"count", "set"}, NEW F \in SUBSET Agent
  PROVE  [t EXCEPT !.pc = pc, !.found = F] \in TickState
BY DEF TickState

\* A search leaves some agents as the candidates.
LEMMA CandidatesFound ==
  ASSUME TypeOK, NEW w \in Worker, NEW o \in Order, FindCandidates(w, o)
  PROVE  \E found \in SUBSET Agent :
           tick' = [tick EXCEPT ![w].pc = IF found = {} THEN "count" ELSE "set",
                                ![w].found = found]
BY DEF FindCandidates, TypeOK

\* Every step of a worker keeps every type.
LEMMA WorkerTypeOK ==
  ASSUME TypeOK, NEW w \in Worker, WorkerStep(w) \/ TryAssignFails(w) \/ WorkerCrashes(w)
  PROVE  TypeOK'
<1> USE DEF TypeOK, redisVars, ledgerVars, ordersVars, history
<1>1. ASSUME NEW pc \in {"attempts", "search", "count"}, Goto(w, pc)
      PROVE  tick' \in [Worker -> TickState]
  BY <1>1 DEF Goto, TickState
<1>2. ASSUME Return(w)
      PROVE  tick' \in [Worker -> TickState]
  BY <1>2 DEF Return, TickState, IdleTick
<1>3. CASE StartTick(w)
  BY <1>3 DEF StartTick, TickState, FindReadyUnassigned, OrdersTypeOK
<1>4. ASSUME NEW o \in Order, CheckOffer(w, o) \/ CheckAttempts(w, o)
      PROVE  TypeOK'
  <2>1. tick' \in [Worker -> TickState]
    BY <1>1, <1>2, <1>4 DEF CheckOffer, CheckAttempts
  <2>2. QED
    BY <1>4, <2>1 DEF CheckOffer, CheckAttempts, OrdersTypeOK
<1>5. ASSUME NEW o \in Order, FindCandidates(w, o)
      PROVE  TypeOK'
  <2>1. ASSUME NEW pc \in {"count", "set"}, NEW found \in SUBSET Agent
        PROVE  [tick EXCEPT ![w].pc = pc, ![w].found = found] \in [Worker -> TickState]
    <3>1. [tick[w] EXCEPT !.pc = pc, !.found = found] \in TickState
      BY FoundTickType
    <3>2. QED
      BY <3>1
  <2>2. PICK found \in SUBSET Agent :
          tick' = [tick EXCEPT ![w].pc = IF found = {} THEN "count" ELSE "set",
                               ![w].found = found]
    BY <1>5, CandidatesFound
  <2>3. tick' \in [Worker -> TickState]
    BY <2>1, <2>2
  <2>4. QED
    BY <1>5, <2>3 DEF FindCandidates, OrdersTypeOK
<1>6. ASSUME NEW o \in Order, SetOffer(w, o)
      PROVE  TypeOK'
  <2>1. tick' \in [Worker -> TickState]
    BY <1>1, <1>2, <1>6 DEF SetOffer
  <2>2. offer' \in [Order -> SUBSET Agent]
    BY <1>6 DEF SetOffer, TickState
  <2>3. QED
    BY <1>6, <2>1, <2>2 DEF SetOffer, OrdersTypeOK
<1>7. ASSUME NEW o \in Order, CountAttempt(w, o)
      PROVE  TypeOK'
  BY <1>2, <1>7 DEF CountAttempt, OrdersTypeOK
<1>8. CASE TryAssignFails(w)
  BY <1>2, <1>8 DEF TryAssignFails, OrdersTypeOK
<1>9. CASE WorkerCrashes(w)
  BY <1>9 DEF WorkerCrashes, OrdersTypeOK, TickState, IdleTick
<1>10. QED
  BY <1>3, <1>4, <1>5, <1>6, <1>7, <1>8, <1>9 DEF WorkerStep

\* A claimed row and a row that went back to ready are rows.
LEMMA ClaimedRowType ==
  ASSUME NEW row \in Row, NEW a \in Agent
  PROVE  [row EXCEPT !.status = "assigned", !.agent = a,
                     !.stamps = @ \cup {"assigned_at"}] \in Row
BY DEF Row, Status, Stamp

\* The row goOffline gives back is a row.
LEMMA ResetRowType ==
  ASSUME NEW row \in Row
  PROVE  [row EXCEPT !.status = "ready", !.agent = NoAgent,
                     !.stamps = @ \ {"assigned_at"}] \in Row
BY DEF Row, Status

\* Every step of an API call keeps every type.
LEMMA CallTypeOK ==
  ASSUME TypeOK
  PROVE  /\ \A c \in Call, a \in Agent, o \in Order : BeginCall(c, a, o) => TypeOK'
         /\ \A d \in calls : CallStep(d) => TypeOK'
<1> USE DEF TypeOK, redisVars, ledgerVars, ordersVars, history
<1>1. ASSUME NEW c \in Call, NEW a \in Agent, NEW o \in Order, BeginCall(c, a, o)
      PROVE  TypeOK'
  <2>1. offer[o] \ {a} \in SUBSET Agent
    OBVIOUS
  <2>2. PICK kind \in CallKind, pc \in {"lock", "rewrite", "pick", "settle"},
             rest \in SUBSET Agent : Begin(kind, c, a, o, pc, rest)
    BY <1>1, <2>1
       DEF BeginCall, BeginClaim, BeginAssign, BeginReject, BeginPick, BeginSettle, CallKind
  <2>3. calls' \subseteq CallState
    BY <2>2 DEF Begin, CallState
  <2>4. QED
    BY <1>1, <2>3 DEF BeginCall, BeginClaim, BeginAssign, BeginReject, BeginPick, BeginSettle,
                      OrdersTypeOK
<1>2. ASSUME NEW d \in calls, CallStep(d)
      PROVE  TypeOK'
  <2>1. d.agent \in Agent /\ d.order \in Order /\ d.rest \in SUBSET Agent
    BY DEF CallState
  <2>2. calls' \subseteq CallState
    BY <1>2, ContinueTypeOK
       DEF CallStep, LockClaim, BeginTransactionFails, CommitClaim, CommitClaimAckLost,
           ClaimRefused, ClaimFails, ReleaseClaim, MarkBusy, DropOffer, RewriteOffer,
           CommitPick, CommitSettle, FreeCourier, DropClaim, CallFails, CallCrashes, Done
  <2>3. CASE LockClaim(d) \/ ClaimRefused(d) \/ ReleaseClaim(d) \/ DropClaim(d)
    BY <2>1, <2>2, <2>3 DEF LockClaim, ClaimRefused, ReleaseClaim, DropClaim, OrdersTypeOK
  <2>4. CASE CommitClaim(d) \/ CommitClaimAckLost(d)
    <3>1. ClaimReadyOrderForAgent(d.order, d.agent)
      BY <2>4 DEF CommitClaim, CommitClaimAckLost
    <3>2. orders' \in [Order -> Row]
      BY <2>1, <3>1, ClaimedRowType DEF ClaimReadyOrderForAgent, OrdersTypeOK
    <3>3. carriers' \in [Order -> SUBSET Agent]
      BY <2>1, <2>4 DEF CommitClaim, CommitClaimAckLost, Carries
    <3>4. QED
      BY <2>2, <2>4, <3>2, <3>3 DEF CommitClaim, CommitClaimAckLost, OrdersTypeOK
  <2>5. CASE MarkBusy(d) \/ FreeCourier(d)
    BY <2>1, <2>2, <2>5 DEF MarkBusy, FreeCourier, OrdersTypeOK
  <2>6. CASE DropOffer(d) \/ RewriteOffer(d)
    BY <2>1, <2>2, <2>6 DEF DropOffer, RewriteOffer, OrdersTypeOK
  <2>7. CASE BeginTransactionFails(d) \/ ClaimFails(d) \/ CallFails(d) \/ CallCrashes(d)
    BY <2>2, <2>7 DEF BeginTransactionFails, ClaimFails, CallFails, CallCrashes, OrdersTypeOK
  <2>8. CASE CommitPick(d)
    <3>1. orders' \in [Order -> Row]
      BY <2>1, <2>8, UpdateOrderStatusType DEF CommitPick, Status, Stamp
    <3>2. QED
      BY <2>2, <2>8, <3>1 DEF CommitPick, OrdersTypeOK
  <2>9. CASE CommitSettle(d)
    <3>1. orders' \in [Order -> Row]
      BY <2>1, <2>9, UpdateOrderStatusType DEF CommitSettle, Status, Stamp
    <3>2. outbox' \in [Order -> Seq(EventType)]
      <4>1. <<"order.delivered">> \in Seq(EventType)
        BY DEF EventType
      <4>2. QED
        BY <2>1, <2>9, <4>1, InsertOutboxEventsType DEF CommitSettle
    <3>3. OrdersTypeOK'
      BY <2>9, <3>1, <3>2 DEF CommitSettle, OrdersTypeOK
    <3>4. earner' \in [Order -> Agent \cup {NoAgent}] /\ credits' \in [Order -> Nat]
      BY <2>1, <2>9 DEF CommitSettle
    <3>5. QED
      BY <2>1, <2>2, <2>9, <3>3, <3>4 DEF CommitSettle
  <2>10. QED
    BY <1>2, <2>3, <2>4, <2>5, <2>6, <2>7, <2>8, <2>9 DEF CallStep
<1>3. QED
  BY <1>1, <1>2

\* Presence and the passing of time keep every type.
LEMMA PresenceTypeOK ==
  ASSUME TypeOK, NEW a \in Agent,
         ComeOnline(a) \/ BeginOffline(a) \/ OfflineStep(a) \/ PresenceExpires(a)
  PROVE  TypeOK'
<1> USE DEF TypeOK, redisVars, ledgerVars, ordersVars, history
<1>1. CASE ResetAssigned(a)
  <2>1. orders' \in [Order -> Row]
    BY <1>1, ResetRowType DEF ResetAssigned, OrdersTypeOK
  <2>2. QED
    BY <1>1, <2>1 DEF ResetAssigned, LeaveGoto, OrdersTypeOK
<1>2. QED
  BY <1>1, ReachableAssumption
     DEF ComeOnline, BeginOffline, OfflineStep, ForgetPresence, ForgetBusy, OfflineCrashes,
         PresenceExpires, LeaveGoto, OrdersTypeOK

\* Keys that expire keep every type.
LEMMA ExpireTypeOK ==
  ASSUME TypeOK, NEW o \in Order, Expire(o)
  PROVE  TypeOK'
<1> USE DEF TypeOK, OrdersTypeOK, ordersVars, ledgerVars, history
<1>1. CASE OfferExpires(o)
  BY <1>1 DEF OfferExpires
<1>2. CASE ClaimExpires(o)
  BY <1>2 DEF ClaimExpires
<1>3. CASE AttemptsExpire(o)
  BY <1>3 DEF AttemptsExpire
<1>4. QED
  BY <1>1, <1>2, <1>3 DEF Expire

\* Every step keeps every type.
LEMMA NextTypeOK == TypeOK /\ [Next]_vars => TypeOK'
<1> SUFFICES ASSUME TypeOK, [Next]_vars PROVE TypeOK'
  OBVIOUS
<1>1. CASE /\ UpdateStatusNext
           /\ patched' = patched \cup DeliveredByPatch
           /\ UNCHANGED <<redisVars, tick, calls, leaving, ledgerVars, carriers>>
  <2>1. OrdersTypeOK'
    BY <1>1, UpdateStatusTypeOK DEF TypeOK
  <2>2. DeliveredByPatch \subseteq Order
    BY DEF DeliveredByPatch, TypeOK, OrdersTypeOK, PatchState
  <2>3. QED
    BY <1>1, <2>1, <2>2 DEF TypeOK, redisVars, ledgerVars
<1>2. CASE UNCHANGED vars
  BY <1>2 DEF TypeOK, OrdersTypeOK, vars, ordersVars, redisVars, ledgerVars, history
<1>3. QED
  BY <1>1, <1>2, WorkerTypeOK, CallTypeOK, PresenceTypeOK, ExpireTypeOK DEF Next

\* Every variable keeps its type, whatever fails and in whatever order the
\* workers, calls, requests and expirations run.
THEOREM DeliveryTypeCorrect == Spec => []TypeOK
BY InitTypeOK, NextTypeOK, PTL DEF Spec

-----------------------------------------------------------------------------
(* Only a claim assigns.  No PATCH request can have been let through to     *)
(* assigned, a move the table leaves to the system.                        *)

NoPatchAssigns == \A p \in patching : p.rule.to # "assigned"

AssignInv == TypeOK /\ NoPatchAssigns /\ AssignedHasAgent

\* What the table says of the move to assigned.
LEMMA WhoAssigns ==
  \A rule \in TRANSITIONS : rule.to = "assigned" => rule.actors = {"system"}
BY DEF TRANSITIONS, Rule, ReasonedRule

\* Nobody who sends a PATCH request acts as the system.
LEMMA NobodyIsSystem ==
  ASSUME NEW caller, NEW row
  PROVE  "system" \notin ResolveStatusActor(caller, row)
BY DEF ResolveStatusActor

\* Steps that are not PATCH requests leave the requests alone.
LEMMA OthersKeepPatching ==
  ASSUME Next, ~UpdateStatusNext
  PROVE  patching' = patching
<1> USE DEF ordersVars
<1>1. ASSUME NEW w \in Worker, WorkerStep(w) \/ TryAssignFails(w) \/ WorkerCrashes(w)
      PROVE  patching' = patching
  BY <1>1 DEF WorkerStep, TryAssignFails, WorkerCrashes, StartTick, CheckOffer, CheckAttempts,
              FindCandidates, SetOffer, CountAttempt
<1>2. ASSUME NEW c \in Call, NEW a \in Agent, NEW o \in Order, BeginCall(c, a, o)
      PROVE  patching' = patching
  BY <1>2 DEF BeginCall, BeginClaim, BeginAssign, BeginReject, BeginPick, BeginSettle
<1>3. ASSUME NEW d \in calls, CallStep(d)
      PROVE  patching' = patching
  BY <1>3 DEF CallStep, LockClaim, BeginTransactionFails, CommitClaim, CommitClaimAckLost,
              ClaimRefused, ClaimFails, ReleaseClaim, MarkBusy, DropOffer, RewriteOffer,
              CommitPick, CommitSettle, FreeCourier, DropClaim, CallFails, CallCrashes
<1>4. ASSUME NEW a \in Agent,
             ComeOnline(a) \/ BeginOffline(a) \/ OfflineStep(a) \/ PresenceExpires(a)
      PROVE  patching' = patching
  BY <1>4 DEF ComeOnline, BeginOffline, OfflineStep, ResetAssigned, ForgetPresence, ForgetBusy,
              OfflineCrashes, PresenceExpires
<1>5. ASSUME NEW o \in Order, Expire(o)
      PROVE  patching' = patching
  BY <1>5 DEF Expire, OfferExpires, ClaimExpires, AttemptsExpire
<1>6. QED
  BY <1>1, <1>2, <1>3, <1>4, <1>5 DEF Next

\* Every step keeps the requests away from assigned.
LEMMA NoPatchAssignsStep ==
  ASSUME TypeOK, NoPatchAssigns, [Next]_vars
  PROVE  NoPatchAssigns'
<1> USE DEF NoPatchAssigns
<1>1. CASE UpdateStatusNext
  <2>1. ASSUME NEW r \in Request, NEW o \in Order, NEW caller \in Callers, NEW to \in Status,
               NEW reason \in BOOLEAN, BeginUpdateStatus(r, o, caller, to, reason)
        PROVE  NoPatchAssigns'
    <3>1. PICK actor \in ResolveStatusActor(caller, orders[o]) :
            \E rule \in AssertTransition(orders[o].status, to, actor, reason,
                             "accepted_at" \in orders[o].stamps, o \in windowOver) :
              patching' = patching \cup {[req |-> r, order |-> o, rule |-> rule]}
      BY <2>1 DEF BeginUpdateStatus
    <3>2. PICK rule \in TRANSITIONS :
            /\ actor \in rule.actors
            /\ patching' = patching \cup {[req |-> r, order |-> o, rule |-> rule]}
      BY <3>1 DEF AssertTransition
    <3>3. rule.to # "assigned"
      BY <3>2, WhoAssigns, NobodyIsSystem
    <3>4. QED
      BY <3>2, <3>3
  <2>2. ASSUME NEW p \in patching, CommitUpdateStatus(p) \/ AbortUpdateStatus(p)
        PROVE  NoPatchAssigns'
    BY <2>2 DEF CommitUpdateStatus, AbortUpdateStatus
  <2>3. ASSUME NEW o \in Order, CancelWindowCloses(o)
        PROVE  NoPatchAssigns'
    BY <2>3 DEF CancelWindowCloses
  <2>4. QED
    BY <1>1, <2>1, <2>2, <2>3 DEF UpdateStatusNext
<1>2. CASE UNCHANGED vars
  BY <1>2 DEF vars, ordersVars
<1>3. QED
  BY <1>1, <1>2, OthersKeepPatching

-----------------------------------------------------------------------------
(* What a step may do to the row of an order: the writers of the table.    *)

\* The row as it was; or with a status written over it, by a PATCH let through
\* earlier, a pick or a settlement; or claimed; or reset.
Patched(o) == /\ orders'[o].agent = orders[o].agent
              /\ \E p \in patching : orders'[o].status = p.rule.to
              /\ orders'[o].status = "delivered" => o \in patched'
Picked(o) == orders'[o].status = "picked" /\ orders'[o].agent = orders[o].agent
Settled(o) == /\ orders'[o].status = "delivered"
              /\ orders'[o].agent = orders[o].agent
              /\ o \in booked' /\ credits'[o] = credits[o] + 1 /\ earner'[o] # NoAgent
              /\ outbox'[o] = outbox[o] \o <<"order.delivered">>
Claimed(o) == /\ Waiting(o)
              /\ orders'[o].status = "assigned"
              /\ orders'[o].agent \in Agent \cap carriers'[o]
Unassigned(o) == /\ orders[o].status = "assigned"
                 /\ orders'[o].status = "ready"
                 /\ orders'[o].agent = NoAgent
                 /\ \E a \in Agent : leaving[a] = "reset"

RowStep(o) ==
  \/ orders'[o] = orders[o]
  \/ Patched(o)
  \/ Picked(o)
  \/ Settled(o)
  \/ Claimed(o)
  \/ Unassigned(o)

\* updateOrderStatus changes the status of one row and no agent.
LEMMA UpdateOrderStatusRow ==
  ASSUME TypeOK, NEW x \in Order, NEW status, NEW stamp, NEW o \in Order,
         orders' = UpdateOrderStatus(x, status, stamp)
  PROVE  /\ o # x => orders'[o] = orders[o]
         /\ orders'[o].agent = orders[o].agent
         /\ o = x => orders'[o].status = status
BY DEF TypeOK, OrdersTypeOK, Row, UpdateOrderStatus

\* Every step does one of these to every row.
LEMMA EveryRowStep ==
  ASSUME TypeOK, [Next]_vars, NEW o \in Order
  PROVE  RowStep(o)
<1> USE DEF RowStep
<1>1. CASE UpdateStatusNext /\ patched' = patched \cup DeliveredByPatch
  <2>1. ASSUME NEW p \in patching, CommitUpdateStatus(p)
        PROVE  RowStep(o)
    <3>1. p.order \in Order
      BY DEF TypeOK, OrdersTypeOK, PatchState
    <3>2. orders' = UpdateOrderStatus(p.order, p.rule.to, p.rule.stamp)
      BY <2>1 DEF CommitUpdateStatus
    <3>3. p.rule.to = "delivered" => p.order \in patched'
      BY <1>1, <2>1 DEF DeliveredByPatch
    <3>4. QED
      BY <3>1, <3>2, <3>3, UpdateOrderStatusRow DEF Patched
  <2>2. CASE orders' = orders
    BY <2>2
  <2>3. QED
    BY <1>1, <2>1, <2>2
       DEF UpdateStatusNext, BeginUpdateStatus, AbortUpdateStatus, CancelWindowCloses
<1>2. ASSUME NEW d \in calls, CallStep(d)
      PROVE  RowStep(o)
  <2>1. d.agent \in Agent /\ d.order \in Order
    BY DEF TypeOK, CallState
  <2>2. CASE CommitClaim(d) \/ CommitClaimAckLost(d)
    <3>1. ClaimReadyOrderForAgent(d.order, d.agent)
      BY <2>2 DEF CommitClaim, CommitClaimAckLost
    <3>2. CASE o = d.order
      <4>1. d.agent \in carriers'[o]
        BY <2>1, <2>2, <3>2 DEF CommitClaim, CommitClaimAckLost, Carries, TypeOK
      <4>2. QED
        BY <2>1, <3>1, <3>2, <4>1
           DEF ClaimReadyOrderForAgent, Claimed, TypeOK, OrdersTypeOK, Row
    <3>3. CASE o # d.order
      BY <2>1, <3>1, <3>3 DEF ClaimReadyOrderForAgent, TypeOK, OrdersTypeOK
    <3>4. QED
      BY <3>2, <3>3
  <2>3. CASE CommitPick(d)
    <3>1. orders' = UpdateOrderStatus(d.order, "picked", "picked_at")
      BY <2>3 DEF CommitPick
    <3>2. QED
      BY <2>1, <3>1, UpdateOrderStatusRow DEF Picked
  <2>4. CASE CommitSettle(d)
    <3>1. orders' = UpdateOrderStatus(d.order, "delivered", "delivered_at")
      BY <2>4 DEF CommitSettle
    <3>2. /\ o # d.order => orders'[o] = orders[o]
          /\ orders'[o].agent = orders[o].agent
          /\ o = d.order => orders'[o].status = "delivered"
      BY <2>1, <3>1, UpdateOrderStatusRow
    <3>3. ASSUME o = d.order
          PROVE  /\ o \in booked' /\ credits'[o] = credits[o] + 1 /\ earner'[o] # NoAgent
                 /\ outbox'[o] = outbox[o] \o <<"order.delivered">>
      BY <2>1, <2>4, <3>3, NoAgentIsNoAgent
         DEF CommitSettle, InsertOutboxEvents, TypeOK, OrdersTypeOK
    <3>4. QED
      BY <3>2, <3>3 DEF Settled
  <2>5. CASE orders' = orders
    BY <2>5
  <2>6. QED
    BY <1>2, <2>2, <2>3, <2>4, <2>5
       DEF CallStep, LockClaim, BeginTransactionFails, ClaimRefused, ClaimFails, ReleaseClaim,
           MarkBusy, DropOffer, RewriteOffer, FreeCourier, DropClaim, CallFails, CallCrashes,
           ordersVars
<1>3. ASSUME NEW a \in Agent,
             ComeOnline(a) \/ BeginOffline(a) \/ OfflineStep(a) \/ PresenceExpires(a)
      PROVE  RowStep(o)
  <2>1. CASE ResetAssigned(a)
    BY <2>1 DEF ResetAssigned, LeaveGoto, Unassigned, TypeOK, OrdersTypeOK, Row
  <2>2. CASE orders' = orders
    BY <2>2
  <2>3. QED
    BY <1>3, <2>1, <2>2 DEF ComeOnline, BeginOffline, OfflineStep, ForgetPresence, ForgetBusy,
                            OfflineCrashes, PresenceExpires, ordersVars
<1>4. ASSUME NEW w \in Worker, WorkerStep(w) \/ TryAssignFails(w) \/ WorkerCrashes(w)
      PROVE  RowStep(o)
  BY <1>4 DEF WorkerStep, TryAssignFails, WorkerCrashes, StartTick, CheckOffer, CheckAttempts,
              FindCandidates, SetOffer, CountAttempt, ordersVars
<1>5. ASSUME NEW c \in Call, NEW a \in Agent, NEW x \in Order, BeginCall(c, a, x)
      PROVE  RowStep(o)
  BY <1>5 DEF BeginCall, BeginClaim, BeginAssign, BeginReject, BeginPick, BeginSettle,
              ordersVars
<1>6. ASSUME NEW x \in Order, Expire(x)
      PROVE  RowStep(o)
  BY <1>6 DEF Expire, OfferExpires, ClaimExpires, AttemptsExpire, ordersVars
<1>7. CASE UNCHANGED vars
  BY <1>7 DEF vars, ordersVars
<1>8. QED
  BY <1>1, <1>2, <1>3, <1>4, <1>5, <1>6, <1>7 DEF Next

-----------------------------------------------------------------------------
(* The theorems.                                                           *)

\* Every step keeps the courier of an assigned order.
LEMMA AssignInvInductive == AssignInv /\ [Next]_vars => AssignInv'
<1> SUFFICES ASSUME AssignInv, [Next]_vars PROVE AssignInv'
  OBVIOUS
<1> USE DEF AssignInv
<1>1. TypeOK'
  BY NextTypeOK
<1>2. NoPatchAssigns'
  BY NoPatchAssignsStep
<1>3. ASSUME NEW o \in Order, orders'[o].status = "assigned"
      PROVE  orders'[o].agent # NoAgent
  <2>1. CASE Patched(o)
    BY <1>3, <2>1 DEF Patched, NoPatchAssigns
  <2>2. CASE orders'[o] = orders[o]
    BY <1>3, <2>2 DEF AssignedHasAgent
  <2>3. CASE Claimed(o)
    BY <2>3, NoAgentIsNoAgent DEF Claimed
  <2>4. QED
    BY <1>3, <2>1, <2>2, <2>3, EveryRowStep DEF RowStep, Picked, Settled, Unassigned
<1>4. QED
  BY <1>1, <1>2, <1>3 DEF AssignedHasAgent

\* At first no order is assigned.
LEMMA InitAssignInv == Init => AssignInv
<1> SUFFICES ASSUME Init PROVE AssignInv
  OBVIOUS
<1>1. \A method \in Methods : Preparing(method).status = "preparing"
  BY DEF Preparing, NoRow
<1>2. \A o \in Order : orders[o].status = "preparing"
  BY <1>1 DEF Init
<1>3. QED
  BY <1>2, InitTypeOK DEF AssignInv, NoPatchAssigns, AssignedHasAgent, Init

\* An assigned order has a courier, whatever PATCH requests, claims, picks and
\* agents going offline do between each other's check and write.
THEOREM AssignedOrdersHaveAgents == Spec => []AssignedHasAgent
<1>1. AssignInv => AssignedHasAgent
  BY DEF AssignInv
<1>2. QED
  BY <1>1, InitAssignInv, AssignInvInductive, PTL DEF Spec

\* A courier gets an order only while it waits and loses it only before the
\* pick-up or by its cancellation, although the claim lock may expire or be
\* deleted by a loser.
THEOREM HandoverOnlyThroughReady == Spec => AgentHandover
<1>1. TypeOK /\ [Next]_vars
        => [\A o \in Order : orders'[o].agent # orders[o].agent => ClaimedOrLost(o)]_vars
  <2>1. ASSUME TypeOK, [Next]_vars, NEW o \in Order, orders'[o].agent # orders[o].agent
        PROVE  ClaimedOrLost(o)
    BY <2>1, EveryRowStep
       DEF RowStep, Patched, Picked, Settled, Claimed, Unassigned, ClaimedOrLost
  <2>2. QED
    BY <2>1
<1>2. QED
  BY <1>1, InitTypeOK, NextTypeOK, PTL DEF Spec, AgentHandover

-----------------------------------------------------------------------------
(* A delivered order is settled, or an agent's PATCH request delivered it. *)

SettledInv == TypeOK /\ DeliveredIsSettled

\* What happened has happened: the history of an order only grows.
LEMMA HistoryGrows ==
  ASSUME TypeOK, [Next]_vars, NEW o \in Order
  PROVE  carriers[o] \subseteq carriers'[o] /\ patched \subseteq patched'
<1> USE DEF history
<1>1. ASSUME NEW d \in calls, CommitClaim(d) \/ CommitClaimAckLost(d)
      PROVE  carriers[o] \subseteq carriers'[o] /\ patched \subseteq patched'
  BY <1>1 DEF CommitClaim, CommitClaimAckLost, Carries, TypeOK
<1>2. ASSUME NEW d \in calls, CallStep(d), ~CommitClaim(d), ~CommitClaimAckLost(d)
      PROVE  UNCHANGED history
  BY <1>2 DEF CallStep, LockClaim, BeginTransactionFails, ClaimRefused, ClaimFails, ReleaseClaim,
              MarkBusy, DropOffer, RewriteOffer, CommitPick, CommitSettle, FreeCourier,
              DropClaim, CallFails, CallCrashes
<1>3. ASSUME NEW w \in Worker, WorkerStep(w) \/ TryAssignFails(w) \/ WorkerCrashes(w)
      PROVE  UNCHANGED history
  BY <1>3 DEF WorkerStep, TryAssignFails, WorkerCrashes, StartTick, CheckOffer, CheckAttempts,
              FindCandidates, SetOffer, CountAttempt
<1>4. ASSUME NEW c \in Call, NEW a \in Agent, NEW x \in Order, BeginCall(c, a, x)
      PROVE  UNCHANGED history
  BY <1>4 DEF BeginCall, BeginClaim, BeginAssign, BeginReject, BeginPick, BeginSettle
<1>5. ASSUME NEW a \in Agent,
             ComeOnline(a) \/ BeginOffline(a) \/ OfflineStep(a) \/ PresenceExpires(a)
      PROVE  UNCHANGED history
  BY <1>5 DEF ComeOnline, BeginOffline, OfflineStep, ResetAssigned, ForgetPresence, ForgetBusy,
              OfflineCrashes, PresenceExpires
<1>6. ASSUME NEW x \in Order, Expire(x)
      PROVE  UNCHANGED history
  BY <1>6 DEF Expire, OfferExpires, ClaimExpires, AttemptsExpire
<1>7. CASE patched' = patched \cup DeliveredByPatch /\ UNCHANGED carriers
  BY <1>7
<1>8. QED
  BY <1>1, <1>2, <1>3, <1>4, <1>5, <1>6, <1>7 DEF Next, vars

\* What is appended to an outbox leaves in place what was there.
LEMMA AppendedKeeps ==
  ASSUME NEW s \in Seq(EventType), NEW t \in Seq(EventType), NEW i \in DOMAIN s
  PROVE  i \in DOMAIN (s \o t) /\ (s \o t)[i] = s[i]
BY ConcatProperties

\* Events are appended to one order's outbox and the others keep theirs.
LEMMA InsertOutboxEventsKeeps ==
  ASSUME TypeOK, NEW x \in Order, NEW events \in Seq(EventType), NEW o \in Order,
         outbox' = InsertOutboxEvents(x, events), NEW i \in DOMAIN outbox[o]
  PROVE  i \in DOMAIN outbox'[o] /\ outbox'[o][i] = outbox[o][i]
<1>1. outbox[o] \in Seq(EventType)
  BY DEF TypeOK, OrdersTypeOK
<1>2. outbox'[o] = IF o = x THEN outbox[o] \o events ELSE outbox[o]
  BY DEF TypeOK, OrdersTypeOK, InsertOutboxEvents
<1>3. QED
  BY <1>1, <1>2, AppendedKeeps

\* What a settlement left behind stays.
LEMMA SettledStays ==
  ASSUME TypeOK, [Next]_vars, NEW o \in Order, IsSettled(o)
  PROVE  IsSettled(o)'
<1> USE DEF IsSettled
<1>1. CASE UpdateStatusNext /\ UNCHANGED ledgerVars
  <2>1. ASSUME NEW p \in patching, CommitUpdateStatus(p)
        PROVE  IsSettled(o)'
    <3>1. p.order \in Order /\ p.rule.to \in Status
      BY TransitionsType DEF TypeOK, OrdersTypeOK, PatchState
    <3>2. EventForStatus(p.rule.to) \in Seq(EventType)
      BY <3>1, EventForStatusType
    <3>3. outbox' = InsertOutboxEvents(p.order, EventForStatus(p.rule.to))
      BY <2>1 DEF CommitUpdateStatus
    <3>4. QED
      BY <1>1, <3>1, <3>2, <3>3, InsertOutboxEventsKeeps DEF ledgerVars
  <2>2. CASE outbox' = outbox
    BY <1>1, <2>2 DEF ledgerVars
  <2>3. QED
    BY <1>1, <2>1, <2>2
       DEF UpdateStatusNext, BeginUpdateStatus, AbortUpdateStatus, CancelWindowCloses
<1>2. ASSUME NEW d \in calls, CallStep(d)
      PROVE  IsSettled(o)'
  <2>1. CASE CommitSettle(d)
    <3>1. d.agent \in Agent /\ d.order \in Order
      BY DEF TypeOK, CallState
    <3>2. <<"order.delivered">> \in Seq(EventType)
      BY DEF EventType
    <3>3. outbox' = InsertOutboxEvents(d.order, <<"order.delivered">>)
      BY <2>1 DEF CommitSettle
    <3>4. \E i \in DOMAIN outbox'[o] : outbox'[o][i] = "order.delivered"
      BY <3>1, <3>2, <3>3, InsertOutboxEventsKeeps
    <3>5. o \in booked' /\ credits'[o] > 0 /\ earner'[o] # NoAgent
      BY <2>1, <3>1 DEF CommitSettle, TypeOK
    <3>6. QED
      BY <3>4, <3>5
  <2>2. CASE UNCHANGED <<outbox, ledgerVars>>
    BY <2>2 DEF ledgerVars
  <2>3. QED
    BY <1>2, <2>1, <2>2
       DEF CallStep, LockClaim, BeginTransactionFails, CommitClaim, CommitClaimAckLost,
           ClaimRefused, ClaimFails, ReleaseClaim, MarkBusy, DropOffer, RewriteOffer,
           CommitPick, FreeCourier, DropClaim, CallFails, CallCrashes, ordersVars
<1>3. CASE UNCHANGED <<outbox, ledgerVars>>
  BY <1>3 DEF ledgerVars
<1>4. ASSUME NEW a \in Agent,
             ComeOnline(a) \/ BeginOffline(a) \/ OfflineStep(a) \/ PresenceExpires(a)
      PROVE  UNCHANGED <<outbox, ledgerVars>>
  BY <1>4 DEF ComeOnline, BeginOffline, OfflineStep, ResetAssigned, ForgetPresence, ForgetBusy,
              OfflineCrashes, PresenceExpires, ordersVars
<1>5. ASSUME NEW w \in Worker, WorkerStep(w) \/ TryAssignFails(w) \/ WorkerCrashes(w)
      PROVE  UNCHANGED <<outbox, ledgerVars>>
  BY <1>5 DEF WorkerStep, TryAssignFails, WorkerCrashes, StartTick, CheckOffer, CheckAttempts,
              FindCandidates, SetOffer, CountAttempt, ordersVars
<1>6. ASSUME NEW c \in Call, NEW a \in Agent, NEW x \in Order, BeginCall(c, a, x)
      PROVE  UNCHANGED <<outbox, ledgerVars>>
  BY <1>6 DEF BeginCall, BeginClaim, BeginAssign, BeginReject, BeginPick, BeginSettle,
              ordersVars
<1>7. ASSUME NEW x \in Order, Expire(x)
      PROVE  UNCHANGED <<outbox, ledgerVars>>
  BY <1>7 DEF Expire, OfferExpires, ClaimExpires, AttemptsExpire, ordersVars
<1>8. CASE UNCHANGED vars
  BY <1>3, <1>8 DEF vars, ordersVars
<1>9. QED
  BY <1>1, <1>2, <1>3, <1>4, <1>5, <1>6, <1>7, <1>8 DEF Next

\* A settlement settles.
LEMMA SettlementSettles ==
  ASSUME TypeOK, TypeOK', NEW o \in Order, Settled(o)
  PROVE  IsSettled(o)'
<1>1. outbox[o] \in Seq(EventType)
  BY DEF TypeOK, OrdersTypeOK
<1>2. /\ Len(outbox[o]) + 1 \in DOMAIN outbox'[o]
      /\ outbox'[o][Len(outbox[o]) + 1] = "order.delivered"
  BY <1>1 DEF Settled
<1>3. credits'[o] > 0
  BY DEF Settled, TypeOK
<1>4. QED
  BY <1>2, <1>3 DEF Settled, IsSettled

\* Every delivered order is settled, whoever settles it, how often, and whatever
\* fails; or an agent has set it to delivered by a PATCH on the customers' route.
THEOREM DeliveredOrdersAreSettled == Spec => []DeliveredIsSettled
<1>1. Init => SettledInv
  <2>1. ASSUME Init
        PROVE  \A o \in Order : orders[o].status = "preparing"
    <3>1. \A method \in Methods : Preparing(method).status = "preparing"
      BY DEF Preparing, NoRow
    <3>2. QED
      BY <2>1, <3>1 DEF Init
  <2>2. QED
    BY <2>1, InitTypeOK DEF SettledInv, DeliveredIsSettled, Init
<1>2. SettledInv /\ [Next]_vars => SettledInv'
  <2> SUFFICES ASSUME SettledInv, [Next]_vars PROVE SettledInv'
    OBVIOUS
  <2> USE DEF SettledInv
  <2>1. TypeOK'
    BY NextTypeOK
  <2>2. ASSUME NEW o \in Order, orders'[o].status = "delivered", o \notin patched'
        PROVE  IsSettled(o)'
    <3>1. CASE orders'[o] = orders[o]
      BY <2>2, <3>1, SettledStays, HistoryGrows DEF DeliveredIsSettled
    <3>2. CASE Settled(o)
      BY <2>1, <3>2, SettlementSettles
    <3>3. QED
      BY <2>2, <3>1, <3>2, EveryRowStep DEF RowStep, Patched, Picked, Claimed, Unassigned
  <2>3. QED
    BY <2>1, <2>2 DEF DeliveredIsSettled
<1>3. SettledInv => DeliveredIsSettled
  BY DEF SettledInv
<1>4. QED
  BY <1>1, <1>2, <1>3, PTL DEF Spec

-----------------------------------------------------------------------------
(* Who is paid.  The courier of an order has claimed it, and a settlement  *)
(* under way is one of an agent who had the order when it was let through. *)

CourierCarried == \A o \in Order : orders[o].agent \in carriers[o] \cup {NoAgent}
SettlersCarried == \A d \in calls : d.pc = "settle" => d.agent \in carriers[d.order]

EarnInv == TypeOK /\ CourierCarried /\ SettlersCarried /\ EarnerCarried

\* A call that goes on does not go on to settle.
LEMMA ContinuesElsewhere ==
  ASSUME TypeOK, NEW d \in calls, NEW to \in {"commit", "release", "busy", "drop", "free", "unlock"},
         Continue(d, to),
         NEW e \in calls', e.pc = "settle"
  PROVE  e \in calls
<1>1. [d EXCEPT !.pc = to].pc = to
  BY DEF TypeOK, CallState
<1> QED
  BY <1>1 DEF Continue

\* A settlement in flight was in flight before, or has just been let through.
LEMMA WhoSettles ==
  ASSUME TypeOK, [Next]_vars, NEW e \in calls', e.pc = "settle"
  PROVE  e \in calls \/ orders[e.order].agent = e.agent
<1>1. ASSUME NEW c \in Call, NEW a \in Agent, NEW o \in Order, BeginCall(c, a, o)
      PROVE  e \in calls \/ orders[e.order].agent = e.agent
  <2>1. CASE BeginSettle(c, a, o)
    <3>1. calls' = calls \cup {[id |-> c, agent |-> a, order |-> o, pc |-> "settle", rest |-> {}]}
      BY <2>1 DEF BeginSettle, Begin
    <3> QED
      BY <2>1, <3>1 DEF BeginSettle
  <2>2. ASSUME NEW kind, NEW rest, NEW pc \in {"lock", "rewrite", "pick"},
               Begin(kind, c, a, o, pc, rest)
        PROVE  e \in calls
    BY <2>2 DEF Begin
  <2> QED
    BY <1>1, <2>1, <2>2 DEF BeginCall, BeginClaim, BeginAssign, BeginReject, BeginPick
<1>2. ASSUME NEW d \in calls, CallStep(d)
      PROVE  e \in calls
  <2>1. CASE \E to \in {"commit", "release", "busy", "drop", "free", "unlock"} : Continue(d, to)
    BY <2>1, ContinuesElsewhere
  <2>2. CASE Done(d)
    BY <2>2 DEF Done
  <2> QED
    BY <1>2, <2>1, <2>2
       DEF CallStep, LockClaim, BeginTransactionFails, CommitClaim, CommitClaimAckLost,
           ClaimRefused, ClaimFails, ReleaseClaim, MarkBusy, DropOffer, RewriteOffer,
           CommitPick, CommitSettle, FreeCourier, DropClaim, CallFails, CallCrashes
<1>3. CASE calls' = calls
  BY <1>3
<1>4. ASSUME NEW w \in Worker, WorkerStep(w) \/ TryAssignFails(w) \/ WorkerCrashes(w)
      PROVE  calls' = calls
  BY <1>4 DEF WorkerStep, TryAssignFails, WorkerCrashes, StartTick, CheckOffer, CheckAttempts,
              FindCandidates, SetOffer, CountAttempt
<1>5. ASSUME NEW a \in Agent,
             ComeOnline(a) \/ BeginOffline(a) \/ OfflineStep(a) \/ PresenceExpires(a)
      PROVE  calls' = calls
  BY <1>5 DEF ComeOnline, BeginOffline, OfflineStep, ResetAssigned, ForgetPresence, ForgetBusy,
              OfflineCrashes, PresenceExpires
<1>6. ASSUME NEW o \in Order, Expire(o)
      PROVE  calls' = calls
  BY <1>6 DEF Expire, OfferExpires, ClaimExpires, AttemptsExpire
<1> QED
  BY <1>1, <1>2, <1>3, <1>4, <1>5, <1>6 DEF Next, vars

\* Only a settlement writes an earning, its agent's, and only the first one.
LEMMA WhoEarns ==
  ASSUME TypeOK, [Next]_vars, NEW o \in Order, earner'[o] # earner[o]
  PROVE  \E d \in calls : d.pc = "settle" /\ d.order = o /\ earner'[o] = d.agent
<1>1. ASSUME NEW d \in calls, CommitSettle(d)
      PROVE  d.pc = "settle" /\ d.order = o /\ earner'[o] = d.agent
  BY <1>1 DEF CommitSettle, At, TypeOK, CallState
<1>2. CASE \E d \in calls : CallStep(d) /\ ~CommitSettle(d)
  BY <1>2 DEF CallStep, LockClaim, BeginTransactionFails, CommitClaim, CommitClaimAckLost,
              ClaimRefused, ClaimFails, ReleaseClaim, MarkBusy, DropOffer, RewriteOffer,
              CommitPick, FreeCourier, DropClaim, CallFails, CallCrashes, ledgerVars
<1>3. ASSUME NEW w \in Worker, WorkerStep(w) \/ TryAssignFails(w) \/ WorkerCrashes(w)
      PROVE  FALSE
  BY <1>3 DEF WorkerStep, TryAssignFails, WorkerCrashes, StartTick, CheckOffer, CheckAttempts,
              FindCandidates, SetOffer, CountAttempt, ledgerVars
<1>4. ASSUME NEW c \in Call, NEW a \in Agent, NEW x \in Order, BeginCall(c, a, x)
      PROVE  FALSE
  BY <1>4 DEF BeginCall, BeginClaim, BeginAssign, BeginReject, BeginPick, BeginSettle, ledgerVars
<1>5. ASSUME NEW a \in Agent,
             ComeOnline(a) \/ BeginOffline(a) \/ OfflineStep(a) \/ PresenceExpires(a)
      PROVE  FALSE
  BY <1>5 DEF ComeOnline, BeginOffline, OfflineStep, ResetAssigned, ForgetPresence, ForgetBusy,
              OfflineCrashes, PresenceExpires, ledgerVars
<1>6. ASSUME NEW x \in Order, Expire(x)
      PROVE  FALSE
  BY <1>6 DEF Expire, OfferExpires, ClaimExpires, AttemptsExpire, ledgerVars
<1> QED
  BY <1>1, <1>2, <1>3, <1>4, <1>5, <1>6 DEF Next, vars, ledgerVars

\* Every step keeps the earners among those who have had the order.
LEMMA EarnInvInductive == EarnInv /\ [Next]_vars => EarnInv'
<1> SUFFICES ASSUME EarnInv, [Next]_vars PROVE EarnInv'
  OBVIOUS
<1> USE DEF EarnInv
<1>1. TypeOK'
  BY NextTypeOK
<1>2. ASSUME NEW o \in Order
      PROVE  orders'[o].agent \in carriers'[o] \cup {NoAgent}
  <2>1. carriers[o] \subseteq carriers'[o]
    BY HistoryGrows
  <2> QED
    BY <2>1, EveryRowStep
       DEF RowStep, Patched, Picked, Settled, Claimed, Unassigned, CourierCarried
<1>3. ASSUME NEW e \in calls', e.pc = "settle"
      PROVE  e.agent \in carriers'[e.order]
  <2>1. e.order \in Order /\ e.agent # NoAgent
    BY <1>1, NoAgentIsNoAgent DEF TypeOK, CallState
  <2>2. e.agent \in carriers[e.order]
    BY <1>3, <2>1, WhoSettles DEF SettlersCarried, CourierCarried
  <2> QED
    BY <2>1, <2>2, HistoryGrows
<1>4. ASSUME NEW o \in Order, earner'[o] # NoAgent
      PROVE  earner'[o] \in carriers'[o]
  <2>1. earner'[o] \in carriers[o]
    BY <1>4, WhoEarns DEF SettlersCarried, EarnerCarried
  <2> QED
    BY <2>1, HistoryGrows
<1> QED
  BY <1>1, <1>2, <1>3, <1>4 DEF CourierCarried, SettlersCarried, EarnerCarried

\* The earning goes to an agent who has had the order, although settleDelivered
\* decides on it before its transaction: also when the agent goes offline in
\* between, the order is assigned anew, or two agents settle it.
THEOREM EarnersHaveCarried == Spec => []EarnerCarried
<1>1. Init => EarnInv
  <2> SUFFICES ASSUME Init PROVE EarnInv
    OBVIOUS
  <2>1. \A method \in Methods : Preparing(method).agent = NoAgent
    BY DEF Preparing, NoRow
  <2>2. CourierCarried
    BY <2>1 DEF CourierCarried, Init
  <2> QED
    BY <2>2, InitTypeOK DEF EarnInv, SettlersCarried, EarnerCarried, Init
<1>2. EarnInv /\ [Next]_vars => EarnInv'
  BY EarnInvInductive
<1>3. EarnInv => EarnerCarried
  BY DEF EarnInv
<1> QED
  BY <1>1, <1>2, <1>3, PTL DEF Spec

-----------------------------------------------------------------------------
(* Couriers who do not go offline keep their orders.                       *)

NobodyLeaves == \A a \in Agent : leaving[a] = "no"

\* Unless couriers go offline, an order that has a courier keeps that courier.
LEMMA CouriersStay ==
  ASSUME TypeOK, NobodyLeaves, "offline" \notin Kinds, [Next]_vars
  PROVE  /\ NobodyLeaves'
         /\ \A o \in Order : orders[o].agent # NoAgent => orders'[o].agent = orders[o].agent
<1>1. leaving' = leaving
  <2>1. ASSUME NEW w \in Worker, WorkerStep(w) \/ TryAssignFails(w) \/ WorkerCrashes(w)
        PROVE  leaving' = leaving
    BY <2>1 DEF WorkerStep, TryAssignFails, WorkerCrashes, StartTick, CheckOffer, CheckAttempts,
                FindCandidates, SetOffer, CountAttempt
  <2>2. ASSUME NEW c \in Call, NEW a \in Agent, NEW o \in Order, BeginCall(c, a, o)
        PROVE  leaving' = leaving
    BY <2>2 DEF BeginCall, BeginClaim, BeginAssign, BeginReject, BeginPick, BeginSettle
  <2>3. ASSUME NEW d \in calls, CallStep(d)
        PROVE  leaving' = leaving
    BY <2>3 DEF CallStep, LockClaim, BeginTransactionFails, CommitClaim, CommitClaimAckLost,
                ClaimRefused, ClaimFails, ReleaseClaim, MarkBusy, DropOffer, RewriteOffer,
                CommitPick, CommitSettle, FreeCourier, DropClaim, CallFails, CallCrashes
  <2>4. ASSUME NEW a \in Agent,
               ComeOnline(a) \/ BeginOffline(a) \/ OfflineStep(a) \/ PresenceExpires(a)
        PROVE  leaving' = leaving
    BY <2>4 DEF ComeOnline, BeginOffline, OfflineStep, ResetAssigned, ForgetPresence, ForgetBusy,
                OfflineCrashes, PresenceExpires, LeaveGoto, NobodyLeaves
  <2>5. ASSUME NEW o \in Order, Expire(o)
        PROVE  leaving' = leaving
    BY <2>5 DEF Expire, OfferExpires, ClaimExpires, AttemptsExpire
  <2> QED
    BY <2>1, <2>2, <2>3, <2>4, <2>5 DEF Next, vars
<1>2. ASSUME NEW o \in Order, orders[o].agent # NoAgent
      PROVE  orders'[o].agent = orders[o].agent
  BY <1>2, EveryRowStep
     DEF RowStep, Patched, Picked, Settled, Claimed, Unassigned, Waiting, NobodyLeaves
<1> QED
  BY <1>1, <1>2 DEF NobodyLeaves

-----------------------------------------------------------------------------
(* The claim lock.  When no process dies, a lock is held by the order's    *)
(* courier or by a call that is about to write the order or drop the lock. *)

Holds(d, o) == d.order = o /\ d.agent = claim[o] /\ d.pc \in {"commit", "release"}
LockIsFor(o) == claim[o] # NoAgent => orders[o].agent = claim[o] \/ \E d \in calls : Holds(d, o)

LockInv == TypeOK /\ NobodyLeaves /\ \A o \in Order : LockIsFor(o)

\* A lock that stays keeps its holder when the calls that hold it stay.
LEMMA LockStaysHeld ==
  ASSUME LockInv, NEW o \in Order,
         orders[o].agent # NoAgent => orders'[o].agent = orders[o].agent,
         claim'[o] \in {claim[o], NoAgent},
         claim'[o] # NoAgent => \A d \in calls : Holds(d, o) => \/ d \in calls'
                                                             \/ orders'[o].agent = d.agent
                                                             \/ \E e \in calls' : Holds(e, o)'
  PROVE  LockIsFor(o)'
<1> SUFFICES ASSUME claim'[o] # NoAgent
             PROVE  orders'[o].agent = claim'[o] \/ \E d \in calls' : Holds(d, o)'
  BY DEF LockIsFor
<1>1. claim'[o] = claim[o]
  OBVIOUS
<1>2. CASE orders[o].agent = claim[o]
  BY <1>1, <1>2
<1>3. CASE \E d \in calls : Holds(d, o)
  BY <1>1, <1>3 DEF Holds
<1> QED
  BY <1>1, <1>2, <1>3 DEF LockInv, LockIsFor

\* Where the calls are locked, they are at "commit" or "release" of an order.
LEMMA CallKeepsLocks ==
  ASSUME LockInv, [Next]_vars, "offline" \notin Kinds, Faults \cap {"crash", "begin"} = {},
         NEW d \in calls, CallStep(d), NEW o \in Order
  PROVE  LockIsFor(o)'
<1>1. d \in CallState /\ d.order \in Order /\ d.agent \in Agent /\ d.agent # NoAgent
  BY NoAgentIsNoAgent DEF LockInv, TypeOK, CallState
<1>2. orders[o].agent # NoAgent => orders'[o].agent = orders[o].agent
  BY CouriersStay DEF LockInv
<1>3. \A pc \in {"commit", "release", "busy", "drop", "free", "unlock"} :
        /\ [d EXCEPT !.pc = pc].pc = pc
        /\ [d EXCEPT !.pc = pc].order = d.order /\ [d EXCEPT !.pc = pc].agent = d.agent
  BY <1>1 DEF CallState
<1>4. CASE LockClaim(d) /\ claim[d.order] = NoAgent
  <2> DEFINE k == [d EXCEPT !.pc = "commit"]
  <2>1. k \in calls' /\ k.pc = "commit" /\ k.order = d.order /\ k.agent = d.agent
    BY <1>3, <1>4 DEF LockClaim, Continue
  <2>2. claim' = [claim EXCEPT ![d.order] = d.agent] /\ calls \ {d} \subseteq calls'
        /\ d.pc = "lock"
    BY <1>4 DEF LockClaim, Continue, At
  <2> HIDE DEF k
  <2>3. CASE o = d.order
    BY <1>1, <2>1, <2>2, <2>3 DEF LockIsFor, Holds, LockInv, TypeOK
  <2>4. CASE o # d.order
    <3>1. claim'[o] = claim[o]
      BY <1>1, <2>2, <2>4 DEF LockInv, TypeOK
    <3>2. \A e \in calls : Holds(e, o) => e \in calls'
      BY <2>2 DEF Holds
    <3> QED
      BY <1>2, <3>1, <3>2, LockStaysHeld
  <2> QED
    BY <2>3, <2>4
<1>5. CASE ClaimRefused(d) \/ ReleaseClaim(d) \/ DropClaim(d)
  <2>1. claim' = [claim EXCEPT ![d.order] = NoAgent] /\ calls \ {d} \subseteq calls'
    BY <1>5 DEF ClaimRefused, ReleaseClaim, DropClaim, Continue, Done
  <2>2. CASE o = d.order
    BY <2>1, <2>2 DEF LockIsFor, LockInv, TypeOK
  <2>3. CASE o # d.order
    <3>1. claim'[o] = claim[o]
      BY <2>1, <2>3 DEF LockInv, TypeOK
    <3>2. \A e \in calls : Holds(e, o) => e \in calls'
      BY <2>1, <2>3 DEF Holds
    <3> QED
      BY <1>2, <3>1, <3>2, LockStaysHeld
  <2> QED
    BY <2>2, <2>3
<1>6. CASE CommitClaim(d) \/ CommitClaimAckLost(d)
  <2>1. claim' = claim /\ calls \ {d} \subseteq calls'
        /\ ClaimReadyOrderForAgent(d.order, d.agent)
    BY <1>6 DEF CommitClaim, CommitClaimAckLost, Continue, redisVars
  <2>2. orders'[d.order].agent = d.agent
    BY <1>1, <2>1 DEF ClaimReadyOrderForAgent, LockInv, TypeOK, OrdersTypeOK, Row
  <2>3. \A e \in calls : Holds(e, o) => e \in calls' \/ orders'[o].agent = e.agent
    BY <2>1, <2>2 DEF Holds
  <2> QED
    BY <1>2, <2>1, <2>3, LockStaysHeld
<1>7. CASE ClaimFails(d)
  <2> DEFINE k == [d EXCEPT !.pc = "release"]
  <2>1. k \in calls' /\ k.pc = "release" /\ k.order = d.order /\ k.agent = d.agent
    BY <1>3, <1>7 DEF ClaimFails, Continue
  <2>2. claim' = claim /\ calls \ {d} \subseteq calls'
    BY <1>7 DEF ClaimFails, Continue, redisVars
  <2> HIDE DEF k
  <2>3. \A e \in calls : Holds(e, o) => e \in calls' \/ \E f \in calls' : Holds(f, o)'
    BY <2>1, <2>2 DEF Holds
  <2> QED
    BY <1>2, <2>2, <2>3, LockStaysHeld
<1>8. CASE d.pc \notin {"commit", "release"} /\ claim' = claim /\ calls \ {d} \subseteq calls'
  <2>1. \A e \in calls : Holds(e, o) => e \in calls'
    BY <1>8 DEF Holds
  <2> QED
    BY <1>2, <1>8, <2>1, LockStaysHeld
<1>9. CASE LockClaim(d) /\ claim[d.order] # NoAgent
  BY <1>8, <1>9 DEF LockClaim, At, Done
<1>10. CASE MarkBusy(d) \/ DropOffer(d) \/ RewriteOffer(d) \/ CommitPick(d) \/ CommitSettle(d)
            \/ FreeCourier(d) \/ CallFails(d)
  BY <1>8, <1>10 DEF MarkBusy, DropOffer, RewriteOffer, CommitPick, CommitSettle, FreeCourier,
                     CallFails, At, Done, Continue, redisVars
<1> QED
  BY <1>4, <1>5, <1>6, <1>7, <1>9, <1>10 DEF CallStep, BeginTransactionFails, CallCrashes

\* Every step keeps a holder for each claim lock.
LEMMA LockInvInductive ==
  ASSUME LockInv, [Next]_vars, "offline" \notin Kinds, Faults \cap {"crash", "begin"} = {}
  PROVE  LockInv'
<1>1. TypeOK' /\ NobodyLeaves'
  BY NextTypeOK, CouriersStay DEF LockInv
<1>2. ASSUME NEW o \in Order
      PROVE  LockIsFor(o)'
  <2>1. orders[o].agent # NoAgent => orders'[o].agent = orders[o].agent
    BY CouriersStay DEF LockInv
  <2>2. CASE \E d \in calls : CallStep(d)
    BY <2>2, CallKeepsLocks
  <2>3. CASE claim'[o] \in {claim[o], NoAgent} /\ calls \subseteq calls'
    BY <2>1, <2>3, LockStaysHeld
  <2>4. ASSUME NEW w \in Worker, WorkerStep(w) \/ TryAssignFails(w) \/ WorkerCrashes(w)
        PROVE  claim' = claim /\ calls' = calls
    BY <2>4 DEF WorkerStep, TryAssignFails, WorkerCrashes, StartTick, CheckOffer, CheckAttempts,
                FindCandidates, SetOffer, CountAttempt, redisVars
  <2>5. ASSUME NEW c \in Call, NEW a \in Agent, NEW x \in Order, BeginCall(c, a, x)
        PROVE  claim' = claim /\ calls \subseteq calls'
    BY <2>5 DEF BeginCall, BeginClaim, BeginAssign, BeginReject, BeginPick, BeginSettle, Begin,
                redisVars
  <2>6. ASSUME NEW a \in Agent,
               ComeOnline(a) \/ BeginOffline(a) \/ OfflineStep(a) \/ PresenceExpires(a)
        PROVE  claim' = claim /\ calls' = calls
    BY <2>6 DEF ComeOnline, BeginOffline, OfflineStep, ResetAssigned, ForgetPresence, ForgetBusy,
                OfflineCrashes, PresenceExpires, redisVars
  <2>7. ASSUME NEW x \in Order, Expire(x)
        PROVE  claim'[o] \in {claim[o], NoAgent} /\ calls' = calls
    BY <2>7 DEF Expire, OfferExpires, ClaimExpires, AttemptsExpire, LockInv, TypeOK
  <2>8. CASE UNCHANGED <<redisVars, calls>>
    BY <2>3, <2>8 DEF redisVars
  <2> QED
    BY <2>2, <2>3, <2>4, <2>5, <2>6, <2>7, <2>8 DEF Next, vars
<1> QED
  BY <1>1, <1>2 DEF LockInv

\* A claim lock nobody is working on is held by the order's courier: as long as
\* no process dies and nobody goes offline, the catch of the claim, the refusal
\* and the settlement between them drop every lock that is left over.
THEOREM LocksHaveHolders ==
  ASSUME "offline" \notin Kinds, Faults \cap {"crash", "begin"} = {}
  PROVE  Spec => []ClaimLockHasHolder
<1>1. Init => LockInv
  <2> SUFFICES ASSUME Init PROVE LockInv
    OBVIOUS
  <2> QED
    BY InitTypeOK DEF LockInv, NobodyLeaves, LockIsFor, Init
<1>2. LockInv /\ [Next]_vars => LockInv'
  BY LockInvInductive
<1>3. LockInv => ClaimLockHasHolder
  BY DEF LockInv, LockIsFor, Holds, ClaimLockHasHolder
<1> QED
  BY <1>1, <1>2, <1>3, PTL DEF Spec

-----------------------------------------------------------------------------
(* The cap on the attempts.  What has been counted and what is about to be *)
(* counted, by the workers past their check, stay within it together.      *)

PastCheck(o) ==
  { w \in Worker : tick[w].pc \in {"search", "set", "count"} /\ o = Oldest(tick[w].batch) }
Attempts(o) == tries[o] + Cardinality(PastCheck(o))

AttemptsBounded ==
  \A o \in Order : Attempts(o) = 0 \/ Attempts(o) < MaxAttempts + Cardinality(Worker)

CappedInv == TypeOK /\ AttemptsBounded

\* There are finitely many workers past their check.
LEMMA PastCheckFinite ==
  ASSUME NEW o \in Order
  PROVE  /\ Cardinality(Worker) \in Nat
         /\ IsFiniteSet(PastCheck(o)) /\ Cardinality(PastCheck(o)) \in Nat
         /\ Cardinality(PastCheck(o)) <= Cardinality(Worker)
<1>1. PastCheck(o) \subseteq Worker
  BY DEF PastCheck
<1> QED
  BY <1>1, WorkerAssumption, FS_Subset, FS_CardinalityType

\* No more workers past the check, and no attempt more.
LEMMA FewerAttempts ==
  ASSUME TypeOK, TypeOK', AttemptsBounded, NEW o \in Order,
         PastCheck(o)' \subseteq PastCheck(o), tries'[o] <= tries[o]
  PROVE  Attempts(o)' = 0 \/ Attempts(o)' < MaxAttempts + Cardinality(Worker)
<1>1. Cardinality(PastCheck(o)') <= Cardinality(PastCheck(o)) /\ Cardinality(PastCheck(o)') \in Nat
  BY PastCheckFinite, FS_Subset, FS_CardinalityType
<1>2. tries[o] \in Nat /\ tries'[o] \in Nat /\ MaxAttempts \in Nat
  BY BoundsAssumption DEF TypeOK
<1>3. Attempts(o) = 0 \/ Attempts(o) < MaxAttempts + Cardinality(Worker)
  BY DEF AttemptsBounded
<1> QED
  BY <1>1, <1>2, <1>3, PastCheckFinite DEF Attempts

\* A step of a worker moves no other worker past its check, or back.
LEMMA OthersPastCheck ==
  ASSUME TypeOK, NEW w \in Worker, NEW t, tick' = [tick EXCEPT ![w] = t], NEW o \in Order
  PROVE  /\ PastCheck(o)' \ {w} = PastCheck(o) \ {w}
         /\ t.pc \in {"idle", "offer", "attempts"} => PastCheck(o)' = PastCheck(o) \ {w}
         /\ tick'[w] = t
BY DEF PastCheck, TypeOK

\* A worker that is done with a row is past no check.
LEMMA ReturnPastCheck ==
  ASSUME TypeOK, NEW w \in Worker, Return(w), NEW o \in Order
  PROVE  PastCheck(o)' = PastCheck(o) \ {w}
<1> DEFINE rest == tick[w].batch \ {Oldest(tick[w].batch)}
           t == IF rest = {} THEN IdleTick ELSE [pc |-> "offer", batch |-> rest, found |-> {}]
<1>1. tick' = [tick EXCEPT ![w] = t]
  BY DEF Return
<1>2. t.pc \in {"idle", "offer"}
  BY DEF IdleTick
<1> HIDE DEF t
<1> QED
  BY <1>1, <1>2, OthersPastCheck

\* The steps of a worker before its check, and the end of its tick.
LEMMA EarlyStepBounded ==
  ASSUME CappedInv, NEW w \in Worker, TypeOK',
         \/ StartTick(w) \/ TryAssignFails(w) \/ WorkerCrashes(w)
         \/ \E o \in Order : CheckOffer(w, o)
  PROVE  AttemptsBounded'
<1> USE DEF CappedInv
<1>1. tries' = tries
  BY DEF StartTick, TryAssignFails, WorkerCrashes, CheckOffer, redisVars
<1>2. ASSUME NEW x \in Order
      PROVE  PastCheck(x)' \subseteq PastCheck(x)
  <2>1. CASE Return(w)
    BY <2>1, ReturnPastCheck
  <2>2. ASSUME NEW t, tick' = [tick EXCEPT ![w] = t], t.pc \in {"idle", "offer", "attempts"}
        PROVE  PastCheck(x)' \subseteq PastCheck(x)
    <3>1. PastCheck(x)' = PastCheck(x) \ {w}
      BY <2>2, OthersPastCheck
    <3> QED
      BY <3>1
  <2>3. CASE StartTick(w)
    BY <2>2, <2>3 DEF StartTick
  <2>4. CASE WorkerCrashes(w)
    BY <2>2, <2>4 DEF WorkerCrashes, IdleTick
  <2>5. CASE Goto(w, "attempts")
    <3>1. tick' = [tick EXCEPT ![w] = [tick[w] EXCEPT !.pc = "attempts"]]
      BY <2>5 DEF Goto
    <3>2. [tick[w] EXCEPT !.pc = "attempts"].pc = "attempts"
      BY DEF TypeOK, TickState
    <3> QED
      BY <2>2, <3>1, <3>2
  <2> QED
    BY <2>1, <2>3, <2>4, <2>5 DEF TryAssignFails, CheckOffer
<1> QED
  BY <1>1, <1>2, FewerAttempts DEF AttemptsBounded, TypeOK

\* A worker gets past its check only while the counter is below the cap.
LEMMA CheckAttemptsBounded ==
  ASSUME CappedInv, NEW w \in Worker, NEW o \in Order, TypeOK', CheckAttempts(w, o)
  PROVE  AttemptsBounded'
<1> USE DEF CappedInv
<1>1. tries' = tries /\ o = Oldest(tick[w].batch) /\ tick[w].pc = "attempts"
  BY DEF CheckAttempts, TriesOrder, redisVars
<1>2. CASE Return(w)
  <2>1. \A x \in Order : PastCheck(x)' \subseteq PastCheck(x)
    BY <1>2, ReturnPastCheck
  <2> QED
    BY <1>1, <2>1, FewerAttempts DEF AttemptsBounded, TypeOK
<1>3. CASE tries[o] < MaxAttempts /\ Goto(w, "search")
  <2>1. tick'[w].batch = tick[w].batch /\ \A v \in Worker \ {w} : tick'[v] = tick[v]
    BY <1>3 DEF Goto, TypeOK, TickState
  <2>2. ASSUME NEW x \in Order, x # o
        PROVE  PastCheck(x)' \subseteq PastCheck(x)
    BY <1>1, <2>1, <2>2 DEF PastCheck
  <2>3. Attempts(o)' < MaxAttempts + Cardinality(Worker)
    <3>1. PastCheck(o)' \subseteq Worker
      BY DEF PastCheck
    <3>2. Cardinality(PastCheck(o)') <= Cardinality(Worker) /\ Cardinality(PastCheck(o)') \in Nat
      BY <3>1, WorkerAssumption, FS_Subset, FS_CardinalityType
    <3> QED
      BY <1>1, <1>3, <3>2, PastCheckFinite, BoundsAssumption DEF Attempts, TypeOK
  <2> QED
    BY <1>1, <2>2, <2>3, FewerAttempts DEF AttemptsBounded, TypeOK
<1> QED
  BY <1>2, <1>3 DEF CheckAttempts

\* Searching, and setting the offer, leave it at that.
LEMMA SearchBounded ==
  ASSUME CappedInv, NEW w \in Worker, NEW o \in Order, TypeOK',
         FindCandidates(w, o) \/ SetOffer(w, o)
  PROVE  AttemptsBounded'
<1> USE DEF CappedInv
<1>1. tries' = tries /\ tick[w].pc \in {"search", "set"}
  BY DEF FindCandidates, SetOffer, TriesOrder, redisVars
<1>2. CASE Return(w)
  <2>1. \A x \in Order : PastCheck(x)' \subseteq PastCheck(x)
    BY <1>2, ReturnPastCheck
  <2> QED
    BY <1>1, <2>1, FewerAttempts DEF AttemptsBounded, TypeOK
<1>3. CASE tick'[w].batch = tick[w].batch /\ \A v \in Worker \ {w} : tick'[v] = tick[v]
  <2>1. \A x \in Order : PastCheck(x)' \subseteq PastCheck(x)
    BY <1>1, <1>3 DEF PastCheck
  <2> QED
    BY <1>1, <2>1, FewerAttempts DEF AttemptsBounded, TypeOK
<1>4. ASSUME FindCandidates(w, o)
      PROVE  tick'[w].batch = tick[w].batch /\ \A v \in Worker \ {w} : tick'[v] = tick[v]
  <2>1. PICK found \in SUBSET Agent :
          tick' = [tick EXCEPT ![w].pc = IF found = {} THEN "count" ELSE "set",
                               ![w].found = found]
    BY <1>4, CandidatesFound
  <2>2. tick \in [Worker -> TickState]
    BY DEF TypeOK
  <2> QED
    BY <2>1, <2>2 DEF TickState
<1>5. Goto(w, "count") => tick'[w].batch = tick[w].batch /\ \A v \in Worker \ {w} : tick'[v] = tick[v]
  BY DEF Goto, TypeOK, TickState
<1> QED
  BY <1>2, <1>3, <1>4, <1>5 DEF SetOffer

\* INCR makes an attempt that was about to be counted one that has been.
LEMMA CountAttemptBounded ==
  ASSUME CappedInv, NEW w \in Worker, NEW o \in Order, TypeOK', CountAttempt(w, o)
  PROVE  AttemptsBounded'
<1> USE DEF CappedInv
<1>1. Return(w) /\ w \in PastCheck(o) /\ tries' = [tries EXCEPT ![o] = @ + 1]
  BY DEF CountAttempt, TriesOrder, PastCheck
<1>2. \A x \in Order : PastCheck(x)' = PastCheck(x) \ {w}
  BY <1>1, ReturnPastCheck
<1>3. Attempts(o)' = Attempts(o)
  <2>1. Cardinality(PastCheck(o)') = Cardinality(PastCheck(o)) - 1
    BY <1>1, <1>2, PastCheckFinite, FS_RemoveElement
  <2> QED
    BY <1>1, <2>1, PastCheckFinite DEF Attempts, TypeOK
<1>4. ASSUME NEW x \in Order, x # o
      PROVE  Attempts(x)' = 0 \/ Attempts(x)' < MaxAttempts + Cardinality(Worker)
  <2>1. tries'[x] <= tries[x] /\ PastCheck(x)' \subseteq PastCheck(x)
    BY <1>1, <1>2, <1>4 DEF TypeOK
  <2> QED
    BY <2>1, FewerAttempts
<1> QED
  BY <1>3, <1>4 DEF AttemptsBounded

\* Every step keeps the attempts within the cap.
LEMMA CappedInvInductive == CappedInv /\ [Next]_vars => CappedInv'
<1> SUFFICES ASSUME CappedInv, [Next]_vars PROVE CappedInv'
  OBVIOUS
<1>1. TypeOK'
  BY NextTypeOK DEF CappedInv
<1>2. ASSUME tick' = tick, \A o \in Order : tries'[o] <= tries[o]
      PROVE  AttemptsBounded'
  <2>1. \A o \in Order : PastCheck(o)' = PastCheck(o)
    BY <1>2 DEF PastCheck
  <2> QED
    BY <1>1, <1>2, <2>1, FewerAttempts DEF CappedInv, AttemptsBounded
<1>3. ASSUME UNCHANGED <<tries, tick>>
      PROVE  AttemptsBounded'
  BY <1>2, <1>3 DEF CappedInv, TypeOK
<1>4. ASSUME NEW x \in Order, Expire(x)
      PROVE  AttemptsBounded'
  <2>1. tick' = tick /\ \A o \in Order : tries'[o] <= tries[o]
    BY <1>4 DEF Expire, OfferExpires, ClaimExpires, AttemptsExpire, CappedInv, TypeOK
  <2> QED
    BY <1>2, <2>1
<1>5. ASSUME NEW c \in Call, NEW a \in Agent, NEW x \in Order, BeginCall(c, a, x)
      PROVE  UNCHANGED <<tries, tick>>
  BY <1>5 DEF BeginCall, BeginClaim, BeginAssign, BeginReject, BeginPick, BeginSettle, redisVars
<1>6. ASSUME NEW d \in calls, CallStep(d)
      PROVE  UNCHANGED <<tries, tick>>
  BY <1>6 DEF CallStep, LockClaim, BeginTransactionFails, CommitClaim, CommitClaimAckLost,
              ClaimRefused, ClaimFails, ReleaseClaim, MarkBusy, DropOffer, RewriteOffer,
              CommitPick, CommitSettle, FreeCourier, DropClaim, CallFails, CallCrashes, redisVars
<1>7. ASSUME NEW a \in Agent,
             ComeOnline(a) \/ BeginOffline(a) \/ OfflineStep(a) \/ PresenceExpires(a)
      PROVE  UNCHANGED <<tries, tick>>
  BY <1>7 DEF ComeOnline, BeginOffline, OfflineStep, ResetAssigned, ForgetPresence, ForgetBusy,
              OfflineCrashes, PresenceExpires, redisVars
<1>8. ASSUME NEW w \in Worker, WorkerStep(w) \/ TryAssignFails(w) \/ WorkerCrashes(w)
      PROVE  AttemptsBounded'
  BY <1>1, <1>8, EarlyStepBounded, CheckAttemptsBounded, SearchBounded, CountAttemptBounded
     DEF WorkerStep
<1>9. AttemptsBounded'
  BY <1>3, <1>4, <1>5, <1>6, <1>7, <1>8 DEF Next, vars, redisVars
<1> QED
  BY <1>1, <1>9 DEF CappedInv

\* The counter of an order's attempts passes maxAttempts by less than the number
\* of workers, although each reads it and increments it in separate steps.
THEOREM AttemptsStayCapped == Spec => []AttemptsCapped
<1>1. Init => CappedInv
  <2> SUFFICES ASSUME Init PROVE CappedInv
    OBVIOUS
  <2>1. \A o \in Order : PastCheck(o) = {}
    BY DEF PastCheck, Init, IdleTick
  <2>2. \A o \in Order : tries[o] = 0
    BY DEF Init
  <2>3. \A o \in Order : Attempts(o) = 0
    BY <2>1, <2>2, FS_EmptySet DEF Attempts
  <2> QED
    BY <2>3, InitTypeOK DEF CappedInv, AttemptsBounded
<1>2. CappedInv /\ [Next]_vars => CappedInv'
  BY CappedInvInductive
<1>3. CappedInv => AttemptsCapped
  <2> SUFFICES ASSUME CappedInv, NEW o \in Order
               PROVE  tries[o] = 0 \/ tries[o] < MaxAttempts + Cardinality(Worker)
    BY DEF AttemptsCapped
  <2>1. tries[o] \in Nat /\ MaxAttempts \in Nat
    BY BoundsAssumption DEF CappedInv, TypeOK
  <2>2. Attempts(o) = 0 \/ Attempts(o) < MaxAttempts + Cardinality(Worker)
    BY DEF CappedInv, AttemptsBounded
  <2> QED
    BY <2>1, <2>2, PastCheckFinite DEF Attempts
<1> QED
  BY <1>1, <1>2, <1>3, PTL DEF Spec
=============================================================================

----------------------------- MODULE CoreEvents -----------------------------
(***************************************************************************)
(* What this service remembers of core's data, and how it is kept fresh:   *)
(* the consumer of core's events, which runs in every server and worker    *)
(* process on one queue, CoreDataCacheService, the read-through caches of  *)
(* branch.client.ts in Redis, and the permission Map of each process.      *)
(*                                                                         *)
(* One branch, one of its products and one role.  A value is known by the  *)
(* event that announced it: the number of the event in core's log, 0 for   *)
(* what was there before, Undefined for a field that is not there.  stock  *)
(* stands for newStock and isAvailable together.                           *)
(***************************************************************************)
EXTENDS Integers, Sequences, FiniteSets

CONSTANTS
  Process,     \* server and worker processes
  Server,      \* those that answer requests
  MaxEvents,   \* bound: events that core publishes
  MaxReads,    \* bound: requests to core under way at once
  MaxFaults,   \* bound: failures, deaths of processes and redeliveries
  OneEntry     \* bound: a behaviour is about one entry; entries share no state

ASSUME ServerAssumption == Server \subseteq Process
ASSUME CoreBoundsAssumption == MaxEvents \in Nat /\ MaxReads \in Nat /\ MaxFaults \in Nat
                               /\ OneEntry \in BOOLEAN

\* "other": restaurant.suspended, whose cache key nothing reads, and types
\* without a handler.
ProductType == {"product.stock.changed", "product.price.changed"}
BranchType == {"branch.updated", "branch.deactivated"}
EventType == ProductType \cup BranchType \cup {"rbac.permissions_changed", "other"}

\* The cache entry an event type is about.
Key == {"product", "branch", "permissions"}
KeyOf(type) ==
  CASE type \in ProductType -> "product"
    [] type \in BranchType -> "branch"
    [] type = "rbac.permissions_changed" -> "permissions"
    [] OTHER -> "none"

VARIABLES
  log,         \* the types of the events core has published, in order
  queue,       \* events in order-service.core-events, in no order
  dead,        \* events in the dead-letter queue
  deduped,     \* events with a core-events:dedupe:<eventId> key
  handling,    \* deliveries being handled
  done,        \* history: events whose handler has returned
  told,        \* history: the last change of permissions told to a process
  cut,         \* history: events whose handler failed or died half way
  product,     \* core:branch:<bid>:product:<pid>
  branch,      \* core:branch:<id>
  rejecting,   \* branch:reject-new-orders:<id>
  permissions, \* PermissionCacheService.cache of each process
  reading,     \* read-throughs that have missed and ask core
  overlapped,  \* history: entries that two events, or an event and a read,
               \* were at work on at once
  faults       \* how many faults there have been

brokerVars == <<log, queue, dead>>
cacheVars == <<product, branch, rejecting, permissions>>
historyVars == <<done, told, cut>>
vars == <<brokerVars, deduped, handling, historyVars, cacheVars, reading, overlapped, faults>>

Event == 1 .. MaxEvents
Undefined == -1
Value == Undefined .. MaxEvents

\* A row of core has a name; an entry events have built up alone has none.
ProductEntry == [name : BOOLEAN, price : Value, stock : Value]
Empty == [name |-> FALSE, price |-> Undefined, stock |-> Undefined]

\* Which process a delivery is in matters to the permission Map alone.
Handler == [event : Event, pc : {"received", "work", "write"}, seen : ProductEntry]
Reader == [key : Key, process : Server, pc : {"fetch", "store"}, got : ProductEntry]

TypeOK ==
  /\ log \in Seq(EventType) /\ Len(log) <= MaxEvents
  /\ queue \subseteq DOMAIN log
  /\ dead \subseteq DOMAIN log
  /\ deduped \subseteq DOMAIN log
  /\ handling \subseteq Handler
  /\ \A h \in handling : h.event \in DOMAIN log
  /\ done \subseteq DOMAIN log
  /\ told \in [Process -> 0 .. MaxEvents]
  /\ cut \subseteq DOMAIN log
  /\ product \in ProductEntry
  /\ branch \in Value
  /\ rejecting \in BOOLEAN
  /\ permissions \in [Process -> Value]
  /\ reading \subseteq Reader
  /\ overlapped \subseteq Key \X {"event", "read"}
  /\ faults \in 0 .. MaxFaults

Init ==
  /\ log = <<>>
  /\ queue = {}
  /\ dead = {}
  /\ deduped = {}
  /\ handling = {}
  /\ done = {}
  /\ told = [p \in Process |-> 0]
  /\ cut = {}
  /\ product = Empty
  /\ branch = Undefined
  /\ rejecting = FALSE
  /\ permissions = [p \in Process |-> Undefined]
  /\ reading = {}
  /\ overlapped = {}
  /\ faults = 0

Fault == faults < MaxFaults /\ faults' = faults + 1

-----------------------------------------------------------------------------
(* Core: its data, and the events that announce them.                      *)

\* The event that made the data of these types what they are in core.
Latest(types) ==
  CHOOSE n \in 0 .. Len(log) :
    /\ n > 0 => log[n] \in types
    /\ \A m \in (n + 1) .. Len(log) : log[m] \notin types

CoreProduct == [name |-> TRUE, price |-> Latest({"product.price.changed"}),
                stock |-> Latest({"product.stock.changed"})]
CoreBranch == Latest(BranchType)
CorePermissions == Latest({"rbac.permissions_changed"})

BranchOpen == CoreBranch > 0 => log[CoreBranch] = "branch.updated"

Within(key) == OneEntry /\ log # <<>> => key = KeyOf(log[1])

\* Core changes its data and its outbox publishes the event.
Publish(type) ==
  /\ Len(log) < MaxEvents /\ Within(KeyOf(type))
  /\ log' = Append(log, type)
  /\ queue' = queue \cup {Len(log) + 1}
  /\ UNCHANGED <<dead, deduped, handling, historyVars, cacheVars, reading, overlapped, faults>>

\* Core publishes it again, or the broker takes back what was not acked.
Redeliver(e) ==
  /\ Fault
  /\ e \in DOMAIN log /\ e \notin dead
  /\ queue' = queue \cup {e}
  /\ UNCHANGED <<log, dead, deduped, handling, historyVars, cacheVars, reading, overlapped>>

\* A replay from the dead-letter queue, the dedupe key deleted by hand.
Replay(e) ==
  /\ e \in dead
  /\ dead' = dead \ {e}
  /\ queue' = queue \cup {e}
  /\ deduped' = deduped \ {e}
  /\ cut' = cut \ {e}
  /\ UNCHANGED <<log, handling, done, told, cacheVars, reading, overlapped, faults>>

-----------------------------------------------------------------------------
(* consumer.ts.  Up to prefetch messages are at work in each process.      *)

Deliver(e) ==
  /\ e \in queue
  /\ queue' = queue \ {e}
  /\ handling' = handling \cup {[event |-> e, pc |-> "received", seen |-> Empty]}
  /\ UNCHANGED <<log, dead, deduped, historyVars, cacheVars, reading, overlapped, faults>>

\* Handlers that have begun on an entry, and reads that core has answered.
EventAtWork(key) == \E h \in handling : h.pc # "received" /\ KeyOf(log[h.event]) = key
ReadAtWork(key) == \E r \in reading : r.pc = "store" /\ r.key = key
\* What an event overlaps with, an older one that was overtaken included.
OverlapsOf(e) ==
  LET key == KeyOf(log[e])
      overtaken == \E f \in deduped \cup done \cup cut : f > e /\ KeyOf(log[f]) = key
  IN
  (IF EventAtWork(key) \/ overtaken THEN {<<key, "event">>} ELSE {}) \cup
  (IF ReadAtWork(key) THEN {<<key, "read">>} ELSE {})

Advance(h, pc) == handling' = (handling \ {h}) \cup {[h EXCEPT !.pc = pc]}

\* trySet of the dedupe key, which comes before the work.
BeginWork(h) ==
  /\ h.pc = "received" /\ h.event \notin deduped
  /\ deduped' = deduped \cup {h.event}
  /\ Advance(h, "work")
  /\ overlapped' = overlapped \cup (OverlapsOf(h.event) \cap (Key \X {"event", "read"}))
  /\ UNCHANGED <<brokerVars, historyVars, cacheVars, reading, faults>>

\* Slips: one key per event type; a duplicate is not acked.
SkipType(h) ==
  /\ h.pc = "received"
  /\ \E e \in deduped : log[e] = log[h.event]
  /\ handling' = handling \ {h}
  /\ UNCHANGED <<brokerVars, deduped, historyVars, cacheVars, reading, overlapped, faults>>

RequeueDuplicate(h) ==
  /\ h.pc = "received" /\ h.event \in deduped
  /\ handling' = handling \ {h}
  /\ queue' = queue \cup {h.event}
  /\ UNCHANGED <<log, dead, deduped, historyVars, cacheVars, reading, overlapped, faults>>

\* The key exists: acked without work.
SkipDuplicate(h) ==
  /\ h.pc = "received" /\ h.event \in deduped
  /\ handling' = handling \ {h}
  /\ UNCHANGED <<brokerVars, deduped, historyVars, cacheVars, reading, overlapped, faults>>

\* The handler returns and the message is acked.
Ack(h) ==
  /\ handling' = handling \ {h}
  /\ done' = done \cup {h.event}
  /\ UNCHANGED <<brokerVars, deduped, cut, reading, overlapped, faults>>

\* trySet or the handler throws: nack without requeue.
HandlerFails(h) ==
  /\ Fault
  /\ handling' = handling \ {h}
  /\ dead' = dead \cup {h.event}
  /\ cut' = IF h.pc = "received" THEN cut ELSE cut \cup {h.event}
  /\ UNCHANGED <<log, queue, deduped, done, told, cacheVars, reading, overlapped>>

\* The process dies, and what is not acked goes back to the queue.  Its reads
\* are gone (ReadFails), and so is its Map (ExpirePermissions).
ProcessDies(h) ==
  /\ Fault
  /\ handling' = handling \ {h}
  /\ queue' = queue \cup {h.event}
  /\ cut' = IF h.pc = "received" THEN cut ELSE cut \cup {h.event}
  /\ UNCHANGED <<log, dead, deduped, done, told, cacheVars, reading, overlapped>>

-----------------------------------------------------------------------------
(* The handlers.                                                           *)

\* Slip: a missing entry is parsed like one that is there.
GetUnchecked(h) ==
  /\ h.pc = "work" /\ log[h.event] \in ProductType
  /\ handling' = (handling \ {h}) \cup
       {[h EXCEPT !.pc = "write",
                  !.seen = IF product = Empty THEN [name |-> Undefined] ELSE product]}
  /\ UNCHANGED <<brokerVars, deduped, historyVars, cacheVars, reading, overlapped, faults>>

\* upsertProductStock and upsertProductPrice: the entry is read ...
GetProduct(h) ==
  /\ h.pc = "work" /\ log[h.event] \in ProductType
  /\ handling' = (handling \ {h}) \cup {[h EXCEPT !.pc = "write", !.seen = product]}
  /\ UNCHANGED <<brokerVars, deduped, historyVars, cacheVars, reading, overlapped, faults>>

\* ... and written back with the field of the event, for another hour.
SetProduct(h) ==
  /\ h.pc = "write" /\ log[h.event] \in ProductType
  /\ product' = IF log[h.event] = "product.price.changed"
                THEN [h.seen EXCEPT !.price = h.event]
                ELSE [h.seen EXCEPT !.stock = h.event]
  /\ Ack(h)
  /\ UNCHANGED <<told, branch, rejecting, permissions>>

\* handleBranchUpdated and handleBranchDeactivated: the entry is deleted ...
DeleteBranch(h) ==
  /\ h.pc = "work" /\ log[h.event] \in BranchType
  /\ branch' = Undefined
  /\ Advance(h, "write")
  /\ UNCHANGED <<brokerVars, deduped, historyVars, product, rejecting, permissions, reading,
                 overlapped, faults>>

\* Slips: the flag is not lifted; the deleted entry is thought to be enough.
KeepFlag(h) ==
  /\ h.pc = "write" /\ log[h.event] \in BranchType
  /\ rejecting' = (rejecting \/ log[h.event] = "branch.deactivated")
  /\ Ack(h)
  /\ UNCHANGED <<told, product, branch, permissions>>
InvalidateOnly(h) ==
  /\ h.pc = "write" /\ log[h.event] \in BranchType
  /\ rejecting' = FALSE
  /\ Ack(h)
  /\ UNCHANGED <<told, product, branch, permissions>>

\* ... and the flag is deleted, or set for seven days.
SetRejectFlag(h) ==
  /\ h.pc = "write" /\ log[h.event] \in BranchType
  /\ rejecting' = (log[h.event] = "branch.deactivated")
  /\ Ack(h)
  /\ UNCHANGED <<told, product, branch, permissions>>

\* handlePermissionsChanged: the Map of the process that got the message.
InvalidatePermissions(h, p) ==
  /\ h.pc = "work" /\ log[h.event] = "rbac.permissions_changed"
  /\ permissions' = [permissions EXCEPT ![p] = Undefined]
  /\ told' = [told EXCEPT ![p] = h.event]
  /\ Ack(h)
  /\ UNCHANGED <<product, branch, rejecting>>

\* No handler, or one that touches nothing that is read.
HandleOther(h) ==
  /\ h.pc = "work" /\ log[h.event] = "other"
  /\ Ack(h)
  /\ UNCHANGED <<told, cacheVars>>

-----------------------------------------------------------------------------
(* The read-throughs.  A hit changes nothing.                              *)

Missing(key, p) ==
  CASE key = "product" -> ~product.name
    [] key = "branch" -> branch = Undefined
    [] key = "permissions" -> permissions[p] = Undefined

\* getBranchProducts, getBranch, getPermissions: the entry is not there, or
\* is one of a product that only events have written.
Miss(key, p) ==
  /\ Missing(key, p) /\ Within(key)
  /\ Cardinality(reading) < MaxReads
  /\ reading' = reading \cup {[key |-> key, process |-> p, pc |-> "fetch", got |-> Empty]}
  /\ UNCHANGED <<brokerVars, deduped, handling, historyVars, cacheVars, overlapped, faults>>

\* Core answers, at the first attempt or a later one.  Values of branch and
\* permissions travel in the field price.
Fetch(r) ==
  /\ r.pc = "fetch"
  /\ reading' = (reading \ {r}) \cup
       {[r EXCEPT !.pc = "store",
                  !.got = CASE r.key = "product" -> CoreProduct
                            [] r.key = "branch" -> [Empty EXCEPT !.price = CoreBranch]
                            [] r.key = "permissions" -> [Empty EXCEPT !.price = CorePermissions]]}
  /\ overlapped' = IF EventAtWork(r.key) THEN overlapped \cup {<<r.key, "read">>}
                   ELSE overlapped
  /\ UNCHANGED <<brokerVars, deduped, handling, historyVars, cacheVars, faults>>

\* What core answered is stored, whatever the entry has become meanwhile.
Store(r) ==
  /\ r.pc = "store"
  /\ reading' = reading \ {r}
  /\ product' = IF r.key = "product" THEN r.got ELSE product
  /\ branch' = IF r.key = "branch" THEN r.got.price ELSE branch
  /\ permissions' = IF r.key = "permissions"
                    THEN [permissions EXCEPT ![r.process] = r.got.price] ELSE permissions
  /\ UNCHANGED <<brokerVars, deduped, handling, historyVars, rejecting, overlapped, faults>>

\* Core cannot be reached three times over, or Redis does not take the entry.
ReadFails(r) ==
  /\ reading' = reading \ {r}
  /\ UNCHANGED <<brokerVars, deduped, handling, historyVars, cacheVars, overlapped, faults>>

\* Slip: the flag is set without a TTL.
FlagStays ==
  /\ rejecting /\ ~rejecting
  /\ UNCHANGED vars

\* The TTL of an hour.
ExpireProduct ==
  /\ product # Empty
  /\ product' = Empty
  /\ UNCHANGED <<brokerVars, deduped, handling, historyVars, branch, rejecting, permissions,
                 reading, overlapped, faults>>
ExpireBranch ==
  /\ branch # Undefined
  /\ branch' = Undefined
  /\ UNCHANGED <<brokerVars, deduped, handling, historyVars, product, rejecting, permissions,
                 reading, overlapped, faults>>
ExpirePermissions(p) ==
  /\ permissions[p] # Undefined
  /\ permissions' = [permissions EXCEPT ![p] = Undefined]
  /\ UNCHANGED <<brokerVars, deduped, handling, historyVars, product, branch, rejecting,
                 reading, overlapped, faults>>

\* A day, which outlasts the handlers of the event.
ExpireDedupe(e) ==
  /\ e \in deduped /\ \A h \in handling : h.event # e
  /\ deduped' = deduped \ {e}
  /\ UNCHANGED <<brokerVars, handling, historyVars, cacheVars, reading, overlapped, faults>>

\* Seven days: what was read before the branch was deactivated has long gone.
BeforeDeactivation(n) == n # Undefined /\ n < Latest({"branch.deactivated"})
ExpireFlag ==
  /\ rejecting
  /\ ~BeforeDeactivation(branch)
  /\ \A r \in reading : r.key = "branch" => ~BeforeDeactivation(r.got.price)
  /\ rejecting' = FALSE
  /\ UNCHANGED <<brokerVars, deduped, handling, historyVars, product, branch, permissions,
                 reading, overlapped, faults>>

-----------------------------------------------------------------------------
HandlerStep(h) ==
  \/ BeginWork(h)
  \/ SkipDuplicate(h)
  \/ GetProduct(h)
  \/ SetProduct(h)
  \/ DeleteBranch(h)
  \/ SetRejectFlag(h)
  \/ \E p \in Process : InvalidatePermissions(h, p)
  \/ HandleOther(h)

BrokerNext ==
  \/ \E type \in EventType : Publish(type)
  \/ \E e \in Event : Redeliver(e)
  \/ \E e \in Event : Replay(e)
  \/ \E e \in queue : Deliver(e)

ReadNext ==
  \/ \E key \in Key, p \in Server : Miss(key, p)
  \/ \E r \in reading : Fetch(r) \/ Store(r) \/ ReadFails(r)

Expire ==
  \/ ExpireProduct
  \/ ExpireBranch
  \/ ExpireFlag
  \/ \E p \in Process : ExpirePermissions(p)
  \/ \E e \in deduped : ExpireDedupe(e)

Next ==
  \/ BrokerNext
  \/ \E h \in handling : HandlerStep(h) \/ HandlerFails(h) \/ ProcessDies(h)
  \/ ReadNext
  \/ Expire

Spec == Init /\ [][Next]_vars

\* The broker delivers, handlers and requests run on, keys expire.
Fairness ==
  /\ WF_vars(\E e \in queue : Deliver(e))
  /\ WF_vars(\E h \in handling : HandlerStep(h))
  /\ WF_vars(\E r \in reading : Fetch(r) \/ Store(r) \/ ReadFails(r))
  /\ WF_vars(ExpireProduct)
  /\ WF_vars(ExpireBranch)
  /\ WF_vars(ExpireFlag)
  /\ \A p \in Process : WF_vars(ExpirePermissions(p))

FairSpec == Spec /\ Fairness

-----------------------------------------------------------------------------
(* Properties.                                                             *)

InHand(e) == e \in queue \/ e \in dead \/ \E h \in handling : h.event = e

\* An event that the broker no longer has was handled to its end, or its
\* handler was cut short: no duplicate, overlap or redelivery makes the dedupe
\* key swallow an event that nobody has begun.
NoEventVanishes == \A e \in DOMAIN log : InHand(e) \/ e \in done \/ e \in cut

\* What an order or a request would get that core no longer says.
StaleProduct == product.name /\ product # CoreProduct
StaleBranch == branch \notin {Undefined, CoreBranch} \/ (rejecting /\ BranchOpen)
StalePermissions(p) == permissions[p] \notin {Undefined, CorePermissions}

\* Nothing is under way and nothing was cut short.
Settled == queue = {} /\ dead = {} /\ handling = {} /\ cut = {} /\ reading = {}

\* Once things have settled the caches agree with core, but for an entry that
\* two parties were at work on at once: a product that orders are priced from
\* has core's price and stock, the branch is core's, and an open branch is not
\* rejected.  A change of permissions is told to one process, which heeds it.
SettledCacheIsCurrent ==
  LET Undisturbed(key) == overlapped \cap {<<key, "event">>, <<key, "read">>} = {} IN
  Settled =>
    /\ Undisturbed("product") => ~StaleProduct
    /\ Undisturbed("branch") => ~StaleBranch
    /\ Undisturbed("permissions") =>
         \A p \in Process : permissions[p] # Undefined => permissions[p] >= told[p]

\* What the flag is for: a read that began before the branch was deactivated
\* may store it as open again, but no order gets through on that.
ClosedBranchTakesNoOrders ==
  Settled /\ ~BranchOpen /\ <<"branch", "event">> \notin overlapped =>
    rejecting \/ branch \in {Undefined, CoreBranch}

\* When core stops publishing, the queue drains and every handler ends.
EventsAreConsumed == <>[](queue = {} /\ handling = {})

\* When core stops changing, what is stale goes, whatever overlapped or failed.
StaleEntriesGo ==
  <>[](~StaleProduct /\ ~StaleBranch /\ \A p \in Process : ~StalePermissions(p))
=============================================================================

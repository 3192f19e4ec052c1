-------------------------- MODULE CoreEventsProofs --------------------------
(***************************************************************************)
(* The consumer of core's events, for every number of processes, events,   *)
(* reads and faults: what the variables are, that no event vanishes, and   *)
(* what the caches hold once things have settled.                          *)
(*                                                                         *)
(* The dedupe key is set before the work, so the argument needs to know    *)
(* what a key stands for: a handler that has begun and has not ended, or   *)
(* one that has ended, well or cut short.  Then the duplicate that is      *)
(* dropped was never the last trace of its event.                          *)
(*                                                                         *)
(* For the caches it needs to know of an entry that nothing overlapped on  *)
(* who is at work on it: one handler, with no older event than those done, *)
(* or reads, never both.  Then whatever is kept, on its way from core or   *)
(* half written is as new as every event that is done.                     *)
(***************************************************************************)
EXTENDS CoreEvents, WellFoundedInduction, TLAPS

\* A dedupe key stands for a handler that has begun, now or earlier.
Begun ==
  \A e \in deduped :
    e \in done \/ e \in cut \/ \E h \in handling : h.event = e /\ h.pc # "received"

CoreInv == TypeOK /\ Begun /\ NoEventVanishes

-----------------------------------------------------------------------------
(* Latest is there: among numbers up to a bound there is a greatest one.   *)

\* A set of natural numbers that is not empty has a least element.
LEMMA LeastExists ==
  ASSUME NEW S, S \subseteq Nat, S # {}
  PROVE  \E x \in S : \A y \in S : x <= y
<1> DEFINE Less == { p \in Nat \X Nat : p[1] < p[2] }
<1>1. IsWellFoundedOn(Less, Nat)
  BY NatLessThanWellFounded DEF OpToRel
<1>2. PICK x \in S : \A y \in S : ~ (<<y, x>> \in Less)
  <2> HIDE DEF Less
  <2> QED
    BY <1>1, WFMin
<1>3. \A y \in S : ~ (y < x)
  BY <1>2
<1> QED
  BY <1>3

\* A set of numbers from 0 to n that is not empty has a greatest element.
LEMMA GreatestExists ==
  ASSUME NEW n \in Nat, NEW S, S \subseteq 0 .. n, S # {}
  PROVE  \E x \in S : \A y \in S : y <= x
<1> DEFINE T == { n - x : x \in S }
<1>a. \A x \in S : n - x \in Nat
  OBVIOUS
<1>1. T \subseteq Nat /\ T # {}
  BY <1>a
<1>2. PICK t \in T : \A u \in T : t <= u
  <2> HIDE DEF T
  <2> QED
    BY <1>1, LeastExists
<1>3. PICK x \in S : t = n - x
  OBVIOUS
<1>4. \A y \in S : y <= x
  BY <1>2, <1>3
<1> QED
  BY <1>4

\* The latest event of some types is an event of the log, or none.
LEMMA LatestIsAnEvent ==
  ASSUME TypeOK, NEW types
  PROVE  Latest(types) \in 0 .. MaxEvents
<1> DEFINE Known == { n \in 0 .. Len(log) : n > 0 => log[n] \in types }
<1>1. Len(log) \in Nat /\ Len(log) <= MaxEvents /\ MaxEvents \in Nat
  BY CoreBoundsAssumption DEF TypeOK
<1>2. Known \subseteq 0 .. Len(log) /\ 0 \in Known
  BY <1>1
<1>3. PICK n \in Known : \A m \in Known : m <= n
  <2> HIDE DEF Known
  <2> QED
    BY <1>1, <1>2, GreatestExists
<1>4. \A m \in (n + 1) .. Len(log) : log[m] \notin types
  BY <1>1, <1>3
<1>5. Latest(types) \in 0 .. Len(log)
  BY <1>3, <1>4 DEF Latest
<1> QED
  BY <1>1, <1>5

\* What core answers can be stored.
LEMMA AnswersHaveTypes ==
  ASSUME TypeOK
  PROVE  /\ CoreProduct \in ProductEntry
         /\ CoreBranch \in Value /\ CorePermissions \in Value
<1>1. \A types : Latest(types) \in Value
  BY LatestIsAnEvent, CoreBoundsAssumption DEF Value, Undefined
<1>2. Undefined \in Value
  BY CoreBoundsAssumption DEF Value, Undefined
<1>3. CoreBranch \in Value /\ CorePermissions \in Value
  BY <1>1 DEF CoreBranch, CorePermissions
<1> QED
  BY <1>1, <1>2, <1>3 DEF CoreProduct, ProductEntry

\* An event of the log is an event, and a value of an entry.
LEMMA EventsAreValues ==
  ASSUME TypeOK
  PROVE  /\ DOMAIN log = 1 .. Len(log)
         /\ Len(log) \in 0 .. MaxEvents
         /\ DOMAIN log \subseteq Event
         /\ Event \subseteq Value /\ Event \subseteq 0 .. MaxEvents
         /\ Undefined \in Value
         /\ Empty \in ProductEntry
BY CoreBoundsAssumption
   DEF TypeOK, Event, Value, Undefined, Empty, ProductEntry

-----------------------------------------------------------------------------
(* No event vanishes.                                                      *)

Traces == Begun /\ NoEventVanishes

\* Nothing has been published, so nothing has vanished.
LEMMA InitCore == Init => CoreInv
<1> SUFFICES ASSUME Init PROVE CoreInv
  OBVIOUS
<1>1. log = <<>> /\ log \in Seq(EventType) /\ Len(log) = 0 /\ DOMAIN log = {}
  BY DEF Init
<1>2. Empty \in ProductEntry /\ Undefined \in Value
  BY CoreBoundsAssumption DEF Empty, ProductEntry, Value, Undefined
<1>3. TypeOK
  <2>1. log \in Seq(EventType) /\ Len(log) <= MaxEvents
    BY <1>1, CoreBoundsAssumption
  <2>2. /\ queue \subseteq DOMAIN log /\ dead \subseteq DOMAIN log /\ deduped \subseteq DOMAIN log
        /\ handling \subseteq Handler /\ \A h \in handling : h.event \in DOMAIN log
        /\ done \subseteq DOMAIN log /\ cut \subseteq DOMAIN log
        /\ reading \subseteq Reader /\ overlapped \subseteq Key \X {"event", "read"}
    BY DEF Init
  <2>3. told \in [Process -> 0 .. MaxEvents] /\ faults \in 0 .. MaxFaults
    BY CoreBoundsAssumption DEF Init
  <2>4. permissions \in [Process -> Value] /\ product \in ProductEntry /\ branch \in Value
    BY <1>2 DEF Init
  <2>5. rejecting \in BOOLEAN
    BY DEF Init
  <2> QED
    BY <2>1, <2>2, <2>3, <2>4, <2>5 DEF TypeOK
<1>4. Begun /\ NoEventVanishes
  BY <1>1 DEF Init, Begun, NoEventVanishes
<1> QED
  BY <1>3, <1>4 DEF CoreInv

\* A step that adds no event and takes no trace of one away.
LEMMA NothingTaken ==
  ASSUME CoreInv, log' = log,
         queue \subseteq queue', dead \subseteq dead', handling \subseteq handling',
         done \subseteq done', cut \subseteq cut', deduped' \subseteq deduped
  PROVE  Traces'
<1>1. Begun'
  BY DEF CoreInv, Begun
<1>2. NoEventVanishes'
  BY DEF CoreInv, NoEventVanishes, InHand
<1> QED
  BY <1>1, <1>2 DEF Traces

\* A handler goes on with its event.
LEMMA HandlerMoves ==
  ASSUME CoreInv, NEW h \in handling, NEW k,
         k.event = h.event, k.pc # "received",
         handling' = (handling \ {h}) \cup {k},
         deduped' \subseteq deduped \cup {h.event},
         UNCHANGED <<log, queue, dead, done, cut>>
  PROVE  Traces'
<1>1. Begun'
  <2> SUFFICES ASSUME NEW e \in deduped'
               PROVE  e \in done' \/ e \in cut'
                      \/ \E g \in handling' : g.event = e /\ g.pc # "received"
    BY DEF Begun
  <2>1. CASE e = h.event
    BY <2>1
  <2>2. CASE e # h.event
    BY <2>2 DEF CoreInv, Begun
  <2> QED
    BY <2>1, <2>2
<1>2. NoEventVanishes'
  <2> SUFFICES ASSUME NEW e \in DOMAIN log
               PROVE  InHand(e)' \/ e \in done' \/ e \in cut'
    BY DEF NoEventVanishes
  <2>1. InHand(e) \/ e \in done \/ e \in cut
    BY DEF CoreInv, NoEventVanishes
  <2>2. (\E g \in handling : g.event = e) => \E g \in handling' : g.event = e
    OBVIOUS
  <2> QED
    BY <2>1, <2>2 DEF InHand
<1> QED
  BY <1>1, <1>2 DEF Traces

\* A handler stops, and its event is done, cut short, or still in hand: the
\* first two when it had begun, since a key may stand for it.
LEMMA HandlerStops ==
  ASSUME CoreInv, NEW h \in handling,
         handling' = handling \ {h},
         h.event \in queue' \cup dead' \cup done' \cup cut',
         h.pc # "received" => h.event \in done' \cup cut',
         queue \subseteq queue', dead \subseteq dead', done \subseteq done', cut \subseteq cut',
         UNCHANGED <<log, deduped>>
  PROVE  Traces'
<1>1. Begun'
  <2> SUFFICES ASSUME NEW e \in deduped
               PROVE  e \in done' \/ e \in cut'
                      \/ \E g \in handling' : g.event = e /\ g.pc # "received"
    BY DEF Begun
  <2>1. CASE e \in done \/ e \in cut
    BY <2>1
  <2>2. CASE \E g \in handling : g.event = e /\ g.pc # "received"
    BY <2>2
  <2> QED
    BY <2>1, <2>2 DEF CoreInv, Begun
<1>2. NoEventVanishes'
  <2> SUFFICES ASSUME NEW e \in DOMAIN log
               PROVE  InHand(e)' \/ e \in done' \/ e \in cut'
    BY DEF NoEventVanishes
  <2>1. InHand(e) \/ e \in done \/ e \in cut
    BY DEF CoreInv, NoEventVanishes
  <2>2. CASE e = h.event
    BY <2>2 DEF InHand
  <2>3. CASE e # h.event
    BY <2>1, <2>3 DEF InHand
  <2> QED
    BY <2>2, <2>3
<1> QED
  BY <1>1, <1>2 DEF Traces

\* Acknowledging after the work: the event is done.
LEMMA AckTraces ==
  ASSUME CoreInv, NEW h \in handling, Ack(h)
  PROVE  Traces'
<1>1. /\ handling' = handling \ {h} /\ done' = done \cup {h.event}
      /\ UNCHANGED <<log, queue, dead, deduped, cut>>
  BY DEF Ack, brokerVars
<1> QED
  BY <1>1, HandlerStops

-----------------------------------------------------------------------------
(* Core, the broker and the ends of a delivery.                            *)

\* A new event is in the queue.
LEMMA PublishStep ==
  ASSUME CoreInv, NEW type \in EventType, Publish(type)
  PROVE  TypeOK' /\ Traces'
<1> USE DEF CoreInv
<1>1. /\ log' = Append(log, type) /\ Len(log) < MaxEvents
      /\ queue' = queue \cup {Len(log) + 1}
      /\ UNCHANGED <<dead, deduped, handling, historyVars, cacheVars, reading, overlapped, faults>>
  BY DEF Publish
<1>2. /\ log' \in Seq(EventType) /\ Len(log') = Len(log) + 1 /\ Len(log) \in Nat
      /\ DOMAIN log' = DOMAIN log \cup {Len(log) + 1}
  BY <1>1 DEF TypeOK
<1>3. TypeOK'
  BY <1>1, <1>2, CoreBoundsAssumption DEF TypeOK, historyVars, cacheVars
<1>4. Begun'
  BY <1>1 DEF Begun, historyVars
<1>5. NoEventVanishes'
  BY <1>1, <1>2 DEF NoEventVanishes, InHand, historyVars
<1> QED
  BY <1>3, <1>4, <1>5 DEF Traces

\* An event that is sent again is in the queue once more.
LEMMA RedeliverStep ==
  ASSUME CoreInv, NEW e \in Event, Redeliver(e)
  PROVE  TypeOK' /\ Traces'
<1>1. TypeOK'
  BY CoreBoundsAssumption
     DEF CoreInv, TypeOK, Redeliver, Fault, historyVars, cacheVars
<1>2. Traces'
  BY NothingTaken DEF Redeliver, historyVars
<1> QED
  BY <1>1, <1>2

\* A replayed event goes from the dead-letter queue back to the queue, without its key.
LEMMA ReplayStep ==
  ASSUME CoreInv, NEW e \in Event, Replay(e)
  PROVE  TypeOK' /\ Traces'
<1>1. TypeOK'
  BY DEF CoreInv, TypeOK, Replay, cacheVars
<1>2. Begun'
  BY DEF CoreInv, Begun, Replay
<1>3. NoEventVanishes'
  BY DEF CoreInv, NoEventVanishes, InHand, Replay
<1> QED
  BY <1>1, <1>2, <1>3 DEF Traces

\* A delivered event is in the hands of its handler.
LEMMA DeliverStep ==
  ASSUME CoreInv, NEW e \in queue, Deliver(e)
  PROVE  TypeOK' /\ Traces'
<1> DEFINE k == [event |-> e, pc |-> "received", seen |-> Empty]
<1>1. k \in Handler /\ k.event = e /\ e \in DOMAIN log
  BY EventsAreValues DEF CoreInv, TypeOK, Handler
<1>2. TypeOK'
  <2> HIDE DEF k
  <2>1. handling' = handling \cup {k} /\ queue' = queue \ {e}
    BY DEF Deliver, k
  <2>2. UNCHANGED <<log, dead, deduped, historyVars, cacheVars, reading, overlapped, faults>>
    BY DEF Deliver
  <2> QED
    BY <1>1, <2>1, <2>2 DEF CoreInv, TypeOK, historyVars, cacheVars
<1>3. Begun'
  BY DEF CoreInv, Begun, Deliver, historyVars
<1>4. NoEventVanishes'
  <2> HIDE DEF k
  <2>1. handling' = handling \cup {k} /\ queue' = queue \ {e}
    BY DEF Deliver, k
  <2>2. UNCHANGED <<log, dead, done, cut>>
    BY DEF Deliver, historyVars
  <2> QED
    BY <1>1, <2>1, <2>2 DEF CoreInv, NoEventVanishes, InHand
<1> QED
  BY <1>2, <1>3, <1>4 DEF Traces

\* A handler with another program counter is a handler of the same event.
LEMMA AdvancedIsAHandler ==
  ASSUME NEW h \in Handler, NEW pc \in {"received", "work", "write"}
  PROVE  /\ [h EXCEPT !.pc = pc] \in Handler
         /\ [h EXCEPT !.pc = pc].event = h.event /\ [h EXCEPT !.pc = pc].pc = pc
BY DEF Handler

\* A handler that sets the dedupe key is the one the key stands for.
LEMMA BeginWorkStep ==
  ASSUME CoreInv, NEW h \in handling, BeginWork(h)
  PROVE  TypeOK' /\ Traces'
<1> DEFINE k == [h EXCEPT !.pc = "work"]
<1>1. h \in Handler /\ h.event \in DOMAIN log
  BY DEF CoreInv, TypeOK
<1>2. k \in Handler /\ k.event = h.event /\ k.pc = "work"
  BY <1>1, AdvancedIsAHandler
<1>3. /\ handling' = (handling \ {h}) \cup {k} /\ deduped' = deduped \cup {h.event}
      /\ overlapped' \subseteq overlapped \cup (Key \X {"event", "read"})
      /\ UNCHANGED <<brokerVars, historyVars, cacheVars, reading, faults>>
  BY DEF BeginWork, Advance
<1> HIDE DEF k
<1>4. TypeOK'
  <2>1. /\ UNCHANGED <<log, queue, dead, done, told, cut, product, branch, rejecting,
                         permissions, reading, faults>>
        /\ handling' \subseteq Handler /\ \A g \in handling' : g.event \in DOMAIN log
        /\ deduped' \subseteq DOMAIN log
    BY <1>1, <1>2, <1>3 DEF CoreInv, TypeOK, brokerVars, historyVars, cacheVars
  <2>2. overlapped' \subseteq Key \X {"event", "read"}
    BY <1>3 DEF CoreInv, TypeOK
  <2> QED
    BY <2>1, <2>2 DEF CoreInv, TypeOK
<1>5. Traces'
  BY <1>2, <1>3, HandlerMoves DEF brokerVars, historyVars
<1> QED
  BY <1>4, <1>5

\* A duplicate is dropped only when its event was begun: ended, cut short, or at work.
LEMMA SkipDuplicateStep ==
  ASSUME CoreInv, NEW h \in handling, SkipDuplicate(h)
  PROVE  TypeOK' /\ Traces'
<1> USE DEF SkipDuplicate
<1>1. TypeOK'
  BY DEF CoreInv, TypeOK, brokerVars, historyVars, cacheVars
<1>2. Begun'
  BY DEF CoreInv, Begun, historyVars
<1>3. NoEventVanishes'
  <2> SUFFICES ASSUME NEW e \in DOMAIN log
               PROVE  InHand(e)' \/ e \in done \/ e \in cut
    BY DEF NoEventVanishes, brokerVars, historyVars
  <2>1. CASE e = h.event      \* its key stands for another handler
    <3>1. e \in done \/ e \in cut \/ \E g \in handling : g.event = e /\ g.pc # "received"
      BY <2>1 DEF CoreInv, Begun
    <3>2. (\E g \in handling : g.event = e /\ g.pc # "received")
          => \E g \in handling' : g.event = e
      OBVIOUS
    <3> QED
      BY <3>1, <3>2 DEF InHand
  <2>2. CASE e # h.event
    BY <2>2 DEF CoreInv, NoEventVanishes, InHand, brokerVars
  <2> QED
    BY <2>1, <2>2
<1> QED
  BY <1>1, <1>2, <1>3 DEF Traces

\* A handler that fails leaves its event in the dead-letter queue, cut if it was begun.
LEMMA HandlerFailsStep ==
  ASSUME CoreInv, NEW h \in handling, HandlerFails(h)
  PROVE  TypeOK' /\ Traces'
<1>1. TypeOK'
  BY CoreBoundsAssumption DEF CoreInv, TypeOK, HandlerFails, Fault, cacheVars
<1>2. Traces'
  BY HandlerStops DEF HandlerFails
<1> QED
  BY <1>1, <1>2

\* A process that dies leaves its event in the queue, cut if it was begun.
LEMMA ProcessDiesStep ==
  ASSUME CoreInv, NEW h \in handling, ProcessDies(h)
  PROVE  TypeOK' /\ Traces'
<1>1. TypeOK'
  BY CoreBoundsAssumption DEF CoreInv, TypeOK, ProcessDies, Fault, cacheVars
<1>2. Traces'
  BY HandlerStops DEF ProcessDies
<1> QED
  BY <1>1, <1>2

-----------------------------------------------------------------------------
(* The handlers.                                                           *)

\* A handler that reads the product goes on with its event.
LEMMA GetProductStep ==
  ASSUME CoreInv, NEW h \in handling, GetProduct(h)
  PROVE  TypeOK' /\ Traces'
<1> DEFINE k == [h EXCEPT !.pc = "write", !.seen = product]
<1>1. h \in Handler /\ h.event \in DOMAIN log /\ product \in ProductEntry
  BY DEF CoreInv, TypeOK
<1>2. k \in Handler /\ k.event = h.event /\ k.pc = "write"
  BY <1>1 DEF Handler
<1>3. /\ handling' = (handling \ {h}) \cup {k}
      /\ UNCHANGED <<brokerVars, deduped, historyVars, cacheVars, reading, overlapped, faults>>
  BY DEF GetProduct
<1> HIDE DEF k
<1>4. TypeOK'
  BY <1>1, <1>2, <1>3 DEF CoreInv, TypeOK, brokerVars, historyVars, cacheVars
<1>5. Traces'
  BY <1>2, <1>3, HandlerMoves DEF brokerVars, historyVars
<1> QED
  BY <1>4, <1>5

\* A handler that writes the product has ended.
LEMMA SetProductStep ==
  ASSUME CoreInv, NEW h \in handling, SetProduct(h)
  PROVE  TypeOK' /\ Traces'
<1>1. h \in Handler /\ h.event \in DOMAIN log
  BY DEF CoreInv, TypeOK
<1>2. h.event \in Value /\ h.seen \in ProductEntry
  BY <1>1, EventsAreValues DEF CoreInv, Handler
<1>3. product' \in ProductEntry
  BY <1>2 DEF SetProduct, ProductEntry
<1>4. TypeOK'
  BY <1>1, <1>3 DEF CoreInv, TypeOK, SetProduct, Ack, brokerVars
<1> QED
  BY <1>4, AckTraces DEF SetProduct

\* A handler that deletes the branch goes on with its event.
LEMMA DeleteBranchStep ==
  ASSUME CoreInv, NEW h \in handling, DeleteBranch(h)
  PROVE  TypeOK' /\ Traces'
<1> DEFINE k == [h EXCEPT !.pc = "write"]
<1>1. h \in Handler /\ h.event \in DOMAIN log
  BY DEF CoreInv, TypeOK
<1>2. k \in Handler /\ k.event = h.event /\ k.pc = "write"
  BY <1>1, AdvancedIsAHandler
<1>3. /\ handling' = (handling \ {h}) \cup {k} /\ branch' = Undefined
      /\ UNCHANGED <<brokerVars, deduped, historyVars, product, rejecting, permissions, reading,
                     overlapped, faults>>
  BY DEF DeleteBranch, Advance
<1> HIDE DEF k
<1>4. TypeOK'
  BY <1>1, <1>2, <1>3, EventsAreValues DEF CoreInv, TypeOK, brokerVars, historyVars
<1>5. Traces'
  BY <1>2, <1>3, HandlerMoves DEF brokerVars, historyVars
<1> QED
  BY <1>4, <1>5

\* A handler that sets or lifts the flag has ended.
LEMMA SetRejectFlagStep ==
  ASSUME CoreInv, NEW h \in handling, SetRejectFlag(h)
  PROVE  TypeOK' /\ Traces'
<1>1. h.event \in DOMAIN log /\ rejecting' \in BOOLEAN
  BY DEF CoreInv, TypeOK, SetRejectFlag
<1>2. TypeOK'
  BY <1>1 DEF CoreInv, TypeOK, SetRejectFlag, Ack, brokerVars
<1> QED
  BY <1>2, AckTraces DEF SetRejectFlag

\* A handler that empties the Map of its process has ended.
LEMMA InvalidatePermissionsStep ==
  ASSUME CoreInv, NEW h \in handling, NEW p \in Process, InvalidatePermissions(h, p)
  PROVE  TypeOK' /\ Traces'
<1>1. h.event \in DOMAIN log /\ h.event \in 0 .. MaxEvents /\ Undefined \in Value
  BY EventsAreValues DEF CoreInv, TypeOK
<1>2. permissions' \in [Process -> Value] /\ told' \in [Process -> 0 .. MaxEvents]
  BY <1>1 DEF CoreInv, TypeOK, InvalidatePermissions
<1>3. TypeOK'
  BY <1>1, <1>2 DEF CoreInv, TypeOK, InvalidatePermissions, Ack, brokerVars
<1> QED
  BY <1>3, AckTraces DEF InvalidatePermissions

\* A handler with nothing to do has ended.
LEMMA HandleOtherStep ==
  ASSUME CoreInv, NEW h \in handling, HandleOther(h)
  PROVE  TypeOK' /\ Traces'
<1>1. h.event \in DOMAIN log
  BY DEF CoreInv, TypeOK
<1>2. TypeOK'
  BY <1>1 DEF CoreInv, TypeOK, HandleOther, Ack, brokerVars, cacheVars
<1> QED
  BY <1>2, AckTraces DEF HandleOther

-----------------------------------------------------------------------------
(* Reads and expiring keys leave no trace of an event behind them.         *)

\* A read-through touches no event.
LEMMA ReadStep ==
  ASSUME CoreInv, ReadNext
  PROVE  TypeOK' /\ Traces'
<1>1. UNCHANGED <<brokerVars, deduped, handling, historyVars, rejecting, faults>>
  BY DEF ReadNext, Miss, Fetch, Store, ReadFails, cacheVars
<1>2. Traces'
  BY <1>1, NothingTaken DEF brokerVars, historyVars
<1> DEFINE Kept ==
      /\ reading' \subseteq Reader /\ overlapped' \subseteq Key \X {"event", "read"}
      /\ product' \in ProductEntry /\ branch' \in Value /\ permissions' \in [Process -> Value]
<1>3. Kept
  <2>1. ASSUME NEW key \in Key, NEW p \in Server, Miss(key, p)
        PROVE  Kept
    <3>1. [key |-> key, process |-> p, pc |-> "fetch", got |-> Empty] \in Reader
      BY EventsAreValues DEF CoreInv, Reader
    <3> QED
      BY <2>1, <3>1 DEF CoreInv, TypeOK, Miss, cacheVars
  <2>2. ASSUME NEW r \in reading, Fetch(r)
        PROVE  Kept
    <3> DEFINE got == CASE r.key = "product" -> CoreProduct
                        [] r.key = "branch" -> [Empty EXCEPT !.price = CoreBranch]
                        [] r.key = "permissions" -> [Empty EXCEPT !.price = CorePermissions]
               q == [r EXCEPT !.pc = "store", !.got = got]
    <3>1. r \in Reader /\ r.key \in {"product", "branch", "permissions"}
      BY DEF CoreInv, TypeOK, Reader, Key
    <3>2. \A v \in Value : [Empty EXCEPT !.price = v] \in ProductEntry
      BY EventsAreValues DEF CoreInv, ProductEntry
    <3>3. got \in ProductEntry
      BY <3>1, <3>2, AnswersHaveTypes DEF CoreInv
    <3> HIDE DEF got
    <3>4. q \in Reader
      BY <3>1, <3>3 DEF Reader
    <3>5. reading' = (reading \ {r}) \cup {q}
      BY <2>2 DEF Fetch, got
    <3>6. overlapped' \subseteq overlapped \cup {<<r.key, "read">>}
      BY <2>2 DEF Fetch
    <3>7. <<r.key, "read">> \in Key \X {"event", "read"}
      BY <3>1 DEF Key
    <3> HIDE DEF q
    <3>8. UNCHANGED <<product, branch, permissions>>
      BY <2>2 DEF Fetch, cacheVars
    <3> QED
      BY <3>4, <3>5, <3>6, <3>7, <3>8 DEF CoreInv, TypeOK
  <2>3. ASSUME NEW r \in reading, Store(r)
        PROVE  Kept
    <3>1. r \in Reader
      BY DEF CoreInv, TypeOK
    <3>2. r.got \in ProductEntry /\ r.got.price \in Value
      BY <3>1 DEF Reader, ProductEntry
    <3>3. /\ product' \in ProductEntry /\ branch' \in Value
          /\ permissions' \in [Process -> Value]
      BY <2>3, <3>2 DEF CoreInv, TypeOK, Store
    <3> QED
      BY <2>3, <3>3 DEF CoreInv, TypeOK, Store
  <2>4. ASSUME NEW r \in reading, ReadFails(r)
        PROVE  Kept
    BY <2>4 DEF CoreInv, TypeOK, ReadFails, cacheVars
  <2> QED
    BY <2>1, <2>2, <2>3, <2>4 DEF ReadNext
<1>4. TypeOK'
  BY <1>1, <1>3 DEF CoreInv, TypeOK, brokerVars, historyVars
<1> QED
  BY <1>2, <1>4

\* A key that expires takes no event with it; a dedupe key outlives its handlers.
LEMMA ExpireStep ==
  ASSUME CoreInv, Expire
  PROVE  TypeOK' /\ Traces'
<1>1. CASE ExpireProduct \/ ExpireBranch \/ \E p \in Process : ExpirePermissions(p)
  <2>1. /\ product' \in ProductEntry /\ branch' \in Value
        /\ permissions' \in [Process -> Value]
    BY <1>1, EventsAreValues
       DEF CoreInv, TypeOK, ExpireProduct, ExpireBranch, ExpirePermissions
  <2>2. UNCHANGED <<log, queue, dead, deduped, handling, done, told, cut, rejecting, reading,
                    overlapped, faults>>
    BY <1>1 DEF ExpireProduct, ExpireBranch, ExpirePermissions, brokerVars, historyVars
  <2>3. TypeOK'
    BY <2>1, <2>2 DEF CoreInv, TypeOK
  <2> QED
    BY <2>2, <2>3, NothingTaken
<1>2. CASE ExpireFlag
  <2>1. /\ rejecting' = FALSE
        /\ UNCHANGED <<log, queue, dead, deduped, handling, done, told, cut, product, branch,
                       permissions, reading, overlapped, faults>>
    BY <1>2 DEF ExpireFlag, brokerVars, historyVars
  <2>2. TypeOK'
    BY <2>1 DEF CoreInv, TypeOK
  <2> QED
    BY <2>1, <2>2, NothingTaken
<1>3. ASSUME NEW e \in deduped, ExpireDedupe(e)
      PROVE  TypeOK' /\ Traces'
  <2>1. /\ deduped' \subseteq deduped
        /\ UNCHANGED <<log, queue, dead, handling, done, told, cut, product, branch, rejecting,
                       permissions, reading, overlapped, faults>>
    BY <1>3 DEF ExpireDedupe, brokerVars, historyVars, cacheVars
  <2>2. TypeOK'
    BY <2>1 DEF CoreInv, TypeOK
  <2> QED
    BY <2>1, <2>2, NothingTaken
<1> QED
  BY <1>1, <1>2, <1>3 DEF Expire

-----------------------------------------------------------------------------
\* Every step keeps the invariant.
LEMMA NextCore == CoreInv /\ [Next]_vars => CoreInv'
<1> SUFFICES ASSUME CoreInv, [Next]_vars PROVE TypeOK' /\ Traces'
  BY DEF CoreInv, Traces
<1>1. CASE BrokerNext
  BY <1>1, PublishStep, RedeliverStep, ReplayStep, DeliverStep DEF BrokerNext
<1>2. ASSUME NEW h \in handling, HandlerStep(h)
      PROVE  TypeOK' /\ Traces'
  BY <1>2, BeginWorkStep, SkipDuplicateStep, GetProductStep, SetProductStep, DeleteBranchStep,
     SetRejectFlagStep, InvalidatePermissionsStep, HandleOtherStep DEF HandlerStep
<1>3. ASSUME NEW h \in handling, HandlerFails(h) \/ ProcessDies(h)
      PROVE  TypeOK' /\ Traces'
  BY <1>3, HandlerFailsStep, ProcessDiesStep
<1>4. CASE ReadNext
  BY <1>4, ReadStep
<1>5. CASE Expire
  BY <1>5, ExpireStep
<1>6. CASE UNCHANGED vars
  <2>1. UNCHANGED <<brokerVars, deduped, handling, historyVars, cacheVars, reading, overlapped,
                    faults>>
    BY <1>6 DEF vars
  <2>2. TypeOK'
    BY <2>1 DEF CoreInv, TypeOK, brokerVars, historyVars, cacheVars
  <2> QED
    BY <2>1, <2>2, NothingTaken DEF brokerVars, historyVars
<1> QED
  BY <1>1, <1>2, <1>3, <1>4, <1>5, <1>6 DEF Next

\* Every variable keeps its type, the answers of core included.
THEOREM CoreEventsTypeCorrect == Spec => []TypeOK
<1>1. CoreInv => TypeOK
  BY DEF CoreInv
<1> QED
  BY <1>1, InitCore, NextCore, PTL DEF Spec

\* An event the broker no longer has was handled to its end or its handler was
\* cut short: the dedupe key of consumer.ts never swallows an event nobody has
\* begun, whatever is redelivered, replayed, expires, fails or dies.
THEOREM EventsDoNotVanish == Spec => []NoEventVanishes
<1>1. CoreInv => NoEventVanishes
  BY DEF CoreInv
<1> QED
  BY <1>1, InitCore, NextCore, PTL DEF Spec

-----------------------------------------------------------------------------
(* What the caches hold once things have settled.                          *)

\* Handlers that have begun on an entry, and reads of it that core has answered.
Working(key) == { h \in handling : h.pc # "received" /\ KeyOf(log[h.event]) = key }
Answered(key) == { r \in reading : r.pc = "store" /\ r.key = key }

\* Unless events overlapped, one handler at a time is at work on an entry, and
\* with no older event than those that are done.
InOrder(key) ==
  <<key, "event">> \notin overlapped =>
    \A g \in Working(key) :
      /\ \A h \in Working(key) : h = g
      /\ \A n \in done : KeyOf(log[n]) = key => n <= g.event

\* Unless an event and a read overlapped, they are not at work together.
Apart(key) ==
  <<key, "read">> \notin overlapped => Working(key) = {} \/ Answered(key) = {}

TrafficInv == \A key \in Key : InOrder(key) /\ Apart(key)

Calm(key) == overlapped \cap {<<key, "event">>, <<key, "read">>} = {}

\* A value is one core has had, and is not older than any event that is done.
Known(v, types) == v \in 0 .. Latest(types)
UpTo(v, types) == \A n \in done : log[n] \in types => n <= v
Fresh(v, types) == Known(v, types) /\ UpTo(v, types)

-----------------------------------------------------------------------------
(* What a step does to the log, and to those at work on an entry.          *)

\* The latest event of some types is one of them, and none of them is later.
LatestFacts ==
  \A types :
    /\ Latest(types) \in 0 .. Len(log)
    /\ Latest(types) > 0 => Latest(types) \in DOMAIN log /\ log[Latest(types)] \in types
    /\ \A n \in DOMAIN log : log[n] \in types => n <= Latest(types)

\* Latest is what its name says.
LEMMA LatestIsLatest == TypeOK => LatestFacts
<1> SUFFICES ASSUME TypeOK, NEW types
             PROVE  /\ Latest(types) \in 0 .. Len(log)
                    /\ Latest(types) > 0 =>
                         Latest(types) \in DOMAIN log /\ log[Latest(types)] \in types
                    /\ \A n \in DOMAIN log : log[n] \in types => n <= Latest(types)
  BY DEF LatestFacts
<1> DEFINE Candidate == { n \in 0 .. Len(log) : n > 0 => log[n] \in types }
           IsLatest(n) == /\ n > 0 => log[n] \in types
                          /\ \A m \in (n + 1) .. Len(log) : log[m] \notin types
<1>1. Len(log) \in Nat /\ DOMAIN log = 1 .. Len(log)
  BY DEF TypeOK
<1>2. Candidate \subseteq 0 .. Len(log) /\ 0 \in Candidate
  BY <1>1
<1>3. PICK n \in Candidate : \A m \in Candidate : m <= n
  <2> HIDE DEF Candidate
  <2> QED
    BY <1>1, <1>2, GreatestExists
<1>4. n \in 0 .. Len(log) /\ IsLatest(n)
  BY <1>1, <1>3
<1>5. Latest(types) \in 0 .. Len(log) /\ IsLatest(Latest(types))
  BY <1>4 DEF Latest
<1> QED
  BY <1>1, <1>5

\* The same one step later.
LEMMA LatestIsLatestNext == TypeOK' => LatestFacts'
BY LatestIsLatest, PTL

\* Events stay in the log, and overlaps are not forgotten.
Grows ==
  /\ DOMAIN log \subseteq DOMAIN log' /\ \A n \in DOMAIN log : log'[n] = log[n]
  /\ overlapped \subseteq overlapped'

\* Every step lets them.
LEMMA StepGrows ==
  ASSUME TypeOK, [Next]_vars
  PROVE  Grows
<1>1. ASSUME NEW type \in EventType, Publish(type) PROVE Grows
  BY <1>1 DEF Publish, Grows, TypeOK
<1>2. CASE log' = log /\ overlapped \subseteq overlapped'
  BY <1>2 DEF Grows
<1>3. ASSUME NEW h \in handling, HandlerStep(h) PROVE Grows
  BY <1>2, <1>3
     DEF HandlerStep, BeginWork, SkipDuplicate, GetProduct, SetProduct, DeleteBranch,
         SetRejectFlag, InvalidatePermissions, HandleOther, Ack, brokerVars
<1>4. CASE ReadNext
  BY <1>2, <1>4 DEF ReadNext, Miss, Fetch, Store, ReadFails, brokerVars
<1>5. CASE Expire
  BY <1>2, <1>5
     DEF Expire, ExpireProduct, ExpireBranch, ExpireFlag, ExpirePermissions, ExpireDedupe,
         brokerVars
<1> QED
  BY <1>1, <1>2, <1>3, <1>4, <1>5
     DEF Next, BrokerNext, Redeliver, Replay, Deliver, HandlerFails, ProcessDies, vars, brokerVars

\* What core has only grows newer.
LEMMA LatestGrows ==
  ASSUME TypeOK, TypeOK', Grows, NEW types
  PROVE  /\ Latest(types) \in Nat /\ Latest(types)' \in Nat
         /\ Latest(types) <= Latest(types)'
<1>1. LatestFacts /\ LatestFacts'
  BY LatestIsLatest, LatestIsLatestNext
<1>2. Latest(types) \in 0 .. Len(log) /\ Latest(types)' \in 0 .. Len(log')
      /\ (Latest(types) > 0 => Latest(types) \in DOMAIN log /\ log[Latest(types)] \in types)
      /\ \A n \in DOMAIN log' : log'[n] \in types => n <= Latest(types)'
  BY <1>1 DEF LatestFacts
<1>3. Len(log) \in Nat /\ Len(log') \in Nat
  BY DEF TypeOK
<1>4. CASE Latest(types) = 0
  BY <1>2, <1>3, <1>4
<1>5. CASE Latest(types) > 0
  BY <1>2, <1>3, <1>5 DEF Grows
<1> QED
  BY <1>2, <1>3, <1>4, <1>5

\* Nothing begins, is answered or is done about an entry.
Aside(key) ==
  /\ Working(key)' \subseteq Working(key)
  /\ Answered(key)' \subseteq Answered(key)
  /\ done \subseteq done' /\ \A n \in done' : n \in done \/ KeyOf(log'[n]) # key

\* A handler begins on an entry: nobody else is at work on it, or they overlap.
Begins(key, e) ==
  /\ \E k \in Working(key)' :
       k.event = e /\ k.pc = "work" /\ Working(key)' = Working(key) \cup {k}
  /\ <<key, "event">> \notin overlapped' =>
       Working(key) = {} /\ \A n \in done : KeyOf(log[n]) = key => n <= e
  /\ <<key, "read">> \notin overlapped' => Answered(key) = {}
  /\ Answered(key)' \subseteq Answered(key) /\ done' = done

\* A handler goes on, with what it has seen.
Moves(key, h, seen) ==
  /\ h \in Working(key)
  /\ \E k \in Working(key)' :
       /\ k.event = h.event /\ k.pc = "write" /\ k.seen = seen
       /\ Working(key)' = (Working(key) \ {h}) \cup {k}
  /\ Answered(key)' \subseteq Answered(key) /\ done' = done

\* A handler ends well.
Ends(key, h) ==
  /\ h \in Working(key)
  /\ Working(key)' = Working(key) \ {h}
  /\ Answered(key)' \subseteq Answered(key) /\ done' = done \cup {h.event}

\* Core answers a read: no handler is at work on the entry, or they overlap.
Answers(r, got) ==
  /\ \E q \in Answered(r.key)' :
       q.got = got /\ q.process = r.process /\ Answered(r.key)' \subseteq Answered(r.key) \cup {q}
  /\ Working(r.key)' = Working(r.key) /\ done' = done
  /\ <<r.key, "read">> \notin overlapped' => Working(r.key) = {}

\* Events that are done are events of the log, and numbers.
LEMMA WorkIsOnEvents ==
  ASSUME TypeOK, TypeOK', Grows
  PROVE  /\ done \subseteq DOMAIN log /\ done' \subseteq DOMAIN log'
         /\ \A n \in done : log'[n] = log[n]
         /\ \A n \in DOMAIN log : n \in Nat
         /\ \A n \in DOMAIN log' : n \in Nat
         /\ \A h \in handling : h.event \in DOMAIN log /\ log'[h.event] = log[h.event]
BY DEF TypeOK, Grows

\* A step aside leaves an entry's handlers and reads in order and apart.
LEMMA AsideTraffic ==
  ASSUME TypeOK, TypeOK', Grows, NEW key, InOrder(key), Apart(key), Aside(key)
  PROVE  InOrder(key)' /\ Apart(key)'
<1>1. \A n \in done' : KeyOf(log'[n]) = key => n \in done /\ KeyOf(log[n]) = key
  BY WorkIsOnEvents DEF Aside
<1>2. InOrder(key)'
  BY <1>1 DEF InOrder, Aside, Grows
<1>3. Apart(key)'
  BY DEF Apart, Aside, Grows
<1> QED
  BY <1>2, <1>3

\* So does a handler that begins,
LEMMA BeginsTraffic ==
  ASSUME TypeOK, TypeOK', Grows, NEW key, InOrder(key), Apart(key), NEW e, Begins(key, e)
  PROVE  InOrder(key)' /\ Apart(key)'
<1>1. PICK k \in Working(key)' : k.event = e /\ Working(key)' = Working(key) \cup {k}
  BY DEF Begins
<1>2. \A n \in done' : n \in done /\ log'[n] = log[n]
  BY WorkIsOnEvents DEF Begins
<1>3. InOrder(key)'
  BY <1>1, <1>2 DEF InOrder, Begins
<1>4. Apart(key)'
  BY DEF Apart, Begins
<1> QED
  BY <1>3, <1>4

\* goes on,
LEMMA MovesTraffic ==
  ASSUME TypeOK, TypeOK', Grows, NEW key, InOrder(key), Apart(key),
         NEW h, NEW seen, Moves(key, h, seen)
  PROVE  InOrder(key)' /\ Apart(key)'
<1>1. PICK k \in Working(key)' :
        k.event = h.event /\ Working(key)' = (Working(key) \ {h}) \cup {k} /\ h \in Working(key)
  BY DEF Moves
<1>2. \A n \in done' : n \in done /\ log'[n] = log[n]
  BY WorkIsOnEvents DEF Moves
<1>3. InOrder(key)'
  BY <1>1, <1>2 DEF InOrder, Grows
<1>4. Apart(key)'
  BY <1>1 DEF Apart, Moves, Grows
<1> QED
  BY <1>3, <1>4

\* or ends,
LEMMA EndsTraffic ==
  ASSUME TypeOK, TypeOK', Grows, NEW key, InOrder(key), Apart(key), NEW h, Ends(key, h)
  PROVE  InOrder(key)' /\ Apart(key)'
<1>1. InOrder(key)'
  BY DEF InOrder, Ends, Grows
<1>2. Apart(key)'
  BY DEF Apart, Ends, Grows
<1> QED
  BY <1>1, <1>2

\* and an answer from core.
LEMMA AnswersTraffic ==
  ASSUME TypeOK, TypeOK', Grows, NEW r, NEW got, InOrder(r.key), Apart(r.key), Answers(r, got)
  PROVE  InOrder(r.key)' /\ Apart(r.key)'
<1>1. \A n \in done' : n \in done /\ log'[n] = log[n]
  BY WorkIsOnEvents DEF Answers
<1>2. InOrder(r.key)'
  BY <1>1 DEF InOrder, Answers, Grows
<1>3. Apart(r.key)'
  BY DEF Apart, Answers
<1> QED
  BY <1>2, <1>3

-----------------------------------------------------------------------------
(* Which steps these are.                                                  *)

\* Handlers that stop or have not begun are aside, if they are not done.
LEMMA QuietIsAside ==
  ASSUME TypeOK, Grows, NEW key, done' = done,
         \A h \in handling' : h \in handling \/ h.pc = "received",
         \A r \in reading' : r \in reading \/ r.pc = "fetch"
  PROVE  Aside(key)
<1>1. Working(key)' \subseteq Working(key)
  BY WorkIsOnEvents DEF Working, TypeOK, Grows
<1>2. Answered(key)' \subseteq Answered(key)
  BY DEF Answered
<1> QED
  BY <1>1, <1>2 DEF Aside

\* A handler that goes on is one of the handlers of the same entry.
LEMMA WorkingMoves ==
  ASSUME TypeOK, log' = log, NEW key, NEW h \in handling, NEW k,
         k.event = h.event, k.pc # "received", handling' = (handling \ {h}) \cup {k}
  PROVE  /\ KeyOf(log[h.event]) = key =>
              k \in Working(key)' /\ Working(key)' = (Working(key) \ {h}) \cup {k}
         /\ KeyOf(log[h.event]) # key => Working(key)' = Working(key)
BY DEF Working

\* The handlers of the other entries do not see that one has ended.
LEMMA WorkingEnds ==
  ASSUME TypeOK, log' = log, NEW key, NEW h \in handling, h.pc # "received",
         handling' = handling \ {h}, done' = done \cup {h.event}, reading' = reading
  PROVE  /\ KeyOf(log[h.event]) = key => Ends(key, h)
         /\ KeyOf(log[h.event]) # key => Aside(key)
<1>1. Answered(key)' = Answered(key)
  BY DEF Answered
<1>2. Working(key)' = Working(key) \ {h}
  BY DEF Working
<1>3. KeyOf(log[h.event]) = key => h \in Working(key)
  BY DEF Working
<1> QED
  BY <1>1, <1>2, <1>3 DEF Ends, Aside

\* BeginWork: the dedupe key is set, the handler is at work, overlaps are noted.
LEMMA BeginWorkEffect ==
  ASSUME TypeOK, NEW h \in handling, BeginWork(h), NEW key \in Key
  PROVE  /\ KeyOf(log[h.event]) = key => Begins(key, h.event)
         /\ KeyOf(log[h.event]) # key => Aside(key)
<1> DEFINE k == [h EXCEPT !.pc = "work"]
<1>1. /\ h.pc = "received" /\ h \in Handler
      /\ handling' = (handling \ {h}) \cup {k} /\ log' = log /\ done' = done /\ reading' = reading
      /\ overlapped' = overlapped \cup (OverlapsOf(h.event) \cap (Key \X {"event", "read"}))
  BY DEF BeginWork, Advance, brokerVars, historyVars, TypeOK
<1>2. k.event = h.event /\ k.pc = "work"
  BY <1>1, AdvancedIsAHandler
<1> HIDE DEF k
<1>3. Answered(key)' = Answered(key)
  BY <1>1 DEF Answered
<1>4. ASSUME KeyOf(log[h.event]) = key PROVE Begins(key, h.event)
  <2>1. h \notin Working(key)
    BY <1>1 DEF Working
  <2>2. k \in Working(key)' /\ Working(key)' = Working(key) \cup {k}
    BY <1>1, <1>2, <1>4, <2>1, WorkingMoves
  <2>3. ASSUME <<key, "event">> \notin overlapped'
        PROVE  Working(key) = {} /\ \A n \in done : KeyOf(log[n]) = key => n <= h.event
    <3>1. <<key, "event">> \notin OverlapsOf(h.event)
      BY <1>1, <2>3
    <3>2. ~EventAtWork(key) /\ \A f \in done : ~(f > h.event /\ KeyOf(log[f]) = key)
      BY <1>4, <3>1 DEF OverlapsOf
    <3>3. \A n \in done : n \in Int /\ h.event \in Int
      BY DEF TypeOK
    <3> QED
      BY <3>2, <3>3 DEF EventAtWork, Working
  <2>4. ASSUME <<key, "read">> \notin overlapped'
        PROVE  Answered(key) = {}
    <3>1. <<key, "read">> \notin OverlapsOf(h.event)
      BY <1>1, <2>4
    <3> QED
      BY <1>4, <3>1 DEF OverlapsOf, ReadAtWork, Answered
  <2> QED
    BY <1>1, <1>2, <1>3, <2>2, <2>3, <2>4 DEF Begins
<1>5. ASSUME KeyOf(log[h.event]) # key PROVE Aside(key)
  BY <1>1, <1>2, <1>3, <1>5, WorkingMoves DEF Aside
<1> QED
  BY <1>4, <1>5

\* GetProduct and DeleteBranch: the handler goes on to its write.
LEMMA GoOnEffect ==
  ASSUME TypeOK, NEW h \in handling, GetProduct(h) \/ DeleteBranch(h), NEW key \in Key
  PROVE  /\ KeyOf(log[h.event]) = key =>
              \E seen : Moves(key, h, seen) /\ (GetProduct(h) => seen = product)
         /\ KeyOf(log[h.event]) # key => Aside(key)
<1>1. h.pc = "work" /\ h \in Handler
  BY DEF GetProduct, DeleteBranch, TypeOK
<1>2. PICK k : /\ k.event = h.event /\ k.pc = "write" /\ handling' = (handling \ {h}) \cup {k}
               /\ GetProduct(h) => k.seen = product
  <2>1. CASE GetProduct(h)
    <3> DEFINE k == [h EXCEPT !.pc = "write", !.seen = product]
    <3>1. k.event = h.event /\ k.pc = "write" /\ k.seen = product
      BY <1>1 DEF Handler
    <3>2. handling' = (handling \ {h}) \cup {k}
      BY <2>1 DEF GetProduct
    <3> HIDE DEF k
    <3> QED
      BY <3>1, <3>2
  <2>2. CASE DeleteBranch(h) /\ ~GetProduct(h)
    BY <1>1, <2>2, AdvancedIsAHandler DEF DeleteBranch, Advance
  <2> QED
    BY <2>1, <2>2
<1>3. log' = log /\ done' = done /\ reading' = reading
  BY DEF GetProduct, DeleteBranch, brokerVars, historyVars
<1>4. Answered(key)' = Answered(key)
  BY <1>3 DEF Answered
<1>5. ASSUME KeyOf(log[h.event]) = key PROVE Moves(key, h, k.seen)
  <2>1. h \in Working(key)
    BY <1>1, <1>5 DEF Working
  <2>2. k \in Working(key)' /\ Working(key)' = (Working(key) \ {h}) \cup {k}
    BY <1>2, <1>3, <1>5, WorkingMoves
  <2> QED
    BY <1>2, <1>3, <1>4, <2>1, <2>2 DEF Moves
<1>6. ASSUME KeyOf(log[h.event]) # key PROVE Aside(key)
  BY <1>2, <1>3, <1>4, <1>6, WorkingMoves DEF Aside
<1> QED
  BY <1>2, <1>5, <1>6

\* The steps that end with an ack.
LEMMA AckEffect ==
  ASSUME TypeOK, NEW h \in handling, NEW key \in Key,
         SetProduct(h) \/ SetRejectFlag(h) \/ HandleOther(h)
         \/ \E p \in Process : InvalidatePermissions(h, p)
  PROVE  /\ KeyOf(log[h.event]) = key => Ends(key, h)
         /\ KeyOf(log[h.event]) # key => Aside(key)
<1>1. h.pc # "received" /\ Ack(h)
  BY DEF SetProduct, SetRejectFlag, HandleOther, InvalidatePermissions
<1> QED
  BY <1>1, WorkingEnds DEF Ack, brokerVars

\* Fetch: the read has its answer.
LEMMA FetchEffect ==
  ASSUME TypeOK, NEW r \in reading, Fetch(r), NEW key \in Key
  PROVE  /\ r.key = key => Answers(r, CASE r.key = "product" -> CoreProduct
                                        [] r.key = "branch" -> [Empty EXCEPT !.price = CoreBranch]
                                        [] r.key = "permissions" ->
                                             [Empty EXCEPT !.price = CorePermissions])
         /\ r.key # key => Aside(key)
<1> DEFINE got == CASE r.key = "product" -> CoreProduct
                    [] r.key = "branch" -> [Empty EXCEPT !.price = CoreBranch]
                    [] r.key = "permissions" -> [Empty EXCEPT !.price = CorePermissions]
           q == [r EXCEPT !.pc = "store", !.got = got]
<1>1. r \in Reader /\ UNCHANGED <<log, handling, done>>
  BY DEF TypeOK, Fetch, brokerVars, historyVars
<1>2. reading' = (reading \ {r}) \cup {q}
  BY DEF Fetch
<1> HIDE DEF got
<1>3. q.key = r.key /\ q.pc = "store" /\ q.got = got /\ q.process = r.process
  BY <1>1 DEF Reader
<1> HIDE DEF q
<1>4. \A x : Working(x)' = Working(x)
  BY <1>1 DEF Working
<1>5. q \in Answered(r.key)' /\ Answered(r.key)' \subseteq Answered(r.key) \cup {q}
  BY <1>2, <1>3 DEF Answered
<1>6. r.key # key => Answered(key)' \subseteq Answered(key)
  BY <1>2, <1>3 DEF Answered
<1>7. <<r.key, "read">> \notin overlapped' => Working(r.key) = {}
  BY DEF Fetch, EventAtWork, Working
<1>8. Answers(r, got)
  BY <1>1, <1>3, <1>4, <1>5, <1>7 DEF Answers
<1>9. r.key # key => Aside(key)
  BY <1>1, <1>4, <1>6 DEF Aside
<1> QED
  BY <1>8, <1>9 DEF got

\* Every step is one of these for every entry.
LEMMA StepEffects ==
  ASSUME TypeOK, [Next]_vars, NEW key \in Key
  PROVE  \/ Aside(key)
         \/ \E h \in handling : Begins(key, h.event) \/ Ends(key, h) \/ \E seen : Moves(key, h, seen)
         \/ \E r \in reading : r.key = key /\ \E got : Answers(r, got)
<1>1. CASE /\ done' = done
           /\ \A h \in handling' : h \in handling \/ h.pc = "received"
           /\ \A r \in reading' : r \in reading \/ r.pc = "fetch"
  BY <1>1, QuietIsAside, StepGrows
<1>2. CASE BrokerNext
  BY <1>1, <1>2
     DEF BrokerNext, Publish, Redeliver, Replay, Deliver, historyVars, cacheVars
<1>3. ASSUME NEW h \in handling, HandlerStep(h) \/ HandlerFails(h) \/ ProcessDies(h)
      PROVE  \/ Aside(key)
             \/ Begins(key, h.event) \/ Ends(key, h) \/ \E seen : Moves(key, h, seen)
  <2>1. CASE SkipDuplicate(h) \/ HandlerFails(h) \/ ProcessDies(h)
    BY <2>1, QuietIsAside, StepGrows DEF SkipDuplicate, HandlerFails, ProcessDies, historyVars
  <2>2. CASE BeginWork(h)
    BY <2>2, BeginWorkEffect
  <2>3. CASE GetProduct(h) \/ DeleteBranch(h)
    BY <2>3, GoOnEffect
  <2>4. CASE SetProduct(h) \/ SetRejectFlag(h) \/ HandleOther(h)
             \/ \E p \in Process : InvalidatePermissions(h, p)
    BY <2>4, AckEffect
  <2> QED
    BY <1>3, <2>1, <2>2, <2>3, <2>4 DEF HandlerStep
<1>4. CASE ReadNext
  <2>1. ASSUME NEW r \in reading, Fetch(r)
        PROVE  Aside(key) \/ (r.key = key /\ \E got : Answers(r, got))
    BY <2>1, FetchEffect
  <2>2. ASSUME NEW r \in reading, Store(r) \/ ReadFails(r) PROVE Aside(key)
    BY <1>1, <2>2, QuietIsAside, StepGrows DEF Store, ReadFails, historyVars
  <2>3. ASSUME NEW k \in Key, NEW p \in Server, Miss(k, p) PROVE Aside(key)
    BY <1>1, <2>3, QuietIsAside, StepGrows DEF Miss, historyVars
  <2> QED
    BY <1>4, <2>1, <2>2, <2>3 DEF ReadNext
<1>5. CASE Expire
  BY <1>1, <1>5
     DEF Expire, ExpireProduct, ExpireBranch, ExpireFlag, ExpirePermissions, ExpireDedupe,
         historyVars
<1>6. CASE UNCHANGED vars
  BY <1>1, <1>6 DEF vars, historyVars
<1> QED
  BY <1>2, <1>3, <1>4, <1>5, <1>6 DEF Next

\* What is at work stays in order and apart.
LEMMA StepTraffic ==
  ASSUME TypeOK, TypeOK', TrafficInv, [Next]_vars
  PROVE  TrafficInv'
<1> SUFFICES ASSUME NEW key \in Key PROVE InOrder(key)' /\ Apart(key)'
  BY DEF TrafficInv
<1>1. Grows /\ InOrder(key) /\ Apart(key)
  BY StepGrows DEF TrafficInv
<1>2. CASE Aside(key)
  BY <1>1, <1>2, AsideTraffic
<1>3. ASSUME NEW h \in handling,
             Begins(key, h.event) \/ Ends(key, h) \/ \E seen : Moves(key, h, seen)
      PROVE  InOrder(key)' /\ Apart(key)'
  BY <1>1, <1>3, BeginsTraffic, EndsTraffic, MovesTraffic
<1>4. ASSUME NEW r \in reading, r.key = key, \E got : Answers(r, got)
      PROVE  InOrder(key)' /\ Apart(key)'
  BY <1>1, <1>4, AnswersTraffic
<1> QED
  BY <1>2, <1>3, <1>4, StepEffects

\* The events of some types that are done are the same after a step.
SameDone(types) ==
  \A n : n \in done' /\ log'[n] \in types <=> n \in done /\ log[n] \in types

\* They are when the step is aside, or ends no handler.
LEMMA DoneStays ==
  ASSUME TypeOK, Grows, NEW key, Aside(key) \/ done' = done,
         NEW types, \A type \in types : KeyOf(type) = key
  PROVE  SameDone(types)
<1>1. \A n \in done : n \in DOMAIN log /\ log'[n] = log[n]
  BY DEF TypeOK, Grows
<1> QED
  BY <1>1 DEF SameDone, Aside

\* Then a value that was up to the events that are done still is.
LEMMA UpToStays ==
  ASSUME NEW types, SameDone(types), NEW v
  PROVE  UpTo(v, types)' <=> UpTo(v, types)
BY DEF SameDone, UpTo

\* A value core has had stays one.
LEMMA KnownStays ==
  ASSUME TypeOK, TypeOK', Grows, NEW types, NEW v, Known(v, types)
  PROVE  Known(v, types)'
BY LatestGrows DEF Known

\* What core answers is fresh.
LEMMA LatestIsFresh ==
  ASSUME TypeOK, NEW types
  PROVE  Fresh(Latest(types), types)
<1>1. LatestFacts /\ done \subseteq DOMAIN log
  BY LatestIsLatest DEF TypeOK
<1>2. /\ Latest(types) \in Nat
      /\ \A n \in DOMAIN log : log[n] \in types => n <= Latest(types)
  BY <1>1 DEF LatestFacts
<1> QED
  BY <1>1, <1>2 DEF Fresh, Known, UpTo

\* The types of an entry.
LEMMA TypesOfKeys ==
  /\ \A type \in BranchType : KeyOf(type) = "branch"
  /\ \A type \in {"product.price.changed"} : KeyOf(type) = "product"
  /\ \A type \in {"product.stock.changed"} : KeyOf(type) = "product"
  /\ \A type \in EventType : KeyOf(type) = "branch" => type \in BranchType
  /\ \A type \in EventType : KeyOf(type) = "product" => type \in ProductType
BY DEF KeyOf, BranchType, ProductType, EventType

-----------------------------------------------------------------------------
(* The branch and its flag.                                                *)

KnownBranch ==
  /\ branch # Undefined => Known(branch, BranchType)
  /\ \A r \in Answered("branch") : Known(r.got.price, BranchType)

\* The last event of the branch that is done, and it closes the branch.
Closes(n) == log[n] = "branch.deactivated" /\ UpTo(n, BranchType)

\* Unless events overlapped, the flag says that the branch was closed last; and
\* where it was, the flag is up or nobody has or is about to have an older branch.
FlagInv ==
  <<"branch", "event">> \notin overlapped =>
    /\ rejecting => \E n \in done : Closes(n)
    /\ \A n \in done : Closes(n) =>
         \/ rejecting
         \/ /\ branch = Undefined \/ branch >= n
            /\ \A r \in Answered("branch") : r.got.price >= n

\* Unless something overlapped, the branch that is kept or about to be kept is
\* not older than what is done, and gone while a handler is half way.
FreshBranch ==
  Calm("branch") =>
    /\ branch # Undefined => UpTo(branch, BranchType)
    /\ \A r \in Answered("branch") : UpTo(r.got.price, BranchType)
    /\ \A h \in Working("branch") : h.pc = "write" => branch = Undefined

BranchInv == KnownBranch /\ FlagInv /\ FreshBranch

\* Overlaps are not forgotten.
LEMMA CalmBefore ==
  ASSUME Grows, NEW key, Calm(key)'
  PROVE  /\ Calm(key)
         /\ <<key, "event">> \notin overlapped' /\ <<key, "read">> \notin overlapped'
         /\ <<key, "event">> \notin overlapped /\ <<key, "read">> \notin overlapped
BY DEF Calm, Grows

\* A step that leaves the branch, or loses it.
LEMMA BranchKept ==
  ASSUME TypeOK, TypeOK', Grows, BranchInv, SameDone(BranchType),
         Answered("branch")' \subseteq Answered("branch"),
         branch' \in {branch, Undefined}, rejecting' = rejecting,
         \A h \in Working("branch")' :
           h.pc = "write" => h \in Working("branch") \/ branch' = Undefined
  PROVE  BranchInv'
<1>1. KnownBranch'
  BY KnownStays DEF BranchInv, KnownBranch
<1>2. \A v : UpTo(v, BranchType)' <=> UpTo(v, BranchType)
  BY UpToStays
<1>3. \A n : n \in done' /\ Closes(n)' <=> n \in done /\ Closes(n)
  <2>1. \A n \in done : log'[n] = log[n]
    BY WorkIsOnEvents
  <2> QED
    BY <1>2, <2>1 DEF SameDone, Closes, BranchType
<1>4. FlagInv'
  BY <1>3 DEF BranchInv, FlagInv, Grows
<1>5. FreshBranch'
  BY <1>2, CalmBefore DEF BranchInv, FreshBranch
<1> QED
  BY <1>1, <1>4, <1>5 DEF BranchInv

\* The flag expires after what was read before the branch was closed.
LEMMA ExpireFlagBranch ==
  ASSUME TypeOK, TypeOK', Grows, BranchInv, ExpireFlag
  PROVE  BranchInv'
<1>1. /\ rejecting' = FALSE
      /\ UNCHANGED <<log, handling, done, branch, reading, overlapped>>
  BY DEF ExpireFlag, historyVars, brokerVars
<1>2. /\ Working("branch")' = Working("branch") /\ Answered("branch")' = Answered("branch")
      /\ SameDone(BranchType)
  BY <1>1 DEF Working, Answered, SameDone
<1>3. KnownBranch'
  BY <1>1, <1>2, KnownStays DEF BranchInv, KnownBranch
<1>4. \A v : UpTo(v, BranchType)' <=> UpTo(v, BranchType)
  BY <1>2, UpToStays
<1>5. FreshBranch'
  BY <1>1, <1>2, <1>4, CalmBefore DEF BranchInv, FreshBranch
<1>6. ASSUME NEW n \in done, Closes(n)
      PROVE  /\ branch = Undefined \/ branch >= n
             /\ \A r \in Answered("branch") : r.got.price >= n
  <2> DEFINE closed == Latest({"branch.deactivated"})
  <2>1. closed \in Nat /\ n <= closed /\ n \in Nat
    <3>1. LatestFacts /\ done \subseteq DOMAIN log /\ n \in Nat /\ Len(log) \in Nat
      BY LatestIsLatest DEF TypeOK
    <3>2. log[n] \in {"branch.deactivated"}
      BY <1>6 DEF Closes
    <3>3. closed \in 0 .. Len(log) /\ \A m \in DOMAIN log : log[m] \in {"branch.deactivated"} => m <= closed
      BY <3>1 DEF LatestFacts
    <3> QED
      BY <3>1, <3>2, <3>3
  <2>2. branch \in Int /\ \A r \in Answered("branch") : r.got.price \in Nat
    <3>1. \A r \in Answered("branch") : r.got.price \in 0 .. Latest(BranchType)
      BY DEF BranchInv, KnownBranch, Known
    <3>2. branch \in Value /\ Value \subseteq Int
      BY CoreBoundsAssumption DEF TypeOK, Value, Undefined
    <3> QED
      BY <3>1, <3>2
  <2>3. /\ branch = Undefined \/ branch >= closed
        /\ \A r \in Answered("branch") : r.got.price = Undefined \/ r.got.price >= closed
    <3> HIDE DEF closed
    <3>1. ~(branch # Undefined /\ branch < closed)
      BY DEF ExpireFlag, BeforeDeactivation, closed
    <3>2. \A r \in Answered("branch") : ~(r.got.price # Undefined /\ r.got.price < closed)
      BY DEF ExpireFlag, BeforeDeactivation, closed, Answered
    <3> QED
      BY <2>1, <2>2, <3>1, <3>2
  <2> HIDE DEF closed
  <2> QED
    BY <2>1, <2>2, <2>3 DEF Undefined
<1>7. FlagInv'
  <2>1. \A n : Closes(n)' <=> Closes(n)
    BY <1>1, <1>4 DEF Closes
  <2> QED
    BY <1>1, <1>2, <1>6, <2>1 DEF BranchInv, FlagInv
<1> QED
  BY <1>3, <1>5, <1>7 DEF BranchInv

\* The second half of a branch event: nobody was between its two halves.
LEMMA SetRejectFlagBranch ==
  ASSUME TypeOK, TypeOK', Grows, InOrder("branch"), Apart("branch"), BranchInv,
         NEW h \in handling, SetRejectFlag(h)
  PROVE  BranchInv'
<1> DEFINE e == h.event
<1>1. /\ h.pc = "write" /\ log[e] \in BranchType /\ log' = log /\ branch' = branch
      /\ rejecting' = (log[e] = "branch.deactivated")
      /\ done' = done \cup {e} /\ reading' = reading /\ e \in DOMAIN log
      /\ handling' = handling \ {h}
  BY DEF SetRejectFlag, Ack, brokerVars, TypeOK
<1>2. /\ h \in Working("branch") /\ Working("branch")' = Working("branch") \ {h}
      /\ Answered("branch")' = Answered("branch")
  BY <1>1, TypesOfKeys DEF Working, Answered
<1>3. /\ done \subseteq DOMAIN log /\ \A n \in done' : n \in Int
      /\ \A n \in done : log[n] \in BranchType => KeyOf(log[n]) = "branch"
  BY <1>1, TypesOfKeys DEF TypeOK
<1>4. KnownBranch'
  BY <1>1, <1>2, KnownStays DEF BranchInv, KnownBranch
<1>5. <<"branch", "event">> \notin overlapped =>
        /\ \A g \in Working("branch") : g = h
        /\ \A n \in done' : log[n] \in BranchType => n <= e
  BY <1>1, <1>2, <1>3 DEF InOrder
<1>6. FlagInv'
  <2> SUFFICES ASSUME <<"branch", "event">> \notin overlapped'
               PROVE  /\ rejecting' => \E n \in done' : Closes(n)'
                      /\ \A n \in done' : Closes(n)' => rejecting'
    BY DEF FlagInv
  <2>1. \A n \in done' : log[n] \in BranchType => n <= e
    BY <1>5 DEF Grows
  <2>2. rejecting' => e \in done' /\ Closes(e)'
    BY <1>1, <2>1 DEF Closes, UpTo
  <2>3. ASSUME NEW n \in done', Closes(n)' PROVE rejecting'
    <3>1. log[n] = "branch.deactivated" /\ e <= n /\ n <= e
      BY <1>1, <2>1, <2>3 DEF Closes, UpTo, BranchType
    <3>2. n \in Int /\ e \in Int
      BY <1>1, <1>3
    <3>3. n = e
      <4> HIDE DEF e
      <4> QED
        BY <3>1, <3>2
    <3> QED
      BY <1>1, <3>1, <3>3
  <2> QED
    BY <2>2, <2>3
<1>7. FreshBranch'
  <2> SUFFICES ASSUME Calm("branch")' PROVE FreshBranch'
    BY DEF FreshBranch
  <2>1. branch = Undefined /\ Answered("branch") = {} /\ Working("branch") = {h}
    BY <1>1, <1>2, <1>5, CalmBefore DEF BranchInv, FreshBranch, Apart
  <2> QED
    BY <1>1, <1>2, <2>1 DEF FreshBranch
<1> QED
  BY <1>4, <1>6, <1>7 DEF BranchInv

\* Core answers with its branch, which is not older than anything that is done.
LEMMA FetchBranch ==
  ASSUME TypeOK, TypeOK', Grows, BranchInv, NEW r \in reading, r.key = "branch", Fetch(r)
  PROVE  BranchInv'
<1>1. Answers(r, [Empty EXCEPT !.price = CoreBranch])
  BY FetchEffect DEF Key
<1>2. /\ UNCHANGED <<branch, rejecting, handling, log, done>>
  BY DEF Fetch, cacheVars, historyVars, brokerVars
<1>3. PICK q : /\ q.got = [Empty EXCEPT !.price = CoreBranch]
               /\ Answered("branch")' \subseteq Answered("branch") \cup {q}
  BY <1>1 DEF Answers
<1>4. q.got.price = CoreBranch
  BY <1>3 DEF Empty
<1>5. Fresh(CoreBranch, BranchType)
  BY LatestIsFresh DEF CoreBranch
<1>6. SameDone(BranchType) /\ Working("branch")' = Working("branch")
  BY <1>2 DEF SameDone, Working
<1>7. \A v : UpTo(v, BranchType)' <=> UpTo(v, BranchType)
  BY <1>6, UpToStays
<1>8. KnownBranch'
  BY <1>2, <1>3, <1>4, <1>5, KnownStays DEF BranchInv, KnownBranch, Fresh
<1>9. FreshBranch'
  BY <1>2, <1>3, <1>4, <1>5, <1>6, <1>7, CalmBefore DEF BranchInv, FreshBranch, Fresh
<1>10. FlagInv'
  <2>1. \A n \in done : Closes(n) => n <= CoreBranch
    BY <1>5 DEF Fresh, UpTo, Closes, BranchType
  <2>2. \A n \in done : n \in Int
    BY DEF TypeOK
  <2>3. CoreBranch \in Int
    BY <1>5, LatestGrows DEF Fresh, Known
  <2>4. \A n : Closes(n)' <=> Closes(n)
    BY <1>2, <1>7 DEF Closes
  <2>5. \A n \in done : Closes(n) => q.got.price >= n
    BY <1>4, <2>1, <2>2, <2>3
  <2> QED
    BY <1>2, <1>3, <2>4, <2>5 DEF BranchInv, FlagInv, Grows
<1> QED
  BY <1>8, <1>9, <1>10 DEF BranchInv

\* What core answered is stored.
LEMMA StoreBranch ==
  ASSUME TypeOK, TypeOK', Grows, Apart("branch"), BranchInv,
         NEW r \in reading, r.key = "branch", Store(r)
  PROVE  BranchInv'
<1>1. /\ r \in Answered("branch") /\ branch' = r.got.price
      /\ UNCHANGED <<rejecting, handling, log, done>> /\ reading' = reading \ {r}
  BY DEF Store, Answered, historyVars, brokerVars
<1>2. /\ SameDone(BranchType) /\ Working("branch")' = Working("branch")
      /\ Answered("branch")' \subseteq Answered("branch")
  BY <1>1 DEF SameDone, Working, Answered
<1>3. \A v : UpTo(v, BranchType)' <=> UpTo(v, BranchType)
  BY <1>2, UpToStays
<1>4. KnownBranch'
  BY <1>1, <1>2, KnownStays DEF BranchInv, KnownBranch
<1>5. FreshBranch'
  BY <1>1, <1>2, <1>3, CalmBefore DEF BranchInv, FreshBranch, Apart
<1>6. FlagInv'
  <2>1. \A n : Closes(n)' <=> Closes(n)
    BY <1>1, <1>3 DEF Closes
  <2> QED
    BY <1>1, <1>2, <2>1 DEF BranchInv, FlagInv, Grows
<1> QED
  BY <1>4, <1>5, <1>6 DEF BranchInv

-----------------------------------------------------------------------------
(* The steps, as the caches see them.                                      *)

\* Nothing begins, goes on, is answered or is done about any entry,
Quiet ==
  /\ done' = done /\ told' = told
  /\ \A h \in handling' : h \in handling \/ h.pc = "received"
  /\ \A r \in reading' : r \in reading \/ r.pc = "fetch"

\* and what is kept stays or is lost.
Loses ==
  /\ product' \in {product, Empty}
  /\ branch' \in {branch, Undefined}
  /\ \A p \in Process : permissions'[p] \in {permissions[p], Undefined}

\* Every other step is one of a handler or a read.
LEMMA StepKinds ==
  ASSUME TypeOK, [Next]_vars
  PROVE  \/ Quiet /\ Loses /\ (rejecting' = rejecting \/ ExpireFlag)
         \/ \E h \in handling :
              \/ BeginWork(h) \/ GetProduct(h) \/ SetProduct(h) \/ DeleteBranch(h)
              \/ SetRejectFlag(h) \/ HandleOther(h)
              \/ \E p \in Process : InvalidatePermissions(h, p)
         \/ \E r \in reading : Fetch(r) \/ Store(r)
<1> DEFINE Kept == Quiet /\ Loses /\ (rejecting' = rejecting \/ ExpireFlag)
<1>1. Quiet /\ UNCHANGED cacheVars => Kept
  BY DEF Loses, cacheVars
<1>2. CASE BrokerNext
  BY <1>1, <1>2
     DEF BrokerNext, Publish, Redeliver, Replay, Deliver, historyVars, Quiet
<1>3. ASSUME NEW h \in handling, SkipDuplicate(h) \/ HandlerFails(h) \/ ProcessDies(h)
      PROVE  Kept
  BY <1>1, <1>3 DEF SkipDuplicate, HandlerFails, ProcessDies, historyVars, Quiet
<1>4. ASSUME NEW r \in reading, ReadFails(r) PROVE Kept
  BY <1>1, <1>4 DEF ReadFails, historyVars, Quiet
<1>5. ASSUME NEW k \in Key, NEW p \in Server, Miss(k, p) PROVE Kept
  BY <1>1, <1>5 DEF Miss, historyVars, Quiet
<1>6. CASE Expire
  <2>1. Quiet
    BY <1>6 DEF Expire, ExpireProduct, ExpireBranch, ExpireFlag, ExpirePermissions, ExpireDedupe,
                historyVars, Quiet
  <2>2. CASE ExpireProduct \/ ExpireBranch \/ ExpireFlag \/ \E e \in deduped : ExpireDedupe(e)
    BY <2>1, <2>2
       DEF ExpireProduct, ExpireBranch, ExpireFlag, ExpireDedupe, cacheVars, Loses
  <2>3. ASSUME NEW q \in Process, ExpirePermissions(q) PROVE Kept
    <3>1. UNCHANGED <<product, branch, rejecting>>
      BY <2>3 DEF ExpirePermissions
    <3>2. \A p \in Process : permissions'[p] \in {permissions[p], Undefined}
      BY <2>3 DEF ExpirePermissions, TypeOK
    <3> QED
      BY <2>1, <3>1, <3>2 DEF Loses
  <2> QED
    BY <1>6, <2>2, <2>3 DEF Expire
<1>7. CASE UNCHANGED vars
  BY <1>1, <1>7 DEF vars, historyVars, Quiet
<1> QED
  BY <1>2, <1>3, <1>4, <1>5, <1>6, <1>7 DEF Next, HandlerStep, ReadNext

\* A quiet step is aside for every entry.
LEMMA QuietAside ==
  ASSUME TypeOK, Grows, Quiet, NEW key
  PROVE  Aside(key)
BY QuietIsAside DEF Quiet

\* A handler that is not about an entry steps aside for it.
LEMMA OthersAside ==
  ASSUME TypeOK, NEW h \in handling, NEW key \in Key, KeyOf(log[h.event]) # key,
         \/ BeginWork(h) \/ GetProduct(h) \/ SetProduct(h) \/ DeleteBranch(h)
         \/ SetRejectFlag(h) \/ HandleOther(h)
         \/ \E p \in Process : InvalidatePermissions(h, p)
  PROVE  Aside(key)
BY BeginWorkEffect, GoOnEffect, AckEffect

\* What the handlers are about.
LEMMA WhoHandles ==
  ASSUME NEW h \in handling
  PROVE  /\ GetProduct(h) \/ SetProduct(h) => KeyOf(log[h.event]) = "product"
         /\ DeleteBranch(h) \/ SetRejectFlag(h) => KeyOf(log[h.event]) = "branch"
         /\ \A p \in Process : InvalidatePermissions(h, p) => KeyOf(log[h.event]) = "permissions"
         /\ HandleOther(h) => KeyOf(log[h.event]) = "none"
BY DEF GetProduct, SetProduct, DeleteBranch, SetRejectFlag, InvalidatePermissions, HandleOther,
       KeyOf, ProductType, BranchType

-----------------------------------------------------------------------------
(* Every step keeps what is said of the branch.                            *)

\* A step aside that leaves the branch or loses it.
LEMMA AsideBranch ==
  ASSUME TypeOK, TypeOK', Grows, BranchInv, Aside("branch"),
         branch' \in {branch, Undefined}, rejecting' = rejecting
  PROVE  BranchInv'
<1>1. SameDone(BranchType)
  BY DoneStays, TypesOfKeys
<1> QED
  BY <1>1, BranchKept DEF Aside

\* A handler at work on it.
LEMMA HandlerBranch ==
  ASSUME TypeOK, TypeOK', Grows, InOrder("branch"), Apart("branch"), BranchInv, NEW h \in handling,
         \/ BeginWork(h) \/ GetProduct(h) \/ SetProduct(h) \/ DeleteBranch(h)
         \/ SetRejectFlag(h) \/ HandleOther(h)
         \/ \E p \in Process : InvalidatePermissions(h, p)
  PROVE  BranchInv'
<1> "branch" \in Key
  BY DEF Key
<1>1. CASE SetRejectFlag(h)
  BY <1>1, SetRejectFlagBranch
<1>2. CASE DeleteBranch(h)
  <2>1. branch' = Undefined /\ rejecting' = rejecting /\ done' = done /\ reading' = reading
    BY <1>2 DEF DeleteBranch, historyVars
  <2>2. SameDone(BranchType)
    BY <2>1, DoneStays, TypesOfKeys
  <2>3. Answered("branch")' = Answered("branch")
    BY <2>1 DEF Answered
  <2> QED
    BY <2>1, <2>2, <2>3, BranchKept
<1>3. CASE BeginWork(h)
  <2>1. branch' = branch /\ rejecting' = rejecting
    BY <1>3 DEF BeginWork, cacheVars
  <2>2. CASE Begins("branch", h.event)
    <3>1. SameDone(BranchType)
      BY <2>2, DoneStays, TypesOfKeys DEF Begins
    <3>2. \A k \in Working("branch")' : k.pc = "write" => k \in Working("branch")
      BY <2>2 DEF Begins
    <3> QED
      BY <2>1, <2>2, <3>1, <3>2, BranchKept DEF Begins
  <2> QED
    BY <1>3, <2>1, <2>2, BeginWorkEffect, AsideBranch
<1>4. CASE GetProduct(h) \/ SetProduct(h) \/ HandleOther(h)
           \/ \E p \in Process : InvalidatePermissions(h, p)
  <2>1. branch' = branch /\ rejecting' = rejecting
    BY <1>4 DEF GetProduct, SetProduct, HandleOther, InvalidatePermissions, cacheVars
  <2>2. KeyOf(log[h.event]) # "branch"
    BY <1>4, WhoHandles
  <2> QED
    BY <1>4, <2>1, <2>2, OthersAside, AsideBranch
<1> QED
  BY <1>1, <1>2, <1>3, <1>4

\* Every step.
LEMMA StepBranch ==
  ASSUME TypeOK, TypeOK', TrafficInv, BranchInv, [Next]_vars
  PROVE  BranchInv'
<1>1. Grows /\ "branch" \in Key /\ InOrder("branch") /\ Apart("branch")
  BY StepGrows DEF TrafficInv, Key
<1>2. CASE Quiet /\ Loses /\ (rejecting' = rejecting \/ ExpireFlag)
  BY <1>1, <1>2, QuietAside, AsideBranch, ExpireFlagBranch DEF Loses
<1>3. ASSUME NEW h \in handling,
             \/ BeginWork(h) \/ GetProduct(h) \/ SetProduct(h) \/ DeleteBranch(h)
             \/ SetRejectFlag(h) \/ HandleOther(h)
             \/ \E p \in Process : InvalidatePermissions(h, p)
      PROVE  BranchInv'
  BY <1>1, <1>3, HandlerBranch
<1>4. ASSUME NEW r \in reading, Fetch(r) PROVE BranchInv'
  <2>1. CASE r.key = "branch"
    BY <1>1, <1>4, <2>1, FetchBranch
  <2>2. CASE r.key # "branch"
    BY <1>1, <1>4, <2>2, FetchEffect, AsideBranch DEF Fetch, cacheVars
  <2> QED
    BY <2>1, <2>2
<1>5. ASSUME NEW r \in reading, Store(r) PROVE BranchInv'
  <2>1. CASE r.key = "branch"
    BY <1>1, <1>5, <2>1, StoreBranch
  <2>2. CASE r.key # "branch"
    <3>1. Quiet /\ branch' = branch /\ rejecting' = rejecting
      BY <1>5, <2>2 DEF Store, Quiet, historyVars
    <3> QED
      BY <1>1, <3>1, QuietAside, AsideBranch
  <2> QED
    BY <2>1, <2>2
<1> QED
  BY <1>2, <1>3, <1>4, <1>5, StepKinds

-----------------------------------------------------------------------------
(* The product.                                                            *)

Price == {"product.price.changed"}
Stock == {"product.stock.changed"}

\* A row of the product has the price and the stock of what is done, or newer.
FreshEntry(e) == e.name => Fresh(e.price, Price) /\ Fresh(e.stock, Stock)

\* Unless something overlapped, so is the entry that is kept, about to be kept,
\* or about to be written back.
ProductInv ==
  Calm("product") =>
    /\ FreshEntry(product)
    /\ \A r \in Answered("product") : FreshEntry(r.got)
    /\ \A h \in Working("product") : h.pc = "write" => FreshEntry(h.seen)

\* An entry stays fresh while no event of the product is done.
LEMMA FreshStays ==
  ASSUME TypeOK, TypeOK', Grows, NEW types, SameDone(types), NEW v, Fresh(v, types)
  PROVE  Fresh(v, types)'
BY KnownStays, UpToStays DEF Fresh

\* A step that leaves the entry or loses it.
LEMMA ProductKept ==
  ASSUME TypeOK, TypeOK', Grows, ProductInv, Aside("product") \/ done' = done,
         Answered("product")' \subseteq Answered("product"), product' \in {product, Empty},
         \A h \in Working("product")' :
           h.pc = "write" => h \in Working("product") \/ h.seen = product
  PROVE  ProductInv'
<1>1. SameDone(Price) /\ SameDone(Stock)
  BY DoneStays, TypesOfKeys DEF Price, Stock
<1>2. \A e : FreshEntry(e) => FreshEntry(e)'
  BY <1>1, FreshStays DEF FreshEntry
<1>3. FreshEntry(Empty)'
  BY DEF FreshEntry, Empty
<1> SUFFICES ASSUME Calm("product")'
             PROVE  /\ FreshEntry(product)'
                    /\ \A r \in Answered("product")' : FreshEntry(r.got)'
                    /\ \A h \in Working("product")' : h.pc = "write" => FreshEntry(h.seen)'
  BY DEF ProductInv
<1>4. /\ FreshEntry(product)
      /\ \A r \in Answered("product") : FreshEntry(r.got)
      /\ \A h \in Working("product") : h.pc = "write" => FreshEntry(h.seen)
  BY CalmBefore DEF ProductInv
<1>5. FreshEntry(product)'
  <2>1. CASE product' = product
    BY <1>2, <1>4, <2>1 DEF FreshEntry
  <2>2. CASE product' = Empty
    BY <2>2 DEF FreshEntry, Empty
  <2> QED
    BY <2>1, <2>2
<1>6. \A r \in Answered("product")' : FreshEntry(r.got)'
  BY <1>2, <1>4
<1>7. \A h \in Working("product")' : h.pc = "write" => FreshEntry(h.seen)'
  BY <1>2, <1>4
<1> QED
  BY <1>5, <1>6, <1>7

\* The second half of an event of the product: what was read in the first half
\* is still as fresh as it was, and the event is the latest that is done.
LEMMA SetProductProduct ==
  ASSUME TypeOK, TypeOK', Grows, InOrder("product"), Apart("product"), ProductInv,
         NEW h \in handling, SetProduct(h)
  PROVE  ProductInv'
<1> DEFINE e == h.event
<1>1. /\ h.pc = "write" /\ log[e] \in ProductType /\ log' = log /\ e \in DOMAIN log
      /\ done' = done \cup {e} /\ reading' = reading /\ overlapped' = overlapped
      /\ handling' = handling \ {h}
  BY DEF SetProduct, Ack, brokerVars, TypeOK
<1>2. /\ h \in Working("product") /\ Working("product")' = Working("product") \ {h}
      /\ Answered("product")' = Answered("product")
  <2>1. KeyOf(log[e]) = "product"
    BY <1>1, WhoHandles
  <2> QED
    BY <1>1, <2>1 DEF Working, Answered
<1> SUFFICES ASSUME Calm("product")'
             PROVE  /\ FreshEntry(product)'
                    /\ Answered("product")' = {} /\ Working("product")' = {}
  BY DEF ProductInv
<1>3. Calm("product") /\ <<"product", "event">> \notin overlapped
      /\ <<"product", "read">> \notin overlapped
  BY CalmBefore
<1>4. Answered("product")' = {} /\ Working("product")' = {} /\ FreshEntry(h.seen)
  BY <1>1, <1>2, <1>3 DEF Apart, InOrder, ProductInv
<1>5. \A n \in done' : n \in Nat /\ (log[n] \in ProductType => n <= e)
  <2>1. \A n \in done' : n \in Nat
    BY WorkIsOnEvents
  <2>2. \A n \in done : log[n] \in ProductType => n <= e
    <3>1. \A n \in done : log[n] \in ProductType => KeyOf(log[n]) = "product"
      BY DEF KeyOf, ProductType, BranchType
    <3> QED
      BY <1>2, <1>3, <3>1 DEF InOrder
  <2>3. e <= e
    BY <1>1, <2>1
  <2> QED
    BY <1>1, <2>1, <2>2, <2>3
<1>6. \A types : types \subseteq ProductType /\ log[e] \in types => Fresh(e, types)'
  <2> SUFFICES ASSUME NEW types, types \subseteq ProductType, log[e] \in types
               PROVE  Fresh(e, types)'
    OBVIOUS
  <2>1. UpTo(e, types)'
    BY <1>1, <1>5 DEF UpTo
  <2>2. Latest(types)' \in Nat /\ e <= Latest(types)' /\ e \in Nat
    <3>1. LatestFacts' /\ e \in Nat /\ e \in DOMAIN log'
      BY <1>1, LatestIsLatestNext, WorkIsOnEvents
    <3>2. Latest(types)' \in Nat
      BY LatestGrows
    <3> QED
      BY <1>1, <3>1, <3>2 DEF LatestFacts
  <2>3. Known(e, types)'
    <3> HIDE DEF e
    <3> QED
      BY <2>2 DEF Known
  <2> QED
    BY <2>1, <2>3 DEF Fresh
<1>7. \A types : log[e] \notin types => SameDone(types)
  BY <1>1 DEF SameDone
<1>8. h.seen \in ProductEntry
  BY DEF TypeOK, Handler
<1>9. FreshEntry(product)'
  <2>1. CASE log[e] = "product.price.changed"
    <3>1. product' = [h.seen EXCEPT !.price = e]
      BY <2>1 DEF SetProduct
    <3>2. product'.name = h.seen.name /\ product'.price = e /\ product'.stock = h.seen.stock
      BY <1>8, <3>1 DEF ProductEntry
    <3>3. Fresh(e, Price)'
      BY <1>6, <2>1 DEF Price, ProductType
    <3>4. h.seen.name => Fresh(h.seen.stock, Stock)'
      BY <1>4, <1>7, <2>1, FreshStays DEF FreshEntry, Stock
    <3> QED
      BY <3>2, <3>3, <3>4 DEF FreshEntry
  <2>2. CASE log[e] = "product.stock.changed"
    <3>1. product' = [h.seen EXCEPT !.stock = e]
      BY <2>2 DEF SetProduct
    <3>2. product'.name = h.seen.name /\ product'.stock = e /\ product'.price = h.seen.price
      BY <1>8, <3>1 DEF ProductEntry
    <3>3. Fresh(e, Stock)'
      BY <1>6, <2>2 DEF Stock, ProductType
    <3>4. h.seen.name => Fresh(h.seen.price, Price)'
      BY <1>4, <1>7, <2>2, FreshStays DEF FreshEntry, Price
    <3> QED
      BY <3>2, <3>3, <3>4 DEF FreshEntry
  <2> QED
    BY <1>1, <2>1, <2>2 DEF ProductType
<1> QED
  BY <1>4, <1>9

\* Core answers with its product.
LEMMA FetchProduct ==
  ASSUME TypeOK, TypeOK', Grows, ProductInv, NEW r \in reading, r.key = "product", Fetch(r)
  PROVE  ProductInv'
<1>1. UNCHANGED <<product, handling, log, done>>
  BY DEF Fetch, cacheVars, historyVars, brokerVars
<1>2. PICK q : q.got = CoreProduct /\ Answered("product")' \subseteq Answered("product") \cup {q}
  BY FetchEffect DEF Answers, Key
<1>3. Working("product")' = Working("product") /\ SameDone(Price) /\ SameDone(Stock)
  BY <1>1 DEF Working, SameDone
<1>4. \A e : FreshEntry(e) => FreshEntry(e)'
  BY <1>3, FreshStays DEF FreshEntry
<1>5. FreshEntry(q.got)
  BY <1>2, LatestIsFresh DEF FreshEntry, CoreProduct, Price, Stock
<1>6. FreshEntry(product) => FreshEntry(product)'
  BY <1>1, <1>4 DEF FreshEntry
<1> QED
  BY <1>2, <1>3, <1>4, <1>5, <1>6, CalmBefore DEF ProductInv

\* What core answered is stored.
LEMMA StoreProduct ==
  ASSUME TypeOK, TypeOK', Grows, ProductInv, NEW r \in reading, r.key = "product", Store(r)
  PROVE  ProductInv'
<1>1. /\ r \in Answered("product") /\ product' = r.got /\ UNCHANGED <<handling, log, done>>
      /\ reading' = reading \ {r}
  BY DEF Store, Answered, historyVars, brokerVars
<1>2. /\ Answered("product")' \subseteq Answered("product")
      /\ Working("product")' = Working("product") /\ SameDone(Price) /\ SameDone(Stock)
  BY <1>1 DEF Working, Answered, SameDone
<1>3. \A e : FreshEntry(e) => FreshEntry(e)'
  BY <1>2, FreshStays DEF FreshEntry
<1>4. FreshEntry(r.got) => FreshEntry(product)'
  BY <1>1, <1>3 DEF FreshEntry
<1> QED
  BY <1>1, <1>2, <1>3, <1>4, CalmBefore DEF ProductInv

\* A step aside that leaves the entry or loses it.
LEMMA AsideProduct ==
  ASSUME TypeOK, TypeOK', Grows, ProductInv, Aside("product"), product' \in {product, Empty}
  PROVE  ProductInv'
BY ProductKept DEF Aside

\* A handler at work on it.
LEMMA HandlerProduct ==
  ASSUME TypeOK, TypeOK', Grows, InOrder("product"), Apart("product"), ProductInv,
         NEW h \in handling,
         \/ BeginWork(h) \/ GetProduct(h) \/ SetProduct(h) \/ DeleteBranch(h)
         \/ SetRejectFlag(h) \/ HandleOther(h)
         \/ \E p \in Process : InvalidatePermissions(h, p)
  PROVE  ProductInv'
<1> "product" \in Key
  BY DEF Key
<1>1. CASE SetProduct(h)
  BY <1>1, SetProductProduct
<1>2. CASE GetProduct(h)
  <2>1. product' = product
    BY <1>2 DEF GetProduct, cacheVars
  <2>2. Moves("product", h, product)
    BY <1>2, GoOnEffect, WhoHandles
  <2> QED
    BY <2>1, <2>2, ProductKept DEF Moves
<1>3. CASE BeginWork(h)
  <2>1. product' = product
    BY <1>3 DEF BeginWork, cacheVars
  <2>2. CASE Begins("product", h.event)
    <3>1. \A k \in Working("product")' : k.pc = "write" => k \in Working("product")
      BY <2>2 DEF Begins
    <3> QED
      BY <2>1, <2>2, <3>1, ProductKept DEF Begins
  <2> QED
    BY <1>3, <2>1, <2>2, BeginWorkEffect, AsideProduct
<1>4. CASE DeleteBranch(h) \/ SetRejectFlag(h) \/ HandleOther(h)
           \/ \E p \in Process : InvalidatePermissions(h, p)
  <2>1. product' = product
    BY <1>4 DEF DeleteBranch, SetRejectFlag, HandleOther, InvalidatePermissions, cacheVars
  <2>2. KeyOf(log[h.event]) # "product"
    BY <1>4, WhoHandles
  <2> QED
    BY <1>4, <2>1, <2>2, OthersAside, AsideProduct
<1> QED
  BY <1>1, <1>2, <1>3, <1>4

\* Every step.
LEMMA StepProduct ==
  ASSUME TypeOK, TypeOK', TrafficInv, ProductInv, [Next]_vars
  PROVE  ProductInv'
<1>1. Grows /\ "product" \in Key /\ InOrder("product") /\ Apart("product")
  BY StepGrows DEF TrafficInv, Key
<1>2. CASE Quiet /\ Loses
  BY <1>1, <1>2, QuietAside, AsideProduct DEF Loses
<1>3. ASSUME NEW h \in handling,
             \/ BeginWork(h) \/ GetProduct(h) \/ SetProduct(h) \/ DeleteBranch(h)
             \/ SetRejectFlag(h) \/ HandleOther(h)
             \/ \E p \in Process : InvalidatePermissions(h, p)
      PROVE  ProductInv'
  BY <1>1, <1>3, HandlerProduct
<1>4. ASSUME NEW r \in reading, Fetch(r) PROVE ProductInv'
  <2>1. CASE r.key = "product"
    BY <1>1, <1>4, <2>1, FetchProduct
  <2>2. CASE r.key # "product"
    BY <1>1, <1>4, <2>2, FetchEffect, AsideProduct DEF Fetch, cacheVars
  <2> QED
    BY <2>1, <2>2
<1>5. ASSUME NEW r \in reading, Store(r) PROVE ProductInv'
  <2>1. CASE r.key = "product"
    BY <1>1, <1>5, <2>1, StoreProduct
  <2>2. CASE r.key # "product"
    <3>1. Quiet /\ product' = product
      BY <1>5, <2>2 DEF Store, Quiet, historyVars
    <3> QED
      BY <1>1, <3>1, QuietAside, AsideProduct
  <2> QED
    BY <2>1, <2>2
<1> QED
  BY <1>2, <1>3, <1>4, <1>5, StepKinds

-----------------------------------------------------------------------------
(* The permissions.                                                        *)

\* A process is told of changes that core has made.  Unless something
\* overlapped, what it keeps or is about to keep is not older than those.
PermissionsInv ==
  /\ \A p \in Process : told[p] <= CorePermissions
  /\ Calm("permissions") =>
       /\ \A p \in Process : permissions[p] # Undefined => permissions[p] >= told[p]
       /\ \A r \in Answered("permissions") : r.got.price >= told[r.process]

\* The last change there is only grows newer.
LEMMA ToldStays ==
  ASSUME TypeOK, TypeOK', Grows, NEW p \in Process, told[p] <= CorePermissions, told' = told
  PROVE  told'[p] <= CorePermissions'
<1>1. told[p] \in Nat
  BY DEF TypeOK
<1> QED
  BY <1>1, LatestGrows DEF CorePermissions

\* A step that tells nobody, and leaves the permissions or loses them.
LEMMA PermissionsKept ==
  ASSUME TypeOK, TypeOK', Grows, PermissionsInv, told' = told,
         Answered("permissions")' \subseteq Answered("permissions"),
         \A p \in Process : permissions'[p] \in {permissions[p], Undefined}
  PROVE  PermissionsInv'
<1>1. \A p \in Process : told'[p] <= CorePermissions'
  BY ToldStays DEF PermissionsInv
<1>2. ASSUME Calm("permissions")'
      PROVE  /\ \A p \in Process : permissions'[p] # Undefined => permissions'[p] >= told'[p]
             /\ \A r \in Answered("permissions")' : r.got.price >= told'[r.process]
  BY <1>2, CalmBefore DEF PermissionsInv
<1> QED
  BY <1>1, <1>2 DEF PermissionsInv

\* A process is told, and forgets what it has; no read is on its way to it.
LEMMA InvalidateForgets ==
  ASSUME TypeOK, TypeOK', Grows, Apart("permissions"), PermissionsInv,
         NEW h \in handling, NEW p \in Process, InvalidatePermissions(h, p)
  PROVE  PermissionsInv'
<1>1. /\ h.pc = "work" /\ log[h.event] = "rbac.permissions_changed" /\ log' = log
      /\ permissions' = [permissions EXCEPT ![p] = Undefined] /\ reading' = reading
      /\ told' = [told EXCEPT ![p] = h.event] /\ h.event \in DOMAIN log
  BY DEF InvalidatePermissions, Ack, brokerVars, TypeOK
<1>2. told \in [Process -> 0 .. MaxEvents] /\ permissions \in [Process -> Value]
  BY DEF TypeOK
<1>3. h.event <= CorePermissions /\ CorePermissions' = CorePermissions
  <2>1. \A n \in DOMAIN log : log[n] \in {"rbac.permissions_changed"} => n <= CorePermissions
    BY LatestIsLatest DEF LatestFacts, CorePermissions
  <2> QED
    BY <1>1, <2>1 DEF CorePermissions, Latest
<1>4. \A q \in Process : told'[q] <= CorePermissions'
  BY <1>1, <1>2, <1>3 DEF PermissionsInv
<1>5. ASSUME Calm("permissions")'
      PROVE  Answered("permissions")' = {}
  <2>1. h \in Working("permissions")
    BY <1>1, WhoHandles DEF Working
  <2>2. Answered("permissions")' = Answered("permissions")
    BY <1>1 DEF Answered
  <2> QED
    BY <1>5, <2>1, <2>2, CalmBefore DEF Apart
<1>6. ASSUME Calm("permissions")', NEW q \in Process, permissions'[q] # Undefined
      PROVE  permissions'[q] >= told'[q]
  <2>1. q # p /\ permissions'[q] = permissions[q] /\ told'[q] = told[q]
    BY <1>1, <1>2, <1>6
  <2> QED
    BY <1>6, <2>1, CalmBefore DEF PermissionsInv
<1> QED
  BY <1>4, <1>5, <1>6 DEF PermissionsInv

\* Core answers with the permissions of the last change.
LEMMA FetchPermissions ==
  ASSUME TypeOK, TypeOK', Grows, PermissionsInv,
         NEW r \in reading, r.key = "permissions", Fetch(r)
  PROVE  PermissionsInv'
<1>1. UNCHANGED <<permissions, told, log>>
  BY DEF Fetch, cacheVars, historyVars, brokerVars
<1>2. PICK q : /\ q.got = [Empty EXCEPT !.price = CorePermissions] /\ q.process = r.process
               /\ Answered("permissions")' \subseteq Answered("permissions") \cup {q}
  BY FetchEffect DEF Answers, Key
<1>3. q.got.price = CorePermissions /\ r.process \in Process
  BY <1>2, ServerAssumption DEF Empty, TypeOK, Reader
<1>4. CorePermissions \in Int /\ told[r.process] \in Int
  BY <1>3, LatestGrows DEF CorePermissions, TypeOK
<1>5. q.got.price >= told[q.process]
  BY <1>2, <1>3, <1>4 DEF PermissionsInv
<1>6. \A p \in Process : told'[p] <= CorePermissions'
  BY <1>1, ToldStays DEF PermissionsInv
<1>7. ASSUME Calm("permissions")'
      PROVE  /\ \A p \in Process : permissions'[p] # Undefined => permissions'[p] >= told'[p]
             /\ \A a \in Answered("permissions")' : a.got.price >= told'[a.process]
  BY <1>1, <1>2, <1>5, <1>7, CalmBefore DEF PermissionsInv
<1> QED
  BY <1>6, <1>7 DEF PermissionsInv

\* What core answered is stored in the Map of the process that asked.
LEMMA StorePermissions ==
  ASSUME TypeOK, TypeOK', Grows, PermissionsInv,
         NEW r \in reading, r.key = "permissions", Store(r)
  PROVE  PermissionsInv'
<1>1. /\ r \in Answered("permissions") /\ UNCHANGED <<told, log>> /\ reading' = reading \ {r}
      /\ permissions' = [permissions EXCEPT ![r.process] = r.got.price]
  BY DEF Store, Answered, historyVars, brokerVars
<1>2. Answered("permissions")' \subseteq Answered("permissions")
  BY <1>1 DEF Answered
<1>3. permissions \in [Process -> Value]
  BY DEF TypeOK
<1>4. \A p \in Process : told'[p] <= CorePermissions'
  BY <1>1, ToldStays DEF PermissionsInv
<1>5. ASSUME Calm("permissions")'
      PROVE  /\ \A p \in Process : permissions'[p] # Undefined => permissions'[p] >= told'[p]
             /\ \A a \in Answered("permissions")' : a.got.price >= told'[a.process]
  BY <1>1, <1>2, <1>3, <1>5, CalmBefore DEF PermissionsInv
<1> QED
  BY <1>4, <1>5 DEF PermissionsInv

\* Every step.
LEMMA StepPermissions ==
  ASSUME TypeOK, TypeOK', TrafficInv, PermissionsInv, [Next]_vars
  PROVE  PermissionsInv'
<1>1. Grows /\ "permissions" \in Key /\ Apart("permissions")
  BY StepGrows DEF TrafficInv, Key
<1>2. CASE Quiet /\ Loses
  BY <1>1, <1>2, QuietAside, PermissionsKept DEF Loses, Quiet, Aside
<1>3. ASSUME NEW h \in handling,
             \/ BeginWork(h) \/ GetProduct(h) \/ SetProduct(h) \/ DeleteBranch(h)
             \/ SetRejectFlag(h) \/ HandleOther(h)
      PROVE  PermissionsInv'
  <2>1. told' = told /\ permissions' = permissions /\ reading' = reading
    BY <1>3 DEF BeginWork, GetProduct, SetProduct, DeleteBranch, SetRejectFlag, HandleOther, Ack,
                historyVars, cacheVars
  <2>2. Answered("permissions")' = Answered("permissions")
    BY <2>1 DEF Answered
  <2> QED
    BY <1>1, <2>1, <2>2, PermissionsKept
<1>4. ASSUME NEW h \in handling, NEW p \in Process, InvalidatePermissions(h, p)
      PROVE  PermissionsInv'
  BY <1>1, <1>4, InvalidateForgets
<1>5. ASSUME NEW r \in reading, Fetch(r) PROVE PermissionsInv'
  <2>1. CASE r.key = "permissions"
    BY <1>1, <1>5, <2>1, FetchPermissions
  <2>2. CASE r.key # "permissions"
    BY <1>1, <1>5, <2>2, FetchEffect, PermissionsKept DEF Fetch, cacheVars, historyVars, Aside
  <2> QED
    BY <2>1, <2>2
<1>6. ASSUME NEW r \in reading, Store(r) PROVE PermissionsInv'
  <2>1. CASE r.key = "permissions"
    BY <1>1, <1>6, <2>1, StorePermissions
  <2>2. CASE r.key # "permissions"
    <3>1. Quiet /\ permissions' = permissions
      BY <1>6, <2>2 DEF Store, Quiet, historyVars
    <3> QED
      BY <1>1, <3>1, QuietAside, PermissionsKept DEF Quiet, Aside
  <2> QED
    BY <2>1, <2>2
<1> QED
  BY <1>2, <1>3, <1>4, <1>5, <1>6, StepKinds

-----------------------------------------------------------------------------
(* All of it together.                                                     *)

CacheInv == TrafficInv /\ BranchInv /\ ProductInv /\ PermissionsInv

\* Nothing is kept and nobody is at work in the beginning.
LEMMA InitCache == Init => CacheInv
<1> SUFFICES ASSUME Init PROVE CacheInv
  OBVIOUS
<1>1. \A key : Working(key) = {} /\ Answered(key) = {}
  BY DEF Init, Working, Answered
<1>2. TrafficInv
  BY <1>1 DEF TrafficInv, InOrder, Apart
<1>3. branch = Undefined /\ rejecting = FALSE /\ done = {}
  BY DEF Init
<1>4. BranchInv
  BY <1>1, <1>3 DEF BranchInv, KnownBranch, FlagInv, FreshBranch
<1>5. ProductInv
  BY <1>1 DEF Init, ProductInv, FreshEntry, Empty
<1>6. PermissionsInv
  <2>1. TypeOK
    BY InitCore DEF CoreInv
  <2>2. CorePermissions \in Nat
    <3>1. Latest({"rbac.permissions_changed"}) \in 0 .. Len(log) /\ Len(log) \in Nat
      BY <2>1, LatestIsLatest DEF LatestFacts, TypeOK
    <3> QED
      BY <3>1 DEF CorePermissions
  <2>3. \A p \in Process : told[p] = 0 /\ permissions[p] = Undefined
    BY DEF Init
  <2> QED
    BY <1>1, <2>2, <2>3 DEF PermissionsInv
<1> QED
  BY <1>2, <1>4, <1>5, <1>6 DEF CacheInv

\* Every step keeps all of it.
LEMMA NextCache == CoreInv /\ CacheInv /\ [Next]_vars => CoreInv' /\ CacheInv'
<1> SUFFICES ASSUME CoreInv, CacheInv, [Next]_vars PROVE CoreInv' /\ CacheInv'
  OBVIOUS
<1>1. CoreInv' /\ TypeOK /\ TypeOK'
  BY NextCore DEF CoreInv
<1> QED
  BY <1>1, StepTraffic, StepBranch, StepProduct, StepPermissions DEF CacheInv

\* When every event is done, what is fresh is what core says.
LEMMA FreshIsLatest ==
  ASSUME TypeOK, DOMAIN log \subseteq done, NEW types, NEW v, Fresh(v, types)
  PROVE  v = Latest(types)
<1>1. /\ Latest(types) \in Nat
      /\ Latest(types) > 0 => Latest(types) \in DOMAIN log /\ log[Latest(types)] \in types
  <2>1. Len(log) \in Nat /\ LatestFacts
    BY LatestIsLatest DEF TypeOK
  <2> QED
    BY <2>1 DEF LatestFacts
<1>2. v \in Nat /\ v <= Latest(types)
  BY <1>1 DEF Fresh, Known
<1>3. Latest(types) > 0 => Latest(types) <= v
  BY <1>1 DEF Fresh, UpTo
<1> QED
  BY <1>1, <1>2, <1>3

\* Once things have settled, every event is done.
LEMMA SettledIsDone ==
  ASSUME CoreInv, Settled
  PROVE  DOMAIN log \subseteq done
BY DEF CoreInv, NoEventVanishes, InHand, Settled

\* A closed branch: its flag is up, or what is kept of it is not older.
LEMMA ClosedBranch == CoreInv /\ CacheInv => ClosedBranchTakesNoOrders
<1> SUFFICES ASSUME CoreInv, CacheInv, Settled, ~BranchOpen, <<"branch", "event">> \notin overlapped,
                    ~rejecting, branch # Undefined
             PROVE  branch = CoreBranch
  BY DEF ClosedBranchTakesNoOrders
<1>1. TypeOK /\ DOMAIN log \subseteq done
  BY SettledIsDone DEF CoreInv
<1>2. /\ CoreBranch \in Nat /\ CoreBranch \in DOMAIN log /\ log[CoreBranch] \in BranchType
      /\ log[CoreBranch] # "branch.updated" /\ UpTo(CoreBranch, BranchType)
  <2>1. LatestFacts /\ Fresh(CoreBranch, BranchType) /\ Len(log) \in Nat
    BY <1>1, LatestIsLatest, LatestIsFresh DEF CoreBranch, TypeOK
  <2>2. CoreBranch > 0 /\ log[CoreBranch] # "branch.updated"
    BY DEF BranchOpen
  <2> QED
    BY <2>1, <2>2 DEF LatestFacts, CoreBranch, Fresh
<1>3. CoreBranch \in done /\ Closes(CoreBranch)
  BY <1>1, <1>2 DEF Closes, BranchType
<1>4. branch >= CoreBranch
  BY <1>3 DEF CacheInv, BranchInv, FlagInv
<1>5. branch \in Nat /\ branch <= CoreBranch
  BY <1>2 DEF CacheInv, BranchInv, KnownBranch, Known, CoreBranch
<1> QED
  BY <1>2, <1>4, <1>5

\* Every entry: it is as fresh as what is done, which is everything.
LEMMA SettledEntries == CoreInv /\ CacheInv => SettledCacheIsCurrent
<1> SUFFICES ASSUME CoreInv, CacheInv, Settled
             PROVE  /\ Calm("product") => ~StaleProduct
                    /\ Calm("branch") => ~StaleBranch
                    /\ Calm("permissions") =>
                         \A p \in Process : permissions[p] # Undefined => permissions[p] >= told[p]
  BY DEF SettledCacheIsCurrent, Calm
<1>1. TypeOK /\ DOMAIN log \subseteq done
  BY SettledIsDone DEF CoreInv
<1>2. ASSUME Calm("product"), product.name PROVE product = CoreProduct
  <2>1. product.price = Latest(Price) /\ product.stock = Latest(Stock)
    BY <1>1, <1>2, FreshIsLatest DEF CacheInv, ProductInv, FreshEntry
  <2>2. product \in [name : BOOLEAN, price : Value, stock : Value]
    BY <1>1 DEF TypeOK, ProductEntry
  <2>3. product = [name |-> TRUE, price |-> Latest(Price), stock |-> Latest(Stock)]
    BY <1>2, <2>1, <2>2
  <2> QED
    BY <2>3 DEF CoreProduct, Price, Stock
<1>3. ASSUME Calm("branch"), branch # Undefined PROVE branch = CoreBranch
  <2>1. Fresh(branch, BranchType)
    BY <1>3 DEF CacheInv, BranchInv, KnownBranch, FreshBranch, Fresh
  <2> QED
    BY <1>1, <2>1, FreshIsLatest DEF CoreBranch
<1>4. ASSUME Calm("branch"), rejecting PROVE ~BranchOpen
  <2>1. PICK n \in done : Closes(n)
    BY <1>4 DEF Calm, CacheInv, BranchInv, FlagInv
  <2>2. n \in DOMAIN log /\ n \in Nat /\ n > 0 /\ log[n] = "branch.deactivated"
        /\ UpTo(n, BranchType)
    BY <1>1, <2>1 DEF Closes, TypeOK
  <2>3. n <= Latest(BranchType)
    BY <1>1, <2>2, LatestIsLatest DEF LatestFacts, BranchType
  <2>4. Latest(BranchType) \in Nat
    BY <1>1, LatestIsLatest DEF LatestFacts, TypeOK
  <2>5. Known(n, BranchType)
    BY <2>2, <2>3, <2>4 DEF Known
  <2>6. n = CoreBranch
    BY <1>1, <2>2, <2>5, FreshIsLatest DEF Fresh, CoreBranch
  <2> QED
    BY <2>2, <2>6 DEF BranchOpen
<1> QED
  BY <1>2, <1>3, <1>4 DEF StaleProduct, StaleBranch, CacheInv, PermissionsInv

\* Once everything is handled and nothing was cut short, an order does not get
\* through to a branch that core has closed on what a late read has stored:
\* either branch:reject-new-orders is up or the entry kept says it is closed,
\* for every log of core, number of processes, reads, redeliveries and expiries.
THEOREM ClosedBranchesTakeNoOrders == Spec => []ClosedBranchTakesNoOrders
<1>1. Init => CoreInv /\ CacheInv
  BY InitCore, InitCache
<1> QED
  BY <1>1, NextCache, ClosedBranch, PTL DEF Spec

\* Once everything is handled and nothing was cut short, an entry nobody
\* overlapped on has core's price and stock, core's branch and no flag on an
\* open one, and permissions not older than the last change told to a process.
THEOREM SettledCachesAreCurrent == Spec => []SettledCacheIsCurrent
<1>1. Init => CoreInv /\ CacheInv
  BY InitCore, InitCache
<1> QED
  BY <1>1, NextCache, SettledEntries, PTL DEF Spec

=============================================================================

---------------------------- MODULE OutboxProofs ----------------------------
(***************************************************************************)
(* The outbox is an at-least-once channel, for every number of workers,    *)
(* rows and faults, and every size of the batch.                           *)
(*                                                                         *)
(* The invariant says what the row locks are for: a batch is a set of      *)
(* pending rows no other drain holds, so a publication that is not yet     *)
(* stamped belongs to one drain, and is either stamped when that drain     *)
(* commits or counted in redo when it rolls back.                          *)
(***************************************************************************)
EXTENDS Outbox, TLAPS

\* Locks: what a drain holds is pending, held by it alone, and given back.
Held ==
  \A w \in Worker :
    /\ drain[w].done \subseteq drain[w].batch
    /\ \A e \in drain[w].batch : rows[e] = "pending"
    /\ drain[w].pc = "idle" => drain[w].batch = {}
    /\ \A v \in Worker \ {w} : drain[w].batch \cap drain[v].batch = {}

\* What has been published is visible, and what is recorded has been published.
Accounted ==
  /\ \A e \in Event : published[e] > 0 => rows[e] \in {"pending", "dispatched"}
  /\ \A e \in Event : rows[e] = "dispatched" => published[e] > 0
  /\ \A w \in Worker : \A e \in Unrecorded(w) : published[e] > 0

\* A publication beyond those in redo is stamped or about to be.
Spare(e) == rows[e] = "dispatched" \/ \E w \in Worker : e \in Unrecorded(w)

Counted ==
  \A e \in Event : published[e] <= redo[e] + 1 /\ (~Spare(e) => published[e] <= redo[e])

OutboxInv == TypeOK /\ Held /\ Accounted /\ Counted

-----------------------------------------------------------------------------
\* A row the loop is at is one row: two current rows of a drain are the same.
LEMMA CurrentIsOne ==
  ASSUME TypeOK, NEW w \in Worker, NEW e \in Event, NEW f \in Event,
         Current(w, e), Current(w, f)
  PROVE  e = f
BY EventAssumption DEF Current, TypeOK, DrainState

\* An unrecorded row is one of the drain's batch.
LEMMA UnrecordedInBatch ==
  ASSUME TypeOK, Held, NEW w \in Worker
  PROVE  Unrecorded(w) \subseteq drain[w].batch
BY DEF Unrecorded, Current, Held

\* At first no event is inserted and no worker drains.
LEMMA InitOutbox == Init => OutboxInv
<1> SUFFICES ASSUME Init PROVE OutboxInv
  OBVIOUS
<1>1. TypeOK
  BY DEF Init, TypeOK, RowState, DrainState, IdleDrain
<1>2. \A w \in Worker : Unrecorded(w) = {}
  BY DEF Init, Unrecorded, IdleDrain, Current
<1>3. Held /\ Accounted /\ Counted
  BY <1>2 DEF Init, Held, Accounted, Counted, Spare, IdleDrain
<1> QED
  BY <1>1, <1>3 DEF OutboxInv

-----------------------------------------------------------------------------
(* What the services do: only the state of one row changes.                *)

\* Inserts, commits and rollbacks of the services touch no batch.
LEMMA EventStep ==
  ASSUME OutboxInv, NEW x \in Event, EventNext(x)
  PROVE  OutboxInv'
<1> USE DEF OutboxInv
<1>1. /\ UNCHANGED <<drain, published, redo>>
      /\ \/ rows[x] = "none" /\ rows' = [rows EXCEPT ![x] = "open"]
         \/ rows[x] = "open" /\ rows' = [rows EXCEPT ![x] = "pending"]
         \/ rows[x] = "open" /\ rows' = [rows EXCEPT ![x] = "aborted"]
  BY DEF EventNext, InsertOutboxEvent, CommitEvent, AbortEvent, SetRow
<1>2. TypeOK'
  BY <1>1 DEF TypeOK, RowState
<1>3. \A w \in Worker : Unrecorded(w)' = Unrecorded(w)
  BY <1>1 DEF Unrecorded, Current
<1>4. Held'
  <2> SUFFICES ASSUME NEW w \in Worker
               PROVE  /\ drain[w].done \subseteq drain[w].batch
                      /\ \A e \in drain[w].batch : rows'[e] = "pending"
                      /\ drain[w].pc = "idle" => drain[w].batch = {}
                      /\ \A v \in Worker \ {w} : drain[w].batch \cap drain[v].batch = {}
    BY <1>1 DEF Held
  <2>1. drain[w].batch \subseteq Event
    BY DEF TypeOK, DrainState
  <2>2. \A e \in drain[w].batch : rows'[e] = "pending"
    BY <1>1, <2>1 DEF Held, TypeOK
  <2> QED
    BY <2>2 DEF Held
<1>5. \A e \in Event : rows'[e] = "dispatched" <=> rows[e] = "dispatched"
  BY <1>1 DEF TypeOK
<1>6. Accounted'
  BY <1>1, <1>3, <1>5 DEF Accounted, TypeOK
<1>7. Counted'
  BY <1>1, <1>3, <1>5 DEF Counted, Spare
<1> QED
  BY <1>2, <1>4, <1>6, <1>7

-----------------------------------------------------------------------------
(* What a drain does: it changes its own progress and no other's.          *)

\* A step of a drain leaves what the others have unrecorded as it was.
LEMMA OthersUnrecorded ==
  ASSUME TypeOK, NEW w \in Worker, NEW d, drain' = [drain EXCEPT ![w] = d]
  PROVE  \A v \in Worker \ {w} : drain'[v] = drain[v] /\ Unrecorded(v)' = Unrecorded(v)
BY DEF TypeOK, Unrecorded, Current

\* Steps within a batch, where only the progress of the drain moves on.
LEMMA HeldWithinBatch ==
  ASSUME TypeOK, Held, NEW w \in Worker, NEW d \in DrainState,
         drain' = [drain EXCEPT ![w] = d], UNCHANGED rows,
         d.batch = drain[w].batch, d.done \subseteq d.batch, d.pc # "idle"
  PROVE  Held'
<1> SUFFICES ASSUME NEW v \in Worker
             PROVE  /\ drain'[v].done \subseteq drain'[v].batch
                    /\ \A e \in drain'[v].batch : rows[e] = "pending"
                    /\ drain'[v].pc = "idle" => drain'[v].batch = {}
                    /\ \A u \in Worker \ {v} : drain'[v].batch \cap drain'[u].batch = {}
  BY DEF Held
<1>1. drain'[w] = d /\ \A u \in Worker \ {w} : drain'[u] = drain[u]
  BY DEF TypeOK
<1>2. \A u \in Worker : drain'[u].batch = drain[u].batch
  BY <1>1
<1>3. drain'[v].done \subseteq drain'[v].batch /\ (drain'[v].pc = "idle" => drain'[v].batch = {})
  BY <1>1 DEF Held
<1> QED
  BY <1>2, <1>3 DEF Held

\* A batch takes pending rows that no other drain has locked.
LEMMA ClaimStep ==
  ASSUME OutboxInv, NEW w \in Worker, ClaimBatch(w)
  PROVE  OutboxInv'
<1> USE DEF OutboxInv
<1> DEFINE batch == OldestOf(Pending \ LockedByOthers(w))
           d == [pc |-> "publish", batch |-> batch, done |-> {}]
<1>1. drain[w].pc = "idle" /\ drain' = [drain EXCEPT ![w] = d]
      /\ UNCHANGED <<rows, published, redo>>
  BY DEF ClaimBatch, Lock
<1>2. batch \subseteq Event /\ \A e \in batch : rows[e] = "pending"
  BY DEF OldestOf, Pending
<1>3. \A v \in Worker \ {w} : batch \cap drain[v].batch = {}
  BY DEF OldestOf, LockedByOthers
<1> HIDE DEF batch
<1>4. d \in DrainState /\ drain'[w] = d /\ \A v \in Worker \ {w} : drain'[v] = drain[v]
  BY <1>1, <1>2 DEF TypeOK, DrainState
<1>5. TypeOK'
  BY <1>1, <1>4 DEF TypeOK
<1>6. Held'
  BY <1>1, <1>2, <1>3, <1>4 DEF Held
<1>7. Unrecorded(w) = {} /\ Unrecorded(w)' = {}
  BY <1>1, <1>4 DEF Unrecorded, Held
<1>8. \A v \in Worker : Unrecorded(v)' = Unrecorded(v)
  BY <1>1, <1>7, OthersUnrecorded
<1>9. Accounted' /\ Counted'
  BY <1>1, <1>8 DEF Accounted, Counted, Spare
<1> QED
  BY <1>5, <1>6, <1>9

\* A confirmed publication is one more that its drain will stamp.
LEMMA PublishStep ==
  ASSUME OutboxInv, NEW w \in Worker, NEW x \in Event, Publish(w, x)
  PROVE  OutboxInv'
<1> USE DEF OutboxInv
<1> DEFINE d == [drain[w] EXCEPT !.pc = "mark"]
<1>1. drain' = [drain EXCEPT ![w] = d] /\ UNCHANGED <<rows, redo>>
      /\ published' = [published EXCEPT ![x] = @ + 1]
      /\ drain[w].pc = "publish" /\ x \in drain[w].batch \ drain[w].done
  BY DEF Publish, Goto, Current
<1>2. d \in DrainState /\ d.batch = drain[w].batch /\ d.done = drain[w].done /\ d.pc = "mark"
  BY DEF TypeOK, DrainState
<1> HIDE DEF d
<1>3. drain'[w] = d
  BY <1>1 DEF TypeOK
<1>4. TypeOK'
  BY <1>1, <1>2 DEF TypeOK
<1>5. Held'
  BY <1>1, <1>2, HeldWithinBatch DEF Held
<1>6. Current(w, x)'
  BY <1>2, <1>3 DEF Publish, Current
<1>7. Unrecorded(w) = drain[w].done
  BY <1>1 DEF Unrecorded
<1>8. Unrecorded(w)' = drain[w].done \cup {x}
  <2>1. \A e \in Event : Current(w, e)' => e = x
    BY <1>4, <1>6, CurrentIsOne, EventAssumption DEF Current, TypeOK, DrainState
  <2> QED
    BY <1>2, <1>3, <1>6, <2>1 DEF Unrecorded
<1>9. \A v \in Worker \ {w} : Unrecorded(v)' = Unrecorded(v)
  BY <1>1, OthersUnrecorded
<1>10. rows[x] = "pending"
  BY <1>1 DEF Held
<1>11. Accounted'
  BY <1>1, <1>7, <1>8, <1>9, <1>10 DEF Accounted, TypeOK
<1>12. ~Spare(x)
  BY <1>1, <1>7, <1>10, UnrecordedInBatch DEF Spare, Held
<1>13. published[x] <= redo[x] /\ published'[x] <= redo'[x] + 1
  BY <1>1, <1>12 DEF Counted, TypeOK
<1>14. Spare(x)'
  BY <1>8 DEF Spare
<1>15. Counted'
  <2> SUFFICES ASSUME NEW e \in Event, e # x
               PROVE  published'[e] <= redo'[e] + 1 /\ (~Spare(e)' => published'[e] <= redo'[e])
    BY <1>13, <1>14 DEF Counted
  <2>1. Spare(e)' <=> Spare(e)
    BY <1>1, <1>7, <1>8, <1>9 DEF Spare
  <2> QED
    BY <1>1, <2>1 DEF Counted, TypeOK
<1> QED
  BY <1>4, <1>5, <1>11, <1>15

\* A publication that fails leaves the loop, with nothing published.
LEMMA PublishFailsStep ==
  ASSUME OutboxInv, NEW w \in Worker, PublishFails(w)
  PROVE  OutboxInv'
<1> USE DEF OutboxInv
<1> DEFINE d == [drain[w] EXCEPT !.pc = "commit"]
<1>1. drain' = [drain EXCEPT ![w] = d] /\ UNCHANGED <<rows, published, redo>>
      /\ drain[w].pc = "publish"
  BY DEF PublishFails, Goto
<1>2. d \in DrainState /\ d.batch = drain[w].batch /\ d.done = drain[w].done /\ d.pc = "commit"
  BY DEF TypeOK, DrainState
<1> HIDE DEF d
<1>3. drain'[w] = d
  BY <1>1 DEF TypeOK
<1>4. TypeOK'
  BY <1>1, <1>2 DEF TypeOK
<1>5. Held'
  BY <1>1, <1>2, HeldWithinBatch DEF Held
<1>6. \A v \in Worker : Unrecorded(v)' = Unrecorded(v)
  <2>1. Unrecorded(w)' = Unrecorded(w)
    BY <1>1, <1>2, <1>3 DEF Unrecorded
  <2> QED
    BY <1>1, <2>1, OthersUnrecorded
<1>7. Accounted' /\ Counted'
  BY <1>1, <1>6 DEF Accounted, Counted, Spare
<1> QED
  BY <1>4, <1>5, <1>7

\* A publication that arrived unconfirmed is counted as one to be redone.
LEMMA PublishUnconfirmedStep ==
  ASSUME OutboxInv, NEW w \in Worker, NEW x \in Event, NEW next \in {"publish", "commit"},
         PublishUnconfirmed(w, x, next)
  PROVE  OutboxInv'
<1> USE DEF OutboxInv
<1> DEFINE d == [drain[w] EXCEPT !.pc = next]
<1>1. drain' = [drain EXCEPT ![w] = d] /\ UNCHANGED rows
      /\ published' = [published EXCEPT ![x] = @ + 1]
      /\ redo' = [redo EXCEPT ![x] = @ + 1]
      /\ drain[w].pc = "publish" /\ x \in drain[w].batch \ drain[w].done
  BY DEF PublishUnconfirmed, Goto, Current
<1>2. d \in DrainState /\ d.batch = drain[w].batch /\ d.done = drain[w].done /\ d.pc = next
  BY DEF TypeOK, DrainState
<1> HIDE DEF d
<1>3. drain'[w] = d
  BY <1>1 DEF TypeOK
<1>4. TypeOK'
  BY <1>1, <1>2 DEF TypeOK
<1>5. Held'
  BY <1>1, <1>2, HeldWithinBatch DEF Held
<1>6. \A v \in Worker : Unrecorded(v)' = Unrecorded(v)
  <2>1. Unrecorded(w)' = Unrecorded(w)
    BY <1>1, <1>2, <1>3 DEF Unrecorded
  <2> QED
    BY <1>1, <2>1, OthersUnrecorded
<1>7. rows[x] = "pending"
  BY <1>1 DEF Held
<1>8. Accounted'
  BY <1>1, <1>6, <1>7 DEF Accounted, TypeOK
<1>9. \A e \in Event : Spare(e)' <=> Spare(e)
  BY <1>1, <1>6 DEF Spare
<1>10. Counted'
  BY <1>1, <1>9 DEF Counted, TypeOK
<1> QED
  BY <1>4, <1>5, <1>8, <1>10

\* A row that was published is marked, and the last of a batch ends its loop.
LEMMA MarkStep ==
  ASSUME OutboxInv, NEW w \in Worker, NEW x \in Event, MarkDispatched(w, x)
  PROVE  OutboxInv'
<1> USE DEF OutboxInv
<1> DEFINE done == drain[w].done \cup {x}
           pc == IF done = drain[w].batch THEN "commit" ELSE "publish"
           d == [drain[w] EXCEPT !.done = done, !.pc = pc]
<1>1. drain' = [drain EXCEPT ![w] = d] /\ UNCHANGED <<rows, published, redo>>
      /\ drain[w].pc = "mark" /\ x \in drain[w].batch \ drain[w].done /\ Current(w, x)
  BY DEF MarkDispatched, Current
<1>2. /\ d \in DrainState /\ d.batch = drain[w].batch /\ d.done = drain[w].done \cup {x}
      /\ d.pc \in {"commit", "publish"}
  BY DEF TypeOK, DrainState
<1> HIDE DEF d
<1>3. drain'[w] = d
  BY <1>1 DEF TypeOK
<1>4. TypeOK'
  BY <1>1, <1>2 DEF TypeOK
<1>5. Held'
  BY <1>1, <1>2, HeldWithinBatch DEF Held
<1>6. \A v \in Worker : Unrecorded(v)' = Unrecorded(v)
  <2>1. \A e \in Event : Current(w, e) => e = x
    BY <1>1, CurrentIsOne
  <2>2. Unrecorded(w)' = Unrecorded(w)
    BY <1>1, <1>2, <1>3, <2>1 DEF Unrecorded
  <2> QED
    BY <1>1, <2>2, OthersUnrecorded
<1>7. Accounted' /\ Counted'
  BY <1>1, <1>6 DEF Accounted, Counted, Spare
<1> QED
  BY <1>4, <1>5, <1>7

\* What a drain leaves when its transaction ends: nothing held or unrecorded.
LEMMA DrainEnds ==
  ASSUME TypeOK, NEW w \in Worker, drain' = [drain EXCEPT ![w] = IdleDrain]
  PROVE  /\ drain' \in [Worker -> DrainState]
         /\ drain'[w] = IdleDrain
         /\ Unrecorded(w)' = {}
         /\ \A v \in Worker \ {w} : drain'[v] = drain[v] /\ Unrecorded(v)' = Unrecorded(v)
BY DEF TypeOK, DrainState, IdleDrain, Unrecorded, Current

\* The commit stamps what was published, and nothing else.
LEMMA CommitStep ==
  ASSUME OutboxInv, NEW w \in Worker, CommitDrain(w)
  PROVE  OutboxInv'
<1> USE DEF OutboxInv
<1>1. drain' = [drain EXCEPT ![w] = IdleDrain] /\ UNCHANGED <<published, redo>>
      /\ drain[w].pc = "commit"
      /\ rows' = [e \in Event |-> IF e \in drain[w].done THEN "dispatched" ELSE rows[e]]
  BY DEF CommitDrain
<1>2. TypeOK'
  BY <1>1, DrainEnds DEF TypeOK, RowState
<1>3. Unrecorded(w) = drain[w].done
  BY <1>1 DEF Unrecorded
<1>4. Held'
  <2> SUFFICES ASSUME NEW v \in Worker
               PROVE  /\ drain'[v].done \subseteq drain'[v].batch
                      /\ \A e \in drain'[v].batch : rows'[e] = "pending"
                      /\ drain'[v].pc = "idle" => drain'[v].batch = {}
                      /\ \A u \in Worker \ {v} : drain'[v].batch \cap drain'[u].batch = {}
    BY DEF Held
  <2>1. drain'[w].batch = {} /\ drain'[w].done = {}
    BY <1>1, DrainEnds DEF IdleDrain
  <2>2. CASE v = w
    BY <2>1, <2>2
  <2>3. CASE v # w
    <3>1. drain'[v] = drain[v] /\ drain[v].batch \subseteq Event
      BY <1>1, <2>3, DrainEnds DEF TypeOK, DrainState
    <3>2. drain[v].batch \cap drain[w].done = {}
      BY <2>3 DEF Held
    <3>3. \A e \in drain'[v].batch : rows'[e] = "pending"
      BY <1>1, <3>1, <3>2 DEF Held
    <3>4. \A u \in Worker \ {v} : drain'[v].batch \cap drain'[u].batch = {}
      BY <1>1, <2>1, <3>1, DrainEnds DEF Held
    <3> QED
      BY <3>1, <3>3, <3>4 DEF Held
  <2> QED
    BY <2>2, <2>3
<1>5. Accounted'
  BY <1>1, <1>3, DrainEnds DEF Accounted
<1>6. \A e \in Event : Spare(e) => Spare(e)'
  BY <1>1, <1>3, DrainEnds DEF Spare
<1>7. Counted'
  BY <1>1, <1>6 DEF Counted
<1> QED
  BY <1>2, <1>4, <1>5, <1>7

\* A rollback loses the stamps, and what they stood for is to be redone.
LEMMA RollbackStep ==
  ASSUME OutboxInv, NEW w \in Worker, RollbackDrain(w)
  PROVE  OutboxInv'
<1> USE DEF OutboxInv
<1>1. drain' = [drain EXCEPT ![w] = IdleDrain] /\ UNCHANGED <<rows, published>>
      /\ redo' = [e \in Event |-> IF e \in Unrecorded(w) THEN redo[e] + 1 ELSE redo[e]]
  BY DEF RollbackDrain
<1>2. TypeOK'
  <2>1. redo' \in [Event -> Nat]
    BY <1>1 DEF TypeOK
  <2>2. drain' \in [Worker -> DrainState]
    BY <1>1, DrainEnds
  <2> QED
    BY <1>1, <2>1, <2>2 DEF TypeOK
<1>3. Held'
  BY <1>1, DrainEnds DEF Held, IdleDrain
<1>4. Accounted'
  BY <1>1, DrainEnds DEF Accounted
<1>5. Counted'
  <2> SUFFICES ASSUME NEW e \in Event
               PROVE  published[e] <= redo'[e] + 1 /\ (~Spare(e)' => published[e] <= redo'[e])
    BY <1>1 DEF Counted
  <2>1. redo[e] \in Nat /\ published[e] \in Nat /\ published[e] <= redo[e] + 1
    BY DEF Counted, TypeOK
  <2>2. CASE e \in Unrecorded(w)
    BY <1>1, <2>1, <2>2
  <2>3. CASE e \notin Unrecorded(w)
    <3>1. Spare(e) => Spare(e)'
      BY <1>1, <2>3, DrainEnds DEF Spare
    <3> QED
      BY <1>1, <2>1, <2>3, <3>1 DEF Counted
  <2> QED
    BY <2>2, <2>3
<1> QED
  BY <1>2, <1>3, <1>4, <1>5

\* Every step keeps the invariant.
LEMMA StepOutbox == OutboxInv /\ [Next]_vars => OutboxInv'
<1> SUFFICES ASSUME OutboxInv, [Next]_vars PROVE OutboxInv'
  OBVIOUS
<1>1. ASSUME NEW e \in Event, EventNext(e) PROVE OutboxInv'
  BY <1>1, EventStep
<1>2. ASSUME NEW w \in Worker, DrainStep(w) PROVE OutboxInv'
  BY <1>2, ClaimStep, MarkStep, CommitStep DEF DrainStep
<1>3. ASSUME NEW w \in Worker, DrainFault(w) PROVE OutboxInv'
  BY <1>3, PublishFailsStep, PublishUnconfirmedStep, RollbackStep DEF DrainFault
<1>4. ASSUME NEW w \in Worker, NEW e \in Event, Publish(w, e) PROVE OutboxInv'
  BY <1>4, PublishStep
<1>5. CASE UNCHANGED vars
  BY <1>5 DEF vars, OutboxInv, TypeOK, Held, Accounted, Counted, Spare, Unrecorded, Current
<1> QED
  BY <1>1, <1>2, <1>3, <1>4, <1>5 DEF Next

\* The invariant behind the theorems about the outbox.
LEMMA OutboxInvariant == Spec => []OutboxInv
BY InitOutbox, StepOutbox, PTL DEF Spec

-----------------------------------------------------------------------------
\* Every variable of the outbox keeps its type.
THEOREM OutboxTypeCorrect == Spec => []TypeOK
BY OutboxInvariant, PTL DEF OutboxInv

\* dispatched_at stands for a publication the broker has confirmed, whatever
\* part of a batch is published, broken off, committed or rolled back.
THEOREM StampsAreTrue == Spec => []DispatchedWasPublished
<1>1. OutboxInv => DispatchedWasPublished
  BY DEF OutboxInv, Accounted, DispatchedWasPublished
<1> QED
  BY <1>1, OutboxInvariant, PTL

\* Row locks keep any number of workers from publishing an event twice, save
\* where a fault has undone or hidden its publication.
THEOREM NoNeedlessDuplicates == Spec => []DuplicatesComeFromFaults
<1>1. OutboxInv => DuplicatesComeFromFaults
  BY DEF OutboxInv, TypeOK, Counted, DuplicatesComeFromFaults
<1> QED
  BY <1>1, OutboxInvariant, PTL

\* The outbox implements the at-least-once channel: commits are the sends,
\* first publications the deliveries, and everything else is a stutter.
THEOREM OutboxIsAChannel == Spec => ImplementsChannel
<1> DEFINE sent == { e \in Event : rows[e] \in {"pending", "dispatched"} }
           delivered == { e \in Event : published[e] > 0 }
<1>1. Init => AtLeastOnce!Init
  BY DEF Init, AtLeastOnce!Init
<1>2. OutboxInv /\ [Next]_vars => [AtLeastOnce!Next]_<<sent, delivered>>
  <2> SUFFICES ASSUME OutboxInv, [Next]_vars
               PROVE  [AtLeastOnce!Next]_<<sent, delivered>>
    OBVIOUS
  <2> USE DEF OutboxInv
  <2>1. ASSUME NEW e \in Event, EventNext(e) PROVE [AtLeastOnce!Next]_<<sent, delivered>>
    <3>1. delivered' = delivered /\ (sent' = sent \/ sent' = sent \cup {e})
      BY <2>1 DEF EventNext, InsertOutboxEvent, CommitEvent, AbortEvent, SetRow, TypeOK
    <3> QED
      BY <3>1 DEF AtLeastOnce!Next, AtLeastOnce!Send
  <2>2. ASSUME NEW w \in Worker, NEW e \in Event, UNCHANGED rows,
               drain[w].pc = "publish", Current(w, e),
               published' = [published EXCEPT ![e] = @ + 1]
        PROVE  [AtLeastOnce!Next]_<<sent, delivered>>
    <3>1. sent' = sent /\ e \in sent
      BY <2>2 DEF Current, Held
    <3>2. delivered' = delivered \cup {e}
      BY <2>2 DEF TypeOK
    <3> QED
      BY <3>1, <3>2 DEF AtLeastOnce!Next, AtLeastOnce!Deliver
  <2>3. ASSUME NEW w \in Worker, CommitDrain(w) PROVE UNCHANGED <<sent, delivered>>
    <3>1. drain[w].done \subseteq sent
      BY DEF Held, TypeOK, DrainState
    <3> QED
      BY <2>3, <3>1 DEF CommitDrain
  <2>4. CASE UNCHANGED <<rows, published>>
    BY <2>4
  <2> QED
    BY <2>1, <2>2, <2>3, <2>4
       DEF Next, vars, DrainStep, DrainFault, ClaimBatch, Lock, MarkDispatched, Publish,
           PublishFails, PublishUnconfirmed, RollbackDrain
<1> QED
  BY <1>1, <1>2, OutboxInvariant, PTL DEF Spec, ImplementsChannel, AtLeastOnce!Spec
=============================================================================

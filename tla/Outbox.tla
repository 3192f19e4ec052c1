------------------------------- MODULE Outbox -------------------------------
(***************************************************************************)
(* The transactional outbox of one region: insertOutboxEvent within the    *)
(* transactions of the services, and drainOutboxForRegion in several       *)
(* worker processes, which locks a batch with FOR UPDATE SKIP LOCKED,      *)
(* publishes it row by row with publisher confirms, and stamps             *)
(* dispatched_at in the same transaction.                                  *)
(*                                                                         *)
(* attempts and last_error are written and never read: they are left out.  *)
(***************************************************************************)
EXTENDS Naturals, FiniteSets

CONSTANTS
  Event,      \* row ids: BIGSERIAL, taken at the insert and not at the commit
  Worker,     \* worker processes; the scheduler lets one drain run in each
  BatchSize,  \* env.outboundEvents.batchSize
  MaxRedo     \* bound: how often faults may repeat the publication of an event

ASSUME EventAssumption == Event \subseteq Nat
ASSUME OutboxBoundsAssumption == BatchSize \in Nat /\ MaxRedo \in Nat

VARIABLES
  rows,       \* what has become of each row
  drain,      \* the drain of each worker: its transaction and its progress
  published,  \* how often each event has reached the exchange
  redo        \* history: publications no dispatched_at will ever stand for

vars == <<rows, drain, published, redo>>

\* "open": inserted in a transaction that has not ended, invisible to others.
RowState == {"none", "open", "aborted", "pending", "dispatched"}

DrainState == [pc : {"idle", "publish", "mark", "commit"},
               batch : SUBSET Event,    \* the rows it holds locked
               done : SUBSET Event]     \* those marked, and not yet committed
IdleDrain == [pc |-> "idle", batch |-> {}, done |-> {}]

TypeOK ==
  /\ rows \in [Event -> RowState]
  /\ drain \in [Worker -> DrainState]
  /\ published \in [Event -> Nat]
  /\ redo \in [Event -> Nat]

Init ==
  /\ rows = [e \in Event |-> "none"]
  /\ drain = [w \in Worker |-> IdleDrain]
  /\ published = [e \in Event |-> 0]
  /\ redo = [e \in Event |-> 0]

-----------------------------------------------------------------------------
(* The services.                                                           *)

SetRow(e, from, to) ==
  /\ rows[e] = from
  /\ rows' = [rows EXCEPT ![e] = to]

\* Slip: the event is published right away, from the request.
PublishAtInsert(e) ==
  /\ \A f \in Event : f < e => rows[f] # "none"
  /\ SetRow(e, "none", "open")
  /\ published' = [published EXCEPT ![e] = @ + 1]
  /\ UNCHANGED <<drain, redo>>

\* insertOutboxEvent: the next id of the sequence.
InsertOutboxEvent(e) ==
  /\ \A f \in Event : f < e => rows[f] # "none"
  /\ SetRow(e, "none", "open")
  /\ UNCHANGED <<drain, published, redo>>

\* The transaction commits, after or before those with older and younger rows.
CommitEvent(e) ==
  /\ SetRow(e, "open", "pending")
  /\ UNCHANGED <<drain, published, redo>>

\* It rolls back, or its process dies: the id is never used.
AbortEvent(e) ==
  /\ SetRow(e, "open", "aborted")
  /\ UNCHANGED <<drain, published, redo>>

-----------------------------------------------------------------------------
(* drainOutboxForRegion.                                                   *)

LockedByOthers(w) == UNION { drain[v].batch : v \in Worker \ {w} }

Pending == { e \in Event : rows[e] = "pending" }

OldestOf(S) == { e \in S : Cardinality({f \in S : f < e}) < BatchSize }

Lock(w, batch) ==
  /\ drain[w].pc = "idle"
  /\ batch # {}
  /\ drain' = [drain EXCEPT ![w] = [pc |-> "publish", batch |-> batch, done |-> {}]]
  /\ UNCHANGED <<rows, published, redo>>

\* Slips: no lock is looked at; a cursor instead of dispatched_at IS NULL.
ClaimUnlocked(w) == Lock(w, OldestOf(Pending))
ClaimAfterCursor(w) ==
  Lock(w, OldestOf({ e \in Pending \ LockedByOthers(w) :
                       \A f \in Event : rows[f] = "dispatched" => f < e }))

\* claimBatch: the oldest pending rows nobody else has locked.
ClaimBatch(w) == Lock(w, OldestOf(Pending \ LockedByOthers(w)))

\* The row the loop is at.
Current(w, e) ==
  /\ e \in drain[w].batch \ drain[w].done
  /\ \A f \in drain[w].batch \ drain[w].done : e <= f

Goto(w, pc) == drain' = [drain EXCEPT ![w].pc = pc]

\* The broker confirms.
Publish(w, e) ==
  /\ drain[w].pc = "publish"
  /\ Current(w, e)
  /\ published' = [published EXCEPT ![e] = @ + 1]
  /\ Goto(w, "mark")
  /\ UNCHANGED <<rows, redo>>

\* The broker refuses: markFailed, and the loop is left.
PublishFails(w) ==
  /\ drain[w].pc = "publish"
  /\ Goto(w, "commit")
  /\ UNCHANGED <<rows, published, redo>>

\* The message arrives and its confirm does not: the channel, which holds
\* unconfirmed messages, sends it again, or publish throws and the loop is left.
PublishUnconfirmed(w, e, next) ==
  /\ drain[w].pc = "publish"
  /\ Current(w, e)
  /\ redo[e] < MaxRedo
  /\ published' = [published EXCEPT ![e] = @ + 1]
  /\ redo' = [redo EXCEPT ![e] = @ + 1]
  /\ Goto(w, next)
  /\ UNCHANGED rows

\* markDispatched, and on to the next row or to the commit.
MarkDispatched(w, e) ==
  /\ drain[w].pc = "mark"
  /\ Current(w, e)
  /\ LET done == drain[w].done \cup {e} IN
       drain' = [drain EXCEPT ![w].done = done,
                              ![w].pc = IF done = drain[w].batch THEN "commit" ELSE "publish"]
  /\ UNCHANGED <<rows, published, redo>>

\* Slips: every row of the batch is stamped; the rest of it is given up.
CommitWholeBatch(w) ==
  /\ drain[w].pc = "commit"
  /\ rows' = [e \in Event |-> IF e \in drain[w].batch THEN "dispatched" ELSE rows[e]]
  /\ drain' = [drain EXCEPT ![w] = IdleDrain]
  /\ UNCHANGED <<published, redo>>
CommitGivesUp(w) ==
  /\ drain[w].pc = "commit"
  /\ rows' = [e \in Event |-> IF e \in drain[w].done THEN "dispatched"
                              ELSE IF e \in drain[w].batch THEN "failed" ELSE rows[e]]
  /\ drain' = [drain EXCEPT ![w] = IdleDrain]
  /\ UNCHANGED <<published, redo>>

\* The commit: the stamps become visible and the locks are released.
CommitDrain(w) ==
  /\ drain[w].pc = "commit"
  /\ rows' = [e \in Event |-> IF e \in drain[w].done THEN "dispatched" ELSE rows[e]]
  /\ drain' = [drain EXCEPT ![w] = IdleDrain]
  /\ UNCHANGED <<published, redo>>

\* What the drain has published and, if it ends here, nobody will know of.
Unrecorded(w) ==
  drain[w].done \cup { e \in Event : drain[w].pc = "mark" /\ Current(w, e) }

\* A statement or the commit fails, or the process dies: all is rolled back.
RollbackDrain(w) ==
  /\ drain[w].pc # "idle"
  /\ \A e \in Unrecorded(w) : redo[e] < MaxRedo
  /\ redo' = [e \in Event |-> IF e \in Unrecorded(w) THEN redo[e] + 1 ELSE redo[e]]
  /\ drain' = [drain EXCEPT ![w] = IdleDrain]
  /\ UNCHANGED <<rows, published>>

-----------------------------------------------------------------------------
EventNext(e) == InsertOutboxEvent(e) \/ CommitEvent(e) \/ AbortEvent(e)

DrainStep(w) ==
  \/ ClaimBatch(w)
  \/ \E e \in Event : MarkDispatched(w, e)
  \/ CommitDrain(w)

DrainFault(w) ==
  \/ PublishFails(w)
  \/ \E e \in Event, next \in {"publish", "commit"} : PublishUnconfirmed(w, e, next)
  \/ RollbackDrain(w)

Next ==
  \/ \E e \in Event : EventNext(e)
  \/ \E w \in Worker : DrainStep(w) \/ DrainFault(w) \/ \E e \in Event : Publish(w, e)

Spec == Init /\ [][Next]_vars

\* Cron fires again and the loop runs on; a broker that is asked again and
\* again confirms at last.  Transactions need not end, and MaxRedo says that
\* faults which undo a publication stop some day.
Fairness ==
  \A w \in Worker : WF_vars(DrainStep(w)) /\ SF_vars(\E e \in Event : Publish(w, e))

FairSpec == Spec /\ Fairness

-----------------------------------------------------------------------------
(* Properties.                                                             *)

\* dispatched_at is there only for what the broker has confirmed, though the
\* loop may break off in the middle of a batch and be rolled back afterwards.
DispatchedWasPublished ==
  \A e \in Event : rows[e] = "dispatched" => published[e] > 0

\* SKIP LOCKED makes concurrent drains safe (outbox-drain.ts:16): an event is
\* published again only where a fault has undone or hidden its publication.
DuplicatesComeFromFaults == \A e \in Event : published[e] <= 1 + redo[e]

\* The outbox is an at-least-once channel: whatever reaches the exchange was
\* committed, whatever is committed stays sent.
AtLeastOnce ==
  INSTANCE Channel WITH sent <- { e \in Event : rows[e] \in {"pending", "dispatched"} },
                        delivered <- { e \in Event : published[e] > 0 }

ImplementsChannel == AtLeastOnce!Spec

\* Whatever is committed is published and stamped in the end, also a row with
\* an older id that becomes visible after younger ones have been dispatched.
EventuallyDispatched ==
  \A e \in Event : rows[e] = "pending" ~> rows[e] = "dispatched"
=============================================================================

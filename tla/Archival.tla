------------------------------ MODULE Archival ------------------------------
(***************************************************************************)
(* The nightly archival of one region: runArchivalWithLock and             *)
(* archiveRegion in several worker processes, moving the rows of past      *)
(* years from the hot database to the archive while the service goes on    *)
(* inserting and updating rows.                                            *)
(*                                                                         *)
(* A row is known by its versions: 0 where it is not, 1 as it was          *)
(* inserted, 2 and more after updates.  A statement that takes effect but  *)
(* fails for its caller is the statement followed by StatementFails.       *)
(***************************************************************************)
EXTENDS Naturals, FiniteSets

CONSTANTS
  Row,         \* rows of the archived tables
  Worker,      \* worker processes
  TableOf,     \* the table of each row, as its place in ARCHIVAL_TABLES
  Parent,      \* the row a row belongs to; itself when it belongs to none
  KeyOf,       \* the value of the table's other UNIQUE column, of rows without one their id
  BatchSize,   \* env.archival.batchSize
  MaxYear,     \* bound: years in which the service writes; one more passes
  MaxVersion,  \* bound: versions of a row
  MaxFaults    \* bound: statements that fail and processes that die

\* The sweep visits the tables in this order.
ARCHIVAL_TABLES ==
  <<"agent_earnings", "payment_webhook_events", "payment_sessions", "transactions",
    "order_items", "orders">>
Table == 1 .. 6

\* Rows of the first, fourth and fifth table are written once.
Updatable == {2, 3, 6}

\* agent_earnings (order_id), payment_webhook_events (provider_event_id),
\* payment_sessions (provider_session_id), transactions (idempotency_key): a
\* UNIQUE column beside the id, in the hot database and in the archive.
UniqueTables == 1 .. 4

ASSUME RowAssumption ==
  /\ TableOf \in [Row -> Table]
  /\ Parent \in [Row -> Row]
  /\ \A r \in Row : Parent[r] # r => TableOf[r] < TableOf[Parent[r]]
  /\ \A r, q \in Row : KeyOf[r] = KeyOf[q] /\ r # q =>
       TableOf[r] = TableOf[q] /\ TableOf[r] \in UniqueTables
ASSUME ArchivalBoundsAssumption ==
  /\ BatchSize \in Nat \ {0}
  /\ MaxYear \in Nat
  /\ MaxVersion \in Nat \ {0}
  /\ MaxFaults \in Nat

VARIABLES
  year,      \* the year of the database's NOW()
  born,      \* the year of the row's timestamp; 0 before it is inserted
  written,   \* the last version of the row that was committed
  hot,       \* the version in the hot database
  archive,   \* the version in the archive
  raced,     \* history: rows updated after a sweep had read them
  lock,      \* archival:<region>:lock, which does not say whose it is
  sweep,     \* the run of each worker
  faults     \* how many faults there have been

dataVars == <<year, born, written, hot, raced>>
vars == <<dataVars, archive, lock, sweep, faults>>

Version == 0 .. MaxVersion
NoRows == [r \in Row |-> 0]

SweepState == [pc : {"idle", "select", "copy", "delete", "unlock"},
               table : Table,
               batch : [Row -> Version],   \* the rows SELECT returned
               moved : BOOLEAN]            \* this run has moved a batch
IdleSweep == [pc |-> "idle", table |-> 1, batch |-> NoRows, moved |-> FALSE]

TypeOK ==
  /\ year \in 1 .. (MaxYear + 1)
  /\ born \in [Row -> 0 .. year]
  /\ written \in [Row -> Version]
  /\ hot \in [Row -> Version]
  /\ archive \in [Row -> Version]
  /\ raced \subseteq Row
  /\ lock \in BOOLEAN
  /\ sweep \in [Worker -> SweepState]
  /\ faults \in 0 .. MaxFaults

Init ==
  /\ year = 1
  /\ born = NoRows
  /\ written = NoRows
  /\ hot = NoRows
  /\ archive = NoRows
  /\ raced = {}
  /\ lock = FALSE
  /\ sweep = [w \in Worker |-> IdleSweep]
  /\ faults = 0

-----------------------------------------------------------------------------
(* The service, as far as the archived tables are concerned.               *)

Insert(S) ==
  /\ year <= MaxYear
  /\ \A r \in S : born[r] = 0
  /\ born' = [r \in Row |-> IF r \in S THEN year ELSE born[r]]
  /\ written' = [r \in Row |-> IF r \in S THEN 1 ELSE written[r]]
  /\ hot' = [r \in Row |-> IF r \in S THEN 1 ELSE hot[r]]
  /\ UNCHANGED <<year, archive, raced, lock, sweep, faults>>

\* createOrder and bulkInsertItems: an order and its items in one transaction.
OrderWithItems(o) ==
  {o} \cup { r \in Row : Parent[r] = o /\ ARCHIVAL_TABLES[TableOf[r]] = "order_items" }
PlaceOrder(o) ==
  /\ ARCHIVAL_TABLES[TableOf[o]] = "orders"
  /\ Insert(OrderWithItems(o))

\* A session, a webhook event, a ledger row, an earning: written later, unless
\* a row with its key is there.  The handler has found the order the row belongs
\* to, and a sweep may have taken it since.  A key comes back when its row was
\* swept: a webhook delivered again, an order settled again.
InsertLater(r) ==
  /\ ARCHIVAL_TABLES[TableOf[r]] \notin {"orders", "order_items"}
  /\ born[Parent[r]] > 0 \/ Parent[r] = r
  /\ \A q \in Row : KeyOf[q] = KeyOf[r] => hot[q] = 0
  /\ Insert({r})

\* A sweep has read the row, or an earlier one has copied it.
ReadBySweep(r) == archive[r] > 0 \/ \E w \in Worker : sweep[w].batch[r] > 0

\* updateStatus, updateSession, markProcessed: an UPDATE in the hot database.
UpdateRow(r) ==
  /\ year <= MaxYear
  /\ TableOf[r] \in Updatable
  /\ hot[r] > 0
  /\ written[r] < MaxVersion
  /\ written' = [written EXCEPT ![r] = @ + 1]
  /\ hot' = [hot EXCEPT ![r] = written[r] + 1]
  /\ raced' = IF ReadBySweep(r) /\ born[r] < year THEN raced \cup {r} ELSE raced
  /\ UNCHANGED <<year, born, archive, lock, sweep, faults>>

\* New Year.  A sweep starts at 03:00 and ends by 04:00: none is under way.
YearPasses ==
  /\ year <= MaxYear
  /\ \A w \in Worker : sweep[w].pc = "idle"
  /\ year' = year + 1
  /\ UNCHANGED <<born, written, hot, archive, raced, lock, sweep, faults>>

-----------------------------------------------------------------------------
(* runArchivalWithLock and archiveRegion.                                  *)

\* The tick of the job; the scheduler skips it while the last one still runs,
\* and the handler returns at once when the lock is held.
TakeLock(w) ==
  /\ sweep[w].pc = "idle"
  /\ ~lock
  /\ lock' = TRUE
  /\ sweep' = [sweep EXCEPT ![w] = [IdleSweep EXCEPT !.pc = "select"]]
  /\ UNCHANGED <<dataVars, archive, faults>>

PriorYear(table) == { r \in Row : TableOf[r] = table /\ hot[r] > 0 /\ born[r] < year }

\* Any rows, BatchSize of them when there are that many: ids have no meaning.
ReadBatch(w, candidates) ==
  /\ sweep[w].pc = "select"
  /\ candidates # {}
  /\ \E ids \in SUBSET candidates :
       /\ \/ Cardinality(ids) = BatchSize
          \/ ids = candidates /\ Cardinality(ids) < BatchSize
       /\ sweep' = [sweep EXCEPT
            ![w].pc = "copy",
            ![w].batch = [r \in Row |-> IF r \in ids THEN hot[r] ELSE 0]]
  /\ UNCHANGED <<dataVars, archive, lock, faults>>

\* Slip: the rows of this year are selected too.
SelectAnyYear(w) ==
  ReadBatch(w, { r \in Row : TableOf[r] = sweep[w].table /\ hot[r] > 0 })

\* SELECT of the next rows of past years.
SelectBatch(w) == ReadBatch(w, PriorYear(sweep[w].table))

\* Slip: the table after the last one.
NextTableAlways(w) ==
  /\ sweep[w].pc = "select"
  /\ PriorYear(sweep[w].table) = {}
  /\ sweep' = [sweep EXCEPT ![w].table = @ + 1]
  /\ UNCHANGED <<dataVars, archive, lock, faults>>

\* None is left: the next table, or the end of the run.
NextTable(w) ==
  /\ sweep[w].pc = "select"
  /\ PriorYear(sweep[w].table) = {}
  /\ sweep' = IF sweep[w].table + 1 \in Table
              THEN [sweep EXCEPT ![w].table = @ + 1]
              ELSE [sweep EXCEPT ![w].pc = "unlock"]
  /\ UNCHANGED <<dataVars, archive, lock, faults>>

\* maxRuntimeMs is over, which takes more than SELECTs that find nothing.
MaxRuntime(w) ==
  /\ sweep[w].pc = "select"
  /\ sweep[w].moved
  /\ sweep' = [sweep EXCEPT ![w].pc = "unlock"]
  /\ UNCHANGED <<dataVars, archive, lock, faults>>

\* Slip: an INSERT that fails is swallowed, as the conflicts are.
CopySwallowed(w) ==
  /\ sweep[w].pc = "copy"
  /\ sweep' = [sweep EXCEPT ![w].pc = "delete"]
  /\ UNCHANGED <<dataVars, archive, lock, faults>>

\* The archive has a row with the key of r, r itself or another one.
Conflicts(r) == \E q \in Row : KeyOf[q] = KeyOf[r] /\ archive[q] > 0

\* INSERT ... ON CONFLICT DO NOTHING, on any UNIQUE column: what is there stays,
\* and no row is written beside it.  (Two rows of a batch share no key: they
\* were hot together.)
CopyBatch(w) ==
  /\ sweep[w].pc = "copy"
  /\ archive' = [r \in Row |-> IF Conflicts(r) THEN archive[r] ELSE sweep[w].batch[r]]
  /\ sweep' = [sweep EXCEPT ![w].pc = "delete"]
  /\ UNCHANGED <<dataVars, lock, faults>>

\* DELETE by id, whatever version the row has by now.
DeleteBatch(w) ==
  /\ sweep[w].pc = "delete"
  /\ hot' = [r \in Row |-> IF sweep[w].batch[r] > 0 THEN 0 ELSE hot[r]]
  /\ sweep' = [sweep EXCEPT ![w].pc = "select", ![w].batch = NoRows, ![w].moved = TRUE]
  /\ UNCHANGED <<year, born, written, archive, raced, lock, faults>>

Fault == faults < MaxFaults /\ faults' = faults + 1

\* Slip: the error is caught, and the next table is tried.
StatementFailsOver(w) ==
  /\ Fault
  /\ sweep[w].pc \in {"select", "copy", "delete"}
  /\ sweep[w].table + 1 \in Table
  /\ sweep' = [sweep EXCEPT ![w].table = @ + 1, ![w].pc = "select", ![w].batch = NoRows]
  /\ UNCHANGED <<dataVars, archive, lock>>

\* A statement throws: the finally block is next.
StatementFails(w) ==
  /\ Fault
  /\ sweep[w].pc \in {"select", "copy", "delete"}
  /\ sweep' = [sweep EXCEPT ![w].pc = "unlock", ![w].batch = NoRows]
  /\ UNCHANGED <<dataVars, archive, lock>>

\* cacheProvider.del: the lock goes, also one another worker has taken since.
ReleaseLock(w) ==
  /\ sweep[w].pc = "unlock"
  /\ lock' = FALSE
  /\ sweep' = [sweep EXCEPT ![w] = IdleSweep]
  /\ UNCHANGED <<dataVars, archive, faults>>

\* The process dies, or the lock cannot be deleted: it stays until it expires.
SweepCrashes(w) ==
  /\ Fault
  /\ sweep[w].pc # "idle"
  /\ sweep' = [sweep EXCEPT ![w] = IdleSweep]
  /\ UNCHANGED <<dataVars, archive, lock>>

\* Slip: trySet without a TTL.
LockStays ==
  /\ lock /\ ~lock
  /\ UNCHANGED vars

\* The TTL, maxRuntimeMin * 60 + 60: a statement may outlast it.
LockExpires ==
  /\ lock
  /\ lock' = FALSE
  /\ UNCHANGED <<dataVars, archive, sweep, faults>>

-----------------------------------------------------------------------------
ServiceNext ==
  \/ \E o \in Row : PlaceOrder(o)
  \/ \E r \in Row : InsertLater(r)
  \/ \E r \in Row : UpdateRow(r)
  \/ YearPasses

SweepStep(w) ==
  \/ SelectBatch(w)
  \/ NextTable(w)
  \/ CopyBatch(w)
  \/ DeleteBatch(w)
  \/ ReleaseLock(w)

Next ==
  \/ ServiceNext
  \/ LockExpires
  \/ \E w \in Worker :
       TakeLock(w) \/ SweepStep(w) \/ MaxRuntime(w) \/ StatementFails(w) \/ SweepCrashes(w)

Spec == Init /\ [][Next]_vars

\* Every night a tick fires and the loop runs on; a lock left behind expires.
\* MaxFaults says that a night without faults comes.
Fairness ==
  /\ WF_vars(LockExpires)
  /\ \A w \in Worker : WF_vars(TakeLock(w)) /\ WF_vars(SweepStep(w))

FairSpec == Spec /\ Fairness

-----------------------------------------------------------------------------
(* Properties.                                                             *)

\* Children first: however sweeps overlap, time out, fail and crash, a row that
\* is still hot while its parent has been swept is younger than the parent by
\* a New Year (an order of December delivered in January leaves such rows).
SweptChildrenFirst ==
  \A c \in Row :
    (hot[c] > 0 /\ hot[Parent[c]] = 0) => born[c] > born[Parent[c]]

\* The copy in the archive is the row as it was last committed, unless it was
\* updated between the SELECT of a sweep and the DELETE: ON CONFLICT DO
\* NOTHING keeps the older copy, and the DELETE does not look at versions.
OnlyRacingWritesAreLost ==
  \A r \in Row : archive[r] > 0 /\ r \notin raced => archive[r] = written[r]

\* What archival promises, with the rows of each database as a set.
Promise ==
  INSTANCE Shelf WITH hot <- { r \in Row : hot[r] > 0 },
                      archived <- { r \in Row : archive[r] > 0 }
ImplementsShelf == Promise!Spec

\* The rows of past years leave the hot database in the end, all of them: also
\* those the archive refuses, and those an order of December writes in January.
NoOldRows == \A r \in Row : hot[r] > 0 => born[r] = year
OldRowsLeaveHot == ~NoOldRows ~> NoOldRows
=============================================================================

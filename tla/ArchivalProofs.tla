--------------------------- MODULE ArchivalProofs ---------------------------
(***************************************************************************)
(* The archival of a region loses nothing and sweeps children first, for   *)
(* every number of workers, rows, tables' contents, batch size and faults, *)
(* though the lock does not keep sweeps apart.                             *)
(*                                                                         *)
(* The invariant says what a sweep may rely on without the lock: the rows  *)
(* it has read are of a past year, no two of them share a key, they are    *)
(* hot or the archive has a row with their key, which it has before they   *)
(* are deleted; and the tables behind the sweep hold no row of a past      *)
(* year.                                                                   *)
(***************************************************************************)
EXTENDS Archival, TLAPS

\* Where a row is, it is as it was written; the archive has old rows only, and
\* only old rows have left.
Copies ==
  \A r \in Row :
    /\ hot[r] > 0 => hot[r] = written[r] /\ born[r] > 0
    /\ born[r] > 0 /\ hot[r] = 0 => born[r] < year
    /\ archive[r] > 0 => /\ 0 < born[r] /\ born[r] < year
                         /\ r \notin raced => archive[r] = written[r]

\* What a sweep has read and not yet deleted.
Batches ==
  \A w \in Worker, r \in Row : sweep[w].batch[r] > 0 =>
    /\ sweep[w].pc \in {"copy", "delete"}
    /\ TableOf[r] = sweep[w].table
    /\ 0 < born[r] /\ born[r] < year
    /\ hot[r] > 0 \/ Conflicts(r)
    /\ sweep[w].pc = "delete" => Conflicts(r)
    /\ r \notin raced => sweep[w].batch[r] = written[r]

\* The hot database has one row of a key, and so has a batch read from it.
Keys ==
  \A r, q \in Row : KeyOf[r] = KeyOf[q] /\ r # q =>
    /\ hot[r] = 0 \/ hot[q] = 0
    /\ \A w \in Worker : sweep[w].batch[r] = 0 \/ sweep[w].batch[q] = 0

\* The tables a sweep has behind it.
SweptTables ==
  \A w \in Worker :
    /\ sweep[w].pc = "idle" => sweep[w].table = 1
    /\ \A r \in Row : TableOf[r] < sweep[w].table /\ hot[r] > 0 => born[r] = year

ArchivalInv ==
  TypeOK /\ Copies /\ Batches /\ Keys /\ SweptTables /\ SweptChildrenFirst

-----------------------------------------------------------------------------
\* A worker that is not at work has a well-formed state.
LEMMA IdleSweepTyped == NoRows \in [Row -> Version] /\ IdleSweep \in SweepState
<1>1. 0 \in Version
  BY ArchivalBoundsAssumption DEF Version
<1>2. NoRows \in [Row -> Version]
  BY <1>1 DEF NoRows
<1> QED
  BY <1>2 DEF IdleSweep, SweepState, Table

\* The invariant holds before anything is inserted.
LEMMA InitArchival == Init => ArchivalInv
<1> SUFFICES ASSUME Init PROVE ArchivalInv
  OBVIOUS
<1>1. TypeOK
  <2>1. year \in 1 .. (MaxYear + 1) /\ faults \in 0 .. MaxFaults
    BY ArchivalBoundsAssumption DEF Init
  <2>2. born \in [Row -> 0 .. year]
    BY <2>1 DEF Init, NoRows
  <2> QED
    BY <2>1, <2>2, IdleSweepTyped DEF Init, TypeOK
<1>2. \A r \in Row : hot[r] = 0 /\ archive[r] = 0 /\ born[r] = 0
  BY DEF Init, NoRows
<1>3. \A w \in Worker : sweep[w].pc = "idle" /\ sweep[w].table = 1
                        /\ \A r \in Row : sweep[w].batch[r] = 0
  BY DEF Init, IdleSweep, NoRows
<1> QED
  BY <1>1, <1>2, <1>3, RowAssumption
  DEF ArchivalInv, Copies, Batches, Keys, SweptTables, SweptChildrenFirst, Table

-----------------------------------------------------------------------------
(* The service: the sweeps and the archive stay as they are.               *)

\* New rows, each with its parent or after it, and of keys that are not hot.
LEMMA InsertStep ==
  ASSUME ArchivalInv, NEW S \in SUBSET Row, Insert(S),
         \A r \in S : born[Parent[r]] > 0 \/ Parent[r] \in S,
         \A r \in S : \A q \in Row : KeyOf[q] = KeyOf[r] /\ q # r => hot[q] = 0 /\ q \notin S
  PROVE  ArchivalInv'
<1> USE DEF ArchivalInv
<1>1. /\ born' = [r \in Row |-> IF r \in S THEN year ELSE born[r]]
      /\ written' = [r \in Row |-> IF r \in S THEN 1 ELSE written[r]]
      /\ hot' = [r \in Row |-> IF r \in S THEN 1 ELSE hot[r]]
      /\ UNCHANGED <<year, archive, raced, lock, sweep, faults>>
      /\ \A r \in S : born[r] = 0
  BY DEF Insert
<1>2. TypeOK'
  <2>1. year \in Nat /\ year >= 1 /\ 1 \in Version /\ year \in 0 .. year
    BY ArchivalBoundsAssumption DEF TypeOK, Version
  <2>2. born' \in [Row -> 0 .. year]
    BY <1>1, <2>1 DEF TypeOK
  <2>3. written' \in [Row -> Version] /\ hot' \in [Row -> Version]
    BY <1>1, <2>1 DEF TypeOK
  <2> QED
    BY <1>1, <2>2, <2>3 DEF TypeOK
<1>3. \A r \in S : hot'[r] = 1 /\ written'[r] = 1 /\ born'[r] = year /\ archive[r] = 0
                   /\ \A w \in Worker : sweep[w].batch[r] = 0
  <2> SUFFICES ASSUME NEW r \in S
               PROVE  hot'[r] = 1 /\ written'[r] = 1 /\ born'[r] = year /\ archive[r] = 0
                      /\ \A w \in Worker : sweep[w].batch[r] = 0
    OBVIOUS
  <2>1. ~ (archive[r] > 0) /\ archive[r] \in Nat
    BY <1>1 DEF Copies, TypeOK, Version
  <2>2. \A w \in Worker : ~ (sweep[w].batch[r] > 0) /\ sweep[w].batch[r] \in Nat
    BY <1>1 DEF Batches, TypeOK, SweepState, Version
  <2> QED
    BY <1>1, <2>1, <2>2
<1>4. \A r \in Row \ S : hot'[r] = hot[r] /\ written'[r] = written[r] /\ born'[r] = born[r]
  BY <1>1
<1>5. year \in Nat /\ year > 0
  BY DEF TypeOK
<1>6. Copies'
  BY <1>1, <1>3, <1>4, <1>5 DEF Copies
<1>7. Batches'
  BY <1>1, <1>3, <1>4 DEF Batches, Conflicts
<1>10. Keys'
  <2> SUFFICES ASSUME NEW r \in Row, NEW q \in Row, KeyOf[r] = KeyOf[q], r # q
               PROVE  /\ hot'[r] = 0 \/ hot'[q] = 0
                      /\ \A w \in Worker : sweep[w].batch[r] = 0 \/ sweep[w].batch[q] = 0
    BY <1>1 DEF Keys
  <2>1. CASE r \notin S /\ q \notin S
    BY <1>4, <2>1 DEF Keys
  <2>2. CASE r \in S
    BY <1>4, <2>2 DEF Keys
  <2>3. CASE q \in S
    BY <1>4, <2>3 DEF Keys
  <2> QED
    BY <2>1, <2>2, <2>3
<1>8. SweptTables'
  BY <1>1, <1>3, <1>4 DEF SweptTables
<1>9. SweptChildrenFirst'
  <2> SUFFICES ASSUME NEW c \in Row, hot'[c] > 0, hot'[Parent[c]] = 0
               PROVE  born'[c] > born'[Parent[c]]
    BY DEF SweptChildrenFirst
  <2>1. Parent[c] \in Row /\ Parent[c] \notin S /\ hot[Parent[c]] = 0
    BY <1>3, <1>4, RowAssumption
  <2>2. CASE c \notin S
    BY <1>4, <2>1, <2>2 DEF SweptChildrenFirst
  <2>3. CASE c \in S
    <3>1. born[Parent[c]] > 0 /\ born[Parent[c]] < year
      BY <2>1, <2>3 DEF Copies
    <3> QED
      BY <1>3, <1>4, <2>1, <2>3, <3>1
  <2> QED
    BY <2>2, <2>3
<1> QED
  BY <1>2, <1>6, <1>7, <1>8, <1>9, <1>10

\* An order and its items are inserted together, as rows of this year.
LEMMA PlaceOrderStep ==
  ASSUME ArchivalInv, NEW o \in Row, PlaceOrder(o)
  PROVE  ArchivalInv'
<1>1. OrderWithItems(o) \in SUBSET Row /\ Insert(OrderWithItems(o))
  BY DEF PlaceOrder, OrderWithItems
<1>2. \A r \in OrderWithItems(o) : Parent[r] = o \/ r = o
  BY DEF OrderWithItems
<1>5. \A r \in OrderWithItems(o) : TableOf[r] \notin UniqueTables
  <2> SUFFICES ASSUME NEW r \in OrderWithItems(o)
               PROVE  TableOf[r] \notin UniqueTables
    OBVIOUS
  <2>1. TableOf[r] \in Table /\ ARCHIVAL_TABLES[TableOf[r]] \in {"orders", "order_items"}
    BY RowAssumption DEF PlaceOrder, OrderWithItems
  <2> QED
    BY <2>1 DEF ARCHIVAL_TABLES, Table, UniqueTables
<1>6. \A r \in OrderWithItems(o) : \A q \in Row : ~(KeyOf[q] = KeyOf[r] /\ q # r)
  BY <1>1, <1>5, RowAssumption
<1>3. Parent[o] = o
  <2>1. TableOf[o] \in Table /\ Parent[o] \in Row
    BY RowAssumption
  <2>2. TableOf[o] = 6
    BY <2>1 DEF PlaceOrder, ARCHIVAL_TABLES, Table
  <2> QED
    BY <2>1, <2>2, RowAssumption DEF Table
<1>4. o \in OrderWithItems(o)
  BY DEF OrderWithItems
<1> QED
  BY <1>1, <1>2, <1>3, <1>4, <1>6, InsertStep

\* A row written later is of this year, and its parent was there or is older.
LEMMA InsertLaterStep ==
  ASSUME ArchivalInv, NEW r \in Row, InsertLater(r)
  PROVE  ArchivalInv'
<1>1. /\ {r} \in SUBSET Row /\ Insert({r})
      /\ born[Parent[r]] > 0 \/ Parent[r] \in {r}
      /\ \A q \in Row : KeyOf[q] = KeyOf[r] => hot[q] = 0
  BY DEF InsertLater
<1> QED
  BY <1>1, InsertStep

\* An update of a row a sweep has read makes it raced; any other keeps copies true.
LEMMA UpdateRowStep ==
  ASSUME ArchivalInv, NEW x \in Row, UpdateRow(x)
  PROVE  ArchivalInv'
<1> USE DEF ArchivalInv
<1>1. /\ hot[x] > 0 /\ written[x] < MaxVersion
      /\ written' = [written EXCEPT ![x] = written[x] + 1]
      /\ hot' = [hot EXCEPT ![x] = written[x] + 1]
      /\ raced \subseteq raced'
      /\ raced' \subseteq Row
      /\ UNCHANGED <<year, born, archive, lock, sweep, faults>>
  BY DEF UpdateRow, TypeOK
<1>2. written[x] \in Nat /\ written[x] + 1 \in Version
  BY <1>1, ArchivalBoundsAssumption DEF TypeOK, Version
<1>3. TypeOK'
  BY <1>1, <1>2 DEF TypeOK
<1>4. /\ hot'[x] = written[x] + 1 /\ hot'[x] > 0 /\ written'[x] = hot'[x]
      /\ \A r \in Row \ {x} : hot'[r] = hot[r] /\ written'[r] = written[r]
  BY <1>1, <1>2 DEF TypeOK
<1>5. \A r \in Row : hot'[r] > 0 <=> hot[r] > 0
  BY <1>1, <1>4
<1>6. (archive[x] > 0 \/ \E w \in Worker : sweep[w].batch[x] > 0) => x \in raced'
  BY DEF UpdateRow, ReadBySweep, Copies, Batches
<1>7. Copies'
  BY <1>1, <1>4, <1>5, <1>6 DEF Copies
<1>8. Batches'
  BY <1>1, <1>4, <1>5, <1>6 DEF Batches, Conflicts
<1>11. Keys'
  BY <1>1, <1>2, <1>4 DEF Keys
<1>9. SweptTables'
  BY <1>1, <1>5 DEF SweptTables
<1>10. SweptChildrenFirst'
  <2>1. \A r \in Row : hot'[r] = 0 => hot[r] = 0
    BY <1>4
  <2> QED
    BY <1>1, <1>5, <2>1, RowAssumption DEF SweptChildrenFirst
<1> QED
  BY <1>3, <1>7, <1>8, <1>9, <1>10, <1>11

\* At New Year no sweep is under way that could have passed a table.
LEMMA YearPassesStep ==
  ASSUME ArchivalInv, YearPasses
  PROVE  ArchivalInv'
<1> USE DEF ArchivalInv
<1>1. /\ year' = year + 1 /\ year <= MaxYear
      /\ UNCHANGED <<born, written, hot, archive, raced, lock, sweep, faults>>
      /\ \A w \in Worker : sweep[w].pc = "idle"
  BY DEF YearPasses
<1>2. TypeOK'
  BY <1>1, ArchivalBoundsAssumption DEF TypeOK
<1>3. year \in Nat /\ \A r \in Row : born[r] \in Nat
  BY DEF TypeOK
<1>4. Copies'
  BY <1>1, <1>3 DEF Copies
<1>5. Batches' /\ Keys'
  BY <1>1, <1>3 DEF Batches, Conflicts, Keys
<1>6. SweptTables'
  BY <1>1, RowAssumption DEF SweptTables, Table
<1>7. SweptChildrenFirst'
  BY <1>1 DEF SweptChildrenFirst
<1> QED
  BY <1>2, <1>4, <1>5, <1>6, <1>7

-----------------------------------------------------------------------------
(* The sweeps: rows are neither inserted nor updated.                      *)

\* A step that changes only the progress of one sweep, and leaves behind it
\* what its invariant asks for.
LEMMA ProgressStep ==
  ASSUME ArchivalInv, NEW w \in Worker, NEW s \in SweepState,
         sweep' = [sweep EXCEPT ![w] = s],
         UNCHANGED <<dataVars, archive>>, lock' \in BOOLEAN, faults' \in 0 .. MaxFaults,
         s.pc = "idle" => s.table = 1,
         \A r \in Row : TableOf[r] < s.table /\ hot[r] > 0 => born[r] = year,
         \A r \in Row : s.batch[r] > 0 =>
            /\ s.pc \in {"copy", "delete"} /\ TableOf[r] = s.table
            /\ 0 < born[r] /\ born[r] < year
            /\ hot[r] > 0 \/ Conflicts(r)
            /\ s.pc = "delete" => Conflicts(r)
            /\ r \notin raced => s.batch[r] = written[r],
         \A r, q \in Row : KeyOf[r] = KeyOf[q] /\ r # q => s.batch[r] = 0 \/ s.batch[q] = 0
  PROVE  ArchivalInv'
<1> USE DEF ArchivalInv, dataVars
<1>1. sweep' \in [Worker -> SweepState]
  BY DEF TypeOK
<1>2. sweep'[w] = s /\ \A v \in Worker \ {w} : sweep'[v] = sweep[v]
  BY DEF TypeOK
<1>3. TypeOK'
  BY <1>1 DEF TypeOK
<1>4. Copies' /\ SweptChildrenFirst'
  BY DEF Copies, SweptChildrenFirst
<1>5. Batches' /\ Keys'
  BY <1>2 DEF Batches, Conflicts, Keys
<1>6. SweptTables'
  BY <1>2 DEF SweptTables
<1> QED
  BY <1>3, <1>4, <1>5, <1>6

\* The same of a sweep that has nothing read.
LEMMA EmptyProgressStep ==
  ASSUME ArchivalInv, NEW w \in Worker, NEW s \in SweepState,
         sweep' = [sweep EXCEPT ![w] = s],
         UNCHANGED <<dataVars, archive>>, lock' \in BOOLEAN, faults' \in 0 .. MaxFaults,
         s.pc = "idle" => s.table = 1,
         \A r \in Row : TableOf[r] < s.table /\ hot[r] > 0 => born[r] = year,
         \A r \in Row : s.batch[r] = 0
  PROVE  ArchivalInv'
<1>1. \A r \in Row : ~(s.batch[r] > 0)
  OBVIOUS
<1>2. \A r, q \in Row : s.batch[r] = 0 \/ s.batch[q] = 0
  OBVIOUS
<1> QED
  BY <1>1, <1>2, ProgressStep

\* A run begins at the first table, with nothing read.
LEMMA TakeLockStep ==
  ASSUME ArchivalInv, NEW w \in Worker, TakeLock(w)
  PROVE  ArchivalInv'
<1> DEFINE s == [IdleSweep EXCEPT !.pc = "select"]
<1>1. s \in SweepState /\ s.pc = "select" /\ s.table = 1 /\ s.batch = NoRows
  BY IdleSweepTyped DEF SweepState, IdleSweep
<1>2. \A r \in Row : ~(TableOf[r] < s.table) /\ s.batch[r] = 0
  BY <1>1, RowAssumption DEF NoRows, Table
<1>3. /\ sweep' = [sweep EXCEPT ![w] = s]
      /\ UNCHANGED <<dataVars, archive>> /\ lock' \in BOOLEAN /\ faults' \in 0 .. MaxFaults
  BY DEF TakeLock, ArchivalInv, TypeOK
<1> HIDE DEF s
<1> QED
  BY <1>1, <1>2, <1>3, EmptyProgressStep

\* What a sweep reads are rows of past years, as they are now.
LEMMA SelectBatchStep ==
  ASSUME ArchivalInv, NEW w \in Worker, SelectBatch(w)
  PROVE  ArchivalInv'
<1> USE DEF ArchivalInv
<1>1. PICK ids \in SUBSET PriorYear(sweep[w].table) :
        sweep' = [sweep EXCEPT ![w].pc = "copy",
                               ![w].batch = [r \in Row |-> IF r \in ids THEN hot[r] ELSE 0]]
  BY DEF SelectBatch, ReadBatch
<1> DEFINE batch == [r \in Row |-> IF r \in ids THEN hot[r] ELSE 0]
           s == [sweep[w] EXCEPT !.pc = "copy", !.batch = batch]
<1>2. batch \in [Row -> Version]
  BY ArchivalBoundsAssumption DEF TypeOK, Version
<1>3. /\ s \in SweepState /\ s.pc = "copy" /\ s.table = sweep[w].table /\ s.batch = batch
      /\ sweep' = [sweep EXCEPT ![w] = s]
  BY <1>1, <1>2 DEF TypeOK, SweepState
<1>4. UNCHANGED <<dataVars, archive>> /\ lock' \in BOOLEAN /\ faults' \in 0 .. MaxFaults
  BY DEF SelectBatch, ReadBatch, TypeOK
<1>5. \A r \in Row : TableOf[r] < s.table /\ hot[r] > 0 => born[r] = year
  BY <1>3 DEF SweptTables
<1>6. ASSUME NEW r \in Row, batch[r] > 0
      PROVE  /\ TableOf[r] = sweep[w].table
             /\ 0 < born[r] /\ born[r] < year /\ hot[r] > 0 /\ batch[r] = written[r]
  <2>1. r \in ids /\ batch[r] = hot[r]
    BY <1>6
  <2> QED
    BY <1>6, <2>1 DEF PriorYear, Copies
<1>7. \A r, q \in Row : KeyOf[r] = KeyOf[q] /\ r # q => batch[r] = 0 \/ batch[q] = 0
  BY DEF Keys
<1> HIDE DEF s, batch
<1> QED
  BY <1>3, <1>4, <1>5, <1>6, <1>7, ProgressStep

\* A table is left when no row of a past year is left in it.
LEMMA NextTableStep ==
  ASSUME ArchivalInv, NEW w \in Worker, NextTable(w)
  PROVE  ArchivalInv'
<1> USE DEF ArchivalInv
<1>1. /\ sweep[w].pc = "select" /\ sweep[w] \in SweepState
      /\ PriorYear(sweep[w].table) = {}
      /\ UNCHANGED <<dataVars, archive>> /\ lock' \in BOOLEAN /\ faults' \in 0 .. MaxFaults
  BY DEF NextTable, TypeOK
<1>2. \A r \in Row : sweep[w].batch[r] = 0
  BY <1>1 DEF Batches, SweepState, Version
<1>3. \A r \in Row : TableOf[r] <= sweep[w].table /\ hot[r] > 0 => born[r] = year
  <2> SUFFICES ASSUME NEW r \in Row, TableOf[r] = sweep[w].table, hot[r] > 0
               PROVE  born[r] = year
    BY <1>1, RowAssumption DEF SweptTables, SweepState, Table
  <2>1. born[r] \in 0 .. year /\ year \in Nat /\ ~(born[r] < year)
    BY <1>1 DEF PriorYear, TypeOK
  <2> QED
    BY <2>1
<1>4. CASE sweep[w].table + 1 \in Table
  <2> DEFINE s == [sweep[w] EXCEPT !.table = sweep[w].table + 1]
  <2>1. /\ s \in SweepState /\ s.pc = "select" /\ s.batch = sweep[w].batch
        /\ s.table = sweep[w].table + 1
        /\ sweep' = [sweep EXCEPT ![w] = s]
    BY <1>1, <1>4 DEF NextTable, SweepState, TypeOK
  <2>2. \A r \in Row : TableOf[r] < s.table /\ hot[r] > 0 => born[r] = year
    BY <1>1, <1>3, <2>1, RowAssumption DEF SweepState, Table
  <2> HIDE DEF s
  <2> QED
    BY <1>1, <1>2, <2>1, <2>2, EmptyProgressStep
<1>5. CASE sweep[w].table + 1 \notin Table
  <2> DEFINE s == [sweep[w] EXCEPT !.pc = "unlock"]
  <2>1. /\ s \in SweepState /\ s.pc = "unlock" /\ s.batch = sweep[w].batch
        /\ s.table = sweep[w].table
        /\ sweep' = [sweep EXCEPT ![w] = s]
    BY <1>1, <1>5 DEF NextTable, SweepState, TypeOK
  <2>2. \A r \in Row : TableOf[r] < s.table /\ hot[r] > 0 => born[r] = year
    BY <2>1 DEF SweptTables
  <2> HIDE DEF s
  <2> QED
    BY <1>1, <1>2, <2>1, <2>2, EmptyProgressStep
<1> QED
  BY <1>4, <1>5

\* The run ends, or a statement of it fails: on to the lock, or to nothing.
LEMMA EndOfRunStep ==
  ASSUME ArchivalInv, NEW w \in Worker,
         MaxRuntime(w) \/ StatementFails(w) \/ ReleaseLock(w) \/ SweepCrashes(w)
  PROVE  ArchivalInv'
<1> USE DEF ArchivalInv
<1>1. /\ UNCHANGED <<dataVars, archive>> /\ lock' \in BOOLEAN
      /\ sweep[w] \in SweepState
  BY DEF MaxRuntime, StatementFails, ReleaseLock, SweepCrashes, TypeOK
<1>2. faults' \in 0 .. MaxFaults
  BY ArchivalBoundsAssumption
  DEF MaxRuntime, StatementFails, ReleaseLock, SweepCrashes, Fault, TypeOK
<1>3. CASE MaxRuntime(w)
  <2> DEFINE s == [sweep[w] EXCEPT !.pc = "unlock"]
  <2>1. /\ s \in SweepState /\ s.pc = "unlock" /\ s.batch = sweep[w].batch
        /\ s.table = sweep[w].table
        /\ sweep' = [sweep EXCEPT ![w] = s]
    BY <1>1, <1>3 DEF MaxRuntime, SweepState, TypeOK
  <2>2. \A r \in Row : s.batch[r] = 0
    BY <1>3, <2>1 DEF MaxRuntime, Batches, SweepState, Version
  <2>3. \A r \in Row : TableOf[r] < s.table /\ hot[r] > 0 => born[r] = year
    BY <2>1 DEF SweptTables
  <2> HIDE DEF s
  <2> QED
    BY <1>1, <1>2, <2>1, <2>2, <2>3, EmptyProgressStep
<1>4. CASE StatementFails(w)
  <2> DEFINE s == [sweep[w] EXCEPT !.pc = "unlock", !.batch = NoRows]
  <2>1. /\ s \in SweepState /\ s.pc = "unlock" /\ s.batch = NoRows
        /\ s.table = sweep[w].table
        /\ sweep' = [sweep EXCEPT ![w] = s]
    BY <1>1, <1>4, IdleSweepTyped DEF StatementFails, SweepState, TypeOK
  <2>2. \A r \in Row : s.batch[r] = 0
    BY <2>1 DEF NoRows
  <2>3. \A r \in Row : TableOf[r] < s.table /\ hot[r] > 0 => born[r] = year
    BY <2>1 DEF SweptTables
  <2> HIDE DEF s
  <2> QED
    BY <1>1, <1>2, <2>1, <2>2, <2>3, EmptyProgressStep
<1>5. CASE ReleaseLock(w) \/ SweepCrashes(w)
  <2>1. sweep' = [sweep EXCEPT ![w] = IdleSweep]
    BY <1>5 DEF ReleaseLock, SweepCrashes
  <2>2. IdleSweep.pc = "idle" /\ IdleSweep.table = 1 /\ IdleSweep.batch = NoRows
    BY DEF IdleSweep
  <2>3. \A r \in Row : ~(TableOf[r] < IdleSweep.table) /\ IdleSweep.batch[r] = 0
    BY <2>2, RowAssumption DEF NoRows, Table
  <2> QED
    BY <1>1, <1>2, <2>1, <2>2, <2>3, IdleSweepTyped, EmptyProgressStep
<1> QED
  BY <1>3, <1>4, <1>5

\* After the INSERT the archive has a row with the key of every row of the batch.
LEMMA CopyBatchStep ==
  ASSUME ArchivalInv, NEW w \in Worker, CopyBatch(w)
  PROVE  ArchivalInv'
<1> USE DEF ArchivalInv
<1> DEFINE s == [sweep[w] EXCEPT !.pc = "delete"]
<1>1. /\ sweep[w].pc = "copy" /\ sweep[w] \in SweepState
      /\ archive' = [r \in Row |-> IF Conflicts(r) THEN archive[r] ELSE sweep[w].batch[r]]
      /\ UNCHANGED <<year, born, written, hot, raced, lock, faults>>
  BY DEF CopyBatch, TypeOK, dataVars
<1>2. /\ s \in SweepState /\ s.pc = "delete" /\ s.batch = sweep[w].batch
      /\ s.table = sweep[w].table
      /\ sweep' = [sweep EXCEPT ![w] = s]
  BY <1>1 DEF CopyBatch, SweepState, TypeOK
<1>3. archive' \in [Row -> Version]
  BY <1>1 DEF TypeOK, SweepState
<1>4. TypeOK'
  BY <1>1, <1>2, <1>3 DEF TypeOK
<1>5. sweep'[w] = s /\ \A v \in Worker \ {w} : sweep'[v] = sweep[v]
  BY <1>2 DEF TypeOK
<1> HIDE DEF s
<1>6. \A r \in Row :
        /\ archive[r] \in Nat /\ sweep[w].batch[r] \in Nat
        /\ Conflicts(r) => archive'[r] = archive[r]
        /\ ~Conflicts(r) => archive[r] = 0 /\ archive'[r] = sweep[w].batch[r]
        /\ archive[r] > 0 => Conflicts(r)
  BY <1>1 DEF TypeOK, SweepState, Version, Conflicts
<1>11. \A r \in Row : Conflicts(r) => Conflicts(r)'
  BY <1>6 DEF Conflicts
<1>12. \A r \in Row : sweep[w].batch[r] > 0 => Conflicts(r)'
  BY <1>6, <1>11 DEF Conflicts
<1>7. Copies'
  <2> SUFFICES ASSUME NEW r \in Row, archive'[r] > 0
               PROVE  0 < born[r] /\ born[r] < year
                      /\ (r \notin raced => archive'[r] = written[r])
    BY <1>1 DEF Copies
  <2>1. CASE Conflicts(r)
    BY <1>6, <2>1 DEF Copies
  <2>2. CASE ~Conflicts(r)
    BY <1>6, <2>2 DEF Batches
  <2> QED
    BY <1>6, <2>1, <2>2
<1>8. Batches'
  <2> SUFFICES ASSUME NEW v \in Worker, NEW r \in Row, sweep'[v].batch[r] > 0
               PROVE  /\ sweep'[v].pc \in {"copy", "delete"}
                      /\ TableOf[r] = sweep'[v].table
                      /\ 0 < born[r] /\ born[r] < year
                      /\ hot[r] > 0 \/ Conflicts(r)'
                      /\ sweep'[v].pc = "delete" => Conflicts(r)'
                      /\ r \notin raced => sweep'[v].batch[r] = written[r]
    BY <1>1 DEF Batches
  <2>1. CASE v = w
    BY <1>1, <1>2, <1>5, <1>12, <2>1 DEF Batches
  <2>2. CASE v # w
    BY <1>1, <1>5, <1>11, <2>2 DEF Batches
  <2> QED
    BY <2>1, <2>2
<1>13. Keys'
  BY <1>1, <1>2, <1>5 DEF Keys
<1>9. SweptTables'
  BY <1>1, <1>2, <1>5 DEF SweptTables
<1>10. SweptChildrenFirst'
  BY <1>1 DEF SweptChildrenFirst
<1> QED
  BY <1>4, <1>7, <1>8, <1>9, <1>10, <1>13

\* The only step that takes rows from the hot database: the archive has the keys
\* of its batch, and what belongs to the batch and is still hot is of this year.
LEMMA DeleteBatchStep ==
  ASSUME ArchivalInv, NEW w \in Worker, DeleteBatch(w)
  PROVE  ArchivalInv'
<1> USE DEF ArchivalInv
<1> DEFINE s == [sweep[w] EXCEPT !.pc = "select", !.batch = NoRows, !.moved = TRUE]
<1>1. /\ sweep[w].pc = "delete" /\ sweep[w] \in SweepState
      /\ hot' = [r \in Row |-> IF sweep[w].batch[r] > 0 THEN 0 ELSE hot[r]]
      /\ UNCHANGED <<year, born, written, archive, raced, lock, faults>>
  BY DEF DeleteBatch, TypeOK
<1>2. /\ s \in SweepState /\ s.pc = "select" /\ s.batch = NoRows
      /\ s.table = sweep[w].table
      /\ sweep' = [sweep EXCEPT ![w] = s]
  BY <1>1, IdleSweepTyped DEF DeleteBatch, SweepState, TypeOK
<1>3. hot' \in [Row -> Version]
  BY <1>1, ArchivalBoundsAssumption DEF TypeOK, Version
<1>4. TypeOK'
  BY <1>1, <1>2, <1>3 DEF TypeOK
<1>5. sweep'[w] = s /\ \A v \in Worker \ {w} : sweep'[v] = sweep[v]
  BY <1>2 DEF TypeOK
<1> HIDE DEF s
<1>6. \A r \in Row : hot'[r] > 0 => hot'[r] = hot[r] /\ ~(sweep[w].batch[r] > 0)
  BY <1>1
<1>7. \A r \in Row : hot'[r] # hot[r] =>
        hot'[r] = 0 /\ sweep[w].batch[r] > 0 /\ Conflicts(r) /\ born[r] < year
  BY <1>1 DEF Batches
<1>8. Copies'
  BY <1>1, <1>6, <1>7 DEF Copies
<1>12. Keys'
  BY <1>2, <1>5, <1>7 DEF Keys, NoRows
<1>9. Batches'
  <2> SUFFICES ASSUME NEW v \in Worker, NEW r \in Row, sweep'[v].batch[r] > 0
               PROVE  /\ sweep'[v].pc \in {"copy", "delete"}
                      /\ TableOf[r] = sweep'[v].table
                      /\ 0 < born[r] /\ born[r] < year
                      /\ hot'[r] > 0 \/ Conflicts(r)
                      /\ sweep'[v].pc = "delete" => Conflicts(r)
                      /\ r \notin raced => sweep'[v].batch[r] = written[r]
    BY <1>1 DEF Batches, Conflicts
  <2>1. v # w
    BY <1>2, <1>5 DEF NoRows
  <2> QED
    BY <1>5, <1>7, <2>1 DEF Batches
<1>10. SweptTables'
  BY <1>1, <1>2, <1>5, <1>6 DEF SweptTables
<1>11. SweptChildrenFirst'
  <2> SUFFICES ASSUME NEW c \in Row, hot'[c] > 0, hot'[Parent[c]] = 0
               PROVE  born[c] > born[Parent[c]]
    BY <1>1 DEF SweptChildrenFirst
  <2>1. Parent[c] \in Row /\ hot[c] > 0
    BY <1>6, RowAssumption
  <2>2. CASE hot[Parent[c]] = 0
    BY <2>1, <2>2 DEF SweptChildrenFirst
  <2>3. CASE hot[Parent[c]] # 0
    <3>1. sweep[w].batch[Parent[c]] > 0
      BY <1>7, <2>1, <2>3
    <3>2. TableOf[Parent[c]] = sweep[w].table /\ born[Parent[c]] < year
      BY <2>1, <3>1 DEF Batches
    <3>3. Parent[c] # c
      BY <1>6, <3>1
    <3>4. born[c] = year
      BY <2>1, <3>2, <3>3, RowAssumption DEF SweptTables
    <3> QED
      BY <3>2, <3>4
  <2> QED
    BY <2>2, <2>3
<1> QED
  BY <1>4, <1>8, <1>9, <1>10, <1>11, <1>12

-----------------------------------------------------------------------------
\* A lock that expires touches no row.
LEMMA LockOrStutterStep ==
  ASSUME ArchivalInv, LockExpires \/ UNCHANGED vars
  PROVE  ArchivalInv'
<1>1. UNCHANGED <<year, born, written, hot, raced, archive, sweep, faults>>
      /\ lock' \in BOOLEAN
  BY DEF LockExpires, vars, dataVars, ArchivalInv, TypeOK
<1> QED
  BY <1>1
  DEF ArchivalInv, TypeOK, Copies, Batches, Keys, Conflicts, SweptTables, SweptChildrenFirst,
      SweepState

\* Every step keeps the invariant.
LEMMA NextArchival == ArchivalInv /\ [Next]_vars => ArchivalInv'
<1> SUFFICES ASSUME ArchivalInv, [Next]_vars PROVE ArchivalInv'
  OBVIOUS
<1>1. CASE ServiceNext
  BY <1>1, PlaceOrderStep, InsertLaterStep, UpdateRowStep, YearPassesStep DEF ServiceNext
<1>2. CASE LockExpires \/ UNCHANGED vars
  BY <1>2, LockOrStutterStep
<1>3. ASSUME NEW w \in Worker,
             TakeLock(w) \/ SweepStep(w) \/ MaxRuntime(w) \/ StatementFails(w)
               \/ SweepCrashes(w)
      PROVE  ArchivalInv'
  BY <1>3, TakeLockStep, SelectBatchStep, NextTableStep, CopyBatchStep, DeleteBatchStep,
     EndOfRunStep
  DEF SweepStep
<1> QED
  BY <1>1, <1>2, <1>3 DEF Next

\* The invariant behind the theorems about archival.
THEOREM ArchivalInvariant == Spec => []ArchivalInv
BY InitArchival, NextArchival, PTL DEF Spec

\* The types, for every number of rows, workers, years and faults.
THEOREM ArchivalTypeCorrect == Spec => []TypeOK
<1>1. ArchivalInv => TypeOK
  BY DEF ArchivalInv
<1> QED
  BY <1>1, ArchivalInvariant, PTL

\* Children first, though any number of sweeps may overlap.
THEOREM ChildrenGoFirst == Spec => []SweptChildrenFirst
<1>1. ArchivalInv => SweptChildrenFirst
  BY DEF ArchivalInv
<1> QED
  BY <1>1, ArchivalInvariant, PTL

\* What the archive holds is the last version, but for updates during a move.
THEOREM LossNeedsARace == Spec => []OnlyRacingWritesAreLost
<1>1. ArchivalInv => OnlyRacingWritesAreLost
  BY DEF ArchivalInv, Copies, OnlyRacingWritesAreLost
<1> QED
  BY <1>1, ArchivalInvariant, PTL

-----------------------------------------------------------------------------
(* Refinement: every step is a step of Shelf, or changes neither shelf.    *)

HotRows == { r \in Row : hot[r] > 0 }
ArchivedRows == { r \in Row : archive[r] > 0 }

\* An empty hot database is an empty shelf.
LEMMA InitIsShelf == Init => Promise!Init
BY DEF Init, Promise!Init, NoRows

\* Inserts of the service are inserts of the shelf.
LEMMA InsertIsShelf ==
  ASSUME ArchivalInv, NEW S \in SUBSET Row, Insert(S)
  PROVE  Promise!Insert(S)
<1>1. HotRows' = HotRows \cup S
  BY DEF Insert, HotRows
<1>2. ArchivedRows' = ArchivedRows
  BY DEF Insert, ArchivedRows
<1> QED
  BY <1>1, <1>2 DEF Insert, Promise!Insert, HotRows, ArchivedRows

\* The INSERT of a batch is a copy of the shelf, of rows of past years.
LEMMA CopyIsShelf ==
  ASSUME ArchivalInv, NEW w \in Worker, CopyBatch(w)
  PROVE  \E S \in SUBSET Row : Promise!Copy(S)
<1> DEFINE S == { r \in Row : sweep[w].batch[r] > 0 /\ ~Conflicts(r) }
<1>1. \A r \in Row : sweep[w].batch[r] > 0 =>
         born[r] < year /\ (hot[r] > 0 \/ Conflicts(r))
  BY DEF ArchivalInv, Batches
<1>2. \A r \in Row : archive[r] \in Nat /\ sweep[w].batch[r] \in Nat
  BY DEF ArchivalInv, TypeOK, SweepState, Version
<1>3. \A r \in Row : archive'[r] = IF Conflicts(r) THEN archive[r] ELSE sweep[w].batch[r]
  BY DEF CopyBatch
<1>4. ArchivedRows' = ArchivedRows \cup S
  BY <1>1, <1>2, <1>3 DEF ArchivedRows, Conflicts
<1>5. HotRows' = HotRows /\ UNCHANGED <<year, born>>
  BY DEF CopyBatch, dataVars, HotRows
<1>6. S \subseteq HotRows /\ \A r \in S : born[r] < year
  BY <1>1 DEF HotRows
<1>8. \A r \in S : ~Promise!Filed(r)
  BY DEF Promise!Filed, Conflicts
<1>9. \A r, q \in S : KeyOf[q] = KeyOf[r] => q = r
  BY <1>2 DEF ArchivalInv, Keys
<1>7. S \in SUBSET Row /\ Promise!Copy(S)
  BY <1>4, <1>5, <1>6, <1>8, <1>9 DEF Promise!Copy, HotRows, ArchivedRows
<1> HIDE DEF S
<1> QED
  BY <1>7 DEF Promise!Copy

\* The DELETE of a batch is a removal of the shelf: the archive has their keys.
LEMMA DeleteIsShelf ==
  ASSUME ArchivalInv, NEW w \in Worker, DeleteBatch(w)
  PROVE  \E S \in SUBSET Row : Promise!Remove(S)
<1> DEFINE S == { r \in Row : sweep[w].batch[r] > 0 }
<1>1. \A r \in S : Promise!Filed(r)
  BY DEF ArchivalInv, Batches, DeleteBatch, Conflicts, Promise!Filed
<1>2. HotRows' = HotRows \ S
  BY DEF DeleteBatch, HotRows
<1>3. ArchivedRows' = ArchivedRows /\ UNCHANGED <<year, born>>
  BY DEF DeleteBatch, ArchivedRows
<1>4. S \in SUBSET Row /\ Promise!Remove(S)
  BY <1>1, <1>2, <1>3 DEF Promise!Remove, HotRows, ArchivedRows
<1> HIDE DEF S
<1> QED
  BY <1>4 DEF Promise!Remove

\* Updates and the steps that only move a sweep on are not seen.
LEMMA OthersStutter ==
  ASSUME ArchivalInv,
         \/ \E r \in Row : UpdateRow(r)
         \/ LockExpires \/ UNCHANGED vars
         \/ \E w \in Worker : \/ TakeLock(w) \/ SelectBatch(w) \/ NextTable(w)
                              \/ ReleaseLock(w) \/ MaxRuntime(w) \/ StatementFails(w)
                              \/ SweepCrashes(w)
  PROVE  UNCHANGED <<year, born, HotRows, ArchivedRows>>
<1>1. ASSUME NEW x \in Row, UpdateRow(x)
      PROVE  UNCHANGED <<year, born, HotRows, ArchivedRows>>
  <2>1. \A r \in Row : hot[r] \in Nat /\ written[r] \in Nat
    BY DEF ArchivalInv, TypeOK, Version
  <2>2. \A r \in Row : hot'[r] > 0 <=> hot[r] > 0
    BY <1>1, <2>1 DEF UpdateRow, ArchivalInv, TypeOK
  <2> QED
    BY <1>1, <2>2 DEF UpdateRow, HotRows, ArchivedRows
<1>2. UNCHANGED <<dataVars, archive>> => UNCHANGED <<year, born, HotRows, ArchivedRows>>
  BY DEF dataVars, HotRows, ArchivedRows
<1> QED
  BY <1>1, <1>2
  DEF LockExpires, vars, TakeLock, SelectBatch, ReadBatch, NextTable, ReleaseLock, MaxRuntime,
      StatementFails, SweepCrashes

\* Every step is a step of the shelf or leaves it alone.
LEMMA NextIsShelf ==
  ArchivalInv /\ [Next]_vars
    => [Promise!Next]_<<year, born, HotRows, ArchivedRows>>
<1> SUFFICES ASSUME ArchivalInv, [Next]_vars,
                    ~ UNCHANGED <<year, born, HotRows, ArchivedRows>>
             PROVE  Promise!Next
  OBVIOUS
<1>1. ASSUME NEW o \in Row, PlaceOrder(o)
      PROVE  Promise!Next
  <2>1. OrderWithItems(o) \in SUBSET Row /\ Insert(OrderWithItems(o))
    BY <1>1 DEF PlaceOrder, OrderWithItems
  <2> QED
    BY <2>1, InsertIsShelf DEF Promise!Next
<1>2. ASSUME NEW r \in Row, InsertLater(r)
      PROVE  Promise!Next
  BY <1>2, InsertIsShelf DEF InsertLater, Promise!Next
<1>3. CASE YearPasses
  BY <1>3 DEF YearPasses, Promise!Next, Promise!NewYear
<1>4. ASSUME NEW w \in Worker, CopyBatch(w) \/ DeleteBatch(w)
      PROVE  Promise!Next
  BY <1>4, CopyIsShelf, DeleteIsShelf DEF Promise!Next
<1> QED
  BY <1>1, <1>2, <1>3, <1>4, OthersStutter DEF Next, ServiceNext, SweepStep

\* Archival as the code does it: old rows only, and none leaves the hot database
\* before the archive has a row with its key.
THEOREM ArchivalIsAShelf == Spec => ImplementsShelf
<1>1. Init => Promise!Init
  BY InitIsShelf
<1>2. ArchivalInv /\ [Next]_vars
        => [Promise!Next]_<<year, born, { r \in Row : hot[r] > 0 },
                            { r \in Row : archive[r] > 0 }>>
  BY NextIsShelf DEF HotRows, ArchivedRows
<1> QED
  BY <1>1, <1>2, ArchivalInvariant, PTL DEF Spec, ImplementsShelf, Promise!Spec
=============================================================================

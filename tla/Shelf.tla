------------------------------- MODULE Shelf --------------------------------
(***************************************************************************)
(* What archival keeps of its promise that nothing is lost: of a key that  *)
(* was inserted a row can always be found.  Rows of past years are copied  *)
(* to the archive, which takes one row per key and never gives it up; a    *)
(* row leaves the hot database only when the archive has a row with its    *)
(* key, its own copy or an earlier one's.                                  *)
(***************************************************************************)
EXTENDS Naturals

CONSTANTS Row, KeyOf

VARIABLES
  year,      \* the current year
  born,      \* the year a row was inserted in
  hot,       \* the rows in the hot database
  archived   \* the rows in the archive

Init ==
  /\ year = 1
  /\ born = [r \in Row |-> 0]     \* 0: not inserted yet
  /\ hot = {}
  /\ archived = {}

Insert(S) ==
  /\ \A r \in S : born[r] = 0
  /\ born' = [r \in Row |-> IF r \in S THEN year ELSE born[r]]
  /\ hot' = hot \cup S
  /\ UNCHANGED <<year, archived>>

NewYear ==
  /\ year' = year + 1
  /\ UNCHANGED <<born, hot, archived>>

Filed(r) == \E q \in archived : KeyOf[q] = KeyOf[r]

Copy(S) ==
  /\ S \subseteq hot
  /\ \A r \in S : ~Filed(r) /\ \A q \in S : KeyOf[q] = KeyOf[r] => q = r
  /\ \A r \in S : born[r] < year
  /\ archived' = archived \cup S
  /\ UNCHANGED <<year, born, hot>>

Remove(S) ==
  /\ \A r \in S : Filed(r)
  /\ hot' = hot \ S
  /\ UNCHANGED <<year, born, archived>>

Next == NewYear \/ \E S \in SUBSET Row : Insert(S) \/ Copy(S) \/ Remove(S)

Spec == Init /\ [][Next]_<<year, born, hot, archived>>
=============================================================================

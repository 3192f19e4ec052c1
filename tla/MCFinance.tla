----------------------------- MODULE MCFinance ------------------------------
(***************************************************************************)
(* Small instances of Finance for TLC.                                     *)
(***************************************************************************)
EXTENDS Finance, TLC

\* Two orders; the commission of the first is rounded, the second has no fee.
MCSubtotal == [o \in Order |-> IF o \in Online THEN 3 ELSE 2]
MCDeliveryFee == [o \in Order |-> IF o \in Online THEN 2 ELSE 0]

\* Requests, settlements and keys are interchangeable.
Symmetry == Permutations(Request) \cup Permutations(Settlement) \cup Permutations(Key)
=============================================================================

----------------------------- MODULE MCArchival -----------------------------
(***************************************************************************)
(* A small instance of Archival for TLC: an order with an item, its        *)
(* earning, and the earning a second settlement of the order writes when a *)
(* sweep has taken the first.                                              *)
(***************************************************************************)
EXTENDS Archival

CONSTANTS order, item, earning, again

SmallRow == {order, item, earning, again}
SmallTableOf ==
  [r \in SmallRow |-> CASE r = order -> 6 [] r = item -> 5 [] OTHER -> 1]
SmallParent == [r \in SmallRow |-> order]
SmallKeyOf == [r \in SmallRow |-> IF r = again THEN earning ELSE r]
=============================================================================

----------------------------- MODULE MCCheckout -----------------------------
(***************************************************************************)
(* Small instances of Checkout for TLC.                                    *)
(***************************************************************************)
EXTENDS Checkout, TLC

\* Requests and payment attempts are interchangeable; orders are too.
Symmetry == Permutations(Request) \cup Permutations(Txn) \cup Permutations(Order)
=============================================================================

----------------------------- MODULE MCDelivery -----------------------------
(***************************************************************************)
(* Small instances of Delivery for TLC.                                    *)
(***************************************************************************)
EXTENDS Delivery, TLC

\* Agents, calls, requests and workers are interchangeable.
Symmetry == Permutations(Agent) \cup Permutations(Call)
              \cup Permutations(Request) \cup Permutations(Worker)
=============================================================================

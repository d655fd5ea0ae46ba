----------------------------- MODULE MCRefunds -----------------------------
(* Instances of Refunds for TLC. *)
EXTENDS Refunds, TLC

Alike == Permutations(Procs)

\* Bound: a refund made at the panel, or one cancelled, comes with two askings; three without.
Few == \/ left.panel = MaxPanel /\ left.cancels = MaxCancels
       \/ left.panel + left.cancels > 0 /\ left.asks > 0
=============================================================================

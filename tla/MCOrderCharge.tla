--------------------------- MODULE MCOrderCharge ---------------------------
(***************************************************************************)
(* Instances of OrderCharge for TLC.                                       *)
(***************************************************************************)
EXTENDS OrderCharge, TLC

CONSTANTS p1, p2, c1, c2

MCProcs == {p1, p2}
MCCharges == {c1, c2}

\* A Pix or a card paid, and the money settled.
PaidMoves == {<<"PENDING", "CONFIRMED">>}
\* An overdue charge paid late, a card reviewed.
LateMoves == PaidMoves \cup {<<"PENDING", "OVERDUE">>, <<"OVERDUE", "RECEIVED">>}
ReviewMoves == PaidMoves \cup {<<"AWAITING_RISK_ANALYSIS", "CONFIRMED">>,
                               <<"AWAITING_RISK_ANALYSIS", "PENDING">>}
SlowMoves == LateMoves \cup ReviewMoves

\* Bound: a charge under review or aged, and the routine that cancels what is unpaid (one round of it
\* at a time), come with two askings and no fault; three askings and a fault with charges paid in time.
Slow == \/ \E c \in Charges : charge[c].age > 0 \/ charge[c].word \in {"AWAITING_RISK_ANALYSIS", "OVERDUE"}
        \/ \E p \in Procs : talk[p].kind \in {"unpaid", "fee"}
        \/ order.late
Apart == Slow => /\ budget.faults = MaxFaults /\ budget.asks > 0
                 /\ \A p \in Procs : talk[p].kind \in {"none", "ensure", "unpaid", "fee"}
                 /\ \E p \in Procs : talk[p].kind # "unpaid"

Symmetry == Permutations(MCProcs) \cup Permutations(MCCharges)
=============================================================================

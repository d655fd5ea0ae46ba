----------------------------- MODULE RefundBook -----------------------------
(***************************************************************************)
(* What bee-link's books keep of the refunds of one charge, and their      *)
(* writers (payment-refunds.ts, refund-totals.ts): functions of the rows,  *)
(* so that a transaction is a composition written in one step.             *)
(*                                                                         *)
(* The rows are a sequence, the oldest first.  A deleted row keeps its     *)
(* place as DROPPED, which no writer reads.                                *)
(***************************************************************************)
EXTENDS Integers, Sequences, FiniteSetsExt

CONSTANT Amount     \* what the charge was paid, in cents

ASSUME AmountIsPaid == Amount \in Nat \ {0}

STANDING_REFUNDS == {"REQUESTED", "PROCESSING", "DONE"}
TAKEN_REFUNDS == {"PROCESSING", "DONE"}
RefundStatuses == STANDING_REFUNDS \cup {"REFUSED", "DENIED", "DROPPED"}

\* held: claimedUntil lies ahead.
RefundRow == [cents : 1..Amount, status : RefundStatuses, held : BOOLEAN]

\* What the order's payment says of its refunds.
Payment == [status : {"RECEIVED", "PARTIALLY_REFUNDED", "REFUNDED"},
            refunded : 0..Amount, refunding : 0..Amount]

RefundTotals == [done : Nat, pending : Nat, cancelled : Nat]
NO_REFUNDS == [done |-> 0, pending |-> 0, cancelled |-> 0]

Least(a, b) == IF a < b THEN a ELSE b
NotBelow0(n) == IF n > 0 THEN n ELSE 0

rowsIn(rows, statuses) == {i \in DOMAIN rows : rows[i].status \in statuses}

\* The cents at the places `which' of a list.
centsOf(list, which) ==
  LET sum[i \in 0..Len(list)] ==
        IF i = 0 THEN 0 ELSE sum[i - 1] + IF i \in which THEN list[i].cents ELSE 0
  IN sum[Len(list)]
sumOf(rows, statuses) == centsOf(rows, rowsIn(rows, statuses))

holdsMoney(pay) == pay.status # "REFUNDED"

refundableOf(rows) == NotBelow0(Amount - sumOf(rows, STANDING_REFUNDS))
\* mutant: what was only asked for, as good as taken
unrefundedIfAsked(rows) == refundableOf(rows)
unrefundedOf(rows) == NotBelow0(Amount - sumOf(rows, TAKEN_REFUNDS))

-----------------------------------------------------------------------------
(* reconcileRefunds: what Asaas says of the refunds, written on the rows. *)

\* What is left of the money back and on its way, the charge's amount at most.
doneOf(totals) == Least(totals.done, Amount)
pendingOf(totals) == Least(totals.pending, Amount - doneOf(totals))

\* A cancelled refund not accounted for yet, and what the rows taken hold beyond Asaas.
\* mutant: every cancelled refund, the ones accounted for too
cancelledAtAll(rows, totals) == totals.cancelled
cancelledLeft(rows, totals) == totals.cancelled - sumOf(rows, {"DENIED", "REFUSED"})
missingOf(rows, totals) == sumOf(rows, TAKEN_REFUNDS) - doneOf(totals) - pendingOf(totals)

\* One row, the oldest first, taken for denied when it fits what is left; s: [who, sum].
fitRow(s, rows, i, missing, cancelled) ==
  LET sum == s.sum + rows[i].cents IN
  IF rows[i].status = "PROCESSING" /\ sum <= missing /\ sum <= cancelled
  THEN [who |-> s.who \cup {i}, sum |-> sum] ELSE s

NOBODY == [who |-> {}, sum |-> 0]
fitRows(rows, missing, cancelled) ==
  LET fits[i \in 0..Len(rows)] ==
        IF i = 0 THEN NOBODY ELSE fitRow(fits[i - 1], rows, i, missing, cancelled)
  IN fits[Len(rows)]

\* The rows found denied: the oldest that is exactly what is missing, else the oldest that fit.
deniedBy(rows, totals) ==
  LET missing == missingOf(rows, totals)
      cancelled == cancelledLeft(rows, totals)
      exact == {i \in rowsIn(rows, {"PROCESSING"}) : rows[i].cents = missing}
  IN IF exact # {} /\ missing <= cancelled THEN {Min(exact)} ELSE fitRows(rows, missing, cancelled).who

taken(row, status) == [row EXCEPT !.status = status, !.held = FALSE]

\* One row, the oldest first, denied or covered by what is left; s: [rows, done, pending, uncovered].
coverRow(s, i, denied, authoritative) ==
  LET row == s.rows[i] IN
  IF i \in denied THEN [s EXCEPT !.rows[i].status = "DENIED"]
  ELSE IF row.status \notin STANDING_REFUNDS THEN s
  ELSE IF row.cents <= s.done
  THEN [s EXCEPT !.rows[i] = IF row.status = "DONE" THEN row ELSE taken(row, "DONE"),
                 !.done = @ - row.cents]
  ELSE IF row.cents <= s.done + s.pending
  THEN [s EXCEPT !.rows[i] = IF row.status = "REQUESTED" THEN taken(row, "PROCESSING") ELSE row,
                 !.pending = @ - (row.cents - s.done), !.done = 0]
  ELSE IF row.status = "REQUESTED" /\ authoritative /\ ~row.held
  THEN [s EXCEPT !.rows[i] = taken(row, "REFUSED")]
  ELSE IF row.status # "DONE" THEN [s EXCEPT !.uncovered = TRUE] ELSE s

\* mutant: what is back read as on its way
startOnItsWay(rows, totals) ==
  [rows |-> rows, done |-> 0, pending |-> doneOf(totals) + pendingOf(totals), uncovered |-> FALSE]
coverStart(rows, totals) ==
  [rows |-> rows, done |-> doneOf(totals), pending |-> pendingOf(totals), uncovered |-> FALSE]

coverRows(rows, totals, authoritative) ==
  LET cover[i \in 0..Len(rows)] ==
        IF i = 0 THEN coverStart(rows, totals)
        ELSE coverRow(cover[i - 1], i, deniedBy(rows, totals), authoritative)
  IN cover[Len(rows)]

\* A refund made at Asaas itself gets a row, taken from the start.
outsideRow(cents, status) ==
  IF cents > 0 THEN <<[cents |-> cents, status |-> status, held |-> FALSE]>> ELSE <<>>

reconcileRefunds(rows, totals, authoritative) ==
  LET s == coverRows(rows, totals, authoritative)
      room == refundableOf(s.rows)
      back == Least(s.done, room)
  IN IF s.uncovered THEN s.rows
     ELSE s.rows \o outsideRow(back, "DONE") \o outsideRow(Least(s.pending, room - back), "PROCESSING")

-----------------------------------------------------------------------------
(* The writers of one row; each leaves alone a row that is no longer asked. *)

askedNow(rows, r) == rows[r].status = "REQUESTED"

\* mutant: the claim not held
claimUnheld(rows, cents) == Append(rows, [cents |-> cents, status |-> "REQUESTED", held |-> FALSE])
claimRefund(rows, cents) == Append(rows, [cents |-> cents, status |-> "REQUESTED", held |-> TRUE])
\* mutant: whatever became of the row
takeAnyRow(rows, r) == [rows EXCEPT ![r] = taken(@, "PROCESSING")]
takeRefund(rows, r) == IF askedNow(rows, r) THEN [rows EXCEPT ![r] = taken(@, "PROCESSING")] ELSE rows
refuseRefund(rows, r) == IF askedNow(rows, r) THEN [rows EXCEPT ![r] = taken(@, "REFUSED")] ELSE rows
dropRefund(rows, r) == IF askedNow(rows, r) THEN [rows EXCEPT ![r] = taken(@, "DROPPED")] ELSE rows
\* mutant: no answer taken for a yes
holdAsTaken(rows, r) == takeRefund(rows, r)
\* mutant: no answer taken for a no
holdAsRefused(rows, r) == refuseRefund(rows, r)
holdRefund(rows, r) == IF askedNow(rows, r) THEN [rows EXCEPT ![r].held = TRUE] ELSE rows

backOf(rows) == sumOf(rows, {"DONE"})
onItsWay(rows) == sumOf(rows, TAKEN_REFUNDS) - backOf(rows)
\* mutant: what is back counted as on its way
withWhatIsBack(rows, refunded) == sumOf(rows, TAKEN_REFUNDS)
refundingOf(rows, refunded) == Least(onItsWay(rows), Amount - refunded)

\* The payment as its refunds leave it: never back down from a REFUNDED Asaas itself said.
\* mutant: what is on its way said to be back
settleAsTaken(pay, rows) ==
  LET taken_ == Least(sumOf(rows, TAKEN_REFUNDS), Amount) IN
  [pay EXCEPT !.refunded = taken_, !.refunding = 0, !.status = IF taken_ = Amount THEN "REFUNDED" ELSE @]
settleRefundMoney(pay, rows) ==
  LET whole == pay.status = "REFUNDED" \/ backOf(rows) >= Amount
      refunded == IF whole THEN Amount ELSE backOf(rows)
  IN [pay EXCEPT !.refunded = refunded, !.refunding = refundingOf(rows, refunded),
                 !.status = IF whole THEN "REFUNDED" ELSE IF refunded > 0 THEN "PARTIALLY_REFUNDED" ELSE @]
=============================================================================

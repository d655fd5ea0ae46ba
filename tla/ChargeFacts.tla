---------------------------- MODULE ChargeFacts ----------------------------
(***************************************************************************)
(* What bee-link keeps of one order's charges, and the writers of it       *)
(* (payments/payment-facts.ts).  The database's part of an order - its     *)
(* rows of order_payments, of order_stray_payments and its paid notice -   *)
(* is one record, the book; a writer maps a book to a book, so that a      *)
(* transaction is a composition of writers and is written in one step.     *)
(* Every writer runs under the shop's row lock.                            *)
(***************************************************************************)
EXTENDS PaymentStatus

CONSTANT Charges    \* the ids Asaas may give the order's charges

StrayReasons == {"ORDER_CANCELLED", "ORDER_ALREADY_PAID"}

Row == [status : RowStatuses \cup {NoStatus}, word : AsaasWords \cup {NoStatus}]

NoRow == [status |-> NoStatus, word |-> NoStatus]

\* rows: order_payments by the charge they name; refused: a FAILED row stands,
\* naming no charge; stray: why a charge's money is a stray payment; told: the
\* order's OrderPaidNotice exists.
Book == [rows : [Charges -> Row], refused : BOOLEAN,
         stray : [Charges -> StrayReasons \cup {NoStatus}], told : BOOLEAN]

EmptyBook == [rows |-> [c \in Charges |-> NoRow], refused |-> FALSE,
              stray |-> [c \in Charges |-> NoStatus], told |-> FALSE]

\* order_payments_one_live_key: no two rows of an order are alive at once.  A
\* transaction that would leave two is aborted by the database.
OneLive(b) == \A c, d \in Charges :
                isLive(b.rows[c].status) /\ isLive(b.rows[d].status) => c = d

liveCharges(b) == {c \in Charges : isLive(b.rows[c].status)}
paidCharges(b) == {c \in Charges : wasPaid(b.rows[c].status)}
heldCharges(b) == {c \in Charges : holdsMoney(b.rows[c].status)}
waitingCharges(b) == {c \in Charges : waits(b.rows[c].status)}

\* Rows whose charges Asaas no longer holds, cancelled while still unpaid.
cancelRows(b, gone) ==
  [b EXCEPT !.rows = [c \in Charges |->
     IF c \in gone /\ waits(b.rows[c].status)
       THEN [b.rows[c] EXCEPT !.status = "CANCELLED"]
       ELSE b.rows[c]]]

\* A charge as Asaas tells it now, on the row that names it or on a new one; the
\* order's first payment approved is owed its notice, unless it is cancelled.
written(b, c, word) ==
  [status |-> statusWritten(b.rows[c].status, b.rows[c].word, word), word |-> word]

tellWaitingPaid(b, S, words, cancelled) ==   \* mutant: only a row that waited is news
  /\ ~cancelled
  /\ \E c \in S : /\ holdsMoney(written(b, c, words[c]).status)
                  /\ waits(b.rows[c].status)

tellPaid(b, S, words, cancelled) ==
  /\ ~cancelled
  /\ \E c \in S : /\ holdsMoney(written(b, c, words[c]).status)
                  /\ ~wasPaid(b.rows[c].status)

applyCharges(b, S, words, cancelled) ==
  [b EXCEPT !.rows = [c \in Charges |-> IF c \in S THEN written(b, c, words[c]) ELSE b.rows[c]],
            !.told = @ \/ tellPaid(b, S, words, cancelled)]

applyCharge(b, c, words, cancelled) == applyCharges(b, {c}, words, cancelled)

\* Money the order did not ask for, kept once a charge: the first reason stays.
noteStrays(b, S, reason) ==
  [b EXCEPT !.stray = [c \in Charges |->
     IF c \in S /\ b.stray[c] = NoStatus THEN reason ELSE b.stray[c]]]

\* An attempt Asaas refused to make.
recordRefusal(b) == [b EXCEPT !.refused = TRUE]
=============================================================================

---------------------------- MODULE PaymentStatus ----------------------------
(***************************************************************************)
(* Where a charge stands, as bee-link keeps it (OrderPaymentStatus) and as *)
(* Asaas words it, and how the second moves the first.  Pure operators,    *)
(* shared by every module that writes a row of order_payments.             *)
(***************************************************************************)
EXTENDS Integers

\* The value of a status that does not exist yet: no row for the charge.
NoStatus == "NONE"

RowStatuses == {"PENDING", "OVERDUE", "CONFIRMED", "RECEIVED",
                "PARTIALLY_REFUNDED", "REFUNDED", "CANCELLED", "FAILED"}

DeadStatuses == {"CANCELLED", "FAILED"}

isLive(status) == status \in RowStatuses \ DeadStatuses

\* The shop holds the customer's money for it.
holdsMoney(status) == status \in {"CONFIRMED", "RECEIVED", "PARTIALLY_REFUNDED"}

\* It was paid, wherever the money is now.
wasPaid(status) == holdsMoney(status) \/ status = "REFUNDED"

\* Still to be paid: what cancelRows may end and the reconciliation asks about.
waits(status) == status \in {"PENDING", "OVERDUE"}

\* How far along the money is.
RANK == [s \in RowStatuses |->
           CASE s \in DeadStatuses -> -1
             [] s = "PENDING" -> 0
             [] s = "OVERDUE" -> 1
             [] s = "CONFIRMED" -> 2
             [] s = "RECEIVED" -> 3
             [] s = "PARTIALLY_REFUNDED" -> 4
             [] s = "REFUNDED" -> 5]

-----------------------------------------------------------------------------
\* Asaas's words that say where the money is.
SaidWords == {"PENDING", "AWAITING_RISK_ANALYSIS", "OVERDUE", "DUNNING_REQUESTED",
              "CONFIRMED", "RECEIVED", "RECEIVED_IN_CASH", "DUNNING_RECEIVED",
              "REFUNDED"}

SAID == [w \in SaidWords |->
           CASE w \in {"PENDING", "AWAITING_RISK_ANALYSIS"} -> "PENDING"
             [] w \in {"OVERDUE", "DUNNING_REQUESTED"} -> "OVERDUE"
             [] w = "CONFIRMED" -> "CONFIRMED"
             [] w \in {"RECEIVED", "RECEIVED_IN_CASH", "DUNNING_RECEIVED"} -> "RECEIVED"
             [] w = "REFUNDED" -> "REFUNDED"]

\* Paid, with the money on its way back or in dispute.
PaidAndUnsettled == {"REFUND_REQUESTED", "REFUND_IN_PROGRESS", "CHARGEBACK_REQUESTED",
                     "CHARGEBACK_DISPUTE", "AWAITING_CHARGEBACK_REVERSAL"}

\* A word Asaas adds later stands for every word bee-link does not know.
UnknownWord == "SOMETHING_NEW"

AsaasWords == SaidWords \cup PaidAndUnsettled \cup {UnknownWord}

\* A card Asaas is reviewing by hand: neither paid nor to be replaced.
inReview(word) == word = "AWAITING_RISK_ANALYSIS"

\* What Asaas's word makes of a charge that stands at `current`.
statusSaidBy(word, current) ==
  CASE word \in SaidWords -> SAID[word]
    [] word \in PaidAndUnsettled -> IF wasPaid(current) THEN current ELSE "CONFIRMED"
    [] OTHER -> IF current = NoStatus THEN "PENDING" ELSE current

isPaidWord(word) == wasPaid(statusSaidBy(word, NoStatus))

\* Where a charge stands after Asaas told of it.
statusAfter(current, word, deleted) ==
  LET said == statusSaidBy(word, IF isLive(current) THEN current ELSE NoStatus)
  IN  CASE deleted -> IF wasPaid(current) THEN current ELSE "CANCELLED"
        [] ~deleted /\ current = NoStatus -> said
        [] ~deleted /\ current \in DeadStatuses -> IF wasPaid(said) THEN said ELSE current
        [] ~deleted /\ isLive(current) -> IF RANK[said] >= RANK[current] THEN said ELSE current

\* A receipt in cash the shop declared at Asaas and then undid: the one way back.
cashUndone(current, lastWord, word) ==
  /\ current = "RECEIVED"
  /\ lastWord = "RECEIVED_IN_CASH"
  /\ word \in {"PENDING", "OVERDUE"}

lastSaid(current, lastWord, word) == statusSaidBy(word, current)   \* mutant: the last word heard wins

wordItself(current, lastWord, word) == word   \* mutant: Asaas's word kept untranslated

\* The status applyCharge writes for a listed (never deleted) charge.
statusWritten(current, lastWord, word) ==
  IF cashUndone(current, lastWord, word)
    THEN statusSaidBy(word, NoStatus)
    ELSE statusAfter(current, word, FALSE)
=============================================================================

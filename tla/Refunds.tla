------------------------------ MODULE Refunds ------------------------------
(***************************************************************************)
(* Money given back from one paid order (order-refunds.service.ts), and    *)
(* the order's cancellation, which gives back first (orders.service.ts).   *)
(*                                                                         *)
(* A request is a process: transactions under the shop's row lock, one     *)
(* step each, between calls to Asaas, one step each.  Asaas holds its own  *)
(* list of the charge's refunds, which bee-link reads as sums, and not     *)
(* always at once: a refund made may not show yet, a listing may leave the *)
(* refunds out, and a reading may be written long after it was made.       *)
(*                                                                         *)
(* Stray payments, instalment plans (one charge here) and a charge that    *)
(* belongs to an account the shop left are left out.                       *)
(***************************************************************************)
EXTENDS RefundBook

CONSTANTS
  Procs,        \* requests in flight at once
  Timely,       \* a claim and a hold outlast the call they cover, what it made, and a settlement under way
  InOrder,      \* the refunds asked for show in the order they were made
  Refuses,      \* Asaas may refuse a refund it has the money for
  MaxAsks,      \* bound: refunds and cancellations asked by the shop
  MaxPanel,     \* bound: refunds made at Asaas's own panel
  MaxCancels,   \* bound: refunds Asaas took and cancelled
  MaxFaults,    \* bound: calls that fail, answers lost, processes crashed
  Unread        \* stands for a reading nobody has

ASSUME Asaas == Timely \in BOOLEAN /\ InOrder \in BOOLEAN /\ Refuses \in BOOLEAN
ASSUME RefundBounds == /\ MaxAsks \in Nat /\ MaxPanel \in Nat
                       /\ MaxCancels \in Nat /\ MaxFaults \in Nat
ASSUME NothingRead == Unread \notin RefundTotals

VARIABLES
  asaas,    \* the charge's refunds at Asaas, as they were made
  rows,     \* order_refunds: bee-link's rows of the charge
  pay,      \* order_payments: what the order's payment says of them
  order,    \* whether the order stands
  at, talk, \* where each request is, and what it holds on the way
  left      \* what is left of the bounds

vars == <<asaas, rows, pay, order, at, talk, left>>

\* by: the row it was asked for, 0 for one made at the panel.  shown: Asaas's readings hold it.
Refund == [cents : 1..Amount, status : {"PENDING", "DONE", "CANCELLED"}, shown : BOOLEAN, by : Nat]

\* want, saw: what is asked and what the screen showed as left (0: a cancellation with no refund).
\* row: the row claimed.  again: the second claim of one asking.  next: where a hearing leads.
\* known: what the payment says is given back or on its way.  read: the sums read.  whole: Asaas
\* says the charge is refunded.  What a request no longer looks at is blank.
Blank == [kind |-> "none", want |-> 0, saw |-> 0, row |-> 0, again |-> FALSE, next |-> "idle",
          known |-> 0, read |-> Unread, whole |-> FALSE]

Talk == [kind : {"none", "refund", "cancel"}, want : 0..Amount, saw : 0..Amount, row : Nat,
         again : BOOLEAN, next : {"idle", "claim", "cancel"},
         known : 0..Amount, read : RefundTotals \cup {Unread}, whole : BOOLEAN]

Places == {"idle", "claim", "call", "write", "refuse", "drop", "lost", "hold", "settle", "settled",
           "list", "heard", "before", "thrown", "cancel"}

Init ==
  /\ asaas = <<>> /\ rows = <<>> /\ order = "OPEN"
  /\ pay = [status |-> "RECEIVED", refunded |-> 0, refunding |-> 0]
  /\ at = [p \in Procs |-> "idle"] /\ talk = [p \in Procs |-> Blank]
  /\ left = [asks |-> MaxAsks, panel |-> MaxPanel, cancels |-> MaxCancels, faults |-> MaxFaults]

-----------------------------------------------------------------------------
(* The refunds at Asaas, as sums. *)

refundsAt(list, statuses) == {i \in DOMAIN list : list[i].status \in statuses}
standsAt(list) == refundsAt(list, {"PENDING", "DONE"})
wholeAt(list) == centsOf(list, refundsAt(list, {"DONE"})) = Amount

\* refundTotalsOf: what a reading shows.
refundTotalsOf(list) ==
  LET shown == {i \in DOMAIN list : list[i].shown}
      sum(status) == centsOf(list, shown \cap refundsAt(list, {status}))
  IN [done |-> sum("DONE"), pending |-> sum("PENDING"), cancelled |-> sum("CANCELLED")]

\* A read by the charge's id: one said refunded gave all of it back, whatever its list holds.
totalsOf(list) == IF wholeAt(list) THEN [NO_REFUNDS EXCEPT !.done = Amount] ELSE refundTotalsOf(list)

\* A listing may leave the refunds out (chargeRefundTotals).
listings(list) ==
  {IF wholeAt(list) THEN [t EXCEPT !.done = Amount, !.pending = 0] ELSE t : t \in {NO_REFUNDS, refundTotalsOf(list)}}

-----------------------------------------------------------------------------

goesTo(p, place) == at' = [at EXCEPT ![p] = place]
ends(p) == goesTo(p, "idle") /\ talk' = [talk EXCEPT ![p] = Blank]
faults == left.faults > 0 /\ left' = [left EXCEPT !.faults = @ - 1]

\* An asking that failed: a cancellation looks once more at what is left to give back.
throws(p) ==
  IF talk[p].kind = "cancel"
  THEN goesTo(p, "thrown") /\ talk' = [talk EXCEPT ![p] = [Blank EXCEPT !.kind = "cancel"]]
  ELSE ends(p)

\* A hearing begins with what the payment says: remembered only while some of it is on its way.
knownOf(money) == IF money.refunding = 0 THEN 0 ELSE money.refunded + money.refunding

\* The refund stands: Asaas is heard of the charge (told), and the cancellation goes on.
told(p) ==
  /\ goesTo(p, "list")
  /\ talk' = [talk EXCEPT ![p] = [Blank EXCEPT !.kind = talk[p].kind, !.known = knownOf(pay'),
                                    !.next = IF talk[p].kind = "cancel" THEN "cancel" ELSE "idle"]]

writes(new) == rows' = new /\ pay' = settleRefundMoney(pay, new)
booksStay == UNCHANGED <<rows, pay>>

(* The shop asks for a refund from a screen that showed what was left, or cancels the order. *)
Ask(p) ==
  /\ at[p] = "idle" /\ left.asks > 0
  /\ \E want, saw \in 1..Amount :
       talk' = [talk EXCEPT ![p] = [Blank EXCEPT !.kind = "refund", !.want = want, !.saw = saw]]
  /\ goesTo(p, "claim") /\ left' = [left EXCEPT !.asks = @ - 1]
  /\ booksStay /\ UNCHANGED <<asaas, order>>

AskCancel(p) ==
  /\ at[p] = "idle" /\ left.asks > 0
  /\ \E saw \in 0..Amount : talk' = [talk EXCEPT ![p] = [Blank EXCEPT !.kind = "cancel", !.saw = saw]]
  /\ goesTo(p, "before") /\ left' = [left EXCEPT !.asks = @ - 1]
  /\ booksStay /\ UNCHANGED <<asaas, order>>

askedRows == rowsIn(rows, {"REQUESTED"})
\* mutant: more than what is left
mayClaimMore(t) == t.saw = refundableOf(rows) /\ refundableOf(rows) > 0
mayClaim(t) == /\ t.saw = refundableOf(rows) /\ t.want <= refundableOf(rows)
               /\ refundableOf(rows) > 0

(* claim: the row is written and committed before Asaas is called; an earlier one nobody knows *)
(* the end of is settled first, once.                                                          *)
Claim(p) ==
  /\ at[p] = "claim"
  /\ \/ /\ \/ ~holdsMoney(pay)
           \/ \E i \in askedRows : rows[i].held \/ talk[p].again
           \/ askedRows = {} /\ ~mayClaim(talk[p])
           \/ askedRows = {} /\ pay.refunding > 0   \* Asaas's word may not let it be refunded now
        /\ throws(p) /\ UNCHANGED rows
     \/ /\ holdsMoney(pay) /\ askedRows # {} /\ ~talk[p].again
        /\ \A i \in askedRows : ~rows[i].held
        /\ goesTo(p, "settle") /\ UNCHANGED <<rows, talk>>
     \/ /\ holdsMoney(pay) /\ askedRows = {} /\ mayClaim(talk[p])
        /\ rows' = claimRefund(rows, talk[p].want)
        /\ talk' = [talk EXCEPT ![p].row = Len(rows) + 1, ![p].saw = 0, ![p].again = FALSE] /\ goesTo(p, "call")
  /\ UNCHANGED <<asaas, pay, order, left>>

roomAt(list) == Amount - centsOf(list, standsAt(list))

\* Asaas's j-th refund may be among those a reading shows.
mayShow(j) == InOrder => \A k \in 1..(j - 1) : asaas[k].shown

(* Asaas makes the refund; its answer may be lost, and need not show the refund yet. *)
Made(p) ==
  /\ at[p] = "call" /\ talk[p].want <= roomAt(asaas)
  /\ \E shown \in {s \in BOOLEAN : s => mayShow(Len(asaas) + 1)} :
       asaas' = Append(asaas, [cents |-> talk[p].want, status |-> "PENDING", shown |-> shown, by |-> talk[p].row])
  /\ \/ goesTo(p, "write") /\ talk' = [talk EXCEPT ![p].read = totalsOf(asaas')] /\ UNCHANGED left
     \/ goesTo(p, "lost") /\ faults /\ UNCHANGED talk
  /\ booksStay /\ UNCHANGED order

(* Nothing is made: refused, never asked (no key, a 429), or an answer lost on a request that was not carried out. *)
NotMade(p) ==
  /\ at[p] = "call"
  /\ \/ (Refuses \/ talk[p].want > roomAt(asaas)) /\ goesTo(p, "refuse") /\ UNCHANGED left
     \/ faults /\ (goesTo(p, "drop") \/ goesTo(p, "lost"))
  /\ booksStay /\ UNCHANGED <<asaas, order, talk>>

Write(p) ==
  /\ at[p] = "write"
  /\ writes(takeRefund(reconcileRefunds(rows, talk[p].read, FALSE), talk[p].row))
  /\ told(p) /\ UNCHANGED <<asaas, order, left>>

Refuse(p) ==
  /\ at[p] = "refuse" /\ rows' = refuseRefund(rows, talk[p].row)
  /\ throws(p) /\ UNCHANGED <<asaas, pay, order, left>>

Drop(p) ==
  /\ at[p] = "drop" /\ rows' = dropRefund(rows, talk[p].row)
  /\ throws(p) /\ UNCHANGED <<asaas, pay, order, left>>

(* No answer is not a no: the charge is read, which may fail too. *)
Reread(p) ==
  /\ at[p] = "lost" /\ goesTo(p, "hold")
  /\ \/ talk' = [talk EXCEPT ![p].read = totalsOf(asaas)] /\ UNCHANGED left
     \/ faults /\ UNCHANGED talk
  /\ booksStay /\ UNCHANGED <<asaas, order>>

Hold(p) ==
  LET r == talk[p].row
      known == IF talk[p].read = Unread THEN rows ELSE reconcileRefunds(rows, talk[p].read, FALSE)
  IN /\ at[p] = "hold"
     /\ writes(holdRefund(known, r))
     /\ IF known[r].status \in TAKEN_REFUNDS THEN told(p) ELSE throws(p)
     /\ UNCHANGED <<asaas, order, left>>

(* settleUnknown: without that reading nothing is asked. *)
ReadUnknown(p) ==
  /\ at[p] = "settle"
  /\ \/ goesTo(p, "settled") /\ talk' = [talk EXCEPT ![p].read = totalsOf(asaas)] /\ UNCHANGED left
     \/ faults /\ throws(p)
  /\ booksStay /\ UNCHANGED <<asaas, order>>

SettleUnknown(p) ==
  /\ at[p] = "settled"
  /\ writes(reconcileRefunds(rows, talk[p].read, TRUE))
  /\ goesTo(p, "list")
  /\ talk' = [talk EXCEPT ![p].read = Unread, ![p].again = TRUE, ![p].next = "claim", ![p].known = knownOf(pay')]
  /\ UNCHANGED <<asaas, order, left>>

-----------------------------------------------------------------------------
(* PaymentSync.sync, by an event, the reconciliation or a refund just told. *)

Hear(p) ==
  /\ at[p] = "idle" /\ goesTo(p, "list")
  /\ talk' = [talk EXCEPT ![p].known = knownOf(pay)]
  /\ booksStay /\ UNCHANGED <<asaas, order, left>>

after(p) ==
  LET next == talk[p].next IN
  /\ goesTo(p, next)
  /\ talk' = [talk EXCEPT ![p] = IF next = "idle" THEN Blank
                                  ELSE [@ EXCEPT !.next = "idle", !.known = 0, !.read = Unread, !.whole = FALSE]]

\* A listing that shows less than is known is not believed: the charge is read by its id.
heard(listed, known) == IF listed.done + listed.pending < known THEN totalsOf(asaas) ELSE listed

HearList(p) ==
  /\ at[p] = "list"
  /\ \/ /\ \E listed \in listings(asaas) :
             talk' = [talk EXCEPT ![p].read = heard(listed, talk[p].known), ![p].known = 0,
                                  ![p].whole = wholeAt(asaas)]
        /\ goesTo(p, "heard") /\ UNCHANGED left
     \/ faults /\ after(p)
  /\ booksStay /\ UNCHANGED <<asaas, order>>

(* applyCharge: the charge's word, its refunds, and what they make of the payment. *)
HearWrite(p) ==
  /\ at[p] = "heard"
  /\ rows' = reconcileRefunds(rows, talk[p].read, FALSE)
  /\ pay' = settleRefundMoney([pay EXCEPT !.status = IF talk[p].whole THEN "REFUNDED" ELSE @], rows')
  /\ after(p) /\ UNCHANGED <<asaas, order, left>>

-----------------------------------------------------------------------------
(* The shop's own cancellation: money first (refundBeforeCancelling). *)

Before(p) ==
  /\ at[p] = "before"
  /\ \/ (order = "CANCELLED" \/ ~holdsMoney(pay) \/ unrefundedOf(rows) = 0) /\ goesTo(p, "cancel") /\ UNCHANGED talk
     \/ /\ order = "OPEN" /\ holdsMoney(pay) /\ unrefundedOf(rows) > 0
        /\ IF talk[p].saw = 0 THEN ends(p)
           ELSE /\ goesTo(p, "claim")
                /\ talk' = [talk EXCEPT ![p].want = IF refundableOf(rows) > 0 THEN refundableOf(rows) ELSE talk[p].saw]
  /\ booksStay /\ UNCHANGED <<asaas, order, left>>

(* An earlier asking may turn out to have been taken: nothing is left, and the order may go. *)
Thrown(p) ==
  /\ at[p] = "thrown"
  /\ IF unrefundedOf(rows) > 0 THEN ends(p) ELSE goesTo(p, "cancel") /\ UNCHANGED talk
  /\ booksStay /\ UNCHANGED <<asaas, order, left>>

mayCancel == holdsMoney(pay) => unrefundedOf(rows) = 0

(* OrdersService.move, with refuseUnrefundedOrder under the lock. *)
Cancel(p) ==
  /\ at[p] = "cancel" /\ ends(p)
  /\ order' = IF mayCancel THEN "CANCELLED" ELSE order
  /\ booksStay /\ UNCHANGED <<asaas, left>>

-----------------------------------------------------------------------------
(* Around it: crashes, claims that run out, and Asaas. *)

Crash(p) ==
  /\ at[p] # "idle" /\ ends(p) /\ faults
  /\ booksStay /\ UNCHANGED <<asaas, order>>

asking(p) == at[p] \in {"call", "write", "refuse", "drop", "lost", "hold"}
covered(i) == \/ \E p \in Procs : asking(p) /\ talk[p].row = i
              \/ \E j \in DOMAIN asaas : asaas[j].by = i /\ ~asaas[j].shown
settling == \E p \in Procs : at[p] \in {"settle", "settled"}

ClaimEnds(i) ==
  /\ rows[i].status = "REQUESTED" /\ rows[i].held
  /\ Timely => ~covered(i) /\ ~settling
  /\ rows' = [rows EXCEPT ![i].held = FALSE]
  /\ UNCHANGED <<asaas, pay, order, at, talk, left>>

Shows(j) ==
  /\ ~asaas[j].shown /\ mayShow(j)
  /\ asaas' = [asaas EXCEPT ![j].shown = TRUE]
  /\ booksStay /\ UNCHANGED <<order, at, talk, left>>

Concludes(j) ==
  /\ asaas[j].status = "PENDING" /\ asaas' = [asaas EXCEPT ![j].status = "DONE"]
  /\ booksStay /\ UNCHANGED <<order, at, talk, left>>

Cancels(j) ==
  /\ asaas[j].status = "PENDING" /\ asaas[j].by # 0 /\ left.cancels > 0
  /\ asaas' = [asaas EXCEPT ![j].status = "CANCELLED"]
  /\ left' = [left EXCEPT !.cancels = @ - 1]
  /\ booksStay /\ UNCHANGED <<order, at, talk>>

PanelRefund ==
  /\ left.panel > 0 /\ left' = [left EXCEPT !.panel = @ - 1]
  /\ \E cents \in 1..roomAt(asaas) :
       asaas' = Append(asaas, [cents |-> cents, status |-> "PENDING", shown |-> TRUE, by |-> 0])
  /\ booksStay /\ UNCHANGED <<order, at, talk>>

Works(p) == \/ Claim(p) \/ Made(p) \/ NotMade(p) \/ Write(p) \/ Refuse(p) \/ Drop(p) \/ Reread(p) \/ Hold(p)
            \/ ReadUnknown(p) \/ SettleUnknown(p) \/ HearList(p) \/ HearWrite(p)
            \/ Before(p) \/ Thrown(p) \/ Cancel(p)

Next ==
  \/ \E p \in Procs : Ask(p) \/ AskCancel(p) \/ Hear(p) \/ Works(p) \/ Crash(p)
  \/ \E i \in DOMAIN rows : ClaimEnds(i)
  \/ \E j \in DOMAIN asaas : Shows(j) \/ Concludes(j) \/ Cancels(j)
  \/ PanelRefund

Spec == Init /\ [][Next]_vars

-----------------------------------------------------------------------------
TypeOK ==
  /\ asaas \in Seq(Refund) /\ rows \in Seq(RefundRow)
  /\ pay \in Payment /\ pay.refunded + pay.refunding <= Amount
  /\ order \in {"OPEN", "CANCELLED"}
  /\ at \in [Procs -> Places] /\ talk \in [Procs -> Talk]
  /\ left \in [asks : 0..MaxAsks, panel : 0..MaxPanel, cancels : 0..MaxCancels, faults : 0..MaxFaults]

askedOfAsaas == {j \in DOMAIN asaas : asaas[j].by # 0}
everCancelled == refundsAt(asaas, {"CANCELLED"})

\* Every refund of the charge was asked for here, and Asaas cancelled none: the sums bee-link
\* reads are then the sums of its own rows.
ItsOwn == everCancelled = {} /\ \A j \in DOMAIN asaas : asaas[j].by # 0

\* A refund bee-link asked for and Asaas holds is among those it counts against what
\* is left: no answer lost, no crash and no reading written late makes it forget one.
AskedIsCounted ==
  ItsOwn => centsOf(asaas, askedOfAsaas \cap standsAt(asaas)) <= sumOf(rows, STANDING_REFUNDS)

\* A refund that is being asked of Asaas, or was made and does not show yet, is not given up on:
\* given up on, its money could be asked for a second time.
NotGivenUp == \A i \in DOMAIN rows : covered(i) => rows[i].status \notin {"REFUSED", "DROPPED"}

\* No customer is told of money that never left: what the rows were ever taken for was made at Asaas.
TakenIsReal ==
  ItsOwn => sumOf(rows, TAKEN_REFUNDS \cup {"DENIED"}) <= centsOf(asaas, DOMAIN asaas)

\* What the panel says is back with the customer is back.
SaidBackIsBack == pay.refunded <= centsOf(asaas, refundsAt(asaas, {"DONE"}))
OwnBackIsBack == ItsOwn => SaidBackIsBack

\* Whatever is asked and read, and however late, the refunds that stand never add up to more than was
\* paid: two askings, or an asking and a refund found at Asaas's panel, do not both count on one sum.
NeverMoreThanPaid == sumOf(rows, STANDING_REFUNDS) <= Amount

\* Money taken is said to be denied never past what Asaas cancelled, whichever readings crossed.
DeniedIsCancelled == sumOf(rows, {"DENIED"}) <= centsOf(asaas, everCancelled)

\* No reading, however late, moves a row back: one taken is done or denied, and one done,
\* refused or denied stays so.
goesForward(before, row) ==
  /\ row.cents = before.cents
  /\ \/ row.status = before.status
     \/ before.status = "REQUESTED"
     \/ before.status = "PROCESSING" /\ row.status \in {"DONE", "DENIED"}

RowsGoForward == [][\A i \in DOMAIN rows : i \in DOMAIN rows' /\ goesForward(rows[i], rows'[i])]_vars

\* A paid order is cancelled only once all its money is given back or on its way, unless Asaas
\* cancels what it took or gives some back on its own.
CancelGivesBack ==
  [][order' # order /\ ItsOwn => centsOf(asaas, standsAt(asaas)) = Amount]_vars

\* A hearing that read all Asaas holds, with nothing asked meanwhile, leaves the rows saying
\* what Asaas says: what it took, and, once it concluded all of it, that the money is back.
heardWhole(p) == /\ HearWrite(p) /\ askedRows = {}
                 /\ talk[p].read \in {totalsOf(asaas), refundTotalsOf(asaas)}
                 /\ \A j \in DOMAIN asaas : asaas[j].shown
rowsAgree(books) ==
  /\ sumOf(books, TAKEN_REFUNDS) = centsOf(asaas, standsAt(asaas))
  /\ refundsAt(asaas, {"PENDING"}) = {} => sumOf(books, {"DONE"}) = centsOf(asaas, standsAt(asaas))

HearingAgrees == [][\A p \in Procs : heardWhole(p) /\ ItsOwn => rowsAgree(rows')]_vars

\* The same of a refund Asaas took and then cancelled: it is read as denied, and its money
\* is left to be refunded again.
DeniedIsRead == [][\A p \in Procs : heardWhole(p) => rowsAgree(rows')]_vars

=============================================================================

---------------------------- MODULE OrderCharge ----------------------------
(***************************************************************************)
(* One order's charge at the shop's Asaas account.                         *)
(*                                                                         *)
(* Every request that touches the charge is a process that alternates      *)
(* database transactions (under the shop's row lock, one step each) with   *)
(* calls to Asaas (one step each), so that everything another request, the *)
(* customer or Asaas does in between is an interleaving here.  The         *)
(* requests: `ensure` makes the order's charge; `read`, `hear` (a          *)
(* webhook's event) and `recheck` (the reconciliation) hear Asaas through  *)
(* `PaymentSync.sync`; a cancellation, a fee agreed and the routine of     *)
(* unpaid orders hear Asaas, change the order, and `release` what it no    *)
(* longer asks for.                                                        *)
(*                                                                         *)
(* Refunds, the account being disconnected or replaced, amounts edited at  *)
(* Asaas's panel, instalment plans (one thing to pay here) and the wording *)
(* kept for the shop are left out; the README says why.                    *)
(***************************************************************************)
EXTENDS ChargeFacts

CONSTANTS
  Procs,          \* requests in flight at once
  Kinds,          \* which requests happen
  Totals,         \* the totals a fee agreed may give the order
  FirstTotals,    \* the totals it may be placed with; Open while its fee is not agreed
  FirstWords,     \* how Asaas answers a creation
  Moves,          \* <<from, to>>: how Asaas's word for a charge may move
  ShopStatuses,   \* statuses the shop moves the order to, short of cancelling it
  Timely,         \* a claim and a hold outlast the call they cover
  Restores,       \* the shop may restore a removed charge at Asaas's panel
  MaxAge,         \* bound: how far a charge's offer runs out (see age)
  MaxAsks,        \* bound: requests made by people
  MaxFaults,      \* bound: calls failed, processes crashed, charges restored
  NoCharge, Nobody, Unanswered

Open == 0         \* the total of an order whose delivery fee is not agreed

AllKinds == {"ensure", "read", "hear", "recheck", "customer", "shop", "fee", "unpaid"}
OrderStatuses == {"RECEIVED", "ACCEPTED", "PREPARING", "OUT_FOR_DELIVERY", "DELIVERED", "CANCELLED"}
UNPAID_CANCELLABLE == {"RECEIVED", "ACCEPTED", "PREPARING"}

ASSUME Sets == /\ NoCharge \notin Charges
               /\ {Nobody, Unanswered} \cap Procs = {}
               /\ Nobody # Unanswered
               /\ Kinds \subseteq AllKinds
ASSUME Amounts == /\ Totals \subseteq Nat \ {Open}
                  /\ FirstTotals \subseteq Totals \cup {Open}
ASSUME Words == /\ FirstWords \subseteq AsaasWords
                /\ Moves \subseteq AsaasWords \X AsaasWords
ASSUME ShopMoves == ShopStatuses \subseteq OrderStatuses \ {"CANCELLED"}
ASSUME Bounds == Timely \in BOOLEAN /\ Restores \in BOOLEAN /\ MaxAge \in 0..2 /\ MaxAsks \in Nat /\ MaxFaults \in Nat

VARIABLES
  charge,   \* what the shop's Asaas account holds, by charge
  book,     \* what bee-link's database keeps of the order's charges
  order,    \* the order's row, as far as its charge depends on it
  claim,    \* Order.paymentClaimedUntil: whose write it is, and whether its time runs
  due,      \* an Asaas event of the order is recorded and waits to be worked
  pc, talk, \* where each request is, and what it read and decided on the way
  budget    \* what is left of MaxAsks and MaxFaults

vars == <<charge, book, order, claim, due, pc, talk, budget>>

\* age: 0 on offer, 1 its Pix code ended (row.expiresAt), 2 its due day ended.
\* shown: it appears in Asaas's listing (one whose creation went unanswered may not yet).
Charge == [word : AsaasWords \cup {NoStatus}, total : Totals \cup {Open}, age : 0..2,
           deleted : BOOLEAN, shown : BOOLEAN]

NoneMade == [word |-> NoStatus, total |-> Open, age |-> 0, deleted |-> FALSE, shown |-> FALSE]

\* want: the total wanted when the request began (Open: none is wanted any more).
\* known: the rows as read before Asaas was asked.  seen: the words it listed.
\* todo: charges still to be removed or read.  keep: the unpaid charge chosen to stay.
\* paids: charges found paid.  gone: rows Asaas denies.  off: the order was cancelled.
Blank == [kind |-> "none", want |-> Open, known |-> [c \in Charges |-> NoStatus],
          seen |-> [c \in Charges |-> NoStatus], todo |-> {}, keep |-> NoCharge,
          paids |-> {}, gone |-> {}, off |-> FALSE]

Talk == [kind : AllKinds \cup {"none"}, want : Totals \cup {Open},
         known : [Charges -> RowStatuses \cup {NoStatus}],
         seen : [Charges -> AsaasWords \cup {NoStatus}], todo : SUBSET Charges,
         keep : Charges \cup {NoCharge}, paids : SUBSET Charges, gone : SUBSET Charges,
         off : BOOLEAN]

Places == {"idle",
           "known", "list", "sort", "beside", "giveup", "create", "refused", "settle",
           "unwant", "keepit", "hold", "letgo",
           "hread", "hlist", "hmiss", "change", "push",
           "rread", "rlist", "rsort"}

TypeOK ==
  /\ charge \in [Charges -> Charge]
  /\ book \in Book
  /\ order \in [status : OrderStatuses, total : Totals \cup {Open}, late : BOOLEAN]
  /\ claim \in [by : Procs \cup {Nobody, Unanswered}, live : BOOLEAN]
  /\ due \in BOOLEAN
  /\ pc \in [Procs -> Places]
  /\ talk \in [Procs -> Talk]
  /\ budget \in [asks : Nat, faults : Nat]

Init ==
  /\ charge = [c \in Charges |-> NoneMade]
  /\ book = EmptyBook
  /\ order \in [status : {"RECEIVED"}, total : FirstTotals, late : {FALSE}]
  /\ claim = [by |-> Nobody, live |-> FALSE]
  /\ due = FALSE
  /\ pc = [p \in Procs |-> "idle"]
  /\ talk = [p \in Procs |-> Blank]
  /\ budget = [asks |-> MaxAsks, faults |-> MaxFaults]

-----------------------------------------------------------------------------
\* What stands at Asaas, and what a request read of it.

present(c) == charge[c].word # NoStatus /\ ~charge[c].deleted
payable(c) == present(c) /\ ~isPaidWord(charge[c].word)

\* The account's charges of the order, removed ones left out.
listing == [c \in Charges |-> IF present(c) /\ charge[c].shown THEN charge[c].word ELSE NoStatus]

listedIn(seen) == {c \in Charges : seen[c] # NoStatus}
paidIn(seen) == {c \in listedIn(seen) : isPaidWord(seen[c])}
unpaidIn(seen) == listedIn(seen) \ paidIn(seen)

statuses == [c \in Charges |-> book.rows[c].status]
cancelled == order.status = "CANCELLED"

rowServes(c, status, want) == status = "PENDING" /\ charge[c].age = 0 /\ charge[c].total = want

planServes(c, word, want) == word = "PENDING" /\ charge[c].age < 2 /\ charge[c].total = want

\* The charge is the one the order asks for: a row kept of it must serve too.
serves(c, t, seen) ==
  \/ inReview(seen[c])
  \/ /\ planServes(c, seen[c], t.want)
     /\ t.known[c] # NoStatus => rowServes(c, t.known[c], t.want)

\* The charges one of which converge keeps: one with a living row before any other.
keepersOf(t, seen) ==
  LET good == {c \in listedIn(seen) : serves(c, t, seen)}
      alive == {c \in good : isLive(t.known[c])}
  IN  IF alive # {} THEN alive ELSE good

\* The charges one of which release leaves in place.
fittingOf(t, seen) ==
  {c \in unpaidIn(seen) : /\ t.want # Open /\ charge[c].total = t.want
                          /\ t.known[c] = NoStatus \/ isLive(t.known[c])}

oneOf(S) == IF S = {} THEN {NoCharge} ELSE S

-----------------------------------------------------------------------------
goto(p, place) == pc' = [pc EXCEPT ![p] = place]

say(p, t) == talk' = [talk EXCEPT ![p] = t]

\* The request is over, and nothing of it is remembered.
finish(p) == goto(p, "idle") /\ say(p, Blank)

begin(p, kind, place, want) ==
  /\ kind \in Kinds
  /\ pc[p] = "idle"
  /\ goto(p, place)
  /\ say(p, [Blank EXCEPT !.kind = kind, !.want = want])

ask == budget.asks > 0 /\ budget' = [budget EXCEPT !.asks = @ - 1]

fault == budget.faults > 0 /\ budget' = [budget EXCEPT !.faults = @ - 1]

\* Asaas takes a charge out of the account, and tells of it by a webhook.
takenOut(c) == charge' = [charge EXCEPT ![c].deleted = TRUE] /\ due' = TRUE

\* A call to remove a charge that is answered: removed, found paid, or gone already.
removed(c) == IF payable(c) THEN takenOut(c) ELSE UNCHANGED <<charge, due>>

\* removeOrPaid: the charge leaves the plans to do, and joins the paid ones when
\* Asaas refuses to remove it because it was paid.
afterRemoval(t, c) ==
  IF present(c) /\ ~payable(c)
    THEN [t EXCEPT !.todo = @ \ {c}, !.paids = @ \cup {c}, !.seen[c] = charge[c].word]
    ELSE [t EXCEPT !.todo = @ \ {c}]

-----------------------------------------------------------------------------
(* ensure: claim, known, list, sort, (beside,) renew, give up, create, settle *)

\* claim: the talk is taken under the lock, unless what stands is answered as it is.
Ensure(p) ==
  /\ ~cancelled /\ order.total # Open
  /\ \A c \in liveCharges(book) :
       /\ ~wasPaid(book.rows[c].status)
       /\ ~inReview(book.rows[c].word)
       /\ ~rowServes(c, book.rows[c].status, order.total)
  /\ ~claim.live
  /\ begin(p, "ensure", "known", order.total)
  /\ claim' = [by |-> p, live |-> TRUE]
  /\ ask
  /\ UNCHANGED <<charge, book, order, due>>

Known(p) ==
  /\ pc[p] = "known"
  /\ say(p, [talk[p] EXCEPT !.known = statuses])
  /\ goto(p, "list")
  /\ UNCHANGED <<charge, book, order, claim, due, budget>>

\* One found paid wins; else a keeper is chosen, and all others are to be removed.
List(p) ==
  /\ pc[p] = "list"
  /\ \/ \E c \in paidIn(listing) :
          /\ say(p, [talk[p] EXCEPT !.seen = listing, !.paids = {c}, !.todo = unpaidIn(listing)])
          /\ goto(p, "beside")
     \/ /\ paidIn(listing) = {}
        /\ \E k \in oneOf(keepersOf(talk[p], listing)) :
             say(p, [talk[p] EXCEPT !.seen = listing, !.keep = k, !.todo = listedIn(listing) \ {k}])
        /\ goto(p, "sort")
  /\ UNCHANGED <<charge, book, order, claim, due, budget>>

Sort(p) ==
  /\ pc[p] = "sort"
  /\ \E c \in talk[p].todo :
       LET t == afterRemoval(talk[p], c)
       IN  /\ removed(c)
           /\ \/ t.paids = {} /\ say(p, t) /\ goto(p, "sort")
              \/ /\ t.paids # {}
                 /\ say(p, [t EXCEPT !.todo = unpaidIn(t.seen)])
                 /\ goto(p, "beside")
  /\ UNCHANGED <<book, order, claim, budget>>

\* Beside a paid charge every other is asked out; what Asaas answers is not waited on.
Beside(p) ==
  /\ pc[p] = "beside"
  /\ \E c \in talk[p].todo :
       /\ say(p, [talk[p] EXCEPT !.todo = @ \ {c}])
       /\ \/ removed(c) /\ UNCHANGED budget
          \/ fault /\ UNCHANGED <<charge, due>>
  /\ UNCHANGED <<book, order, claim, pc>>

anyMayRenew(p) == TRUE   \* mutant: the CAS on `until` dropped

mayRenew(p) == claim.by = p

\* renew: a claim lost meanwhile must neither give up on rows nor create.
Renew(p) ==
  /\ pc[p] = "sort" /\ talk[p].todo = {} /\ talk[p].keep = NoCharge
  /\ \/ mayRenew(p) /\ claim' = [by |-> p, live |-> TRUE] /\ goto(p, "giveup")
     \/ ~mayRenew(p) /\ UNCHANGED claim /\ goto(p, "letgo")
  /\ UNCHANGED <<charge, book, order, due, talk, budget>>

rowsOfNow(t) == {c \in Charges : book.rows[c].status # NoStatus}   \* mutant: rows read again at the write

\* Only rows read before Asaas was listed may be given up on by what it listed.
rowsKnown(t) == {c \in Charges : t.known[c] # NoStatus}

GiveUp(p) ==
  /\ pc[p] = "giveup"
  /\ book' = cancelRows(book, rowsKnown(talk[p]))
  /\ goto(p, "create")
  /\ UNCHANGED <<charge, order, claim, due, talk, budget>>

made(c, want, word, shown) ==
  charge' = [charge EXCEPT ![c] = [word |-> word, total |-> want, age |-> 0,
                                   deleted |-> FALSE, shown |-> shown]]

\* The charge made (known is left empty: settle gives up on no row after it), or
\* Asaas's no, or no answer - and then the charge may have been made.
Create(p) ==
  /\ pc[p] = "create"
  /\ \/ \E c \in Charges, w \in FirstWords :
          /\ charge[c].word = NoStatus
          /\ made(c, talk[p].want, w, TRUE)
          /\ say(p, [talk[p] EXCEPT !.keep = c, !.seen[c] = w, !.known = Blank.known])
          /\ goto(p, "settle")
          /\ UNCHANGED budget
     \/ goto(p, "refused") /\ UNCHANGED <<charge, talk, budget>>
     \/ /\ fault
        /\ \/ \E c \in Charges, w \in FirstWords :
                charge[c].word = NoStatus /\ made(c, talk[p].want, w, FALSE)
           \/ UNCHANGED charge
        /\ goto(p, "hold")
        /\ UNCHANGED talk
  /\ UNCHANGED <<book, order, claim, due>>

RecordRefusal(p) ==
  /\ pc[p] = "refused"
  /\ book' = recordRefusal(book)
  /\ goto(p, "letgo")
  /\ UNCHANGED <<charge, order, claim, due, talk, budget>>

\* The charge being settled: the paid one found, else the one kept or made.
target(t) == IF t.paids = {} THEN t.keep ELSE CHOOSE c \in t.paids : TRUE

unwantedBut(t) == ~isPaidWord(t.seen[target(t)]) /\ order.total # t.want   \* mutant: the status unread

\* An order cancelled, or of another total by now, no longer wants the charge - unless paid.
unwanted(t) ==
  /\ ~isPaidWord(t.seen[target(t)])
  /\ cancelled \/ order.total # t.want

paidByAnother(c) == paidCharges(book) \ {c} # {}

\* settle: the charge written as the order's, against the order as it is by now and
\* only by the request that still holds the claim.
Settle(p) ==
  /\ pc[p] \in {"sort", "beside", "settle"} /\ talk[p].todo = {} /\ target(talk[p]) # NoCharge
  /\ LET t == talk[p]
         c == target(t)
         b == applyCharge(cancelRows(book, rowsKnown(t) \ {c}), c, t.seen, cancelled)
     IN  \/ claim.by # p /\ goto(p, "letgo") /\ UNCHANGED <<book, claim, talk>>
         \/ /\ claim.by = p /\ paidByAnother(c)
            /\ book' = IF isPaidWord(t.seen[c]) THEN noteStrays(book, {c}, "ORDER_ALREADY_PAID") ELSE book
            /\ goto(p, IF isPaidWord(t.seen[c]) THEN "letgo" ELSE "unwant")
            /\ UNCHANGED <<claim, talk>>
         \/ /\ claim.by = p /\ ~paidByAnother(c) /\ unwanted(t)
            /\ goto(p, "unwant")
            /\ UNCHANGED <<book, claim, talk>>
         \/ /\ claim.by = p /\ ~paidByAnother(c) /\ ~unwanted(t) /\ OneLive(b)
            /\ book' = b
            /\ claim' = [by |-> Nobody, live |-> FALSE]
            /\ finish(p)
         \/ /\ claim.by = p /\ ~paidByAnother(c) /\ ~unwanted(t) /\ ~OneLive(b)
            /\ goto(p, "letgo")
            /\ UNCHANGED <<book, claim, talk>>
  /\ UNCHANGED <<charge, order, due, budget>>

\* A charge nobody wants any more is removed again, or kept with why it was not.
Unwant(p) ==
  /\ pc[p] = "unwant"
  /\ LET c == target(talk[p])
     IN  \/ ~(present(c) /\ ~payable(c)) /\ removed(c) /\ goto(p, "letgo") /\ UNCHANGED budget
         \/ present(c) /\ ~payable(c) /\ goto(p, "keepit") /\ UNCHANGED <<charge, due, budget>>
         \/ fault /\ goto(p, "keepit") /\ (removed(c) \/ UNCHANGED <<charge, due>>)
  /\ UNCHANGED <<book, order, claim, talk>>

KeepIt(p) ==
  /\ pc[p] = "keepit"
  /\ LET b == applyCharge(book, target(talk[p]), talk[p].seen, cancelled)
     IN  book' = IF OneLive(b) THEN b ELSE book
  /\ goto(p, "letgo")
  /\ UNCHANGED <<charge, order, claim, due, talk, budget>>

notHeldFor(p) == IF claim.by = p THEN [by |-> Nobody, live |-> FALSE] ELSE claim   \* mutant: let go at once

\* A creation nobody answered: nobody creates again until it had time to show.
heldFor(p) == IF claim.by = p THEN [by |-> Unanswered, live |-> TRUE] ELSE claim

HoldFor(p) ==
  /\ pc[p] = "hold"
  /\ claim' = heldFor(p)
  /\ finish(p)
  /\ UNCHANGED <<charge, book, order, due, budget>>

LetGo(p) ==
  /\ pc[p] = "letgo"
  /\ claim' = IF claim.by = p THEN [by |-> Nobody, live |-> FALSE] ELSE claim
  /\ finish(p)
  /\ UNCHANGED <<charge, book, order, due, budget>>

-----------------------------------------------------------------------------
(* PaymentSync.sync: hread, hlist, hmiss - then what the asker does with it *)

\* An event claimed to be worked; the reconciliation's turn at a waiting charge, which
\* goes straight to release for a charge the order no longer wants; a customer looking.
Hear(p) ==
  /\ due
  /\ begin(p, "hear", "hread", Open)
  /\ due' = FALSE
  /\ UNCHANGED <<charge, book, order, claim, budget>>

Recheck(p) ==
  /\ \E c \in waitingCharges(book) :
       begin(p, "recheck", IF cancelled \/ order.total # charge[c].total THEN "rread" ELSE "hread", Open)
  /\ UNCHANGED <<charge, book, order, claim, due, budget>>

Look(p) ==
  /\ ~cancelled /\ waitingCharges(book) # {}
  /\ begin(p, "read", "hread", Open)
  /\ ask
  /\ UNCHANGED <<charge, book, order, claim, due>>

\* hearOf: an order with no charge waiting costs no request.
hearOf == IF waitingCharges(book) = {} THEN "change" ELSE "hread"

Cancel(p) ==
  /\ \E kind \in {"customer", "shop"} : begin(p, kind, hearOf, Open)
  /\ ask
  /\ UNCHANGED <<charge, book, order, claim, due>>

AgreeFee(p) ==
  /\ begin(p, "fee", hearOf, Open)
  /\ ask
  /\ UNCHANGED <<charge, book, order, claim, due>>

CancelDue(p) ==
  /\ order.late /\ order.status \in UNPAID_CANCELLABLE /\ paidCharges(book) = {}
  /\ begin(p, "unpaid", "hread", Open)
  /\ UNCHANGED <<charge, book, order, claim, due, budget>>

HearRows(p) ==
  /\ pc[p] = "hread"
  /\ say(p, [talk[p] EXCEPT !.known = statuses])
  /\ goto(p, "hlist")
  /\ UNCHANGED <<charge, book, order, claim, due, budget>>

HearList(p) ==
  /\ pc[p] = "hlist"
  /\ say(p, [talk[p] EXCEPT !.seen = listing,
               !.todo = {c \in Charges : waits(talk[p].known[c]) /\ listing[c] = NoStatus}])
  /\ goto(p, "hmiss")
  /\ UNCHANGED <<charge, book, order, claim, due, budget>>

\* A waiting charge the list no longer holds is read by its id before it is given up on.
HearMissing(p) ==
  /\ pc[p] = "hmiss"
  /\ \E c \in talk[p].todo :
       say(p, IF present(c) THEN [talk[p] EXCEPT !.todo = @ \ {c}, !.seen[c] = charge[c].word]
                            ELSE [talk[p] EXCEPT !.todo = @ \ {c}, !.gone = @ \cup {c}])
  /\ UNCHANGED <<charge, book, order, claim, due, pc, budget>>

\* The listing written on the book: what names the living row first; then the money,
\* the first paid charge taking the order when no living row was paid.
appliedTo(b, t) ==
  LET given == cancelRows(b, t.gone)
  IN  applyCharges(given, listedIn(t.seen) \cap liveCharges(given), t.seen, cancelled)

\* mutants: the living row left beside the payment; every paid charge kept as one too many;
\* a payment learned only through a row already kept.
takenBesideLive(b, t, first) ==
  IF paidCharges(b) # {} \/ first = NoCharge THEN b ELSE applyCharge(b, first, t.seen, cancelled)

takenAsStray(b, t, first) ==
  LET P == paidIn(t.seen)
  IN  IF paidCharges(b) # {} THEN noteStrays(b, P, "ORDER_ALREADY_PAID")
      ELSE IF first = NoCharge THEN b
      ELSE applyCharge(cancelRows(b, liveCharges(b)), first, t.seen, cancelled)

takenByRow(b, t, first) == b

takenBy(b, t, first) ==
  LET P == paidIn(t.seen)
  IN  CASE paidCharges(b) # {} -> noteStrays(b, P \ paidCharges(b), "ORDER_ALREADY_PAID")
        [] paidCharges(b) = {} /\ first = NoCharge -> b
        [] OTHER -> noteStrays(applyCharge(cancelRows(b, liveCharges(b)), first, t.seen, cancelled),
                               P \ {first}, "ORDER_ALREADY_PAID")

heardCancelled(b, t, first) == takenBy(appliedTo(b, t), t, first)   \* mutant: the order's end unread

heardOf(b, t, first) ==
  LET h == takenBy(appliedTo(b, t), t, first)
  IN  IF cancelled THEN noteStrays(h, heldCharges(h), "ORDER_CANCELLED") ELSE h

leftovers(b, t) == (cancelled \/ paidCharges(b) # {}) /\ unpaidIn(t.seen) # {}
unsettled(b) == \E c \in waitingCharges(b) : inReview(b.rows[c].word)

HearWrite(p) ==
  /\ pc[p] = "hmiss" /\ talk[p].todo = {}
  /\ \E first \in oneOf(paidIn(talk[p].seen)) :
       LET t == talk[p]
           b == heardOf(book, t, first)
           over == \/ t.kind = "read"
                   \/ t.kind \in {"hear", "recheck"} /\ ~leftovers(b, t)
                   \/ t.kind = "unpaid" /\ heldCharges(b) # {}
       IN  /\ book' = b
           /\ \/ over /\ finish(p)
              \/ /\ ~over
                 /\ goto(p, CASE t.kind \in {"hear", "recheck"} -> "rread"
                              [] t.kind = "unpaid" /\ unsettled(b) -> "push"
                              [] OTHER -> "change")
                 /\ say(p, [Blank EXCEPT !.kind = t.kind,
                              !.seen = IF t.kind = "unpaid" THEN t.seen ELSE Blank.seen])
  /\ UNCHANGED <<charge, order, claim, due, budget>>

-----------------------------------------------------------------------------
(* The order changes, and what its charge owes to that *)

\* A customer cancels until the shop accepts; the routine of unpaid orders, what is still
\* past its time, holds no money and is not on its way.
customerMay == order.status = "RECEIVED"
systemMay == order.status \in UNPAID_CANCELLABLE /\ order.late /\ paidCharges(book) = {}

mayCancelAnyTime(kind) ==   \* mutant: the deadline not read again under the lock
  /\ ~cancelled /\ heldCharges(book) = {}
  /\ kind = "customer" => customerMay
  /\ kind = "unpaid" => order.status \in UNPAID_CANCELLABLE /\ paidCharges(book) = {}

\* refusePaidOrder, refuseUnrefundedOrder: no change over money the shop holds.
mayCancel(kind) ==
  /\ ~cancelled /\ heldCharges(book) = {}
  /\ kind = "customer" => customerMay
  /\ kind = "unpaid" => systemMay

mayAgree == ~cancelled /\ heldCharges(book) = {}

\* A fee agreed: the total that follows, and its time to be paid from now.
agreed(total) == [order EXCEPT !.total = total, !.late = FALSE]

Change(p) ==
  /\ pc[p] = "change"
  /\ LET kind == talk[p].kind
     IN  \/ /\ kind # "fee" /\ mayCancel(kind)
            /\ order' = [order EXCEPT !.status = "CANCELLED"]
            /\ goto(p, "rread")
            /\ UNCHANGED talk
         \/ /\ kind = "fee" /\ mayAgree
            /\ \E total \in Totals : order' = agreed(total)
            /\ goto(p, "rread")
            /\ UNCHANGED talk
         \/ /\ ~(IF kind = "fee" THEN mayAgree ELSE mayCancel(kind))
            /\ finish(p)
            /\ UNCHANGED order
  /\ UNCHANGED <<charge, book, claim, due, budget>>

\* An order that cannot be said unpaid is looked at again in an hour.
Push(p) ==
  /\ pc[p] = "push"
  /\ order' = [order EXCEPT !.late = FALSE]
  /\ finish(p)
  /\ UNCHANGED <<charge, book, claim, due, budget>>

-----------------------------------------------------------------------------
(* release: rread, rlist, rsort *)

\* An order nobody ever talked to Asaas about has nothing there.
untouched == book.rows = EmptyBook.rows /\ ~book.refused /\ claim.by = Nobody

totalWanted == order.total   \* mutant: a cancelled order's total still wanted

wantedNow == IF cancelled THEN Open ELSE order.total

RelRead(p) ==
  /\ pc[p] = "rread"
  /\ \/ untouched /\ finish(p)
     \/ /\ ~untouched
        /\ say(p, [talk[p] EXCEPT !.known = statuses, !.off = cancelled, !.want = wantedNow])
        /\ goto(p, "rlist")
  /\ UNCHANGED <<charge, book, order, claim, due, budget>>

RelList(p) ==
  /\ pc[p] = "rlist"
  /\ \E k \in oneOf(fittingOf(talk[p], listing)) :
       say(p, [talk[p] EXCEPT !.seen = listing, !.keep = k, !.paids = paidIn(listing),
                              !.todo = unpaidIn(listing) \ {k}])
  /\ goto(p, "rsort")
  /\ UNCHANGED <<charge, book, order, claim, due, budget>>

RelSort(p) ==
  /\ pc[p] = "rsort"
  /\ \E c \in talk[p].todo : removed(c) /\ say(p, afterRemoval(talk[p], c))
  /\ UNCHANGED <<book, order, claim, pc, budget>>

\* Nothing waits beside money that arrived.
besidePaid(t) == t.todo = {} /\ t.paids # {} /\ t.keep # NoCharge

RelFitting(p) ==
  /\ pc[p] = "rsort" /\ besidePaid(talk[p])
  /\ removed(talk[p].keep)
  /\ say(p, [talk[p] EXCEPT !.keep = NoCharge])
  /\ UNCHANGED <<book, order, claim, pc, budget>>

\* The paid charges one of which the order counts as its payment.
paidOf(t) ==
  LET counted == {c \in t.paids : wasPaid(t.known[c])}
  IN  IF counted = {} THEN oneOf(t.paids) ELSE counted

releasedTo(b, t, paid) ==
  LET kept == IF paid = NoCharge THEN t.keep ELSE paid
      given == cancelRows(b, rowsKnown(t) \ {kept})
  IN  IF kept = NoCharge THEN given ELSE applyCharge(given, kept, t.seen, cancelled)

releaseStrays(b, t, paid) ==
  LET over == {c \in {paid} \cap t.paids : t.off /\ holdsMoney(statusSaidBy(t.seen[c], NoStatus))}
  IN  noteStrays(noteStrays(b, over, "ORDER_CANCELLED"), t.paids \ {paid}, "ORDER_ALREADY_PAID")

RelWrite(p) ==
  /\ pc[p] = "rsort" /\ talk[p].todo = {} /\ ~besidePaid(talk[p])
  /\ \E paid \in paidOf(talk[p]) :
       LET b == releasedTo(book, talk[p], paid)
       IN  book' = IF OneLive(b) THEN releaseStrays(b, talk[p], paid) ELSE book
  /\ finish(p)
  /\ UNCHANGED <<charge, order, claim, due, budget>>

-----------------------------------------------------------------------------
(* What goes wrong *)

\* What becomes of a request whose call to Asaas failed.
failed(p) ==
  CASE pc[p] \in {"list", "sort", "create"} -> goto(p, "letgo") /\ UNCHANGED talk
    [] pc[p] \in {"hlist", "hmiss"} /\ talk[p].kind \in {"customer", "shop", "fee"} ->
         goto(p, "change") /\ say(p, [Blank EXCEPT !.kind = talk[p].kind])
    [] pc[p] \in {"hlist", "hmiss"} /\ talk[p].kind = "unpaid" ->
         goto(p, "push") /\ say(p, [Blank EXCEPT !.kind = talk[p].kind])
    [] OTHER -> finish(p)

\* A call that fails before Asaas did anything; an event it was made for waits on.
CallFails(p) ==
  /\ \/ pc[p] \in {"list", "create", "hlist", "rlist"}
     \/ pc[p] \in {"sort", "hmiss", "rsort"} /\ talk[p].todo # {}
     \/ pc[p] = "rsort" /\ besidePaid(talk[p])
  /\ fault
  /\ failed(p)
  /\ due' = (due \/ (pc[p] \in {"hlist", "hmiss"} /\ talk[p].kind = "hear"))
  /\ UNCHANGED <<charge, book, order, claim>>

\* A removal Asaas carried out without its answer arriving.
RemovalUnheard(p) ==
  /\ pc[p] \in {"sort", "rsort"}
  /\ \E c \in IF talk[p].todo = {} THEN {talk[p].keep} \cap Charges ELSE talk[p].todo :
       /\ talk[p].todo = {} => pc[p] = "rsort" /\ besidePaid(talk[p])
       /\ payable(c)
       /\ takenOut(c)
  /\ fault
  /\ failed(p)
  /\ UNCHANGED <<book, order, claim>>

\* The process dies: its claim stays, and the event it worked waits its lease out.
Crash(p) ==
  /\ pc[p] # "idle"
  /\ fault
  /\ due' = (due \/ talk[p].kind = "hear")
  /\ finish(p)
  /\ UNCHANGED <<charge, book, order, claim>>

\* A removed charge is restored at Asaas's own panel.
Restore(c) ==
  /\ Restores /\ charge[c].deleted
  /\ fault
  /\ charge' = [charge EXCEPT ![c].deleted = FALSE]
  /\ due' = TRUE
  /\ UNCHANGED <<book, order, claim, pc, talk>>

-----------------------------------------------------------------------------
(* Asaas, the customer, the shop and the clock *)

\* Paid, overdue, reviewed, received: Asaas's word moves, and a webhook tells of it.
WordMoves(c) ==
  /\ present(c) /\ charge[c].shown
  /\ \E w \in AsaasWords :
       /\ <<charge[c].word, w>> \in Moves
       /\ w = "OVERDUE" => charge[c].age = 2
       /\ charge' = [charge EXCEPT ![c].word = w]
  /\ due' = TRUE
  /\ UNCHANGED <<book, order, claim, pc, talk, budget>>

\* A charge made by an unanswered creation appears in the listing.
Surface(c) ==
  /\ present(c) /\ ~charge[c].shown
  /\ charge' = [charge EXCEPT ![c].shown = TRUE]
  /\ UNCHANGED <<book, order, claim, due, pc, talk, budget>>

OfferEnds(c) ==
  /\ payable(c) /\ charge[c].age < MaxAge
  /\ charge' = [charge EXCEPT ![c].age = @ + 1]
  /\ UNCHANGED <<book, order, claim, due, pc, talk, budget>>

\* Timely: CLAIM_MS and UNKNOWN_OUTCOME_HOLD_MS outlast the creation they cover.
ClaimEnds ==
  /\ claim.live
  /\ Timely => /\ \A c \in Charges : present(c) => charge[c].shown
               /\ \A p \in Procs : claim.by = p => pc[p] \notin {"giveup", "create"}
  /\ claim' = [claim EXCEPT !.live = FALSE]
  /\ UNCHANGED <<charge, book, order, due, pc, talk, budget>>

DeadlinePasses ==
  /\ ~cancelled /\ order.total # Open /\ ~order.late
  /\ "unpaid" \in Kinds
  /\ order' = [order EXCEPT !.late = TRUE]
  /\ UNCHANGED <<charge, book, claim, due, pc, talk, budget>>

ShopMovesOrder ==
  /\ ~cancelled
  /\ \E s \in ShopStatuses \ {order.status} : order' = [order EXCEPT !.status = s]
  /\ UNCHANGED <<charge, book, claim, due, pc, talk, budget>>

-----------------------------------------------------------------------------
\* A step a running request takes when nothing goes wrong.
Proceed(p) ==
  \/ Known(p) \/ List(p) \/ Sort(p) \/ Beside(p) \/ Renew(p) \/ GiveUp(p) \/ Create(p)
  \/ RecordRefusal(p) \/ Settle(p) \/ Unwant(p) \/ KeepIt(p) \/ HoldFor(p) \/ LetGo(p)
  \/ HearRows(p) \/ HearList(p) \/ HearMissing(p) \/ HearWrite(p)
  \/ Change(p) \/ Push(p)
  \/ RelRead(p) \/ RelList(p) \/ RelSort(p) \/ RelFitting(p) \/ RelWrite(p)

Start(p) ==
  \/ Ensure(p) \/ Look(p) \/ Cancel(p) \/ AgreeFee(p)
  \/ Hear(p) \/ Recheck(p) \/ CancelDue(p)

Next ==
  \/ \E p \in Procs : Start(p) \/ Proceed(p) \/ CallFails(p) \/ RemovalUnheard(p) \/ Crash(p)
  \/ \E c \in Charges : WordMoves(c) \/ Surface(c) \/ OfferEnds(c) \/ Restore(c)
  \/ ClaimEnds \/ DeadlinePasses \/ ShopMovesOrder

Spec == Init /\ [][Next]_vars

\* Requests run on, an event recorded is worked, the reconciliation comes round.
Fairness ==
  /\ \A p \in Procs : WF_vars(Proceed(p))
  /\ WF_vars(\E p \in Procs : Hear(p))
  /\ WF_vars(\E p \in Procs : Recheck(p))
  /\ WF_vars(\E c \in Charges : Surface(c))

FairSpec == Spec /\ Fairness

-----------------------------------------------------------------------------
(* What makes it correct *)

\* order-payments.service.ts:53 - a charge is never made while another of the order
\* can still be paid, whoever died, was slow or asked at once.
NoSecondPayable ==
  [][\A c \in Charges : charge[c].word = NoStatus /\ charge'[c].word # NoStatus
        => \A d \in Charges : ~payable(d)]_vars

\* payment-facts.ts:28, payment-sync.service.ts:58 - however late or stale what was
\* read of Asaas, a row never goes back down, nor dies once paid; a receipt in cash
\* undone is the one exception.
MoneyNeverGoesBack ==
  [][\A c \in Charges :
       LET was == book.rows[c]
           now == book'.rows[c]
       IN  \/ was.status = NoStatus \/ was.status \in DeadStatuses
           \/ was.word = "RECEIVED_IN_CASH" /\ now.word \in {"PENDING", "OVERDUE"}
           \/ isLive(now.status) /\ RANK[now.status] >= RANK[was.status]
           \/ waits(was.status) /\ now.status = "CANCELLED"]_vars

\* Hearing Asaas never trips the index of the one living row: its transaction has no
\* path out, and one that aborted would lose the payment it heard of.
OneLiveRow == OneLive(book)

\* A payment kept as one too many is not the order's own payment as well.
StrayApart ==
  \A c \in Charges : book.stray[c] = "ORDER_ALREADY_PAID" => ~wasPaid(book.rows[c].status)

\* An order that stands and holds money has told its customer, and none was told of
\* money that never came.
PaidIsTold ==
  /\ ~cancelled /\ heldCharges(book) # {} => book.told
  /\ book.told => paidCharges(book) # {}

cancelsUnpaid(p) == pc[p] = "change" /\ talk[p].kind = "unpaid" /\ pc'[p] = "rread"

\* unpaid-orders.ts:21 - an order is cancelled as unpaid only on a hearing that showed
\* no payment, and only while its time is still up: a fee agreed since gives it more.
UnpaidIsSure ==
  [][\A p \in Procs :
       cancelsUnpaid(p) => order.late /\ paidIn(talk[p].seen) = {} /\ paidCharges(book) = {}]_vars

\* unpaid-orders.ts:23 - nor on one that showed a card Asaas reviews by hand.  The code
\* asks this of the rows alone: a charge listed with no row yet is not looked at.
ReviewNotCancelledOver ==
  [][\A p \in Procs :
       cancelsUnpaid(p) => \A c \in Charges : ~inReview(talk[p].seen[c])]_vars

\* Nobody is at work, nothing failed on the way, and no event waits.
quiet ==
  /\ \A p \in Procs : pc[p] = "idle"
  /\ ~due
  /\ claim.by = Nobody
  /\ budget.faults = MaxFaults

\* Then nothing can be paid for an order that was cancelled, and what was paid is the
\* order's payment or kept for the shop to settle - whatever raced whatever.
QuietAgrees ==
  quiet => \A c \in Charges :
             /\ payable(c) => ~cancelled
             /\ present(c) /\ ~payable(c) => wasPaid(book.rows[c].status) \/ book.stray[c] # NoStatus

\* payment-facts.ts:155 - a waiting row is given up on only when Asaas no longer holds
\* its charge to be paid, however long ago the rows and the listing were read.
RowLeavesOnAsaasWord ==
  [][\A c \in Charges :
       waits(book.rows[c].status) /\ book'.rows[c].status = "CANCELLED" => ~payable(c)]_vars

\* Money that reached Asaas reaches the book, as the order's payment or a stray one.
MoneyAccounted ==
  \A c \in Charges :
    (present(c) /\ ~payable(c)) ~> (wasPaid(book.rows[c].status) \/ book.stray[c] # NoStatus)

\* Money held for an order that was cancelled is kept for the shop to settle.
CancelledMoneyKept ==
  \A c \in Charges :
    (cancelled /\ holdsMoney(book.rows[c].status)) ~> (book.stray[c] # NoStatus)

\* No row waits for ever to be paid on an order that was cancelled.
CancelledRowEnds ==
  \A c \in Charges : (cancelled /\ waits(book.rows[c].status)) ~> ~waits(book.rows[c].status)
=============================================================================

------------------------------ MODULE Cashback ------------------------------
(***************************************************************************)
(* One customer's credit in one shop: the lots it is kept in, the uses an  *)
(* order makes of them, the statement, and the two sums the customer's row *)
(* caches (src/apps/api/src/modules/cashback).                             *)
(*                                                                         *)
(* Every change is one transaction under the shop's and the customer's     *)
(* locks (lockLedger), so one action is one transaction.  Cents and days   *)
(* are small naturals; an order is only as far along as its credit tells   *)
(* apart: not placed, placed, delivered, cancelled.                        *)
(***************************************************************************)
EXTENDS Integers, FiniteSets, Functions

CONSTANTS
    Orders,      \* the customer's orders; each earns at most one lot, named after it
    Extras,      \* names for the lots no order earned: adjustments and returned credit
    Earnings,    \* cents an order may earn
    Spends,      \* cents an order, or the shopkeeper, may take at once
    Validities,  \* the validities, in days, the shop's rules may hold; Never for none
    MinDays,     \* RETURNED_MIN_DAYS
    BalanceMax,  \* CASHBACK_BALANCE_MAX_CENTS
    MaxNow       \* bound: the last day

VARIABLES
    order,       \* how far each order is
    lots,        \* the rows of cashback_credits
    uses,        \* uses[o][l]: cents of l that o spent and has not given back
    statement,   \* what the lines of cashback_entries add up to
    books,       \* the caches of the customer's row
    now          \* the day

vars == <<order, lots, uses, statement, books, now>>

Lots == Orders \cup Extras
Never == -1

ASSUME EarningsAssumption == Earnings \subseteq Nat \ {0}
ASSUME SpendsAssumption == Spends \subseteq Nat \ {0}
ASSUME ValiditiesAssumption == Validities \subseteq (Nat \ {0}) \cup {Never}
ASSUME MinDaysAssumption == MinDays \in Nat \ {0}
ASSUME NamesAssumption == Orders \cap Extras = {}
ASSUME FiniteAssumption == IsFiniteSet(Orders) /\ IsFiniteSet(Extras)

OrderStatuses == {"NONE", "PLACED", "DELIVERED", "CANCELLED"}
LotStatuses == {"NONE", "PENDING", "AVAILABLE", "VOIDED", "EXPIRED"}

(***************************************************************************)
(* `root' is history, not a column: the lot whose earning a lot's credit   *)
(* comes from, itself unless it was split off another by a cancellation.   *)
(***************************************************************************)
Lot == [status : LotStatuses, amount : Nat, remaining : Nat, unrecovered : Nat,
        until : Nat \cup {Never}, validity : Nat \cup {Never}, root : Lots]

noLot(l) == [status |-> "NONE", amount |-> 0, remaining |-> 0, unrecovered |-> 0,
             until |-> Never, validity |-> Never, root |-> l]

TypeOK ==
    /\ order \in [Orders -> OrderStatuses]
    /\ lots \in [Lots -> Lot]
    /\ uses \in [Orders -> [Lots -> Nat]]
    /\ now \in Nat

(***************************************************************************)
(* Reading the lots.                                                       *)
(***************************************************************************)
expiryOf(from, validity) == IF validity = Never THEN Never ELSE from + validity
over(lot) == lot.until # Never /\ lot.until <= now
sooner(d, e) == d # Never /\ (e = Never \/ d < e)
spendable(lot) == lot.status = "AVAILABLE" /\ lot.remaining > 0 /\ ~over(lot)

sumOf(L, status) ==
    SumFunction([l \in Lots |-> IF L[l].status = status THEN L[l].remaining ELSE 0])
recount(L) == [balance |-> sumOf(L, "AVAILABLE"), pending |-> sumOf(L, "PENDING")]

(***************************************************************************)
(* The ways `cents' come out of the lots: the soonest to expire first, and *)
(* a lot emptied before the next is touched.  Ties go any way round here;  *)
(* the code settles them by age and id.  Empty when the lots hold less.    *)
(***************************************************************************)
takeFrom(cents) ==
    {take \in [Lots -> 0..cents] :
        /\ \A l \in Lots : take[l] > 0 => spendable(lots[l]) /\ take[l] <= lots[l].remaining
        /\ SumFunction(take) = cents
        /\ \A l, m \in Lots :
              take[l] > 0 /\ spendable(lots[m]) /\ take[m] < lots[m].remaining
                  => ~sooner(lots[m].until, lots[l].until)
        /\ Cardinality({l \in Lots : take[l] \in 1..(lots[l].remaining - 1)}) <= 1}

taken(take) == [l \in Lots |-> [lots[l] EXCEPT !.remaining = @ - take[l]]]

(***************************************************************************)
(* The order's lot: held at the placement, released by the delivery,       *)
(* revoked by leaving it or by the cancellation.  Each comes with the line *)
(* it writes on the statement.                                             *)
(***************************************************************************)
pendingLot(o, earned, validity) ==
    [noLot(o) EXCEPT !.status = "PENDING", !.amount = earned, !.remaining = earned,
                     !.validity = validity]

payout(lot) == IF lot.status = "PENDING" THEN lot.amount - lot.unrecovered ELSE 0

released(lot) ==
    IF lot.status # "PENDING" THEN lot
    ELSE [lot EXCEPT !.status = "AVAILABLE", !.remaining = payout(lot),
                     !.until = expiryOf(now, lot.validity)]

notLeft(lot) == lot.amount - lot.remaining   \* mutant: what was never got back counted again
spentOf(lot) == lot.amount - lot.unrecovered - lot.remaining

backAnyDay(lot) == lot.status = "AVAILABLE"   \* mutant: the guard on the expiry dropped
takenBack(lot) == lot.status = "AVAILABLE" /\ ~over(lot)

putBackForgetting(lot) ==   \* mutant: what an earlier undoing did not get back forgotten
    IF ~takenBack(lot) THEN lot
    ELSE [lot EXCEPT !.status = "PENDING", !.remaining = lot.amount - spentOf(lot),
                     !.unrecovered = spentOf(lot), !.until = Never]
putBack(lot) ==
    IF ~takenBack(lot) THEN lot
    ELSE LET lost == lot.unrecovered + spentOf(lot)
         IN [lot EXCEPT !.status = "PENDING", !.remaining = lot.amount - lost,
                        !.unrecovered = lost, !.until = Never]

voided(lot) ==
    IF lot.status \notin {"PENDING", "AVAILABLE"} THEN lot
    ELSE [lot EXCEPT !.status = "VOIDED", !.remaining = 0,
                     !.unrecovered = IF lot.status = "AVAILABLE" THEN @ + spentOf(lot) ELSE @]

usableIn(lot) == IF lot.status = "AVAILABLE" THEN lot.remaining ELSE 0

(***************************************************************************)
(* Giving a lot back what a cancelled order spent of it.  `splits' is when *)
(* what returns must be a lot of its own, leaving the lot as it was.       *)
(***************************************************************************)
floorDay == now + MinDays
unlessPending(lot) == lot.status # "PENDING"   \* mutant: a void lot as good as an expired one
usableAgain(lot) == lot.status \in {"AVAILABLE", "EXPIRED"}
reachesFloor(lot) == lot.until = Never \/ lot.until >= floorDay
splits(lot) == usableAgain(lot) /\ ~reachesFloor(lot) /\ lot.remaining # 0

\* mutants: returned to the lot and split off it as well; an expired lot left expired;
\* a waiting lot's recovery not added to what its delivery pays
returnedBothWays(lot, cents) ==
    IF usableAgain(lot) THEN [lot EXCEPT !.status = "AVAILABLE", !.remaining = @ + cents] ELSE lot
returnedAsItWas(lot, cents) ==
    IF usableAgain(lot) /\ ~splits(lot) THEN [lot EXCEPT !.remaining = @ + cents] ELSE lot
returnedUnpaid(lot, cents) ==
    IF usableAgain(lot) THEN [lot EXCEPT !.status = "AVAILABLE", !.remaining = @ + cents]
    ELSE [lot EXCEPT !.unrecovered = IF @ < cents THEN 0 ELSE @ - cents]
returnedLotOf(lot, cents) ==
    IF usableAgain(lot)
    THEN IF splits(lot) THEN lot
         ELSE [lot EXCEPT !.status = "AVAILABLE", !.remaining = @ + cents,
                          !.until = IF reachesFloor(lot) THEN @ ELSE floorDay]
    ELSE LET recovered == IF lot.unrecovered < cents THEN lot.unrecovered ELSE cents
         IN [lot EXCEPT !.unrecovered = @ - recovered,
                        !.remaining = IF lot.status = "PENDING" THEN @ + recovered ELSE @]

splitLot(lot, cents) ==
    [status |-> "AVAILABLE", amount |-> cents, remaining |-> cents, unrecovered |-> 0,
     until |-> floorDay, validity |-> Never, root |-> lot.root]

usedBy(o) == {l \in Lots : uses[o][l] > 0}
splitBy(o) == {l \in usedBy(o) : splits(lots[l])}
\* mutants: every use said to be credit again; an expired lot's left out of the line
creditedWhole(o) == SumFunction(uses[o])
creditedUsable(o) ==
    SumFunction([l \in Lots |-> IF lots[l].status = "AVAILABLE" THEN uses[o][l] ELSE 0])
credited(o) == SumFunction([l \in Lots |-> IF usableAgain(lots[l]) THEN uses[o][l] ELSE 0])

returnCashback(o, nameOf) ==
    [l \in Lots |->
        IF l \in usedBy(o) THEN returnedLotOf(lots[l], uses[o][l])
        ELSE IF \E m \in splitBy(o) : nameOf[m] = l
        THEN LET m == CHOOSE m \in splitBy(o) : nameOf[m] = l
             IN splitLot(lots[m], uses[o][m])
        ELSE lots[l]]

(***************************************************************************)
(* The CHECKs of cashback_credits: a transaction that breaks one is rolled *)
(* back whole.                                                             *)
(***************************************************************************)
fits(L) == \A l \in Lots : /\ L[l].remaining <= L[l].amount
                           /\ L[l].remaining + L[l].unrecovered <= L[l].amount
-----------------------------------------------------------------------------
Init ==
    /\ order = [o \in Orders |-> "NONE"]
    /\ lots = [l \in Lots |-> noLot(l)]
    /\ uses = [o \in Orders |-> [l \in Lots |-> 0]]
    /\ statement = 0
    /\ books = [balance |-> 0, pending |-> 0]
    /\ now = 0

free == {x \in Extras : lots[x].status = "NONE"}

(* The placement spends, then holds what the order will earn; `earned' = 0 is
   an order that earns nothing and has no lot. *)
Place(o) ==
    /\ order[o] = "NONE"
    /\ \E used \in Spends \cup {0} : \E take \in takeFrom(used) :
       \E earned \in Earnings \cup {0}, validity \in Validities :
          /\ order' = [order EXCEPT ![o] = "PLACED"]
          /\ uses' = [uses EXCEPT ![o] = take]
          /\ lots' = IF earned = 0 THEN taken(take)
                     ELSE [taken(take) EXCEPT ![o] = pendingLot(o, earned, validity)]
          /\ statement' = statement - used
          /\ books' = recount(lots')
          /\ UNCHANGED now

Deliver(o) ==
    /\ order[o] = "PLACED"
    /\ order' = [order EXCEPT ![o] = "DELIVERED"]
    /\ lots' = [lots EXCEPT ![o] = released(@)]
    /\ statement' = statement + payout(lots[o])
    /\ books' = recount(lots')
    /\ UNCHANGED <<uses, now>>

(* The shopkeeper moves a delivered order back to a status before it. *)
LeaveDelivered(o) ==
    /\ order[o] = "DELIVERED"
    /\ order' = [order EXCEPT ![o] = "PLACED"]
    /\ lots' = [lots EXCEPT ![o] = putBack(@)]
    /\ statement' = statement - (IF takenBack(lots[o]) THEN lots[o].remaining ELSE 0)
    /\ books' = recount(lots')
    /\ UNCHANGED <<uses, now>>

(* settleCancellation: the uses return, then what the order earned is revoked. *)
Cancel(o) ==
    /\ order[o] \in {"PLACED", "DELIVERED"}
    /\ \E nameOf \in Injection(splitBy(o), free) :
          LET L == returnCashback(o, nameOf)
          IN /\ fits(L)
             /\ lots' = [L EXCEPT ![o] = voided(@)]
             /\ statement' = statement + credited(o) - usableIn(L[o])
    /\ order' = [order EXCEPT ![o] = "CANCELLED"]
    /\ uses' = [uses EXCEPT ![o] = [l \in Lots |-> 0]]
    /\ books' = recount(lots')
    /\ UNCHANGED now

due == {l \in Lots : lots[l].status = "AVAILABLE" /\ lots[l].remaining > 0 /\ over(lots[l])}

Expire ==
    /\ due # {}
    /\ lots' = [l \in Lots |-> IF l \in due
                               THEN [lots[l] EXCEPT !.status = "EXPIRED", !.remaining = 0]
                               ELSE lots[l]]
    /\ statement' = statement
          - SumFunction([l \in Lots |-> IF l \in due THEN lots[l].remaining ELSE 0])
    /\ books' = recount(lots')
    /\ UNCHANGED <<order, uses, now>>

AdjustUp(x) ==
    /\ x \in free
    /\ \E cents \in Spends, validity \in Validities :
        /\ books.balance + cents <= BalanceMax
        /\ lots' = [lots EXCEPT ![x] =
              [noLot(x) EXCEPT !.status = "AVAILABLE", !.amount = cents, !.remaining = cents,
                               !.until = expiryOf(now, validity)]]
        /\ statement' = statement + cents
        /\ books' = recount(lots')
        /\ UNCHANGED <<order, uses, now>>

AdjustDown ==
    \E cents \in Spends : \E take \in takeFrom(cents) :
        /\ lots' = taken(take)
        /\ statement' = statement - cents
        /\ books' = recount(lots')
        /\ UNCHANGED <<order, uses, now>>

(* The customer deletes their account; the record stays for the shop's books. *)
Forfeit ==
    /\ lots' = [l \in Lots |-> IF lots[l].status \in {"PENDING", "AVAILABLE"}
                               THEN [lots[l] EXCEPT !.status = "VOIDED", !.remaining = 0]
                               ELSE lots[l]]
    /\ statement' = statement - sumOf(lots, "AVAILABLE")
    /\ books' = recount(lots')
    /\ UNCHANGED <<order, uses, now>>

Tick ==
    /\ now < MaxNow
    /\ now' = now + 1
    /\ UNCHANGED <<order, lots, uses, statement, books>>

Next ==
    \/ \E o \in Orders : Place(o) \/ Deliver(o) \/ LeaveDelivered(o) \/ Cancel(o)
    \/ \E x \in Extras : AdjustUp(x)
    \/ Expire \/ AdjustDown \/ Forfeit \/ Tick

Spec == Init /\ [][Next]_vars
-----------------------------------------------------------------------------
(* The statement's rule: the balance the customer sees is what is left of the
   usable lots, and also what the statement's lines add up to. *)
BooksHold ==
    /\ books = recount(lots)
    /\ books.balance = statement

sound(lot) ==
    /\ lot.status = "PENDING" => lot.remaining = payout(lot)
    /\ lot.status \in {"NONE", "PENDING"} => lot.until = Never
    /\ lot.status \in {"VOIDED", "EXPIRED"} => lot.remaining = 0
    /\ lot.remaining + lot.unrecovered <= lot.amount

(* What waits on a delivery is what that delivery will pay: all of the lot less
   what an undone delivery could not take back, with no day running meanwhile.  A
   lot that ended holds nothing, and none is worth more than it was, counting what
   was never got back: the lots' CHECK, which no change but a return can break. *)
LotsSound == \A l \in Lots : sound(lots[l])

heldIn(l) == IF lots[l].status \in {"PENDING", "AVAILABLE"} THEN lots[l].remaining ELSE 0
standingOf(l) == SumFunction([o \in Orders |-> uses[o][l]])

(* What was earned once is credit once: however often an order is delivered, put
   back, cancelled and its uses returned, what is left of its lot, of the lots
   split off it, and the uses still standing never exceed what it earned. *)
EarnedOnce ==
    \A r \in Lots : lots[r].root = r =>
        SumFunction([l \in Lots |-> IF lots[l].root = r THEN heldIn(l) + standingOf(l) ELSE 0])
            <= lots[r].amount

(* A void lot never comes back: no delivery and no return of a use makes any of
   it credit again. *)
VoidStays ==
    [][\A l \in Lots : lots[l].status = "VOIDED"
            => lots'[l].status = "VOIDED" /\ lots'[l].remaining = 0]_vars

(* What a lot still promises its customer: what it will pay, or can be spent. *)
promised(lot) ==
    IF lot.status = "PENDING" \/ (lot.status = "AVAILABLE" /\ ~over(lot)) THEN lot.remaining ELSE 0

(* Credit past its day is not revived: of a lot already over, a step makes usable,
   or waiting, no more than one order's use that it gives back. *)
ExpiredNotRevived ==
    [][\A l \in Lots : over(lots[l]) /\ promised(lots[l])' > 0
            => \E o \in Orders : /\ uses'[o][l] = 0
                                 /\ promised(lots[l])' <= uses[o][l]]_vars

(* An order can be cancelled: what it spent goes back to the lots it came from,
   within what each was worth. *)
CancellationFits ==
    \A o \in Orders, l \in Lots :
        order[o] \in {"PLACED", "DELIVERED"} /\ uses[o][l] > 0
            => LET lot == returnedLotOf(lots[l], uses[o][l])
               IN lot.remaining + lot.unrecovered <= lot.amount

(* Credit of a cancelled order is forgiven for good: cancelling the orders it was
   spent on pays the shop back and makes none of it credit again. *)
ForgivenNotRecreated ==
    [][\A o \in Orders : order[o] = "CANCELLED" => lots'[o].remaining <= lots[o].remaining]_vars
=============================================================================

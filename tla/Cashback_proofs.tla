-------------------------- MODULE Cashback_proofs --------------------------
(***************************************************************************)
(* Proofs about the customer's credit: the lots keep their shape, what     *)
(* waits is what a delivery pays, and neither void nor expired credit      *)
(* comes back to life.  The invariant is one lot at a time, so each        *)
(* operation on a lot has a lemma of its own and each action cites them.   *)
(* Then the sums: that the customer's balance is what their lots hold and  *)
(* their statement says, and that nothing earned is credit twice.          *)
(***************************************************************************)
EXTENDS Cashback, TLAPS, FiniteSetTheorems, WellFoundedInduction

(* An order not placed yet has no lot. *)
Unplaced == \A o \in Orders : order[o] = "NONE" => lots[o].status = "NONE"

IInv == TypeOK /\ LotsSound /\ Unplaced

Good(lot) == lot \in Lot /\ sound(lot)
-----------------------------------------------------------------------------
(* expiryOf gives a day, or none. *)
LEMMA ExpiryIsADay ==
    ASSUME NEW t \in Nat, NEW v \in Nat \cup {Never}
    PROVE  expiryOf(t, v) \in Nat \cup {Never}
BY DEF expiryOf, Never

(* releaseOrderCashback leaves a lot as it was, or usable and worth what it paid. *)
LEMMA ReleasedGood ==
    ASSUME NEW lot, Good(lot), now \in Nat
    PROVE  Good(released(lot))
<1>1. CASE lot.status # "PENDING"
    BY <1>1 DEF released, Good
<1>2. CASE lot.status = "PENDING"
    <2>1. expiryOf(now, lot.validity) \in Nat \cup {Never}
        BY ExpiryIsADay DEF Good, Lot
    <2>2. payout(lot) = lot.amount - lot.unrecovered /\ payout(lot) = lot.remaining
        BY <1>2 DEF Good, sound, payout
    <2> QED
        BY <1>2, <2>1, <2>2 DEF released, Good, Lot, LotStatuses, sound, payout, Never
<1> QED
    BY <1>1, <1>2

(* revokeOrderCashback, the order back from delivered. *)
LEMMA PutBackGood ==
    ASSUME NEW lot, Good(lot)
    PROVE  Good(putBack(lot))
<1>1. CASE ~takenBack(lot)
    BY <1>1 DEF putBack, Good
<1>2. CASE takenBack(lot)
    <2> DEFINE lost == lot.unrecovered + spentOf(lot)
    <2>1. lot.amount \in Nat /\ lot.unrecovered \in Nat /\ lot.remaining \in Nat
        BY DEF Good, Lot
    <2>2. lost \in Nat /\ lot.amount - lost \in Nat
        BY <2>1 DEF spentOf, Good, sound
    <2>3. putBack(lot) = [lot EXCEPT !.status = "PENDING", !.remaining = lot.amount - lost,
                                     !.unrecovered = lost, !.until = Never]
        BY <1>2 DEF putBack
    <2> HIDE DEF lost
    <2>4. putBack(lot) \in Lot
        BY <2>2, <2>3 DEF Good, Lot, LotStatuses
    <2>5. sound(putBack(lot))
        BY <2>1, <2>2, <2>3 DEF Good, Lot, sound, payout
    <2> QED
        BY <2>4, <2>5 DEF Good
<1> QED
    BY <1>1, <1>2

(* revokeOrderCashback, the order cancelled. *)
LEMMA VoidedGood ==
    ASSUME NEW lot, Good(lot)
    PROVE  Good(voided(lot))
<1> DEFINE lost == IF lot.status = "AVAILABLE" THEN lot.unrecovered + spentOf(lot) ELSE lot.unrecovered
<1>1. CASE lot.status \notin {"PENDING", "AVAILABLE"}
    BY <1>1 DEF voided, Good
<1>2. CASE lot.status \in {"PENDING", "AVAILABLE"}
    <2>1. lot.amount \in Nat /\ lot.unrecovered \in Nat /\ lot.remaining \in Nat
        BY DEF Good, Lot
    <2>2. lost \in Nat /\ lost <= lot.amount
        BY <2>1 DEF spentOf, Good, sound
    <2>3. voided(lot) = [lot EXCEPT !.status = "VOIDED", !.remaining = 0, !.unrecovered = lost]
        BY <1>2 DEF voided, Good, Lot
    <2> HIDE DEF lost
    <2>4. voided(lot) \in Lot
        <3>1. lot \in Lot
            BY DEF Good
        <3>2. "VOIDED" \in LotStatuses
            BY DEF LotStatuses
        <3>3. lost \in Nat /\ 0 \in Nat
            BY <2>2
        <3> QED
            BY <2>3, <3>1, <3>2, <3>3 DEF Lot
    <2>5. sound(voided(lot))
        BY <2>1, <2>2, <2>3 DEF Good, Lot, sound
    <2> QED
        BY <2>4, <2>5 DEF Good
<1> QED
    BY <1>1, <1>2

(* returnedLotOf, when what it returns fits the lot. *)
LEMMA ReturnedGood ==
    ASSUME NEW lot, Good(lot), NEW cents \in Nat, now \in Nat,
           LET r == returnedLotOf(lot, cents) IN r.remaining + r.unrecovered <= r.amount
    PROVE  Good(returnedLotOf(lot, cents))
<1> DEFINE r == returnedLotOf(lot, cents)
<1>0. lot.amount \in Nat /\ lot.unrecovered \in Nat /\ lot.remaining \in Nat /\ lot.until \in Nat \cup {Never}
    BY DEF Good, Lot
<1>1. CASE usableAgain(lot) /\ splits(lot)
    BY <1>1 DEF returnedLotOf, Good
<1>2. CASE usableAgain(lot) /\ ~splits(lot)
    <2> DEFINE end == IF reachesFloor(lot) THEN lot.until ELSE floorDay
    <2>1. end \in Nat \cup {Never}
        BY <1>0, MinDaysAssumption DEF floorDay
    <2>2. r = [lot EXCEPT !.status = "AVAILABLE", !.remaining = lot.remaining + cents, !.until = end]
        BY <1>2 DEF returnedLotOf, Good, Lot
    <2> HIDE DEF end
    <2>3. r \in Lot
        <3>1. lot \in Lot
            BY DEF Good
        <3>2. "AVAILABLE" \in LotStatuses /\ lot.remaining + cents \in Nat
            BY <1>0 DEF LotStatuses
        <3> HIDE DEF r
        <3> QED
            BY <2>1, <2>2, <3>1, <3>2 DEF Lot
    <2>4. r.status = "AVAILABLE" /\ r.remaining + r.unrecovered <= r.amount
        BY <2>2 DEF Good, Lot
    <2>5. sound(r)
        BY <2>4 DEF sound
    <2> QED
        BY <2>3, <2>5 DEF Good
<1>3. CASE ~usableAgain(lot)
    <2> DEFINE recovered == IF lot.unrecovered < cents THEN lot.unrecovered ELSE cents
               left == IF lot.status = "PENDING" THEN lot.remaining + recovered ELSE lot.remaining
    <2>1. left \in Nat /\ lot.unrecovered - recovered \in Nat /\ recovered \in Nat
        BY <1>0
    <2>2. r = [lot EXCEPT !.unrecovered = lot.unrecovered - recovered, !.remaining = left]
        BY <1>3 DEF returnedLotOf, Good, Lot
    <2>3. r \in Lot
        BY <2>1, <2>2 DEF Good, Lot
    <2>4. sound(r)
        <3>1. r.status = lot.status /\ r.until = lot.until /\ r.amount = lot.amount
              /\ r.remaining = left /\ r.unrecovered = lot.unrecovered - recovered
            BY <2>2 DEF Good, Lot
        <3>2. CASE lot.status = "PENDING"
            BY <1>0, <2>1, <3>1, <3>2 DEF Good, sound, payout
        <3>3. CASE lot.status # "PENDING"
            BY <1>0, <2>1, <3>1, <3>3 DEF Good, sound
        <3> QED
            BY <3>2, <3>3
    <2> QED
        BY <2>3, <2>4 DEF Good
<1> QED
    BY <1>1, <1>2, <1>3

(* The lot a return splits off. *)
LEMMA SplitGood ==
    ASSUME NEW lot, Good(lot), NEW cents \in Nat, now \in Nat
    PROVE  Good(splitLot(lot, cents))
<1>1. floorDay \in Nat
    BY MinDaysAssumption DEF floorDay
<1> QED
    BY <1>1 DEF splitLot, Good, Lot, LotStatuses, sound, payout, Never

(* A lot that ends, swept or forfeited, keeps nothing. *)
LEMMA EndedGood ==
    ASSUME NEW lot, Good(lot), NEW s \in {"VOIDED", "EXPIRED"}
    PROVE  Good([lot EXCEPT !.status = s, !.remaining = 0])
<1> DEFINE r == [lot EXCEPT !.status = s, !.remaining = 0]
<1>1. lot \in Lot /\ s \in LotStatuses
    BY DEF Good, LotStatuses
<1>2. r \in Lot
    BY <1>1 DEF Lot
<1>3. r.status = s /\ r.remaining = 0 /\ r.amount = lot.amount /\ r.unrecovered = lot.unrecovered
    BY <1>1 DEF Lot
<1>4. lot.unrecovered <= lot.amount /\ lot.unrecovered \in Nat
    BY DEF Good, Lot, sound
<1> HIDE DEF r
<1>5. sound(r)
    BY <1>3, <1>4 DEF sound
<1>6. Good(r)
    BY <1>2, <1>5 DEF Good
<1> QED
    BY <1>6 DEF r

(* A name no lot has yet. *)
LEMMA NoLotGood ==
    ASSUME NEW l \in Lots
    PROVE  Good(noLot(l)) /\ noLot(l).status = "NONE"
BY DEF noLot, Good, Lot, LotStatuses, sound, Never

(* A lot an order holds, waiting on its delivery. *)
LEMMA PendingGood ==
    ASSUME NEW o \in Orders, NEW earned \in Nat, NEW v \in Nat \cup {Never}
    PROVE  Good(pendingLot(o, earned, v))
<1> DEFINE r == pendingLot(o, earned, v)
<1>1. noLot(o) \in Lot /\ noLot(o).unrecovered = 0 /\ noLot(o).until = Never
    BY NoLotGood DEF Lots, Good, noLot
<1>2. r = [noLot(o) EXCEPT !.status = "PENDING", !.amount = earned, !.remaining = earned,
                           !.validity = v]
    BY DEF pendingLot
<1>3. "PENDING" \in LotStatuses
    BY DEF LotStatuses
<1> HIDE DEF r
<1>4. /\ r \in Lot
      /\ r.status = "PENDING" /\ r.amount = earned /\ r.remaining = earned
      /\ r.unrecovered = 0 /\ r.until = Never
    BY <1>1, <1>2, <1>3 DEF Lot
<1>5. sound(r)
    BY <1>4 DEF sound, payout
<1>6. Good(r)
    BY <1>4, <1>5 DEF Good
<1> QED
    BY <1>6 DEF r

(* A lot the shopkeeper gives. *)
LEMMA GivenGood ==
    ASSUME NEW x \in Extras, NEW cents \in Nat, NEW d \in Nat \cup {Never}
    PROVE  Good([noLot(x) EXCEPT !.status = "AVAILABLE", !.amount = cents,
                                 !.remaining = cents, !.until = d])
<1> DEFINE r == [noLot(x) EXCEPT !.status = "AVAILABLE", !.amount = cents,
                                 !.remaining = cents, !.until = d]
<1>1. noLot(x) \in Lot /\ noLot(x).unrecovered = 0
    BY NoLotGood DEF Lots, Good, noLot
<1>2. "AVAILABLE" \in LotStatuses
    BY DEF LotStatuses
<1>3. r = [noLot(x) EXCEPT !.status = "AVAILABLE", !.amount = cents,
                            !.remaining = cents, !.until = d]
    OBVIOUS
<1> HIDE DEF r
<1>4. /\ r \in Lot
      /\ r.status = "AVAILABLE" /\ r.amount = cents /\ r.remaining = cents
      /\ r.unrecovered = 0
    BY <1>1, <1>2, <1>3 DEF Lot
<1>5. sound(r)
    BY <1>4 DEF sound
<1>6. Good(r)
    BY <1>4, <1>5 DEF Good
<1> QED
    BY <1>6 DEF r

(* Spending takes from usable lots alone, and no more than they hold. *)
LEMMA TakenGood ==
    ASSUME TypeOK, LotsSound, NEW cents \in Nat, NEW take \in takeFrom(cents)
    PROVE  /\ taken(take) \in [Lots -> Lot]
           /\ take \in [Lots -> Nat]
           /\ \A l \in Lots : /\ Good(taken(take)[l])
                              /\ taken(take)[l] = [lots[l] EXCEPT !.remaining = @ - take[l]]
                              /\ take[l] > 0 => spendable(lots[l])
<1>1. take \in [Lots -> 0..cents] /\ \A l \in Lots : take[l] > 0 => spendable(lots[l]) /\ take[l] <= lots[l].remaining
    BY DEF takeFrom
<1>2. ASSUME NEW l \in Lots PROVE Good(taken(take)[l])
    <2>1. lots[l] \in Lot /\ sound(lots[l])
        BY DEF TypeOK, LotsSound
    <2>2. take[l] \in 0..cents
        BY <1>1
    <2>3. taken(take)[l] = [lots[l] EXCEPT !.remaining = @ - take[l]]
        BY DEF taken
    <2>4. CASE take[l] = 0
        BY <2>1, <2>3, <2>4 DEF Good, Lot, sound, payout
    <2>5. CASE take[l] > 0
        <3>1. lots[l].status = "AVAILABLE" /\ take[l] <= lots[l].remaining
            BY <1>1, <2>5 DEF spendable
        <3> QED
            BY <2>1, <2>2, <2>3, <3>1 DEF Good, Lot, LotStatuses, sound, payout
    <2> QED
        BY <2>2, <2>4, <2>5
<1>3. taken(take) \in [Lots -> Lot]
    BY <1>2 DEF taken, Good
<1> QED
    BY <1>1, <1>2, <1>3 DEF taken
-----------------------------------------------------------------------------
(* A return of one order's uses: each lot it used, each lot it split off, and
   every other lot, is good when the whole fits the CHECKs. *)
LEMMA ReturnGood ==
    ASSUME TypeOK, LotsSound, NEW o \in Orders,
           NEW nameOf \in Injection(splitBy(o), free), fits(returnCashback(o, nameOf))
    PROVE  /\ returnCashback(o, nameOf) \in [Lots -> Lot]
           /\ \A l \in Lots : Good(returnCashback(o, nameOf)[l])
<1> DEFINE L == returnCashback(o, nameOf)
<1>1. ASSUME NEW l \in Lots PROVE Good(L[l])
    <2>1. Good(lots[l]) /\ uses[o][l] \in Nat /\ now \in Nat
        BY DEF TypeOK, LotsSound, Good
    <2>2. CASE l \in usedBy(o)
        <3>1. L[l] = returnedLotOf(lots[l], uses[o][l])
            BY <2>2 DEF returnCashback
        <3>2. L[l].remaining + L[l].unrecovered <= L[l].amount
            BY DEF fits
        <3> HIDE DEF L
        <3> QED
            BY <2>1, <3>1, <3>2, ReturnedGood
    <2>3. CASE l \notin usedBy(o) /\ \E m \in splitBy(o) : nameOf[m] = l
        <3> DEFINE m == CHOOSE m \in splitBy(o) : nameOf[m] = l
        <3>1. m \in splitBy(o)
            BY <2>3
        <3>2. m \in Lots
            BY <3>1 DEF splitBy, usedBy
        <3>3. L[l] = splitLot(lots[m], uses[o][m])
            BY <2>3 DEF returnCashback
        <3> HIDE DEF L, m
        <3>4. Good(lots[m]) /\ uses[o][m] \in Nat
            BY <3>2 DEF TypeOK, LotsSound, Good
        <3> QED
            BY <2>1, <3>3, <3>4, SplitGood
    <2>4. CASE l \notin usedBy(o) /\ ~\E m \in splitBy(o) : nameOf[m] = l
        BY <2>1, <2>4 DEF returnCashback
    <2> QED
        BY <2>2, <2>3, <2>4
<1>2. L = [l \in Lots |-> L[l]]
    BY DEF returnCashback
<1> HIDE DEF L
<1>3. L \in [Lots -> Lot]
    BY <1>1, <1>2 DEF Good
<1> QED
    BY <1>1, <1>3 DEF L

(* Every change leaves every lot good. *)
LEMMA LotsStep ==
    ASSUME TypeOK, LotsSound, [Next]_vars
    PROVE  lots' \in [Lots -> Lot] /\ \A l \in Lots : Good(lots'[l])
<1>0. /\ lots \in [Lots -> Lot] /\ now \in Nat
      /\ \A l \in Lots : Good(lots[l])
      /\ Orders \subseteq Lots /\ Extras \subseteq Lots
    BY DEF TypeOK, LotsSound, Good, Lots
<1>1. ASSUME NEW l \in Lots, NEW lot, Good(lot), lots' = [lots EXCEPT ![l] = lot]
      PROVE  lots' \in [Lots -> Lot] /\ \A m \in Lots : Good(lots'[m])
    <2>1. \A m \in Lots : lots'[m] = IF m = l THEN lot ELSE lots[m]
        BY <1>0, <1>1
    <2>2. lots' \in [Lots -> Lot]
        BY <1>0, <1>1 DEF Good
    <2> QED
        BY <1>0, <1>1, <2>1, <2>2
<1>2. ASSUME NEW o \in Orders, Place(o) PROVE lots' \in [Lots -> Lot] /\ \A l \in Lots : Good(lots'[l])
    <2>1. PICK used \in Spends \cup {0}, earned \in Earnings \cup {0}, validity \in Validities :
             \E take \in takeFrom(used) :
               lots' = IF earned = 0 THEN taken(take)
                       ELSE [taken(take) EXCEPT ![o] = pendingLot(o, earned, validity)]
        BY <1>2 DEF Place
    <2>2. PICK take \in takeFrom(used) :
               lots' = IF earned = 0 THEN taken(take)
                       ELSE [taken(take) EXCEPT ![o] = pendingLot(o, earned, validity)]
        BY <2>1
    <2>3. used \in Nat /\ earned \in Nat /\ validity \in Nat \cup {Never}
        BY SpendsAssumption, EarningsAssumption, ValiditiesAssumption
    <2>4. taken(take) \in [Lots -> Lot] /\ \A l \in Lots : Good(taken(take)[l])
        BY <2>3, TakenGood
    <2>5. Good(pendingLot(o, earned, validity))
        BY <2>3, PendingGood
    <2>6. CASE earned = 0
        BY <2>2, <2>4, <2>6
    <2>7. CASE earned # 0
        <3>1. lots' = [taken(take) EXCEPT ![o] = pendingLot(o, earned, validity)]
            BY <2>2, <2>7
        <3>2. \A l \in Lots : lots'[l] = IF l = o THEN pendingLot(o, earned, validity) ELSE taken(take)[l]
            BY <2>4, <3>1
        <3>3. lots' \in [Lots -> Lot]
            BY <2>4, <2>5, <3>1 DEF Good
        <3> QED
            BY <2>4, <2>5, <3>2, <3>3
    <2> QED
        BY <2>6, <2>7
<1>3. ASSUME NEW o \in Orders, Deliver(o) PROVE lots' \in [Lots -> Lot] /\ \A l \in Lots : Good(lots'[l])
    <2>1. lots' = [lots EXCEPT ![o] = released(lots[o])]
        BY <1>3 DEF Deliver
    <2> QED
        BY <1>0, <1>1, <2>1, ReleasedGood
<1>4. ASSUME NEW o \in Orders, LeaveDelivered(o) PROVE lots' \in [Lots -> Lot] /\ \A l \in Lots : Good(lots'[l])
    <2>1. lots' = [lots EXCEPT ![o] = putBack(lots[o])]
        BY <1>4 DEF LeaveDelivered
    <2> QED
        BY <1>0, <1>1, <2>1, PutBackGood
<1>5. ASSUME NEW o \in Orders, Cancel(o) PROVE lots' \in [Lots -> Lot] /\ \A l \in Lots : Good(lots'[l])
    <2>1. PICK nameOf \in Injection(splitBy(o), free) :
             /\ fits(returnCashback(o, nameOf))
             /\ lots' = [returnCashback(o, nameOf) EXCEPT ![o] = voided(@)]
        BY <1>5 DEF Cancel
    <2> DEFINE L == returnCashback(o, nameOf)
    <2>2. L \in [Lots -> Lot] /\ \A l \in Lots : Good(L[l])
        BY <2>1, ReturnGood
    <2>3. lots' = [L EXCEPT ![o] = voided(L[o])]
        BY <2>1
    <2> HIDE DEF L
    <2>4. Good(voided(L[o]))
        BY <1>0, <2>2, VoidedGood
    <2>5. \A l \in Lots : lots'[l] = IF l = o THEN voided(L[o]) ELSE L[l]
        BY <2>2, <2>3
    <2>6. lots' \in [Lots -> Lot]
        BY <2>2, <2>3, <2>4 DEF Good
    <2> QED
        BY <2>2, <2>4, <2>5, <2>6
<1>6. CASE Expire
    <2>1. lots' = [l \in Lots |-> IF l \in due THEN [lots[l] EXCEPT !.status = "EXPIRED", !.remaining = 0]
                                  ELSE lots[l]]
        BY <1>6 DEF Expire
    <2>2. ASSUME NEW l \in Lots PROVE Good(lots'[l])
        <3>1. CASE l \in due
            BY <1>0, <2>1, <3>1, EndedGood
        <3>2. CASE l \notin due
            BY <1>0, <2>1, <3>2
        <3> QED
            BY <3>1, <3>2
    <2>3. lots' \in [Lots -> Lot]
        BY <2>1, <2>2 DEF Good
    <2> QED
        BY <2>2, <2>3
<1>7. ASSUME NEW x \in Extras, AdjustUp(x) PROVE lots' \in [Lots -> Lot] /\ \A l \in Lots : Good(lots'[l])
    <2>1. PICK cents \in Spends, validity \in Validities :
             lots' = [lots EXCEPT ![x] = [noLot(x) EXCEPT !.status = "AVAILABLE", !.amount = cents,
                                             !.remaining = cents, !.until = expiryOf(now, validity)]]
        BY <1>7 DEF AdjustUp
    <2>2. cents \in Nat /\ expiryOf(now, validity) \in Nat \cup {Never}
        BY <1>0, SpendsAssumption, ValiditiesAssumption, ExpiryIsADay
    <2>3. Good([noLot(x) EXCEPT !.status = "AVAILABLE", !.amount = cents,
                                !.remaining = cents, !.until = expiryOf(now, validity)])
        BY <2>2, GivenGood
    <2> QED
        BY <1>0, <1>1, <2>1, <2>3
<1>8. CASE AdjustDown
    <2>1. PICK cents \in Spends : \E take \in takeFrom(cents) : lots' = taken(take)
        BY <1>8 DEF AdjustDown
    <2>2. PICK take \in takeFrom(cents) : lots' = taken(take)
        BY <2>1
    <2>3. cents \in Nat
        BY SpendsAssumption
    <2> QED
        BY <2>2, <2>3, TakenGood
<1>9. CASE Forfeit
    <2>1. lots' = [l \in Lots |-> IF lots[l].status \in {"PENDING", "AVAILABLE"}
                                  THEN [lots[l] EXCEPT !.status = "VOIDED", !.remaining = 0]
                                  ELSE lots[l]]
        BY <1>9 DEF Forfeit
    <2>2. ASSUME NEW l \in Lots PROVE Good(lots'[l])
        <3>1. CASE lots[l].status \in {"PENDING", "AVAILABLE"}
            BY <1>0, <2>1, <3>1, EndedGood
        <3>2. CASE lots[l].status \notin {"PENDING", "AVAILABLE"}
            BY <1>0, <2>1, <3>2
        <3> QED
            BY <3>1, <3>2
    <2>3. lots' \in [Lots -> Lot]
        BY <2>1, <2>2 DEF Good
    <2> QED
        BY <2>2, <2>3
<1>10. CASE Tick \/ UNCHANGED vars
    BY <1>0, <1>10 DEF Tick, vars
<1> QED
    BY <1>2, <1>3, <1>4, <1>5, <1>6, <1>7, <1>8, <1>9, <1>10 DEF Next
-----------------------------------------------------------------------------
(* What one step does to one lot. *)
Kept(l) == lots'[l] = lots[l]
Spent(l) == spendable(lots[l]) /\ \E n \in Nat : lots'[l] = [lots[l] EXCEPT !.remaining = @ - n]
Made(l) == lots[l].status = "NONE" /\ (l \in Orders => order'[l] # "NONE")
Moved(l) == l \in Orders /\ order[l] # "NONE" /\ lots'[l] \in {released(lots[l]), putBack(lots[l])}
Returned(l) == \E o \in Orders : /\ uses[o][l] > 0 /\ uses'[o][l] = 0
                                 /\ LET r == returnedLotOf(lots[l], uses[o][l])
                                    IN lots'[l] \in {r, voided(r)}
Revoked(l) == lots'[l] = voided(lots[l])
Ended(l) == /\ lots[l].status \in {"PENDING", "AVAILABLE"}
            /\ \E s \in {"VOIDED", "EXPIRED"} :
                  lots'[l] = [lots[l] EXCEPT !.status = s, !.remaining = 0]

Touched(l) == Kept(l) \/ Spent(l) \/ Made(l) \/ Moved(l) \/ Returned(l) \/ Revoked(l) \/ Ended(l)

LEMMA PlaceTouches ==
    ASSUME IInv, NEW o \in Orders, Place(o), NEW l \in Lots
    PROVE  Touched(l)
<1>1. PICK used \in Spends \cup {0}, earned \in Earnings \cup {0}, validity \in Validities :
         \E take \in takeFrom(used) :
            /\ order[o] = "NONE" /\ order' = [order EXCEPT ![o] = "PLACED"]
            /\ lots' = IF earned = 0 THEN taken(take)
                       ELSE [taken(take) EXCEPT ![o] = pendingLot(o, earned, validity)]
    BY DEF Place
<1>2. PICK take \in takeFrom(used) :
            /\ order[o] = "NONE" /\ order' = [order EXCEPT ![o] = "PLACED"]
            /\ lots' = IF earned = 0 THEN taken(take)
                       ELSE [taken(take) EXCEPT ![o] = pendingLot(o, earned, validity)]
    BY <1>1
<1>3. used \in Nat
    BY SpendsAssumption
<1>4. /\ taken(take) \in [Lots -> Lot] /\ take[l] \in Nat
      /\ taken(take)[l] = [lots[l] EXCEPT !.remaining = @ - take[l]]
      /\ take[l] > 0 => spendable(lots[l])
    BY <1>3, TakenGood DEF IInv
<1>5. CASE l = o
    <2>1. order'[l] # "NONE"
        BY <1>2, <1>5 DEF IInv, TypeOK
    <2> QED
        BY <1>2, <1>5, <2>1 DEF IInv, Unplaced, Made, Touched
<1>6. CASE l # o
    <2>1. lots'[l] = [lots[l] EXCEPT !.remaining = @ - take[l]]
        BY <1>2, <1>4, <1>6
    <2>2. CASE take[l] > 0
        BY <1>4, <2>1, <2>2 DEF Spent, Touched
    <2>3. CASE take[l] = 0
        <3>1. lots[l] \in Lot
            BY DEF IInv, TypeOK
        <3>2. lots'[l] = lots[l]
            BY <2>1, <2>3, <3>1 DEF Lot
        <3> QED
            BY <3>2 DEF Kept, Touched
    <2> QED
        BY <1>4, <2>2, <2>3
<1> QED
    BY <1>5, <1>6

LEMMA AdjustDownTouches ==
    ASSUME IInv, AdjustDown, NEW l \in Lots
    PROVE  Touched(l)
<1>1. PICK cents \in Spends : \E take \in takeFrom(cents) : lots' = taken(take)
    BY DEF AdjustDown
<1>2. PICK take \in takeFrom(cents) : lots' = taken(take)
    BY <1>1
<1>3. cents \in Nat
    BY SpendsAssumption
<1>4. /\ take[l] \in Nat
      /\ lots'[l] = [lots[l] EXCEPT !.remaining = @ - take[l]]
      /\ take[l] > 0 => spendable(lots[l])
    BY <1>2, <1>3, TakenGood DEF IInv
<1>5. CASE take[l] > 0
    BY <1>4, <1>5 DEF Spent, Touched
<1>6. CASE take[l] = 0
    <2>1. lots[l] \in Lot
        BY DEF IInv, TypeOK
    <2>2. lots'[l] = lots[l]
        BY <1>4, <1>6, <2>1 DEF Lot
    <2> QED
        BY <2>2 DEF Kept, Touched
<1> QED
    BY <1>4, <1>5, <1>6

LEMMA CancelTouches ==
    ASSUME IInv, NEW o \in Orders, Cancel(o), NEW l \in Lots
    PROVE  Touched(l)
<1>1. PICK nameOf \in Injection(splitBy(o), free) :
         /\ fits(returnCashback(o, nameOf))
         /\ lots' = [returnCashback(o, nameOf) EXCEPT ![o] = voided(@)]
    BY DEF Cancel
<1> DEFINE L == returnCashback(o, nameOf)
<1>2. L \in [Lots -> Lot]
    BY <1>1, ReturnGood DEF IInv
<1>3. uses' = [uses EXCEPT ![o] = [m \in Lots |-> 0]] /\ uses \in [Orders -> [Lots -> Nat]]
    BY DEF Cancel, IInv, TypeOK
<1>4. uses'[o][l] = 0 /\ uses[o][l] \in Nat
    BY <1>3
<1>5. lots'[l] = IF l = o THEN voided(L[l]) ELSE L[l]
    <2> HIDE DEF L
    <2>1. lots' = [L EXCEPT ![o] = voided(L[o])]
        BY <1>1 DEF L
    <2> QED
        BY <1>2, <2>1
<1>6. CASE l \in usedBy(o)
    <2>1. L[l] = returnedLotOf(lots[l], uses[o][l]) /\ uses[o][l] > 0
        BY <1>6 DEF returnCashback, usedBy
    <2>2. lots'[l] \in {returnedLotOf(lots[l], uses[o][l]), voided(returnedLotOf(lots[l], uses[o][l]))}
        BY <1>5, <2>1
    <2>3. Returned(l)
        BY <1>4, <2>1, <2>2 DEF Returned
    <2> QED
        BY <2>3 DEF Touched
<1>7. CASE l \notin usedBy(o) /\ \E m \in splitBy(o) : nameOf[m] = l
    <2>1. l \in free
        BY <1>1, <1>7 DEF Injection
    <2>2. Made(l)
        BY <2>1, NamesAssumption DEF free, Made
    <2> QED
        BY <2>2 DEF Touched
<1>8. CASE l \notin usedBy(o) /\ ~\E m \in splitBy(o) : nameOf[m] = l
    <2>1. L[l] = lots[l]
        BY <1>8 DEF returnCashback
    <2> QED
        BY <1>5, <2>1 DEF Kept, Revoked, Touched
<1> QED
    BY <1>6, <1>7, <1>8

(* Every step touches a lot in one of these ways, and the clock alone moves the day. *)
LEMMA LotStep ==
    ASSUME IInv, [Next]_vars
    PROVE  /\ \A l \in Lots : Touched(l)
           /\ now' = now \/ (now' = now + 1 /\ lots' = lots)
           /\ \A o \in Orders : order'[o] = "NONE" => order[o] = "NONE"
<1>0. lots \in [Lots -> Lot] /\ order \in [Orders -> OrderStatuses] /\ Orders \subseteq Lots
    BY DEF IInv, TypeOK, Lots
<1> DEFINE Goal == /\ \A l \in Lots : Touched(l)
                   /\ now' = now \/ (now' = now + 1 /\ lots' = lots)
                   /\ \A o \in Orders : order'[o] = "NONE" => order[o] = "NONE"
<1>1. ASSUME NEW o \in Orders, Place(o) PROVE Goal
    BY <1>0, <1>1, PlaceTouches DEF Place
<1>2. ASSUME NEW o \in Orders, Deliver(o) PROVE Goal
    <2>1. /\ order[o] = "PLACED" /\ order' = [order EXCEPT ![o] = "DELIVERED"]
          /\ lots' = [lots EXCEPT ![o] = released(lots[o])] /\ now' = now
        BY <1>2 DEF Deliver
    <2>2. \A l \in Lots : lots'[l] = IF l = o THEN released(lots[l]) ELSE lots[l]
        BY <1>0, <2>1
    <2>3. \A l \in Lots : Touched(l)
        BY <2>1, <2>2 DEF Kept, Moved, Touched
    <2> QED
        BY <1>0, <2>1, <2>3
<1>3. ASSUME NEW o \in Orders, LeaveDelivered(o) PROVE Goal
    <2>1. /\ order[o] = "DELIVERED" /\ order' = [order EXCEPT ![o] = "PLACED"]
          /\ lots' = [lots EXCEPT ![o] = putBack(lots[o])] /\ now' = now
        BY <1>3 DEF LeaveDelivered
    <2>2. \A l \in Lots : lots'[l] = IF l = o THEN putBack(lots[l]) ELSE lots[l]
        BY <1>0, <2>1
    <2>3. \A l \in Lots : Touched(l)
        BY <2>1, <2>2 DEF Kept, Moved, Touched
    <2> QED
        BY <1>0, <2>1, <2>3
<1>4. ASSUME NEW o \in Orders, Cancel(o) PROVE Goal
    BY <1>0, <1>4, CancelTouches DEF Cancel
<1>5. ASSUME Expire PROVE Goal
    <2>1. \A l \in Lots : Touched(l)
        BY <1>5 DEF Expire, due, Kept, Ended, Touched
    <2> QED
        BY <1>5, <2>1 DEF Expire
<1>6. ASSUME NEW x \in Extras, AdjustUp(x) PROVE Goal
    <2>1. PICK cents \in Spends, validity \in Validities :
             /\ x \in free
             /\ lots' = [lots EXCEPT ![x] = [noLot(x) EXCEPT !.status = "AVAILABLE", !.amount = cents,
                                                !.remaining = cents, !.until = expiryOf(now, validity)]]
             /\ order' = order /\ now' = now
        BY <1>6 DEF AdjustUp
    <2>2. \A l \in Lots : l # x => lots'[l] = lots[l]
        BY <1>0, <2>1
    <2>3. lots[x].status = "NONE" /\ x \notin Orders
        BY <2>1, NamesAssumption DEF free
    <2>4. \A l \in Lots : Touched(l)
        BY <2>2, <2>3 DEF Kept, Made, Touched
    <2> QED
        BY <2>1, <2>4
<1>7. ASSUME AdjustDown PROVE Goal
    BY <1>7, AdjustDownTouches DEF AdjustDown
<1>8. ASSUME Forfeit PROVE Goal
    <2>1. \A l \in Lots : Touched(l)
        BY <1>8 DEF Forfeit, Kept, Ended, Touched
    <2> QED
        BY <1>8, <2>1 DEF Forfeit
<1>9. ASSUME Tick \/ UNCHANGED vars PROVE Goal
    BY <1>9 DEF Tick, vars, Kept, Touched
<1> HIDE DEF Goal
<1>10. \/ \E o \in Orders : Place(o) \/ Deliver(o) \/ LeaveDelivered(o) \/ Cancel(o)
       \/ \E x \in Extras : AdjustUp(x)
       \/ Expire \/ AdjustDown \/ Forfeit \/ Tick \/ UNCHANGED vars
    BY DEF Next
<1>11. Goal
    BY <1>1, <1>2, <1>3, <1>4, <1>5, <1>6, <1>7, <1>8, <1>9, <1>10
<1> QED
    BY <1>11 DEF Goal

(* The invariant: the types, each lot's own rule, and no lot before its order. *)
LEMMA UnplacedStep ==
    ASSUME IInv, [Next]_vars
    PROVE  Unplaced'
<1> SUFFICES ASSUME NEW o \in Orders, order'[o] = "NONE"
             PROVE  lots'[o].status = "NONE"
    BY DEF Unplaced
<1>1. /\ o \in Lots /\ order[o] = "NONE" /\ lots[o].status = "NONE" /\ lots[o] \in Lot
    BY LotStep DEF IInv, TypeOK, Unplaced, Lots
<1>2. Touched(o)
    BY <1>1, LotStep
<1>3. CASE Returned(o)
    <2>1. PICK p \in Orders : LET r == returnedLotOf(lots[o], uses[p][o]) IN lots'[o] \in {r, voided(r)}
        BY <1>3 DEF Returned
    <2> DEFINE r == returnedLotOf(lots[o], uses[p][o])
    <2>2. r.status = "NONE"
        BY <1>1 DEF returnedLotOf, usableAgain, Lot
    <2> HIDE DEF r
    <2>3. voided(r) = r
        BY <2>2 DEF voided
    <2> QED
        BY <2>1, <2>2, <2>3 DEF r
<1> QED
    BY <1>1, <1>2, <1>3 DEF Touched, Kept, Spent, spendable, Made, Moved, Revoked, voided, Ended

LEMMA IInvStep ==
    ASSUME IInv, [Next]_vars
    PROVE  IInv'
<1>1. lots' \in [Lots -> Lot] /\ LotsSound'
    BY LotsStep DEF IInv, LotsSound, Good
<1>2. Unplaced'
    BY UnplacedStep
<1>3. order' \in [Orders -> OrderStatuses] /\ now' \in Nat
    <2>1. now' \in Nat
        BY LotStep DEF IInv, TypeOK
    <2>2. \/ order' = order
          \/ \E o \in Orders, s \in OrderStatuses : order' = [order EXCEPT ![o] = s]
        BY DEF OrderStatuses, Next, vars, Place, Deliver, LeaveDelivered, Cancel,
               AdjustUp, AdjustDown, Expire, Forfeit, Tick
    <2> QED
        BY <2>1, <2>2 DEF IInv, TypeOK
<1>4. uses' \in [Orders -> [Lots -> Nat]]
    <2>1. uses \in [Orders -> [Lots -> Nat]]
        BY DEF IInv, TypeOK
    <2>2. ASSUME NEW o \in Orders, Place(o) PROVE uses' \in [Orders -> [Lots -> Nat]]
        <3>1. PICK used \in Spends \cup {0} : \E take \in takeFrom(used) : uses' = [uses EXCEPT ![o] = take]
            BY <2>2 DEF Place
        <3>2. PICK take \in takeFrom(used) : uses' = [uses EXCEPT ![o] = take]
            BY <3>1
        <3>3. used \in Nat
            BY SpendsAssumption
        <3>4. take \in [Lots -> Nat]
            BY <3>3, TakenGood DEF IInv
        <3> QED
            BY <2>1, <3>2, <3>4
    <2>3. ASSUME NEW o \in Orders, Cancel(o) PROVE uses' \in [Orders -> [Lots -> Nat]]
        BY <2>1, <2>3 DEF Cancel
    <2> QED
        BY <2>1, <2>2, <2>3 DEF Next, vars, Deliver, LeaveDelivered, AdjustUp, AdjustDown,
                                Expire, Forfeit, Tick
<1> QED
    BY <1>1, <1>2, <1>3, <1>4 DEF IInv, TypeOK

LEMMA IInvInit ==
    ASSUME Init
    PROVE  IInv
<1>1. lots \in [Lots -> Lot] /\ \A l \in Lots : Good(lots[l]) /\ lots[l].status = "NONE"
    BY NoLotGood DEF Init, Good
<1> QED
    BY <1>1 DEF Init, IInv, TypeOK, OrderStatuses, LotsSound, Good, Unplaced, Lots

\* The strengthened invariant of the ledger holds whatever deliveries, cancellations and sweeps come.
THEOREM Invariant == Spec => []IInv
<1>1. Init => IInv
    BY IInvInit
<1>2. IInv /\ [Next]_vars => IInv'
    BY IInvStep
<1> QED
    BY <1>1, <1>2, PTL DEF Spec

(* Every variable the ledger writes keeps its type: no lot, and no use, is ever
   worth less than nothing. *)
THEOREM TypeCorrect == Spec => []TypeOK
BY Invariant, PTL DEF IInv

(* Whatever the orders, the cents and the days: what waits is what its delivery
   pays, what ended holds nothing, and no lot is worth more than it was. *)
THEOREM LotsStaySound == Spec => []LotsSound
BY Invariant, PTL DEF IInv

(* A void lot never comes back, whatever is delivered, returned or swept after. *)
THEOREM VoidForGood == Spec => VoidStays
<1>1. ASSUME IInv, [Next]_vars, NEW l \in Lots, lots[l].status = "VOIDED"
      PROVE  lots'[l].status = "VOIDED" /\ lots'[l].remaining = 0
    <2>1. Touched(l) /\ lots[l] \in Lot /\ lots[l].remaining = 0
        BY <1>1, LotStep DEF IInv, TypeOK, LotsSound, sound
    <2>2. CASE Returned(l)
        <3>1. PICK o \in Orders : LET r == returnedLotOf(lots[l], uses[o][l]) IN lots'[l] \in {r, voided(r)}
            BY <2>2 DEF Returned
        <3> DEFINE r == returnedLotOf(lots[l], uses[o][l])
        <3>2. r.status = "VOIDED" /\ r.remaining = 0
            BY <1>1, <2>1 DEF returnedLotOf, usableAgain, Lot
        <3> HIDE DEF r
        <3>3. voided(r) = r
            BY <3>2 DEF voided
        <3> QED
            BY <3>1, <3>2, <3>3 DEF r
    <2>3. CASE Moved(l)
        BY <1>1, <2>1, <2>3 DEF Moved, released, putBack, takenBack
    <2> QED
        BY <1>1, <2>1, <2>2, <2>3 DEF Touched, Kept, Spent, spendable, Made, Revoked, voided, Ended
<1>2. IInv /\ [Next]_vars => [\A l \in Lots : lots[l].status = "VOIDED"
            => lots'[l].status = "VOIDED" /\ lots'[l].remaining = 0]_vars
    BY <1>1
<1> QED
    BY <1>2, Invariant, PTL DEF Spec, VoidStays

(* Credit past its day is never revived: only a use given back is credit again,
   and for no more than it was. *)
THEOREM ExpiredForGood == Spec => ExpiredNotRevived
<1>1. ASSUME IInv, [Next]_vars, NEW l \in Lots, over(lots[l]), promised(lots[l])' > 0
      PROVE  \E o \in Orders : uses'[o][l] = 0 /\ promised(lots[l])' <= uses[o][l]
    <2>1. /\ Touched(l) /\ lots[l] \in Lot /\ sound(lots[l]) /\ now \in Nat
          /\ now' = now \/ (now' = now + 1 /\ lots' = lots)
        BY <1>1, LotStep DEF IInv, TypeOK, LotsSound
    <2>2. /\ lots[l].until # Never /\ lots[l].until \in Nat /\ lots[l].until <= now
          /\ lots[l].status \in {"AVAILABLE", "VOIDED", "EXPIRED"}
        BY <1>1, <2>1 DEF over, Lot, LotStatuses, sound
    <2>3. lots'[l] # lots[l]
        BY <1>1, <2>1, <2>2 DEF promised, over
    <2>4. now' = now
        BY <2>1, <2>3
    <2>5. \/ lots'[l].status = "PENDING"
          \/ lots'[l].status = "AVAILABLE" /\ (lots'[l].until = Never \/ ~(lots'[l].until <= now))
        BY <1>1, <2>4 DEF promised, over
    <2>6. ~Spent(l) /\ ~Made(l) /\ ~Moved(l) /\ ~Revoked(l) /\ ~Ended(l)
        <3>1. ~Spent(l)
            BY <1>1 DEF Spent, spendable
        <3>2. ~Made(l) /\ ~Moved(l)
            BY <1>1, <2>2, <2>3 DEF Made, Moved, released, putBack, takenBack
        <3>3. ~Ended(l)
            BY <2>1, <2>5 DEF Ended, Lot
        <3>4. ~Revoked(l)
            <4>1. CASE lots[l].status = "AVAILABLE"
                BY <2>1, <2>5, <4>1 DEF Revoked, voided, Lot
            <4>2. CASE lots[l].status # "AVAILABLE"
                BY <2>2, <2>3, <4>2 DEF Revoked, voided
            <4> QED
                BY <4>1, <4>2
        <3> QED
            BY <3>1, <3>2, <3>3, <3>4
    <2>7. Returned(l)
        BY <2>1, <2>3, <2>6 DEF Touched, Kept
    <2>8. PICK o \in Orders : /\ uses'[o][l] = 0
                              /\ LET r == returnedLotOf(lots[l], uses[o][l]) IN lots'[l] \in {r, voided(r)}
        BY <2>7 DEF Returned
    <2> DEFINE r == returnedLotOf(lots[l], uses[o][l])
    <2>9. uses[o][l] \in Nat
        BY <1>1 DEF IInv, TypeOK
    <2>10. usableAgain(lots[l])
        <3>1. SUFFICES ASSUME ~usableAgain(lots[l]) PROVE FALSE
            OBVIOUS
        <3>2. r.status = "VOIDED"
            BY <2>1, <2>2, <3>1 DEF returnedLotOf, usableAgain, Lot
        <3> HIDE DEF r
        <3>3. voided(r) = r
            BY <3>2 DEF voided
        <3> QED
            BY <2>5, <2>8, <3>2, <3>3 DEF r
    <2>11. ~splits(lots[l])
        <3>1. SUFFICES ASSUME splits(lots[l]) PROVE FALSE
            OBVIOUS
        <3>2. r = lots[l]
            BY <2>10, <3>1 DEF returnedLotOf
        <3>3. lots'[l] = voided(lots[l])
            BY <2>3, <2>8, <3>2
        <3> QED
            BY <2>6, <3>3 DEF Revoked
    <2>12. lots[l].remaining = 0
        <3>1. ~reachesFloor(lots[l])
            BY <2>1, <2>2, MinDaysAssumption DEF reachesFloor, floorDay
        <3> QED
            BY <2>10, <2>11, <3>1 DEF splits
    <2>13. r.status = "AVAILABLE" /\ r.remaining = uses[o][l]
        BY <2>1, <2>9, <2>10, <2>11, <2>12 DEF returnedLotOf, Lot
    <2>14. voided(r).status = "VOIDED"
        <3>1. r = [lots[l] EXCEPT !.status = "AVAILABLE", !.remaining = lots[l].remaining + uses[o][l],
                                  !.until = IF reachesFloor(lots[l]) THEN lots[l].until ELSE floorDay]
            BY <2>1, <2>10, <2>11 DEF returnedLotOf, Lot
        <3> QED
            BY <2>1, <2>13, <3>1 DEF voided, Lot
    <2>15. lots'[l].remaining = uses[o][l]
        <3> HIDE DEF r
        <3> QED
            BY <2>5, <2>8, <2>13, <2>14 DEF r
    <2>16. promised(lots[l])' = lots'[l].remaining
        BY <2>4, <2>5 DEF promised, over
    <2> QED
        BY <2>8, <2>9, <2>15, <2>16
<1>2. IInv /\ [Next]_vars => [\A l \in Lots : over(lots[l]) /\ promised(lots[l])' > 0
            => \E o \in Orders : /\ uses'[o][l] = 0
                                 /\ promised(lots[l])' <= uses[o][l]]_vars
    BY <1>1
<1> QED
    BY <1>2, Invariant, PTL DEF Spec, ExpiredNotRevived
-----------------------------------------------------------------------------
(* Sums: what SumFunctionOnSet, a fold, adds up to over a finite set.      *)

one(S) == CHOOSE x \in S : TRUE

(* `h' gives, for every subset of S, what the fold comes to over it. *)
Folds(f, S, h) ==
    h = [s \in SUBSET S |-> IF s = {} THEN 0 ELSE f[one(s)] + h[s \ {one(s)}]]

LEMMA LeastNatural ==
    ASSUME NEW S, S \subseteq Nat, S # {}
    PROVE  \E m \in S : \A k \in S : m <= k
<1> DEFINE R == OpToRel(<, Nat)
<1>1. IsWellFoundedOn(R, Nat)
    BY NatLessThanWellFounded
<1> HIDE DEF R
<1>2. PICK m \in S : \A k \in S : <<k, m>> \notin R
    BY <1>1, WFMin
<1>3. \A k \in S : ~(k < m)
    BY <1>2 DEF R, OpToRel
<1> QED
    BY <1>2, <1>3, SMT

(* Of the subsets of a finite set that fail at something, one has no smaller one
   that does: induction over finite sets, for a predicate written as a set. *)
LEMMA SmallestSubset ==
    ASSUME NEW S, IsFiniteSet(S), NEW Bad, Bad \subseteq SUBSET S, Bad # {}
    PROVE  \E s \in Bad : IsFiniteSet(s) /\ \A x \in s : s \ {x} \notin Bad
<1>1. \A s \in Bad : IsFiniteSet(s) /\ Cardinality(s) \in Nat
    BY FS_Subset, FS_CardinalityType
<1> DEFINE Sizes == {Cardinality(s) : s \in Bad}
<1>2. Sizes \subseteq Nat /\ Sizes # {}
    BY <1>1
<1> HIDE DEF Sizes
<1>3. PICK n \in Sizes : \A k \in Sizes : n <= k
    BY <1>2, LeastNatural
<1>4. PICK s \in Bad : Cardinality(s) = n
    BY <1>3 DEF Sizes
<1>5. ASSUME NEW x \in s, s \ {x} \in Bad PROVE FALSE
    <2>1. Cardinality(s \ {x}) = Cardinality(s) - 1
        BY <1>1, <1>4, FS_RemoveElement
    <2>2. Cardinality(s \ {x}) \in Sizes
        BY <1>5 DEF Sizes
    <2> QED
        BY <1>1, <1>3, <1>4, <2>1, <2>2
<1> QED
    BY <1>1, <1>4, <1>5

(* The fold exists over every finite set, one size of subset after another. *)
upto(S, n) == {s \in SUBSET S : Cardinality(s) <= n}
FoldsUpto(f, S, n, h) ==
    h = [s \in upto(S, n) |-> IF s = {} THEN 0 ELSE f[one(s)] + h[s \ {one(s)}]]

LEMMA FoldExists ==
    ASSUME NEW f, NEW S, IsFiniteSet(S)
    PROVE  \E h : Folds(f, S, h)
<1>0. \A s \in SUBSET S : /\ IsFiniteSet(s) /\ Cardinality(s) \in Nat
                          /\ Cardinality(s) <= Cardinality(S)
                          /\ s # {} => one(s) \in s /\ Cardinality(s \ {one(s)}) = Cardinality(s) - 1
                          /\ Cardinality(s) = 0 => s = {}
    BY FS_Subset, FS_CardinalityType, FS_RemoveElement, FS_EmptySet DEF one
<1> DEFINE Bad == {n \in Nat : ~\E h : FoldsUpto(f, S, n, h)}
<1>1. Bad = {}
    <2> SUFFICES ASSUME Bad # {} PROVE FALSE
        OBVIOUS
    <2>1. PICK m \in Bad : \A k \in Bad : m <= k
        BY LeastNatural
    <2>2. m # 0
        <3>1. ASSUME NEW s \in upto(S, 0) PROVE s = {}
            <4>1. s \in SUBSET S /\ Cardinality(s) <= 0
                BY DEF upto
            <4>2. Cardinality(s) \in Nat
                BY <1>0, <4>1
            <4>3. Cardinality(s) = 0
                BY <4>1, <4>2
            <4> QED
                BY <1>0, <4>1, <4>3
        <3> DEFINE g == [s \in upto(S, 0) |-> 0]
        <3>2. FoldsUpto(f, S, 0, g)
            <4>1. \A s \in upto(S, 0) : 0 = IF s = {} THEN 0 ELSE f[one(s)] + g[s \ {one(s)}]
                BY <3>1
            <4>2. g = [s \in upto(S, 0) |-> IF s = {} THEN 0 ELSE f[one(s)] + g[s \ {one(s)}]]
                BY <4>1, Zenon
            <4> QED
                BY <4>2 DEF FoldsUpto
        <3> QED
            BY <3>2
    <2>3. m \in Nat /\ m - 1 \in Nat /\ m - 1 \notin Bad
        BY <2>1, <2>2
    <2>4. PICK h : FoldsUpto(f, S, m - 1, h)
        BY <2>3
    <2> DEFINE g == [s \in upto(S, m) |-> IF s = {} THEN 0 ELSE f[one(s)] + h[s \ {one(s)}]]
    <2>5. ASSUME NEW s \in upto(S, m), s # {}
          PROVE  g[s \ {one(s)}] = h[s \ {one(s)}]
        <3> DEFINE r == s \ {one(s)}
        <3>1. s \in SUBSET S /\ Cardinality(s) \in Nat /\ Cardinality(s) <= m /\ Cardinality(r) = Cardinality(s) - 1
            BY <1>0, <2>5 DEF upto
        <3>2. r \in SUBSET S /\ Cardinality(r) \in Nat
            BY <1>0, <3>1
        <3>3. r \in upto(S, m - 1) /\ r \in upto(S, m)
            BY <2>3, <3>1, <3>2 DEF upto
        <3>4. h[r] = IF r = {} THEN 0 ELSE f[one(r)] + h[r \ {one(r)}]
            BY <2>4, <3>3 DEF FoldsUpto
        <3>5. g[r] = IF r = {} THEN 0 ELSE f[one(r)] + h[r \ {one(r)}]
            BY <3>3
        <3> QED
            BY <3>4, <3>5
    <2>6. FoldsUpto(f, S, m, g)
        <3>1. \A s \in upto(S, m) : (IF s = {} THEN 0 ELSE f[one(s)] + h[s \ {one(s)}])
                                  = (IF s = {} THEN 0 ELSE f[one(s)] + g[s \ {one(s)}])
            BY <2>5
        <3>2. g = [s \in upto(S, m) |-> IF s = {} THEN 0 ELSE f[one(s)] + g[s \ {one(s)}]]
            BY <3>1, Zenon
        <3> QED
            BY <3>2 DEF FoldsUpto
    <2> QED
        BY <2>1, <2>6
<1>2. PICK h : FoldsUpto(f, S, Cardinality(S), h)
    BY <1>0, <1>1
<1>3. upto(S, Cardinality(S)) = SUBSET S
    BY <1>0 DEF upto
<1> QED
    BY <1>2, <1>3 DEF Folds, FoldsUpto

(* Two folds of one function agree wherever both are told. *)
LEMMA FoldsAgree ==
    ASSUME NEW f, NEW S, NEW T, NEW g, NEW h, Folds(f, S, g), Folds(f, T, h),
           NEW s, IsFiniteSet(s), s \subseteq S, s \subseteq T
    PROVE  g[s] = h[s]
<1> DEFINE Bad == {t \in SUBSET s : g[t] # h[t]}
<1>1. Bad = {}
    <2> SUFFICES ASSUME Bad # {} PROVE FALSE
        OBVIOUS
    <2>1. PICK t \in Bad : \A x \in t : t \ {x} \notin Bad
        BY SmallestSubset
    <2>2. t \in SUBSET S /\ t \in SUBSET T
        OBVIOUS
    <2>3. /\ g[t] = IF t = {} THEN 0 ELSE f[one(t)] + g[t \ {one(t)}]
          /\ h[t] = IF t = {} THEN 0 ELSE f[one(t)] + h[t \ {one(t)}]
        BY <2>2 DEF Folds
    <2>4. t # {} => one(t) \in t
        BY DEF one
    <2>5. t # {} => g[t \ {one(t)}] = h[t \ {one(t)}]
        BY <2>1, <2>4
    <2> QED
        BY <2>1, <2>3, <2>5
<1> QED
    BY <1>1

LEMMA SumIsFold ==
    ASSUME NEW f, NEW S, NEW h, Folds(f, S, h), IsFiniteSet(S)
    PROVE  SumFunctionOnSet(f, S) = h[S]
<1>1. SumFunctionOnSet(f, S) = (CHOOSE g : Folds(f, S, g))[S]
    BY DEF SumFunctionOnSet, FoldFunctionOnSet, MapThenFoldSet, Folds, one
<1> QED
    BY <1>1, FoldsAgree

LEMMA FoldIsNumber ==
    ASSUME NEW f, NEW S, NEW h, Folds(f, S, h), IsFiniteSet(S), \A x \in S : f[x] \in Int
    PROVE  \A s \in SUBSET S : h[s] \in Int
<1> DEFINE Bad == {s \in SUBSET S : h[s] \notin Int}
<1>1. Bad = {}
    <2> SUFFICES ASSUME Bad # {} PROVE FALSE
        OBVIOUS
    <2>1. PICK s \in Bad : \A x \in s : s \ {x} \notin Bad
        BY SmallestSubset
    <2>2. h[s] = IF s = {} THEN 0 ELSE f[one(s)] + h[s \ {one(s)}]
        BY DEF Folds
    <2>3. s # {} => one(s) \in s
        BY DEF one
    <2>4. s # {} => h[s \ {one(s)}] \in Int /\ f[one(s)] \in Int
        BY <2>1, <2>3
    <2> QED
        BY <2>1, <2>2, <2>4
<1> QED
    BY <1>1

(* Whichever element the fold is thought to begin with. *)
LEMMA FoldStep ==
    ASSUME NEW f, NEW S, NEW h, Folds(f, S, h), IsFiniteSet(S), \A x \in S : f[x] \in Int
    PROVE  \A s \in SUBSET S : h[s] \in Int /\ \A x \in s : h[s] = f[x] + h[s \ {x}]
<1> DEFINE Bad == {s \in SUBSET S : ~(h[s] \in Int /\ \A x \in s : h[s] = f[x] + h[s \ {x}])}
<1>1. Bad = {}
    <2> SUFFICES ASSUME Bad # {} PROVE FALSE
        OBVIOUS
    <2>1. PICK s \in Bad : \A x \in s : s \ {x} \notin Bad
        BY SmallestSubset
    <2>2. h[s] = IF s = {} THEN 0 ELSE f[one(s)] + h[s \ {one(s)}]
        BY DEF Folds
    <2>3. s # {}
        BY <2>1, <2>2
    <2> DEFINE y == one(s)
    <2>4. y \in s
        BY <2>3 DEF one
    <2> HIDE DEF y
    <2>5. \A x \in s : h[s \ {x}] \in Int /\ \A z \in s \ {x} : h[s \ {x}] = f[z] + h[(s \ {x}) \ {z}]
        BY <2>1
    <2>6. h[s] = f[y] + h[s \ {y}]
        BY <2>2, <2>3 DEF y
    <2>7. h[s] \in Int
        BY <2>4, <2>5, <2>6
    <2>8. ASSUME NEW x \in s, x # y PROVE h[s] = f[x] + h[s \ {x}]
        <3>1. h[s \ {y}] = f[x] + h[(s \ {y}) \ {x}] /\ h[s \ {x}] = f[y] + h[(s \ {x}) \ {y}]
            BY <2>4, <2>5, <2>8
        <3>2. h[(s \ {y}) \ {x}] = h[(s \ {x}) \ {y}]
            <4>1. (s \ {y}) \ {x} = (s \ {x}) \ {y}
                OBVIOUS
            <4> QED
                BY <4>1
        <3>3. h[(s \ {y}) \ {x}] \in Int /\ f[x] \in Int /\ f[y] \in Int
            BY <2>4, FoldIsNumber
        <3> QED
            BY <2>6, <3>1, <3>2, <3>3
    <2> QED
        BY <2>1, <2>6, <2>7, <2>8
<1> QED
    BY <1>1

(* A sum over a finite set, whichever element it is thought to begin with. *)
LEMMA SumOf ==
    ASSUME NEW S, IsFiniteSet(S), NEW f, \A x \in S : f[x] \in Int
    PROVE  /\ SumFunctionOnSet(f, S) \in Int
           /\ S = {} => SumFunctionOnSet(f, S) = 0
           /\ \A x \in S : SumFunctionOnSet(f, S) = f[x] + SumFunctionOnSet(f, S \ {x})
<1>1. PICK h : Folds(f, S, h)
    BY FoldExists
<1>2. SumFunctionOnSet(f, S) = h[S] /\ h[S] \in Int
    BY <1>1, SumIsFold, FoldIsNumber
<1>3. S = {} => h[S] = 0
    BY <1>1 DEF Folds
<1>4. ASSUME NEW x \in S PROVE SumFunctionOnSet(f, S) = f[x] + SumFunctionOnSet(f, S \ {x})
    <2>1. IsFiniteSet(S \ {x})
        BY FS_RemoveElement
    <2>2. PICK g : Folds(f, S \ {x}, g)
        BY <2>1, FoldExists
    <2>3. SumFunctionOnSet(f, S \ {x}) = g[S \ {x}]
        BY <2>1, <2>2, SumIsFold
    <2>4. g[S \ {x}] = h[S \ {x}]
        BY <1>1, <2>1, <2>2, FoldsAgree
    <2>5. h[S] = f[x] + h[S \ {x}]
        BY <1>1, FoldStep
    <2> QED
        BY <1>2, <2>3, <2>4, <2>5
<1> QED
    BY <1>2, <1>3, <1>4

(* Where one function is the sum of two, so is its sum. *)
LEMMA SumAdds ==
    ASSUME NEW S, IsFiniteSet(S), NEW f, NEW g, NEW h,
           \A x \in S : f[x] \in Int /\ g[x] \in Int /\ h[x] = f[x] + g[x]
    PROVE  SumFunctionOnSet(h, S) = SumFunctionOnSet(f, S) + SumFunctionOnSet(g, S)
<1> DEFINE F(s) == SumFunctionOnSet(f, s)
           G(s) == SumFunctionOnSet(g, s)
           H(s) == SumFunctionOnSet(h, s)
           Bad == {s \in SUBSET S : H(s) # F(s) + G(s)}
<1>0. ASSUME NEW s \in SUBSET S
      PROVE  /\ F(s) \in Int /\ G(s) \in Int /\ H(s) \in Int
             /\ s = {} => F(s) = 0 /\ G(s) = 0 /\ H(s) = 0
             /\ \A x \in s : F(s) = f[x] + F(s \ {x}) /\ G(s) = g[x] + G(s \ {x}) /\ H(s) = h[x] + H(s \ {x})
    <2>1. IsFiniteSet(s) /\ \A x \in s : f[x] \in Int /\ g[x] \in Int /\ h[x] \in Int
        BY FS_Subset
    <2> QED
        BY <2>1, SumOf
<1> HIDE DEF F, G, H
<1>1. Bad = {}
    <2> SUFFICES ASSUME Bad # {} PROVE FALSE
        OBVIOUS
    <2>1. PICK s \in Bad : \A x \in s : s \ {x} \notin Bad
        BY SmallestSubset
    <2>2. s # {}
        BY <1>0, <2>1
    <2>3. PICK x \in s : TRUE
        BY <2>2
    <2>4. H(s \ {x}) = F(s \ {x}) + G(s \ {x})
        BY <2>1
    <2>5. /\ F(s \ {x}) \in Int /\ G(s \ {x}) \in Int /\ H(s \ {x}) \in Int
          /\ F(s) = f[x] + F(s \ {x}) /\ G(s) = g[x] + G(s \ {x}) /\ H(s) = h[x] + H(s \ {x})
          /\ f[x] \in Int /\ g[x] \in Int /\ h[x] = f[x] + g[x]
        BY <1>0
    <2>6. H(s) = F(s) + G(s)
        BY <2>4, <2>5
    <2> QED
        BY <2>1, <2>6
<1>2. H(S) = F(S) + G(S)
    BY <1>1
<1> QED
    BY <1>2 DEF F, G, H

(* No more everywhere, no more in all. *)
LEMMA SumOrdered ==
    ASSUME NEW S, IsFiniteSet(S), NEW f, NEW g,
           \A x \in S : f[x] \in Int /\ g[x] \in Int /\ f[x] <= g[x]
    PROVE  SumFunctionOnSet(f, S) <= SumFunctionOnSet(g, S)
<1> DEFINE F(s) == SumFunctionOnSet(f, s)
           G(s) == SumFunctionOnSet(g, s)
           Bad == {s \in SUBSET S : ~(F(s) <= G(s))}
<1>0. ASSUME NEW s \in SUBSET S
      PROVE  /\ F(s) \in Int /\ G(s) \in Int
             /\ s = {} => F(s) = 0 /\ G(s) = 0
             /\ \A x \in s : F(s) = f[x] + F(s \ {x}) /\ G(s) = g[x] + G(s \ {x})
    <2>1. IsFiniteSet(s) /\ \A x \in s : f[x] \in Int /\ g[x] \in Int
        BY FS_Subset
    <2> QED
        BY <2>1, SumOf
<1> HIDE DEF F, G
<1>1. Bad = {}
    <2> SUFFICES ASSUME Bad # {} PROVE FALSE
        OBVIOUS
    <2>1. PICK s \in Bad : \A x \in s : s \ {x} \notin Bad
        BY SmallestSubset
    <2>2. s # {}
        BY <1>0, <2>1
    <2>3. PICK x \in s : TRUE
        BY <2>2
    <2>4. F(s \ {x}) <= G(s \ {x})
        BY <2>1
    <2>5. /\ F(s \ {x}) \in Int /\ G(s \ {x}) \in Int
          /\ F(s) = f[x] + F(s \ {x}) /\ G(s) = g[x] + G(s \ {x})
          /\ f[x] \in Int /\ g[x] \in Int /\ f[x] <= g[x]
        BY <1>0
    <2>6. F(s) <= G(s)
        BY <2>4, <2>5
    <2> QED
        BY <2>1, <2>6
<1>2. F(S) <= G(S)
    BY <1>1
<1> QED
    BY <1>2 DEF F, G

LEMMA SumZero ==
    ASSUME NEW S, IsFiniteSet(S), NEW f, \A x \in S : f[x] = 0
    PROVE  SumFunctionOnSet(f, S) = 0
<1>1. SumFunctionOnSet(f, S) \in Int
    BY SumOf
<1>2. SumFunctionOnSet(f, S) = SumFunctionOnSet(f, S) + SumFunctionOnSet(f, S)
    BY SumAdds
<1> QED
    <2>1. \A z \in Int : z = z + z => z = 0
        OBVIOUS
    <2> QED
        BY <1>1, <1>2, <2>1

LEMMA SumSame ==
    ASSUME NEW S, IsFiniteSet(S), NEW f, NEW g, \A x \in S : f[x] \in Int /\ g[x] = f[x]
    PROVE  SumFunctionOnSet(g, S) = SumFunctionOnSet(f, S)
<1>1. SumFunctionOnSet(g, S) \in Int /\ SumFunctionOnSet(f, S) \in Int
    BY SumOf
<1>2. SumFunctionOnSet(g, S) <= SumFunctionOnSet(f, S) /\ SumFunctionOnSet(f, S) <= SumFunctionOnSet(g, S)
    BY SumOrdered
<1> QED
    BY <1>1, <1>2

(* One place changed changes the sum by as much. *)
DiffersAt(S, f, g, x) ==
    x \in S /\ \A y \in S : f[y] \in Int /\ g[y] \in Int /\ (y # x => g[y] = f[y])

LEMMA SumChanged ==
    ASSUME NEW S, IsFiniteSet(S), NEW f, NEW g, NEW x, DiffersAt(S, f, g, x)
    PROVE  SumFunctionOnSet(g, S) = SumFunctionOnSet(f, S) + (g[x] - f[x])
<1> USE DEF DiffersAt
<1>1. IsFiniteSet(S \ {x})
    BY FS_RemoveElement
<1>2. SumFunctionOnSet(g, S \ {x}) = SumFunctionOnSet(f, S \ {x}) /\ SumFunctionOnSet(f, S \ {x}) \in Int
    BY <1>1, SumSame, SumOf
<1> DEFINE F(s) == SumFunctionOnSet(f, s)
           G(s) == SumFunctionOnSet(g, s)
<1>3. /\ G(S) = g[x] + G(S \ {x}) /\ F(S) = f[x] + F(S \ {x})
      /\ G(S \ {x}) = F(S \ {x}) /\ F(S \ {x}) \in Int
      /\ f[x] \in Int /\ g[x] \in Int
    BY <1>2, SumOf
<1> HIDE DEF F, G
<1>4. G(S) = F(S) + (g[x] - f[x])
    BY <1>3
<1> QED
    BY <1>4 DEF F, G

(* Where it is nothing a function adds nothing. *)
LEMMA SumSupport ==
    ASSUME NEW S, IsFiniteSet(S), NEW A, A \subseteq S, NEW f,
           \A x \in S : f[x] \in Int /\ (x \notin A => f[x] = 0)
    PROVE  SumFunctionOnSet(f, S) = SumFunctionOnSet(f, A)
<1> DEFINE F(s) == SumFunctionOnSet(f, s)
           Bad == {s \in SUBSET S : F(s) # F(s \cap A)}
<1>0. ASSUME NEW s \in SUBSET S
      PROVE  F(s) \in Int /\ (s = {} => F(s) = 0) /\ \A x \in s : F(s) = f[x] + F(s \ {x})
    <2>1. IsFiniteSet(s) /\ \A x \in s : f[x] \in Int
        BY FS_Subset
    <2> QED
        BY <2>1, SumOf
<1> HIDE DEF F
<1>1. Bad = {}
    <2> SUFFICES ASSUME Bad # {} PROVE FALSE
        OBVIOUS
    <2>1. PICK s \in Bad : \A x \in s : s \ {x} \notin Bad
        BY SmallestSubset
    <2>2. s # {}
        BY <1>0, <2>1
    <2>3. PICK x \in s : TRUE
        BY <2>2
    <2>4. F(s \ {x}) = F((s \ {x}) \cap A) /\ F(s) = f[x] + F(s \ {x})
        BY <1>0, <2>1
    <2>5. CASE x \in A
        <3>1. F(s \cap A) = f[x] + F((s \cap A) \ {x})
            BY <1>0, <2>5
        <3>2. (s \cap A) \ {x} = (s \ {x}) \cap A
            OBVIOUS
        <3> QED
            BY <2>1, <2>4, <3>1, <3>2
    <2>6. CASE x \notin A
        <3>1. f[x] = 0 /\ (s \ {x}) \cap A = s \cap A
            BY <2>6
        <3>2. F((s \ {x}) \cap A) = F(s \cap A) /\ F(s \cap A) \in Int
            BY <1>0, <3>1
        <3>3. F(s) = F(s \cap A)
            BY <2>4, <3>1, <3>2
        <3> QED
            BY <2>1, <3>3
    <2> QED
        BY <2>5, <2>6
<1>2. F(S) = F(S \cap A) /\ S \cap A = A
    BY <1>1
<1> QED
    BY <1>2 DEF F

(* `n' names each place of A anew: g has at the new name what f has at the place. *)
Renames(S, A, n, f, g) ==
    /\ A \subseteq S
    /\ \A x \in A : n[x] \in S /\ g[n[x]] = f[x]
    /\ \A x, y \in A : n[x] = n[y] => x = y
    /\ \A x \in S : f[x] \in Int /\ g[x] \in Int
    /\ \A x \in S : x \notin A => f[x] = 0
    /\ \A x \in S : (\A y \in A : n[y] # x) => g[x] = 0

(* Names given to what is summed do not change the sum. *)
LEMMA SumRenamed ==
    ASSUME NEW S, IsFiniteSet(S), NEW A, NEW n, NEW f, NEW g, Renames(S, A, n, f, g)
    PROVE  SumFunctionOnSet(g, S) = SumFunctionOnSet(f, S)
<1> USE DEF Renames
<1> DEFINE image(s) == {n[y] : y \in s}
           F(s) == SumFunctionOnSet(f, s)
           G(s) == SumFunctionOnSet(g, s)
           Bad == {s \in SUBSET A : F(s) # G(image(s))}
<1>0. ASSUME NEW s \in SUBSET S
      PROVE  /\ F(s) \in Int /\ (s = {} => F(s) = 0) /\ \A x \in s : F(s) = f[x] + F(s \ {x})
             /\ G(s) \in Int /\ (s = {} => G(s) = 0) /\ \A x \in s : G(s) = g[x] + G(s \ {x})
    <2>1. IsFiniteSet(s) /\ \A x \in s : f[x] \in Int /\ g[x] \in Int
        BY FS_Subset
    <2> QED
        BY <2>1, SumOf
<1>1. image(A) \subseteq S /\ IsFiniteSet(A)
    BY FS_Subset
<1>2. F(S) = F(A) /\ G(S) = G(image(A))
    <2>1. F(S) = F(A)
        BY SumSupport
    <2>2. G(S) = G(image(A))
        BY <1>1, SumSupport
    <2> QED
        BY <2>1, <2>2
<1> HIDE DEF F, G
<1>3. Bad = {}
    <2> SUFFICES ASSUME Bad # {} PROVE FALSE
        OBVIOUS
    <2>1. PICK s \in Bad : \A x \in s : s \ {x} \notin Bad
        BY <1>1, SmallestSubset
    <2>2. s \in SUBSET S /\ image(s) \in SUBSET S
        OBVIOUS
    <2>3. s # {}
        <3>1. s = {} => image(s) = {}
            OBVIOUS
        <3> QED
            BY <1>0, <2>1, <2>2, <3>1
    <2>4. PICK x \in s : TRUE
        BY <2>3
    <2>5. image(s \ {x}) = image(s) \ {n[x]} /\ n[x] \in image(s)
        OBVIOUS
    <2>6. s \ {x} \in SUBSET A /\ F(s \ {x}) = G(image(s \ {x}))
        BY <2>1
    <2>7. F(s) = f[x] + F(s \ {x}) /\ G(image(s)) = g[n[x]] + G(image(s) \ {n[x]})
        BY <1>0, <2>2, <2>5
    <2>8. g[n[x]] = f[x]
        OBVIOUS
    <2>9. F(s) = G(image(s))
        BY <2>5, <2>6, <2>7, <2>8
    <2> QED
        BY <2>1, <2>9
<1>4. F(A) = G(image(A))
    BY <1>3
<1> QED
    BY <1>2, <1>4 DEF F, G
-----------------------------------------------------------------------------
(* What the lots' sums need: a name no lot has yet stands for nothing, and an
   order not placed has spent nothing. *)
Fresh == \A l \in Lots : lots[l].status = "NONE" =>
            /\ lots[l].root = l
            /\ \A o \in Orders : uses[o][l] = 0
            /\ \A m \in Lots : lots[m].root = l => m = l
Unspent == \A o \in Orders : order[o] = "NONE" => \A l \in Lots : uses[o][l] = 0

(* The credit in each lot, and what of an order's uses a cancellation returns
   to a lot of its own: from `m', and to the lot named for it. *)
usable(L) == [l \in Lots |-> usableIn(L[l])]
leaves(o, A) == [l \in Lots |-> IF l \in A THEN uses[o][l] ELSE 0]
arrives(o, nameOf, A) ==
    [l \in Lots |-> IF \E m \in A : nameOf[m] = l
                    THEN uses[o][CHOOSE m \in A : nameOf[m] = l] ELSE 0]

LEMMA LotsFinite == IsFiniteSet(Lots)
BY FiniteAssumption, FS_Union DEF Lots

LEMMA TotalIs ==
    ASSUME NEW S, NEW f, DOMAIN f = S
    PROVE  SumFunction(f) = SumFunctionOnSet(f, S)
BY DEF SumFunction, SumFunctionOnSet, FoldFunction

(* The balance the customer's row caches is the usable credit of its lots. *)
LEMMA BalanceIs ==
    ASSUME NEW L, L \in [Lots -> Lot]
    PROVE  /\ sumOf(L, "AVAILABLE") = SumFunctionOnSet(usable(L), Lots)
           /\ SumFunctionOnSet(usable(L), Lots) \in Int
           /\ recount(L).balance = sumOf(L, "AVAILABLE")
<1>1. \A l \in Lots : usable(L)[l] \in Int
    BY DEF usable, usableIn, Lot
<1>2. usable(L) = [l \in Lots |-> IF L[l].status = "AVAILABLE" THEN L[l].remaining ELSE 0]
    BY DEF usable, usableIn
<1>3. SumFunction(usable(L)) = SumFunctionOnSet(usable(L), Lots)
    BY TotalIs DEF usable
<1>4. sumOf(L, "AVAILABLE") = SumFunction(usable(L))
    BY <1>2 DEF sumOf
<1> QED
    BY <1>1, <1>3, <1>4, LotsFinite, SumOf DEF recount

(* What goes out here and comes in there, as much of it, adds nothing. *)
LEMMA SumMoved ==
    ASSUME NEW S, IsFiniteSet(S), NEW f, NEW g, NEW out, NEW come,
           \A x \in S : f[x] \in Int /\ g[x] \in Int /\ out[x] \in Int /\ come[x] \in Int,
           \A x \in S : f[x] + out[x] <= g[x] + come[x],
           SumFunctionOnSet(come, S) = SumFunctionOnSet(out, S)
    PROVE  SumFunctionOnSet(f, S) <= SumFunctionOnSet(g, S)
<1> DEFINE a == [x \in S |-> f[x] + out[x]]
           b == [x \in S |-> g[x] + come[x]]
<1>1. \A x \in S : a[x] = f[x] + out[x] /\ b[x] = g[x] + come[x]
    OBVIOUS
<1> HIDE DEF a, b
<1>2. SumFunctionOnSet(a, S) = SumFunctionOnSet(f, S) + SumFunctionOnSet(out, S)
    BY <1>1, SumAdds
<1>3. SumFunctionOnSet(b, S) = SumFunctionOnSet(g, S) + SumFunctionOnSet(come, S)
    BY <1>1, SumAdds
<1>4. SumFunctionOnSet(a, S) <= SumFunctionOnSet(b, S)
    <2>1. \A x \in S : a[x] \in Int /\ b[x] \in Int /\ a[x] <= b[x]
        BY <1>1
    <2> QED
        BY <2>1, SumOrdered
<1>5. /\ SumFunctionOnSet(f, S) \in Int /\ SumFunctionOnSet(g, S) \in Int
      /\ SumFunctionOnSet(out, S) \in Int
    BY SumOf
<1>6. \A i, j, k \in Int : i + k <= j + k => i <= j
    OBVIOUS
<1> QED
    BY <1>2, <1>3, <1>4, <1>5, <1>6

(* What leaves the lots it was spent from is what arrives in the lots named for it. *)
LEMMA LeavesArrives ==
    ASSUME TypeOK, NEW o \in Orders, NEW A, A \subseteq splitBy(o),
           NEW nameOf \in Injection(splitBy(o), free)
    PROVE  /\ SumFunctionOnSet(arrives(o, nameOf, A), Lots) = SumFunctionOnSet(leaves(o, A), Lots)
           /\ \A l \in Lots : leaves(o, A)[l] \in Nat /\ arrives(o, nameOf, A)[l] \in Nat
<1>1. /\ A \subseteq Lots /\ uses[o] \in [Lots -> Nat]
      /\ \A m \in A : nameOf[m] \in Lots
      /\ \A m, n \in A : nameOf[m] = nameOf[n] => m = n
    BY DEF TypeOK, splitBy, usedBy, Injection, IsInjective, free, Lots
<1>2. ASSUME NEW m \in A PROVE arrives(o, nameOf, A)[nameOf[m]] = leaves(o, A)[m]
    <2>1. (CHOOSE n \in A : nameOf[n] = nameOf[m]) = m
        BY <1>1
    <2> QED
        BY <1>1, <2>1 DEF arrives, leaves
<1>3. ASSUME NEW l \in Lots
      PROVE  /\ leaves(o, A)[l] \in Nat /\ arrives(o, nameOf, A)[l] \in Nat
             /\ l \notin A => leaves(o, A)[l] = 0
             /\ l \notin {nameOf[m] : m \in A} => arrives(o, nameOf, A)[l] = 0
    <2>1. CASE \E m \in A : nameOf[m] = l
        BY <1>1, <1>2, <2>1 DEF leaves
    <2>2. CASE ~\E m \in A : nameOf[m] = l
        BY <1>1, <2>2 DEF leaves, arrives
    <2> QED
        BY <2>1, <2>2
<1> DEFINE f == leaves(o, A)
           g == arrives(o, nameOf, A)
<1>4. Renames(Lots, A, nameOf, f, g)
    BY <1>1, <1>2, <1>3 DEF Renames
<1> HIDE DEF f, g
<1>5. SumFunctionOnSet(g, Lots) = SumFunctionOnSet(f, Lots)
    BY <1>4, LotsFinite, SumRenamed
<1> QED
    BY <1>3, <1>5 DEF f, g

(* Cents taken come out of the usable credit, all of them. *)
LEMMA TakenBalance ==
    ASSUME TypeOK, LotsSound, NEW cents \in Nat, NEW take \in takeFrom(cents)
    PROVE  SumFunctionOnSet(usable(taken(take)), Lots) = SumFunctionOnSet(usable(lots), Lots) - cents
<1>1. /\ take \in [Lots -> 0..cents] /\ SumFunction(take) = cents
      /\ \A l \in Lots : take[l] > 0 => spendable(lots[l]) /\ take[l] <= lots[l].remaining
    BY DEF takeFrom
<1>2. SumFunctionOnSet(take, Lots) = cents
    BY <1>1, TotalIs
<1>3. ASSUME NEW l \in Lots
      PROVE  /\ usable(taken(take))[l] \in Int /\ take[l] \in Int
             /\ usable(lots)[l] = usable(taken(take))[l] + take[l]
    <2>1. lots[l] \in Lot /\ take[l] \in 0..cents
        BY <1>1 DEF TypeOK
    <2>2. taken(take)[l] = [lots[l] EXCEPT !.remaining = @ - take[l]]
        BY DEF taken
    <2>3. take[l] > 0 => lots[l].status = "AVAILABLE"
        BY <1>1 DEF spendable
    <2> QED
        BY <2>1, <2>2, <2>3 DEF usable, usableIn, Lot
<1> DEFINE f == usable(taken(take))
           g == usable(lots)
<1>4. \A l \in Lots : f[l] \in Int /\ take[l] \in Int /\ g[l] = f[l] + take[l]
    BY <1>3
<1> HIDE DEF f, g
<1>5. SumFunctionOnSet(g, Lots) = SumFunctionOnSet(f, Lots) + SumFunctionOnSet(take, Lots)
    BY <1>4, LotsFinite, SumAdds
<1>6. SumFunctionOnSet(f, Lots) \in Int
    BY <1>4, LotsFinite, SumOf
<1>7. SumFunctionOnSet(f, Lots) = SumFunctionOnSet(g, Lots) - cents
    BY <1>2, <1>5, <1>6
<1> QED
    BY <1>7 DEF f, g

(* A change to one lot changes the balance by what it changes the lot. *)
LEMMA OneLotBalance ==
    ASSUME NEW K \in [Lots -> Lot], NEW l \in Lots, NEW lot \in Lot
    PROVE  SumFunctionOnSet(usable([K EXCEPT ![l] = lot]), Lots)
             = SumFunctionOnSet(usable(K), Lots) + (usableIn(lot) - usableIn(K[l]))
<1> DEFINE f == usable(K)
           g == usable([K EXCEPT ![l] = lot])
<1>1. /\ \A m \in Lots : f[m] \in Int /\ g[m] \in Int /\ (m # l => g[m] = f[m])
      /\ f[l] = usableIn(K[l]) /\ g[l] = usableIn(lot)
    BY DEF usable, usableIn, Lot
<1> HIDE DEF f, g
<1>2. DiffersAt(Lots, f, g, l)
    BY <1>1 DEF DiffersAt
<1>3. SumFunctionOnSet(g, Lots) = SumFunctionOnSet(f, Lots) + (g[l] - f[l])
    BY <1>2, LotsFinite, SumChanged
<1> QED
    BY <1>1, <1>3 DEF f, g

(* A return adds to the balance what it says is credit again. *)
LEMMA ReturnBalance ==
    ASSUME TypeOK, LotsSound, Fresh, NEW o \in Orders,
           NEW nameOf \in Injection(splitBy(o), free), fits(returnCashback(o, nameOf))
    PROVE  SumFunctionOnSet(usable(returnCashback(o, nameOf)), Lots)
             = SumFunctionOnSet(usable(lots), Lots) + credited(o)
<1> DEFINE L == returnCashback(o, nameOf)
           A == splitBy(o)
           back == [l \in Lots |-> IF usableAgain(lots[l]) THEN uses[o][l] ELSE 0]
           out == leaves(o, A)
           come == arrives(o, nameOf, A)
           before == [l \in Lots |-> usable(lots)[l] + back[l]]
<1>1. /\ L \in [Lots -> Lot] /\ lots \in [Lots -> Lot] /\ uses[o] \in [Lots -> Nat]
      /\ \A m \in A : nameOf[m] \in free
    BY ReturnGood DEF TypeOK, Injection
<1>2. /\ SumFunctionOnSet(come, Lots) = SumFunctionOnSet(out, Lots)
      /\ \A l \in Lots : out[l] \in Nat /\ come[l] \in Nat
    BY LeavesArrives
<1>3. ASSUME NEW l \in Lots
      PROVE  usable(L)[l] + out[l] = (usable(lots)[l] + back[l]) + come[l]
    <2>0. lots[l] \in Lot /\ uses[o][l] \in Nat /\ sound(lots[l])
        BY <1>1 DEF LotsSound
    <2>1. CASE l \in usedBy(o)
        <3>1. lots[l].status # "NONE" /\ uses[o][l] > 0
            BY <2>1, <2>0 DEF Fresh, usedBy
        <3>2. come[l] = 0
            BY <1>1, <3>1 DEF arrives, free
        <3>3. L[l] = returnedLotOf(lots[l], uses[o][l])
            BY <2>1 DEF returnCashback
        <3>4. out[l] = IF splits(lots[l]) THEN uses[o][l] ELSE 0
            BY <2>1 DEF leaves, splitBy
        <3>5. CASE splits(lots[l])
            <4>1. L[l] = lots[l] /\ back[l] = uses[o][l] /\ out[l] = uses[o][l]
                BY <3>3, <3>4, <3>5 DEF returnedLotOf, splits
            <4>2. usable(L)[l] = usableIn(lots[l]) /\ usable(lots)[l] = usableIn(lots[l])
                BY <4>1 DEF usable
            <4>3. usableIn(lots[l]) \in Nat
                BY <2>0 DEF usableIn, Lot
            <4> HIDE DEF L, back, out, come
            <4> QED
                BY <2>0, <3>2, <4>1, <4>2, <4>3
        <3>6. CASE ~splits(lots[l]) /\ usableAgain(lots[l])
            <4>1. L[l].status = "AVAILABLE" /\ L[l].remaining = lots[l].remaining + uses[o][l]
                BY <2>0, <3>3, <3>6 DEF returnedLotOf, Lot
            <4>2. usable(lots)[l] = lots[l].remaining
                BY <2>0, <3>6 DEF usable, usableIn, usableAgain, sound
            <4> QED
                BY <2>0, <3>2, <3>4, <3>6, <4>1, <4>2 DEF usable, usableIn, Lot
        <3>7. CASE ~usableAgain(lots[l])
            <4>1. L[l].status = lots[l].status /\ lots[l].status # "AVAILABLE"
                BY <2>0, <3>3, <3>7 DEF returnedLotOf, usableAgain, Lot
            <4> QED
                BY <3>2, <3>4, <3>7, <4>1 DEF usable, usableIn, splits
        <3> QED
            BY <3>5, <3>6, <3>7
    <2>2. CASE l \notin usedBy(o) /\ \E m \in A : nameOf[m] = l
        <3> DEFINE m == CHOOSE m \in A : nameOf[m] = l
        <3>1. L[l] = splitLot(lots[m], uses[o][m]) /\ come[l] = uses[o][m]
            BY <2>2 DEF returnCashback, arrives
        <3>2. lots[l].status = "NONE"
            BY <1>1, <2>2 DEF free
        <3>3. l \notin A /\ uses[o][l] = 0
            BY <2>0, <2>2 DEF splitBy, usedBy
        <3>4. uses[o][m] \in Nat
            <4>1. m \in A
                BY <2>2
            <4> QED
                BY <1>1, <4>1 DEF splitBy, usedBy
        <3> HIDE DEF m
        <3> QED
            BY <3>1, <3>2, <3>3, <3>4 DEF usable, usableIn, leaves, usableAgain, splitLot
    <2>3. CASE l \notin usedBy(o) /\ ~\E m \in A : nameOf[m] = l
        <3>1. L[l] = lots[l] /\ come[l] = 0 /\ uses[o][l] = 0 /\ out[l] = 0
            BY <2>0, <2>3 DEF returnCashback, arrives, leaves, splitBy, usedBy
        <3> QED
            BY <2>0, <3>1 DEF usable, usableIn, usableAgain, Lot
    <2> QED
        BY <2>1, <2>2, <2>3
<1>4. \A l \in Lots : usable(L)[l] \in Int /\ usable(lots)[l] \in Int /\ back[l] \in Int
    BY <1>1 DEF usable, usableIn, Lot
<1>5. SumFunctionOnSet(back, Lots) = credited(o)
    BY TotalIs DEF credited
<1> DEFINE f == usable(L)
           g == usable(lots)
<1>6. \A l \in Lots : /\ f[l] \in Int /\ g[l] \in Int /\ back[l] \in Int /\ before[l] \in Int
                      /\ out[l] \in Int /\ come[l] \in Int /\ before[l] = g[l] + back[l]
                      /\ f[l] + out[l] <= before[l] + come[l] /\ before[l] + come[l] <= f[l] + out[l]
    BY <1>2, <1>3, <1>4
<1> HIDE DEF L, back, out, come, before, f, g
<1>7. SumFunctionOnSet(before, Lots) = SumFunctionOnSet(g, Lots) + SumFunctionOnSet(back, Lots)
    BY <1>6, LotsFinite, SumAdds
<1>8. SumFunctionOnSet(f, Lots) <= SumFunctionOnSet(before, Lots)
    BY <1>2, <1>6, LotsFinite, SumMoved
<1>9. SumFunctionOnSet(before, Lots) <= SumFunctionOnSet(f, Lots)
    BY <1>2, <1>6, LotsFinite, SumMoved
<1>10. SumFunctionOnSet(f, Lots) \in Int /\ SumFunctionOnSet(before, Lots) \in Int
    BY <1>6, LotsFinite, SumOf
<1>11. SumFunctionOnSet(f, Lots) = SumFunctionOnSet(before, Lots)
    BY <1>8, <1>9, <1>10
<1> QED
    BY <1>5, <1>7, <1>11 DEF f, g, L

(* Each change writes on the statement what it makes of the balance. *)
Drawn == SumFunctionOnSet(usable(lots), Lots) = statement

LEMMA PlaceBalance ==
    ASSUME IInv, Drawn, NEW o \in Orders, Place(o)
    PROVE  Drawn'
<1>1. PICK used \in Spends \cup {0}, earned \in Earnings \cup {0}, validity \in Validities :
         \E take \in takeFrom(used) :
            /\ order[o] = "NONE" /\ statement' = statement - used
            /\ lots' = IF earned = 0 THEN taken(take)
                       ELSE [taken(take) EXCEPT ![o] = pendingLot(o, earned, validity)]
    BY DEF Place
<1>2. PICK take \in takeFrom(used) :
            /\ order[o] = "NONE" /\ statement' = statement - used
            /\ lots' = IF earned = 0 THEN taken(take)
                       ELSE [taken(take) EXCEPT ![o] = pendingLot(o, earned, validity)]
    BY <1>1
<1>3. used \in Nat /\ earned \in Nat /\ validity \in Nat \cup {Never} /\ o \in Lots
    BY SpendsAssumption, EarningsAssumption, ValiditiesAssumption DEF Lots
<1>4. /\ SumFunctionOnSet(usable(taken(take)), Lots) = SumFunctionOnSet(usable(lots), Lots) - used
      /\ taken(take) \in [Lots -> Lot]
      /\ taken(take)[o] = [lots[o] EXCEPT !.remaining = @ - take[o]]
    BY <1>3, TakenBalance, TakenGood DEF IInv
<1>5. CASE earned = 0
    BY <1>2, <1>4, <1>5 DEF Drawn
<1>6. CASE earned # 0
    <2> DEFINE K == taken(take)
               lot == pendingLot(o, earned, validity)
    <2>1. lot \in Lot /\ usableIn(lot) = 0
        <3>1. Good(lot)
            BY <1>3, PendingGood
        <3>2. lot.status = "PENDING"
            BY DEF pendingLot, noLot
        <3> QED
            BY <3>1, <3>2 DEF Good, usableIn
    <2>2. usableIn(K[o]) = 0
        <3>1. lots[o].status = "NONE" /\ lots[o] \in Lot
            BY <1>2, <1>3 DEF IInv, Unplaced, TypeOK
        <3> QED
            BY <1>4, <3>1 DEF usableIn, Lot
    <2>3. lots' = [K EXCEPT ![o] = lot] /\ K \in [Lots -> Lot]
        BY <1>2, <1>4, <1>6
    <2>4. SumFunctionOnSet(usable(K), Lots) = SumFunctionOnSet(usable(lots), Lots) - used
        BY <1>4
    <2> HIDE DEF K, lot
    <2>5. /\ SumFunctionOnSet(usable(lots'), Lots) = SumFunctionOnSet(usable(K), Lots) + (0 - 0)
          /\ SumFunctionOnSet(usable(K), Lots) \in Int
        BY <1>3, <2>1, <2>2, <2>3, OneLotBalance, BalanceIs
    <2> QED
        BY <1>2, <2>4, <2>5 DEF Drawn
<1> QED
    BY <1>5, <1>6

(* One lot changed, and its line. *)
LEMMA OneLotDrawn ==
    ASSUME IInv, Drawn, NEW l \in Lots, NEW lot \in Lot, lots' = [lots EXCEPT ![l] = lot],
           statement' = statement + (usableIn(lot) - usableIn(lots[l]))
    PROVE  Drawn'
<1>1. SumFunctionOnSet(usable([lots EXCEPT ![l] = lot]), Lots)
        = SumFunctionOnSet(usable(lots), Lots) + (usableIn(lot) - usableIn(lots[l]))
    BY OneLotBalance DEF IInv, TypeOK
<1> QED
    BY <1>1 DEF Drawn

LEMMA OrderLotDrawn ==
    ASSUME IInv, Drawn, NEW o \in Orders, Deliver(o) \/ LeaveDelivered(o)
    PROVE  Drawn'
<1>1. o \in Lots /\ lots[o] \in Lot /\ Good(lots[o]) /\ now \in Nat
    BY DEF IInv, TypeOK, LotsSound, Good, Lots
<1>2. statement \in Int
    BY BalanceIs DEF Drawn, IInv, TypeOK
<1>3. CASE Deliver(o)
    <2>1. lots' = [lots EXCEPT ![o] = released(lots[o])] /\ statement' = statement + payout(lots[o])
        BY <1>3 DEF Deliver
    <2>2. released(lots[o]) \in Lot
        BY <1>1, ReleasedGood DEF Good
    <2>3. payout(lots[o]) = usableIn(released(lots[o])) - usableIn(lots[o])
        <3>1. CASE lots[o].status = "PENDING"
            <4>1. released(lots[o]).status = "AVAILABLE" /\ released(lots[o]).remaining = payout(lots[o])
                BY <1>1, <3>1 DEF released, Lot
            <4>2. payout(lots[o]) \in Int
                BY <1>1 DEF payout, Lot
            <4> QED
                BY <3>1, <4>1, <4>2 DEF usableIn
        <3>2. CASE lots[o].status # "PENDING"
            <4>1. usableIn(lots[o]) \in Int
                BY <1>1 DEF usableIn, Lot
            <4> QED
                BY <3>2, <4>1 DEF released, payout
        <3> QED
            BY <3>1, <3>2
    <2> QED
        BY <1>1, <2>1, <2>2, <2>3, OneLotDrawn
<1>4. CASE LeaveDelivered(o)
    <2>1. /\ lots' = [lots EXCEPT ![o] = putBack(lots[o])]
          /\ statement' = statement - (IF takenBack(lots[o]) THEN lots[o].remaining ELSE 0)
        BY <1>4 DEF LeaveDelivered
    <2>2. putBack(lots[o]) \in Lot
        BY <1>1, PutBackGood DEF Good
    <2>3. usableIn(lots[o]) \in Int /\ lots[o].remaining \in Int
        BY <1>1 DEF usableIn, Lot
    <2>4. CASE takenBack(lots[o])
        <3>1. putBack(lots[o]).status = "PENDING"
            BY <1>1, <2>4 DEF putBack, Lot
        <3>2. usableIn(putBack(lots[o])) = 0 /\ usableIn(lots[o]) = lots[o].remaining
            BY <2>4, <3>1 DEF usableIn, takenBack
        <3>3. statement' = statement + (usableIn(putBack(lots[o])) - usableIn(lots[o]))
            BY <1>2, <2>1, <2>3, <2>4, <3>2
        <3> QED
            BY <1>1, <2>1, <2>2, <3>3, OneLotDrawn
    <2>5. CASE ~takenBack(lots[o])
        <3>1. putBack(lots[o]) = lots[o] /\ statement' = statement - 0
            BY <2>1, <2>5 DEF putBack
        <3>2. statement' = statement + (usableIn(putBack(lots[o])) - usableIn(lots[o]))
            BY <1>2, <2>3, <3>1
        <3> QED
            BY <1>1, <2>1, <2>2, <3>2, OneLotDrawn
    <2> QED
        BY <2>4, <2>5
<1> QED
    BY <1>3, <1>4

LEMMA AdjustUpDrawn ==
    ASSUME IInv, Drawn, NEW x \in Extras, AdjustUp(x)
    PROVE  Drawn'
<1>1. PICK cents \in Spends, validity \in Validities :
         /\ lots' = [lots EXCEPT ![x] = [noLot(x) EXCEPT !.status = "AVAILABLE", !.amount = cents,
                                            !.remaining = cents, !.until = expiryOf(now, validity)]]
         /\ x \in free /\ statement' = statement + cents
    BY DEF AdjustUp
<1> DEFINE lot == [noLot(x) EXCEPT !.status = "AVAILABLE", !.amount = cents,
                                   !.remaining = cents, !.until = expiryOf(now, validity)]
<1>2. x \in Lots /\ cents \in Nat /\ expiryOf(now, validity) \in Nat \cup {Never}
    BY SpendsAssumption, ValiditiesAssumption, ExpiryIsADay DEF Lots, IInv, TypeOK
<1>3. lot \in Lot /\ usableIn(lot) = cents
    <2>1. Good(lot)
        BY <1>2, GivenGood
    <2>2. lot.status = "AVAILABLE" /\ lot.remaining = cents
        BY DEF noLot
    <2> QED
        BY <2>1, <2>2 DEF Good, usableIn
<1>4. lots' = [lots EXCEPT ![x] = lot]
    BY <1>1
<1>5. usableIn(lots[x]) = 0
    BY <1>1 DEF free, usableIn
<1> HIDE DEF lot
<1>6. statement' = statement + (usableIn(lot) - usableIn(lots[x]))
    BY <1>1, <1>2, <1>3, <1>5
<1> QED
    BY <1>2, <1>3, <1>4, <1>6, OneLotDrawn

LEMMA AdjustDownDrawn ==
    ASSUME IInv, Drawn, AdjustDown
    PROVE  Drawn'
<1>1. PICK cents \in Spends : \E take \in takeFrom(cents) : lots' = taken(take) /\ statement' = statement - cents
    BY DEF AdjustDown
<1>2. PICK take \in takeFrom(cents) : lots' = taken(take) /\ statement' = statement - cents
    BY <1>1
<1>3. cents \in Nat
    BY SpendsAssumption
<1> QED
    BY <1>2, <1>3, TakenBalance DEF IInv, Drawn

(* What a cancellation says is credit again is a number of cents. *)
LEMMA CreditedIs ==
    ASSUME TypeOK, NEW o \in Orders
    PROVE  credited(o) \in Int
<1> DEFINE back == [l \in Lots |-> IF usableAgain(lots[l]) THEN uses[o][l] ELSE 0]
<1>1. \A l \in Lots : back[l] \in Int
    BY DEF TypeOK
<1>2. SumFunction(back) = SumFunctionOnSet(back, Lots) /\ credited(o) = SumFunction(back)
    BY TotalIs DEF credited
<1> HIDE DEF back
<1> QED
    BY <1>1, <1>2, LotsFinite, SumOf

LEMMA CancelDrawn ==
    ASSUME IInv, Fresh, Drawn, NEW o \in Orders, Cancel(o)
    PROVE  Drawn'
<1>1. PICK nameOf \in Injection(splitBy(o), free) :
         LET L == returnCashback(o, nameOf)
         IN /\ fits(L)
            /\ lots' = [L EXCEPT ![o] = voided(@)]
            /\ statement' = statement + credited(o) - usableIn(L[o])
    BY DEF Cancel
<1> DEFINE L == returnCashback(o, nameOf)
<1>2. /\ L \in [Lots -> Lot] /\ Good(L[o]) /\ o \in Lots
      /\ SumFunctionOnSet(usable(L), Lots) = SumFunctionOnSet(usable(lots), Lots) + credited(o)
    BY <1>1, ReturnGood, ReturnBalance DEF IInv, Lots
<1>3. lots' = [L EXCEPT ![o] = voided(L[o])] /\ statement' = statement + credited(o) - usableIn(L[o])
    BY <1>1
<1> HIDE DEF L
<1>4. voided(L[o]) \in Lot /\ usableIn(L[o]) \in Int
    BY <1>2, VoidedGood DEF Good, usableIn, Lot
<1>5. usableIn(voided(L[o])) = 0
    <2>1. CASE L[o].status \in {"PENDING", "AVAILABLE"}
        <3>1. L[o] \in Lot
            BY <1>2
        <3>2. voided(L[o]).status = "VOIDED"
            BY <2>1, <3>1 DEF voided, Lot
        <3> QED
            BY <3>2 DEF usableIn
    <2>2. CASE L[o].status \notin {"PENDING", "AVAILABLE"}
        BY <2>2 DEF voided, usableIn
    <2> QED
        BY <2>1, <2>2
<1>6. SumFunctionOnSet(usable(lots'), Lots)
        = SumFunctionOnSet(usable(L), Lots) + (usableIn(voided(L[o])) - usableIn(L[o]))
    BY <1>2, <1>3, <1>4, OneLotBalance
<1>7. SumFunctionOnSet(usable(L), Lots) \in Int
    BY <1>2, BalanceIs
<1>8. SumFunctionOnSet(usable(L), Lots) = statement + credited(o)
    BY <1>2 DEF Drawn
<1>9. statement \in Int /\ credited(o) \in Int
    <2>1. SumFunctionOnSet(usable(lots), Lots) \in Int
        BY BalanceIs DEF IInv, TypeOK
    <2> QED
        BY <2>1, CreditedIs DEF Drawn, IInv
<1>10. SumFunctionOnSet(usable(lots'), Lots) = statement + credited(o) - usableIn(L[o])
    <2> DEFINE after == SumFunctionOnSet(usable(lots'), Lots)
               kept == SumFunctionOnSet(usable(L), Lots)
               revoked == usableIn(L[o])
               returned == credited(o)
    <2>1. after = kept + (0 - revoked) /\ kept \in Int /\ revoked \in Int /\ kept = statement + returned
        BY <1>4, <1>5, <1>6, <1>7, <1>8
    <2>2. statement \in Int /\ returned \in Int
        BY <1>9
    <2> HIDE DEF after, kept, revoked, returned
    <2>3. after = statement + returned - revoked
        BY <2>1, <2>2
    <2> QED
        BY <2>3 DEF after, revoked, returned
<1> QED
    BY <1>3, <1>10 DEF Drawn

LEMMA ExpireDrawn ==
    ASSUME IInv, Drawn, Expire
    PROVE  Drawn'
<1> DEFINE gone == [l \in Lots |-> IF l \in due THEN lots[l].remaining ELSE 0]
           f == usable(lots')
           g == usable(lots)
<1>1. statement' = statement - SumFunction(gone) /\ SumFunction(gone) = SumFunctionOnSet(gone, Lots)
    BY TotalIs DEF Expire
<1>2. ASSUME NEW l \in Lots
      PROVE  f[l] \in Int /\ gone[l] \in Int /\ g[l] = f[l] + gone[l]
    <2>1. lots[l] \in Lot
        BY DEF IInv, TypeOK
    <2>2. lots'[l] = IF l \in due THEN [lots[l] EXCEPT !.status = "EXPIRED", !.remaining = 0] ELSE lots[l]
        BY DEF Expire
    <2>3. f[l] = usableIn(lots'[l]) /\ g[l] = usableIn(lots[l])
        BY DEF usable
    <2>4. CASE l \in due
        <3>1. lots[l].status = "AVAILABLE" /\ lots'[l].status = "EXPIRED"
            BY <2>1, <2>2, <2>4 DEF due, Lot
        <3> QED
            BY <2>1, <2>3, <2>4, <3>1 DEF usableIn, Lot
    <2>5. CASE l \notin due
        BY <2>1, <2>2, <2>3, <2>5 DEF usableIn, Lot
    <2> QED
        BY <2>4, <2>5
<1> HIDE DEF gone, f, g
<1>3. SumFunctionOnSet(g, Lots) = SumFunctionOnSet(f, Lots) + SumFunctionOnSet(gone, Lots)
    BY <1>2, LotsFinite, SumAdds
<1>4. SumFunctionOnSet(f, Lots) \in Int /\ SumFunctionOnSet(gone, Lots) \in Int
    BY <1>2, LotsFinite, SumOf
<1>5. SumFunctionOnSet(g, Lots) = statement
    BY DEF Drawn, g
<1>6. SumFunctionOnSet(f, Lots) = statement'
    BY <1>1, <1>3, <1>4, <1>5
<1> QED
    BY <1>6 DEF Drawn, f

LEMMA ForfeitDrawn ==
    ASSUME IInv, Drawn, Forfeit
    PROVE  Drawn'
<1>1. statement' = statement - sumOf(lots, "AVAILABLE") /\ lots \in [Lots -> Lot]
    BY DEF Forfeit, IInv, TypeOK
<1>2. statement' = 0
    BY <1>1, BalanceIs DEF Drawn
<1>3. ASSUME NEW l \in Lots PROVE usable(lots')[l] = 0
    <2>1. /\ usable(lots')[l] = usableIn(lots'[l]) /\ lots[l] \in Lot
          /\ lots'[l] = IF lots[l].status \in {"PENDING", "AVAILABLE"}
                        THEN [lots[l] EXCEPT !.status = "VOIDED", !.remaining = 0] ELSE lots[l]
        BY <1>1 DEF Forfeit, usable
    <2>2. lots'[l].status # "AVAILABLE"
        BY <2>1 DEF Lot
    <2> QED
        BY <2>1, <2>2 DEF usableIn
<1>4. SumFunctionOnSet(usable(lots'), Lots) = 0
    BY <1>3, LotsFinite, SumZero
<1> QED
    BY <1>2, <1>4 DEF Drawn

LEMMA BooksAreDrawn ==
    ASSUME IInv, books = recount(lots)
    PROVE  Drawn <=> books.balance = statement
BY BalanceIs DEF Drawn, IInv, TypeOK

LEMMA BooksStep ==
    ASSUME IInv, Fresh, BooksHold, [Next]_vars
    PROVE  BooksHold'
<1>1. CASE Tick \/ UNCHANGED vars
    BY <1>1 DEF Tick, vars, BooksHold, recount, sumOf
<1>2. CASE ~(Tick \/ UNCHANGED vars)
    <2>1. books' = recount(lots')
        BY <1>2 DEF Next, Place, Deliver, LeaveDelivered, Cancel, AdjustUp, AdjustDown, Expire, Forfeit
    <2>2. Drawn
        BY BooksAreDrawn DEF BooksHold
    <2>3. Drawn'
        BY <1>2, <2>2, PlaceBalance, OrderLotDrawn, CancelDrawn, AdjustUpDrawn, AdjustDownDrawn,
           ExpireDrawn, ForfeitDrawn DEF Next
    <2>4. lots' \in [Lots -> Lot]
        BY IInvStep DEF IInv, TypeOK
    <2>5. books'.balance = SumFunctionOnSet(usable(lots'), Lots)
        BY <2>1, <2>4, BalanceIs
    <2>6. books'.balance = statement'
        BY <2>3, <2>5 DEF Drawn
    <2> QED
        BY <2>1, <2>6 DEF BooksHold
<1> QED
    BY <1>1, <1>2

-----------------------------------------------------------------------------
(* Where a lot's credit comes from does not change, but for a name just taken:
   then it is the lot itself, or what the lot it was split off came from. *)
Rooted(m) ==
    \/ lots'[m].root = lots[m].root /\ (lots[m].status # "NONE" => lots'[m].amount = lots[m].amount)
    \/ lots[m].status = "NONE" /\ lots'[m].root = m
    \/ /\ lots[m].status = "NONE"
       /\ lots'[m].status # "NONE" /\ \E o \in Orders : Cancel(o)
       /\ \E k \in Lots : lots[k].status # "NONE" /\ lots'[m].root = lots[k].root

(* Only a lot that can be spent gains a use. *)
UsedStep(l) == \A o \in Orders : \/ uses'[o][l] \in {0, uses[o][l]}
                                 \/ spendable(lots[l])

LEMMA SameRoot ==
    ASSUME NEW lot \in Lot, NEW cents \in Nat
    PROVE  /\ released(lot).root = lot.root /\ released(lot).amount = lot.amount
           /\ putBack(lot).root = lot.root /\ putBack(lot).amount = lot.amount
           /\ returnedLotOf(lot, cents).root = lot.root
           /\ returnedLotOf(lot, cents).amount = lot.amount
<1>1. released(lot).root = lot.root /\ released(lot).amount = lot.amount
    BY DEF released, Lot
<1>2. putBack(lot).root = lot.root /\ putBack(lot).amount = lot.amount
    BY DEF putBack, Lot
<1>3. returnedLotOf(lot, cents).root = lot.root /\ returnedLotOf(lot, cents).amount = lot.amount
    BY DEF returnedLotOf, Lot
<1> QED
    BY <1>1, <1>2, <1>3

LEMMA VoidedSameRoot ==
    ASSUME NEW lot \in Lot
    PROVE  voided(lot).root = lot.root /\ voided(lot).amount = lot.amount
BY DEF voided, Lot

LEMMA CancelRoots ==
    ASSUME IInv, NEW o \in Orders, Cancel(o), NEW m \in Lots
    PROVE  Rooted(m)
<1>1. PICK nameOf \in Injection(splitBy(o), free) :
         /\ fits(returnCashback(o, nameOf))
         /\ lots' = [returnCashback(o, nameOf) EXCEPT ![o] = voided(@)]
    BY DEF Cancel
<1> DEFINE L == returnCashback(o, nameOf)
<1>2. L \in [Lots -> Lot] /\ lots[m] \in Lot /\ uses[o] \in [Lots -> Nat]
    BY <1>1, ReturnGood DEF IInv, TypeOK
<1>3. lots'[m].root = L[m].root /\ lots'[m].amount = L[m].amount
    <2> HIDE DEF L
    <2>1. lots'[m] = IF m = o THEN voided(L[m]) ELSE L[m]
        <3>1. lots' = [L EXCEPT ![o] = voided(L[o])]
            BY <1>1 DEF L
        <3> QED
            BY <1>2, <3>1
    <2> QED
        BY <1>2, <2>1, VoidedSameRoot
<1>7. lots'[m] \in {L[m], voided(L[m])}
    <2> HIDE DEF L
    <2>1. lots' = [L EXCEPT ![o] = voided(L[o])]
        BY <1>1 DEF L
    <2> QED
        BY <1>2, <2>1
<1>4. CASE m \in usedBy(o)
    <2>1. L[m] = returnedLotOf(lots[m], uses[o][m])
        BY <1>4 DEF returnCashback
    <2> QED
        BY <1>2, <1>3, <2>1, SameRoot DEF Rooted
<1>5. CASE m \notin usedBy(o) /\ \E k \in splitBy(o) : nameOf[k] = m
    <2> DEFINE k == CHOOSE k \in splitBy(o) : nameOf[k] = m
    <2>1. L[m] = splitLot(lots[k], uses[o][k])
        BY <1>5 DEF returnCashback
    <2>2. k \in splitBy(o) /\ nameOf[k] = m
        BY <1>5
    <2> HIDE DEF k, L
    <2>3. k \in Lots /\ lots[k].status # "NONE" /\ lots[m].status = "NONE"
        BY <1>1, <2>2 DEF splitBy, usedBy, splits, usableAgain, Injection, free
    <2>4. lots'[m].root = lots[k].root
        BY <1>3, <2>1 DEF splitLot
    <2>5. lots'[m].status # "NONE"
        <3>1. L[m].status = "AVAILABLE" /\ L[m] \in Lot
            BY <1>2, <2>1 DEF splitLot
        <3>2. voided(L[m]).status = "VOIDED"
            BY <3>1 DEF voided, Lot
        <3> QED
            BY <1>7, <3>1, <3>2
    <2> QED
        BY <2>3, <2>4, <2>5 DEF Rooted
<1>6. CASE m \notin usedBy(o) /\ ~\E k \in splitBy(o) : nameOf[k] = m
    <2>1. L[m] = lots[m]
        BY <1>6 DEF returnCashback
    <2> QED
        BY <1>3, <2>1 DEF Rooted
<1> QED
    BY <1>4, <1>5, <1>6

LEMMA RootsStep ==
    ASSUME IInv, [Next]_vars, NEW m \in Lots
    PROVE  Rooted(m)
<1>0. lots \in [Lots -> Lot] /\ lots[m] \in Lot /\ Orders \subseteq Lots
    BY DEF IInv, TypeOK, Lots
<1>1. ASSUME NEW o \in Orders, Place(o) PROVE Rooted(m)
    <2>1. PICK used \in Spends \cup {0}, earned \in Earnings \cup {0}, validity \in Validities :
             \E take \in takeFrom(used) :
                /\ order[o] = "NONE"
                /\ lots' = IF earned = 0 THEN taken(take)
                           ELSE [taken(take) EXCEPT ![o] = pendingLot(o, earned, validity)]
        BY <1>1 DEF Place
    <2>2. PICK take \in takeFrom(used) :
                /\ order[o] = "NONE"
                /\ lots' = IF earned = 0 THEN taken(take)
                           ELSE [taken(take) EXCEPT ![o] = pendingLot(o, earned, validity)]
        BY <2>1
    <2>3. lots'[m] = taken(take)[m] \/ (m = o /\ lots'[m] = pendingLot(o, earned, validity))
        BY <2>2 DEF taken
    <2>4. taken(take)[m].root = lots[m].root /\ taken(take)[m].amount = lots[m].amount
        BY <1>0 DEF taken, Lot
    <2>5. CASE m = o /\ lots'[m] = pendingLot(o, earned, validity)
        <3>1. lots[m].status = "NONE"
            BY <2>2, <2>5 DEF IInv, Unplaced
        <3>2. lots'[m].root = m
            BY <2>5 DEF pendingLot, noLot
        <3> QED
            BY <3>1, <3>2 DEF Rooted
    <2> QED
        BY <2>3, <2>4, <2>5 DEF Rooted
<1>2. ASSUME NEW o \in Orders, Deliver(o) \/ LeaveDelivered(o) PROVE Rooted(m)
    <2>1. lots'[m] \in {lots[m], released(lots[m]), putBack(lots[m])}
        BY <1>0, <1>2 DEF Deliver, LeaveDelivered
    <2> QED
        BY <1>0, <2>1, SameRoot DEF Rooted
<1>3. ASSUME NEW x \in Extras, AdjustUp(x) PROVE Rooted(m)
    <2>1. PICK cents \in Spends, validity \in Validities :
             /\ lots' = [lots EXCEPT ![x] = [noLot(x) EXCEPT !.status = "AVAILABLE", !.amount = cents,
                                                !.remaining = cents, !.until = expiryOf(now, validity)]]
             /\ x \in free
        BY <1>3 DEF AdjustUp
    <2>2. CASE m = x
        <3>1. lots'[m].root = m
            BY <1>0, <2>1, <2>2 DEF noLot
        <3> QED
            BY <2>1, <2>2, <3>1 DEF free, Rooted
    <2>3. CASE m # x
        BY <1>0, <2>1, <2>3 DEF Rooted
    <2> QED
        BY <2>2, <2>3
<1>4. ASSUME Expire \/ Forfeit PROVE Rooted(m)
    <2>1. \/ lots'[m] = lots[m]
          \/ \E s \in LotStatuses : lots'[m] = [lots[m] EXCEPT !.status = s, !.remaining = 0]
        BY <1>0, <1>4 DEF Expire, Forfeit, LotStatuses
    <2>2. lots'[m].root = lots[m].root /\ lots'[m].amount = lots[m].amount
        BY <1>0, <2>1 DEF Lot
    <2> QED
        BY <2>2 DEF Rooted
<1>5. ASSUME AdjustDown PROVE Rooted(m)
    <2>1. PICK cents \in Spends : \E take \in takeFrom(cents) : lots' = taken(take)
        BY <1>5 DEF AdjustDown
    <2>2. PICK take \in takeFrom(cents) : lots' = taken(take)
        BY <2>1
    <2>3. lots'[m].root = lots[m].root /\ lots'[m].amount = lots[m].amount
        BY <1>0, <2>2 DEF taken, Lot
    <2> QED
        BY <2>3 DEF Rooted
<1>6. ASSUME Tick \/ UNCHANGED vars PROVE Rooted(m)
    BY <1>6 DEF Tick, vars, Rooted
<1> QED
    BY <1>1, <1>2, <1>3, <1>4, <1>5, <1>6, CancelRoots DEF Next

LEMMA UsesStep ==
    ASSUME IInv, [Next]_vars, NEW l \in Lots
    PROVE  UsedStep(l)
<1>0. uses \in [Orders -> [Lots -> Nat]]
    BY DEF IInv, TypeOK
<1>1. ASSUME NEW o \in Orders, Place(o) PROVE UsedStep(l)
    <2>1. PICK used \in Spends \cup {0} : \E take \in takeFrom(used) : uses' = [uses EXCEPT ![o] = take]
        BY <1>1 DEF Place
    <2>2. PICK take \in takeFrom(used) : uses' = [uses EXCEPT ![o] = take]
        BY <2>1
    <2>3. used \in Nat
        BY SpendsAssumption
    <2>4. take[l] \in Nat /\ (take[l] > 0 => spendable(lots[l]))
        BY <2>3, TakenGood DEF IInv
    <2>5. \A p \in Orders : uses'[p][l] = IF p = o THEN take[l] ELSE uses[p][l]
        BY <1>0, <2>2
    <2> QED
        BY <2>4, <2>5 DEF UsedStep
<1>2. ASSUME NEW o \in Orders, Cancel(o) PROVE UsedStep(l)
    <2>1. uses' = [uses EXCEPT ![o] = [m \in Lots |-> 0]]
        BY <1>2 DEF Cancel
    <2> QED
        BY <1>0, <2>1 DEF UsedStep
<1>3. CASE uses' = uses
    BY <1>3 DEF UsedStep
<1> QED
    BY <1>1, <1>2, <1>3 DEF Next, vars, Deliver, LeaveDelivered, AdjustUp, AdjustDown, Expire, Forfeit, Tick

(* A lot a return touches keeps a lot's types, whatever it returns. *)
LEMMA ReturnedTyped ==
    ASSUME NEW lot \in Lot, NEW cents \in Nat, now \in Nat
    PROVE  returnedLotOf(lot, cents) \in Lot
<1>0. lot.unrecovered \in Nat /\ lot.remaining \in Nat /\ lot.until \in Nat \cup {Never}
    BY DEF Lot
<1>1. CASE usableAgain(lot)
    <2> DEFINE end == IF reachesFloor(lot) THEN lot.until ELSE floorDay
    <2>1. end \in Nat \cup {Never} /\ lot.remaining + cents \in Nat /\ "AVAILABLE" \in LotStatuses
        BY <1>0, MinDaysAssumption DEF floorDay, LotStatuses
    <2>2. \/ returnedLotOf(lot, cents) = lot
          \/ returnedLotOf(lot, cents) = [lot EXCEPT !.status = "AVAILABLE",
                                             !.remaining = lot.remaining + cents, !.until = end]
        BY <1>1 DEF returnedLotOf, Lot
    <2> HIDE DEF end
    <2> QED
        BY <2>1, <2>2 DEF Lot
<1>2. CASE ~usableAgain(lot)
    <2> DEFINE recovered == IF lot.unrecovered < cents THEN lot.unrecovered ELSE cents
               left == IF lot.status = "PENDING" THEN lot.remaining + recovered ELSE lot.remaining
    <2>1. left \in Nat /\ lot.unrecovered - recovered \in Nat
        BY <1>0
    <2>2. returnedLotOf(lot, cents) = [lot EXCEPT !.unrecovered = lot.unrecovered - recovered,
                                                  !.remaining = left]
        BY <1>2 DEF returnedLotOf, Lot
    <2> QED
        BY <2>1, <2>2 DEF Lot
<1> QED
    BY <1>1, <1>2

(* No lot becomes a name again. *)
LEMMA NoneBefore ==
    ASSUME IInv, [Next]_vars, NEW l \in Lots, lots'[l].status = "NONE"
    PROVE  lots[l].status = "NONE"
<1>1. Touched(l) /\ lots[l] \in Lot
    BY LotStep DEF IInv, TypeOK
<1>2. CASE Returned(l)
    <2>1. PICK p \in Orders : LET r == returnedLotOf(lots[l], uses[p][l]) IN lots'[l] \in {r, voided(r)}
        BY <1>2 DEF Returned
    <2> DEFINE r == returnedLotOf(lots[l], uses[p][l])
    <2>2. r.status \in {lots[l].status, "AVAILABLE"} /\ (lots[l].status = "NONE" \/ r.status # "NONE")
        BY <1>1 DEF returnedLotOf, usableAgain, Lot
    <2>3. r \in Lot
        <3>1. uses[p][l] \in Nat /\ now \in Nat
            BY DEF IInv, TypeOK
        <3> QED
            BY <1>1, <3>1, ReturnedTyped
    <2> HIDE DEF r
    <2>4. voided(r).status \in {r.status, "VOIDED"}
        BY <2>3 DEF voided, Lot
    <2> QED
        BY <1>2, <2>1, <2>2, <2>4 DEF r
<1>3. CASE Moved(l)
    BY <1>1, <1>3 DEF Moved, released, putBack, Lot
<1>4. CASE Revoked(l)
    BY <1>1, <1>4 DEF Revoked, voided, Lot
<1>5. CASE Spent(l) \/ Ended(l)
    BY <1>1, <1>5 DEF Spent, Ended, Lot
<1> QED
    BY <1>1, <1>2, <1>3, <1>4, <1>5 DEF Touched, Kept, Made

LEMMA FreshStep ==
    ASSUME IInv, Fresh, [Next]_vars
    PROVE  /\ Fresh'
           /\ \A r \in Lots : lots[r].status = "NONE" =>
                 /\ \A o \in Orders : uses'[o][r] = 0
                 /\ \A m \in Lots : lots'[m].root = r => m = r
<1>1. ASSUME NEW r \in Lots, lots[r].status = "NONE"
      PROVE  /\ \A o \in Orders : uses'[o][r] = 0
             /\ \A m \in Lots : lots'[m].root = r => m = r
    <2>1. ASSUME NEW o \in Orders PROVE uses'[o][r] = 0
        <3>1. uses'[o][r] \in {0, uses[o][r]}
            BY <1>1, UsesStep DEF UsedStep, spendable
        <3> QED
            BY <1>1, <3>1 DEF Fresh
    <2>2. ASSUME NEW m \in Lots, lots'[m].root = r PROVE m = r
        <3>1. Rooted(m)
            BY RootsStep
        <3> QED
            BY <1>1, <2>2, <3>1 DEF Rooted, Fresh
    <2> QED
        BY <2>1, <2>2
<1>2. ASSUME NEW l \in Lots, lots'[l].status = "NONE" PROVE lots'[l].root = l
    <2>1. lots[l].status = "NONE" /\ lots[l].root = l /\ Rooted(l)
        BY <1>2, NoneBefore, RootsStep DEF Fresh
    <2> QED
        BY <1>2, <2>1 DEF Rooted
<1>3. Fresh'
    BY <1>1, <1>2, NoneBefore DEF Fresh
<1> QED
    BY <1>1, <1>3

LEMMA UnspentStep ==
    ASSUME IInv, Unspent, [Next]_vars
    PROVE  Unspent'
<1> SUFFICES ASSUME NEW o \in Orders, order'[o] = "NONE" PROVE \A l \in Lots : uses'[o][l] = 0
    BY DEF Unspent
<1>1. order[o] = "NONE" /\ \A l \in Lots : uses[o][l] = 0
    BY LotStep DEF Unspent
<1>2. uses'[o] = uses[o]
    <2>1. \A p \in Orders : Place(p) \/ Cancel(p) => p # o
        BY DEF Place, Cancel, IInv, TypeOK
    <2>2. \A p \in Orders : Place(p) \/ Cancel(p) => \E row : uses' = [uses EXCEPT ![p] = row]
        BY DEF Place, Cancel
    <2>3. \/ uses' = uses
          \/ \E p \in Orders : Place(p) \/ Cancel(p)
        BY DEF Next, vars, Deliver, LeaveDelivered, AdjustUp, AdjustDown, Expire, Forfeit, Tick
    <2> QED
        BY <2>1, <2>2, <2>3 DEF IInv, TypeOK
<1> QED
    BY <1>1, <1>2

-----------------------------------------------------------------------------
(* What the credit of one earning is worth: what is left of its lots, and the
   uses of them that stand. *)
holds(lot) == IF lot.status \in {"PENDING", "AVAILABLE"} THEN lot.remaining ELSE 0
stand(u, l) == SumFunctionOnSet([o \in Orders |-> u[o][l]], Orders)
weight(L, u, r) == [l \in Lots |-> IF L[l].root = r THEN holds(L[l]) + stand(u, l) ELSE 0]
Earned(L, u) ==
    \A r \in Lots : L[r].root = r => SumFunctionOnSet(weight(L, u, r), Lots) <= L[r].amount

LEMMA EarnedIs ==
    /\ EarnedOnce <=> Earned(lots, uses)
    /\ EarnedOnce' <=> Earned(lots', uses')
<1> DEFINE told(L, u, r) ==
              [l \in Lots |-> IF L[l].root = r
                               THEN (IF L[l].status \in {"PENDING", "AVAILABLE"} THEN L[l].remaining ELSE 0)
                                    + SumFunction([o \in Orders |-> u[o][l]])
                               ELSE 0]
           Told(L, u) == \A r \in Lots : L[r].root = r => SumFunction(told(L, u, r)) <= L[r].amount
<1>1. ASSUME NEW L, NEW u, NEW r
      PROVE  SumFunction(told(L, u, r)) = SumFunctionOnSet(weight(L, u, r), Lots)
    <2>1. \A l \in Lots : SumFunction([o \in Orders |-> u[o][l]]) = stand(u, l)
        BY TotalIs DEF stand
    <2>2. \A l \in Lots : told(L, u, r)[l] = weight(L, u, r)[l]
        BY <2>1 DEF weight, holds
    <2>3. told(L, u, r) = weight(L, u, r)
        BY <2>2, Zenon DEF weight
    <2>4. SumFunction(weight(L, u, r)) = SumFunctionOnSet(weight(L, u, r), Lots)
        BY TotalIs DEF weight
    <2> QED
        BY <2>3, <2>4
<1>2. ASSUME NEW L, NEW u PROVE Told(L, u) <=> Earned(L, u)
    <2> HIDE DEF told
    <2> QED
        BY <1>1 DEF Earned
<1>3. (EarnedOnce <=> Told(lots, uses)) /\ (EarnedOnce' <=> Told(lots', uses'))
    BY DEF EarnedOnce, heldIn, standingOf
<1> HIDE DEF Told
<1> QED
    BY <1>2, <1>3

LEMMA StandIs ==
    ASSUME NEW u \in [Orders -> [Lots -> Nat]], NEW l \in Lots
    PROVE  /\ stand(u, l) \in Nat
           /\ (\A o \in Orders : u[o][l] = 0) => stand(u, l) = 0
<1> DEFINE f == [o \in Orders |-> u[o][l]]
           zero == [o \in Orders |-> 0]
<1>1. \A o \in Orders : f[o] \in Int /\ zero[o] = 0 /\ zero[o] \in Int /\ zero[o] <= f[o]
    OBVIOUS
<1>2. (\A o \in Orders : u[o][l] = 0) => \A o \in Orders : f[o] = 0
    OBVIOUS
<1> HIDE DEF f, zero
<1>3. SumFunctionOnSet(f, Orders) \in Int
    BY <1>1, FiniteAssumption, SumOf
<1>4. SumFunctionOnSet(zero, Orders) = 0
    BY <1>1, FiniteAssumption, SumZero
<1>5. SumFunctionOnSet(zero, Orders) <= SumFunctionOnSet(f, Orders)
    BY <1>1, FiniteAssumption, SumOrdered
<1>6. (\A o \in Orders : f[o] = 0) => SumFunctionOnSet(f, Orders) = 0
    BY FiniteAssumption, SumZero
<1>7. SumFunctionOnSet(f, Orders) \in Nat
    BY <1>3, <1>4, <1>5
<1> QED
    BY <1>2, <1>6, <1>7 DEF stand, f

(* One order's uses changed: what stands of a lot changes by as much. *)
LEMMA StandChanged ==
    ASSUME NEW u \in [Orders -> [Lots -> Nat]], NEW l \in Lots, NEW o \in Orders,
           NEW row \in [Lots -> Nat]
    PROVE  stand([u EXCEPT ![o] = row], l) = stand(u, l) + (row[l] - u[o][l])
<1> DEFINE f == [p \in Orders |-> u[p][l]]
           v == [u EXCEPT ![o] = row]
           g == [p \in Orders |-> v[p][l]]
<1>1. /\ \A p \in Orders : f[p] \in Int /\ g[p] \in Int /\ (p # o => g[p] = f[p])
      /\ f[o] = u[o][l] /\ g[o] = row[l]
    OBVIOUS
<1> HIDE DEF f, g, v
<1>2. SumFunctionOnSet(g, Orders) = SumFunctionOnSet(f, Orders) + (g[o] - f[o])
    <2>1. DiffersAt(Orders, f, g, o)
        BY <1>1 DEF DiffersAt
    <2> QED
        BY <2>1, FiniteAssumption, SumChanged
<1> QED
    BY <1>1, <1>2 DEF stand, f, g, v

LEMMA StandCancelled ==
    ASSUME NEW u \in [Orders -> [Lots -> Nat]], NEW v, NEW l \in Lots, NEW o \in Orders,
           v = [u EXCEPT ![o] = [m \in Lots |-> 0]]
    PROVE  stand(v, l) = stand(u, l) + (0 - u[o][l])
<1> DEFINE none == [m \in Lots |-> 0]
<1>1. none \in [Lots -> Nat] /\ none[l] = 0 /\ v = [u EXCEPT ![o] = none]
    OBVIOUS
<1> HIDE DEF none
<1>2. stand([u EXCEPT ![o] = none], l) = stand(u, l) + (none[l] - u[o][l])
    BY <1>1, StandChanged
<1> QED
    BY <1>1, <1>2

LEMMA HoldsIs ==
    ASSUME NEW lot \in Lot
    PROVE  /\ holds(lot) \in Nat /\ holds(lot) <= lot.remaining
           /\ holds(voided(lot)) <= holds(lot)
<1>1. lot.remaining \in Nat
    BY DEF Lot
<1>2. CASE lot.status \in {"PENDING", "AVAILABLE"}
    <2>1. voided(lot).status = "VOIDED"
        BY <1>2 DEF voided, Lot
    <2> QED
        BY <1>1, <1>2, <2>1 DEF holds
<1>3. CASE lot.status \notin {"PENDING", "AVAILABLE"}
    BY <1>1, <1>3 DEF holds, voided
<1> QED
    BY <1>2, <1>3

(* Of a lot there is, no step but a cancellation makes more of what is left of
   it and stands of it. *)
LEMMA HeldStep ==
    ASSUME IInv, Unspent, [Next]_vars, ~\E o \in Orders : Cancel(o),
           NEW l \in Lots, lots[l].status # "NONE"
    PROVE  holds(lots'[l]) + stand(uses', l) <= holds(lots[l]) + stand(uses, l)
<1>0. /\ lots[l] \in Lot /\ lots[l].remaining \in Nat /\ holds(lots[l]) \in Nat
      /\ stand(uses, l) \in Nat /\ uses \in [Orders -> [Lots -> Nat]] /\ lots \in [Lots -> Lot]
    BY HoldsIs, StandIs DEF IInv, TypeOK, Lot
<1>1. ASSUME uses' = uses, holds(lots'[l]) <= holds(lots[l]), holds(lots'[l]) \in Int
      PROVE  holds(lots'[l]) + stand(uses', l) <= holds(lots[l]) + stand(uses, l)
    BY <1>0, <1>1
<1>2. ASSUME NEW cents \in Nat, NEW take \in takeFrom(cents)
      PROVE  take[l] \in Nat /\ holds(taken(take)[l]) = holds(lots[l]) - take[l] /\ holds(taken(take)[l]) \in Int
    <2>1. /\ take[l] \in Nat /\ taken(take)[l] = [lots[l] EXCEPT !.remaining = @ - take[l]]
          /\ take[l] > 0 => spendable(lots[l])
        BY TakenGood DEF IInv
    <2>2. taken(take)[l].status = lots[l].status /\ taken(take)[l].remaining = lots[l].remaining - take[l]
        BY <1>0, <2>1 DEF Lot
    <2> QED
        BY <1>0, <2>1, <2>2 DEF holds, spendable
<1>3. ASSUME NEW o \in Orders, Place(o)
      PROVE  holds(lots'[l]) + stand(uses', l) <= holds(lots[l]) + stand(uses, l)
    <2>1. PICK used \in Spends \cup {0}, earned \in Earnings \cup {0}, validity \in Validities :
             \E take \in takeFrom(used) :
                /\ order[o] = "NONE" /\ uses' = [uses EXCEPT ![o] = take]
                /\ lots' = IF earned = 0 THEN taken(take)
                           ELSE [taken(take) EXCEPT ![o] = pendingLot(o, earned, validity)]
        BY <1>3 DEF Place
    <2>2. PICK take \in takeFrom(used) :
                /\ order[o] = "NONE" /\ uses' = [uses EXCEPT ![o] = take]
                /\ lots' = IF earned = 0 THEN taken(take)
                           ELSE [taken(take) EXCEPT ![o] = pendingLot(o, earned, validity)]
        BY <2>1
    <2>3. used \in Nat /\ take \in [Lots -> Nat]
        BY SpendsAssumption, TakenGood DEF IInv
    <2>4. l # o /\ uses[o][l] = 0
        BY <2>2 DEF IInv, Unplaced, Unspent
    <2>5. lots'[l] = taken(take)[l]
        BY <2>2, <2>4 DEF taken
    <2>6. stand(uses', l) = stand(uses, l) + (take[l] - uses[o][l])
        BY <1>0, <2>2, <2>3, StandChanged
    <2>7. take[l] \in Nat /\ holds(lots'[l]) = holds(lots[l]) - take[l]
        BY <1>2, <2>3, <2>5
    <2> QED
        BY <1>0, <2>4, <2>6, <2>7
<1>4. ASSUME NEW o \in Orders, Deliver(o) \/ LeaveDelivered(o)
      PROVE  holds(lots'[l]) + stand(uses', l) <= holds(lots[l]) + stand(uses, l)
    <2>1. uses' = uses /\ lots'[l] \in {lots[l], released(lots[l]), putBack(lots[l])}
        BY <1>0, <1>4 DEF Deliver, LeaveDelivered
    <2>2. sound(lots[l]) /\ lots[l].amount \in Nat /\ lots[l].unrecovered \in Nat
        BY <1>0 DEF IInv, LotsSound, Lot
    <2>3. holds(released(lots[l])) = holds(lots[l])
        <3>1. CASE lots[l].status = "PENDING"
            <4>1. released(lots[l]).status = "AVAILABLE" /\ released(lots[l]).remaining = lots[l].remaining
                BY <1>0, <2>2, <3>1 DEF released, Lot, sound
            <4> QED
                BY <3>1, <4>1 DEF holds
        <3> QED
            BY <3>1 DEF released
    <2>4. holds(putBack(lots[l])) = holds(lots[l])
        <3>1. CASE takenBack(lots[l])
            <4>1. /\ putBack(lots[l]).status = "PENDING"
                  /\ putBack(lots[l]).remaining = lots[l].amount - (lots[l].unrecovered + spentOf(lots[l]))
                BY <1>0, <3>1 DEF putBack, Lot
            <4>2. putBack(lots[l]).remaining = lots[l].remaining
                BY <1>0, <2>2, <4>1 DEF spentOf
            <4> QED
                BY <3>1, <4>1, <4>2 DEF holds, takenBack
        <3> QED
            BY <3>1 DEF putBack
    <2> QED
        BY <1>0, <1>1, <2>1, <2>3, <2>4
<1>5. ASSUME Expire \/ Forfeit
      PROVE  holds(lots'[l]) + stand(uses', l) <= holds(lots[l]) + stand(uses, l)
    <2>1. /\ uses' = uses
          /\ \/ lots'[l] = lots[l]
             \/ \E s \in {"VOIDED", "EXPIRED"} : lots'[l] = [lots[l] EXCEPT !.status = s, !.remaining = 0]
        BY <1>0, <1>5 DEF Expire, Forfeit
    <2>2. holds(lots'[l]) <= holds(lots[l]) /\ holds(lots'[l]) \in Int
        <3>1. CASE lots'[l] = lots[l]
            BY <1>0, <3>1
        <3>2. CASE lots'[l] # lots[l]
            <4>1. lots'[l].status \in {"VOIDED", "EXPIRED"}
                BY <1>0, <2>1, <3>2 DEF Lot
            <4> QED
                BY <1>0, <4>1 DEF holds
        <3> QED
            BY <3>1, <3>2
    <2> QED
        BY <1>1, <2>1, <2>2
<1>6. ASSUME NEW x \in Extras, AdjustUp(x)
      PROVE  holds(lots'[l]) + stand(uses', l) <= holds(lots[l]) + stand(uses, l)
    <2>1. uses' = uses /\ lots'[l] = lots[l]
        BY <1>0, <1>6 DEF AdjustUp, free
    <2> QED
        BY <1>0, <1>1, <2>1
<1>7. ASSUME AdjustDown
      PROVE  holds(lots'[l]) + stand(uses', l) <= holds(lots[l]) + stand(uses, l)
    <2>1. PICK cents \in Spends : \E take \in takeFrom(cents) : lots' = taken(take) /\ uses' = uses
        BY <1>7 DEF AdjustDown
    <2>2. PICK take \in takeFrom(cents) : lots' = taken(take) /\ uses' = uses
        BY <2>1
    <2>3. cents \in Nat
        BY SpendsAssumption
    <2>4. take[l] \in Nat /\ holds(lots'[l]) = holds(lots[l]) - take[l]
        BY <1>2, <2>2, <2>3
    <2> QED
        BY <1>0, <1>1, <2>2, <2>4
<1>8. ASSUME Tick \/ UNCHANGED vars
      PROVE  holds(lots'[l]) + stand(uses', l) <= holds(lots[l]) + stand(uses, l)
    <2>1. uses' = uses /\ lots' = lots
        BY <1>8 DEF Tick, vars
    <2> QED
        BY <1>0, <2>1
<1> QED
    BY <1>3, <1>4, <1>5, <1>6, <1>7, <1>8 DEF Next

(* What a cancellation makes of a lot there is: its uses come back to it, or go to
   a lot of their own. *)
LEMMA HeldByCancel ==
    ASSUME IInv, Fresh, NEW o \in Orders, NEW nameOf \in Injection(splitBy(o), free),
           fits(returnCashback(o, nameOf)), NEW l \in Lots, lots[l].status # "NONE"
    PROVE  holds(returnCashback(o, nameOf)[l]) + (IF l \in splitBy(o) THEN uses[o][l] ELSE 0)
             <= holds(lots[l]) + uses[o][l]
<1> DEFINE L == returnCashback(o, nameOf)
<1>0. /\ lots[l] \in Lot /\ lots[l].remaining \in Nat /\ lots[l].unrecovered \in Nat /\ sound(lots[l])
      /\ uses[o][l] \in Nat /\ holds(lots[l]) \in Nat
    BY HoldsIs DEF IInv, TypeOK, LotsSound, Lot
<1>1. CASE l \in usedBy(o) /\ splits(lots[l])
    <2>1. L[l] = lots[l]
        BY <1>1 DEF returnCashback, returnedLotOf, splits
    <2> HIDE DEF L
    <2>2. holds(L[l]) + uses[o][l] <= holds(lots[l]) + uses[o][l]
        BY <1>0, <2>1
    <2> QED
        BY <1>0, <2>1, <2>2 DEF L
<1>2. CASE l \in usedBy(o) /\ ~splits(lots[l])
    <2> DEFINE r == returnedLotOf(lots[l], uses[o][l])
    <2>1. L[l] = r /\ l \notin splitBy(o)
        BY <1>2 DEF returnCashback, splitBy
    <2>2. holds(r) \in Nat /\ holds(r) <= holds(lots[l]) + uses[o][l]
        <3>1. CASE usableAgain(lots[l])
            <4>1. r.status = "AVAILABLE" /\ r.remaining = lots[l].remaining + uses[o][l]
                BY <1>0, <1>2, <3>1 DEF returnedLotOf, Lot
            <4>2. holds(lots[l]) = lots[l].remaining
                BY <1>0, <3>1 DEF usableAgain, holds, sound
            <4> HIDE DEF r
            <4> QED
                BY <1>0, <4>1, <4>2 DEF holds
        <3>2. CASE ~usableAgain(lots[l])
            <4> DEFINE recovered == IF lots[l].unrecovered < uses[o][l] THEN lots[l].unrecovered ELSE uses[o][l]
            <4>1. recovered \in Nat /\ recovered <= uses[o][l]
                BY <1>0
            <4>2. /\ r.status = lots[l].status
                  /\ r.remaining = IF lots[l].status = "PENDING" THEN lots[l].remaining + recovered
                                   ELSE lots[l].remaining
                BY <1>0, <3>2 DEF returnedLotOf, Lot
            <4> HIDE DEF r, recovered
            <4> QED
                BY <1>0, <3>2, <4>1, <4>2 DEF holds, usableAgain
        <3> QED
            BY <3>1, <3>2
    <2> HIDE DEF L, r
    <2>3. holds(L[l]) + 0 <= holds(lots[l]) + uses[o][l]
        BY <2>1, <2>2
    <2> QED
        BY <2>1, <2>3 DEF L
<1>3. CASE l \notin usedBy(o)
    <2>1. ~\E m \in splitBy(o) : nameOf[m] = l
        BY DEF Injection, free
    <2>2. L[l] = lots[l] /\ l \notin splitBy(o) /\ uses[o][l] = 0
        BY <1>0, <1>3, <2>1 DEF returnCashback, splitBy, usedBy
    <2> HIDE DEF L
    <2> QED
        BY <1>0, <2>2 DEF L
<1> QED
    BY <1>1, <1>2, <1>3

LEMMA WeightIs ==
    ASSUME NEW L \in [Lots -> Lot], NEW u \in [Orders -> [Lots -> Nat]], NEW r
    PROVE  \A l \in Lots : weight(L, u, r)[l] \in Nat
<1>1. \A l \in Lots : holds(L[l]) \in Nat /\ stand(u, l) \in Nat
    BY HoldsIs, StandIs
<1> QED
    BY <1>1 DEF weight

(* What one earning is worth never grows, whatever is done with its lots... *)
LEMMA WeightStep ==
    ASSUME IInv, Fresh, Unspent, [Next]_vars, ~\E o \in Orders : Cancel(o),
           NEW r \in Lots, lots[r].status # "NONE"
    PROVE  SumFunctionOnSet(weight(lots', uses', r), Lots) <= SumFunctionOnSet(weight(lots, uses, r), Lots)
<1> DEFINE f == weight(lots', uses', r)
           g == weight(lots, uses, r)
<1>1. lots' \in [Lots -> Lot] /\ uses' \in [Orders -> [Lots -> Nat]]
    BY IInvStep DEF IInv, TypeOK
<1>2. \A l \in Lots : f[l] \in Nat /\ g[l] \in Nat
    BY <1>1, WeightIs DEF IInv, TypeOK
<1>3. ASSUME NEW l \in Lots PROVE f[l] <= g[l]
    <2>1. Rooted(l)
        BY RootsStep
    <2>2. CASE lots[l].status = "NONE"
        <3>1. lots'[l].root # r
            BY <2>1, <2>2 DEF Fresh, Rooted
        <3>2. f[l] = 0
            BY <3>1 DEF weight
        <3> QED
            BY <1>2, <3>2
    <2>3. CASE lots[l].status # "NONE"
        <3>1. lots'[l].root = lots[l].root
            BY <2>1, <2>3 DEF Rooted
        <3>2. holds(lots'[l]) + stand(uses', l) <= holds(lots[l]) + stand(uses, l)
            BY <2>3, HeldStep
        <3> QED
            BY <3>1, <3>2 DEF weight
    <2> QED
        BY <2>2, <2>3
<1> HIDE DEF f, g
<1>4. \A l \in Lots : f[l] \in Int /\ g[l] \in Int /\ f[l] <= g[l]
    BY <1>2, <1>3
<1>5. SumFunctionOnSet(f, Lots) <= SumFunctionOnSet(g, Lots)
    BY <1>4, LotsFinite, SumOrdered
<1> QED
    BY <1>5 DEF f, g

(* ...and a cancellation moves it from its lots to lots split off them. *)
LEMMA CancelWeight ==
    ASSUME IInv, Fresh, NEW o \in Orders, Cancel(o), NEW r \in Lots, lots[r].status # "NONE"
    PROVE  SumFunctionOnSet(weight(lots', uses', r), Lots) <= SumFunctionOnSet(weight(lots, uses, r), Lots)
<1>1. PICK nameOf \in Injection(splitBy(o), free) :
         /\ fits(returnCashback(o, nameOf))
         /\ lots' = [returnCashback(o, nameOf) EXCEPT ![o] = voided(@)]
    BY DEF Cancel
<1>2. [Next]_vars
    BY DEF Next
<1> DEFINE L == returnCashback(o, nameOf)
           A == {m \in splitBy(o) : lots[m].root = r}
           f == weight(lots', uses', r)
           g == weight(lots, uses, r)
           out == leaves(o, A)
           come == arrives(o, nameOf, A)
<1>3. /\ L \in [Lots -> Lot] /\ uses \in [Orders -> [Lots -> Nat]] /\ uses[o] \in [Lots -> Nat]
      /\ lots' \in [Lots -> Lot] /\ uses' \in [Orders -> [Lots -> Nat]]
      /\ uses' = [uses EXCEPT ![o] = [l \in Lots |-> 0]]
    BY <1>1, <1>2, ReturnGood, IInvStep DEF IInv, TypeOK, Cancel
<1>4. \A l \in Lots : f[l] \in Nat /\ g[l] \in Nat
    BY <1>3, WeightIs DEF IInv, TypeOK
<1>5. /\ SumFunctionOnSet(come, Lots) = SumFunctionOnSet(out, Lots)
      /\ \A l \in Lots : out[l] \in Nat /\ come[l] \in Nat
    BY LeavesArrives DEF IInv
<1>6. ASSUME NEW l \in Lots
      PROVE  /\ holds(lots'[l]) \in Nat /\ holds(L[l]) \in Nat /\ holds(lots'[l]) <= holds(L[l])
             /\ lots'[l].root = L[l].root
             /\ stand(uses, l) \in Nat /\ stand(uses', l) = stand(uses, l) + (0 - uses[o][l])
    <2>1. L[l] \in Lot /\ lots'[l] \in Lot /\ lots'[l] \in {L[l], voided(L[l])}
        <3> HIDE DEF L
        <3>1. lots' = [L EXCEPT ![o] = voided(L[o])]
            BY <1>1 DEF L
        <3> QED
            BY <1>3, <3>1
    <2>2. stand(uses', l) = stand(uses, l) + (0 - uses[o][l])
        <3>1. uses \in [Orders -> [Lots -> Nat]] /\ uses' = [uses EXCEPT ![o] = [m \in Lots |-> 0]]
            BY <1>3
        <3> HIDE DEF L, A, f, g, out, come
        <3> QED
            BY <3>1, StandCancelled, Zenon
    <2>3. stand(uses, l) \in Nat
        BY <1>3, StandIs
    <2> HIDE DEF L
    <2> QED
        BY <2>1, <2>2, <2>3, HoldsIs, VoidedSameRoot
<1>7. ASSUME NEW l \in Lots PROVE f[l] + out[l] <= g[l] + come[l]
    <2>0. /\ f[l] = (IF lots'[l].root = r THEN holds(lots'[l]) + stand(uses', l) ELSE 0)
          /\ g[l] = (IF lots[l].root = r THEN holds(lots[l]) + stand(uses, l) ELSE 0)
          /\ uses[o][l] \in Nat /\ lots[l] \in Lot
        BY <1>3 DEF weight, IInv, TypeOK
    <2>1. CASE lots[l].status # "NONE"
        <3>1. lots'[l].root = lots[l].root
            BY <1>2, <2>1, RootsStep DEF Rooted
        <3>2. holds(L[l]) + (IF l \in splitBy(o) THEN uses[o][l] ELSE 0) <= holds(lots[l]) + uses[o][l]
            BY <1>1, <2>1, HeldByCancel
        <3>3. out[l] = IF l \in splitBy(o) /\ lots[l].root = r THEN uses[o][l] ELSE 0
            BY DEF leaves
        <3>4. holds(lots[l]) \in Nat
            BY <2>0, HoldsIs
        <3>5. come[l] \in Nat
            BY <1>5
        <3> HIDE DEF f, g, out, come, L
        <3>6. CASE lots[l].root = r
            <4>1. f[l] = holds(lots'[l]) + stand(uses', l) /\ g[l] = holds(lots[l]) + stand(uses, l)
                BY <2>0, <3>1, <3>6
            <4>2. out[l] = IF l \in splitBy(o) THEN uses[o][l] ELSE 0
                BY <3>3, <3>6
            <4> QED
                BY <1>6, <2>0, <3>2, <3>4, <3>5, <4>1, <4>2
        <3>7. CASE lots[l].root # r
            BY <2>0, <3>1, <3>3, <3>5, <3>7
        <3> QED
            BY <3>6, <3>7
    <2>2. CASE lots[l].status = "NONE"
        <3>1. l # r /\ lots[l].root = l /\ uses[o][l] = 0 /\ l \notin usedBy(o)
            BY <2>2 DEF Fresh, usedBy
        <3>2. out[l] = 0 /\ g[l] = 0
            BY <2>0, <3>1 DEF leaves, splitBy
        <3>3. stand(uses', l) = 0
            <4>1. \A p \in Orders : uses'[p][l] = 0
                BY <1>2, <2>2, FreshStep
            <4> QED
                BY <1>3, <4>1, StandIs
        <3>4. CASE \E m \in splitBy(o) : nameOf[m] = l
            <4> DEFINE m == CHOOSE m \in splitBy(o) : nameOf[m] = l
            <4>1. m \in splitBy(o) /\ nameOf[m] = l
                BY <3>4
            <4>2. L[l] = splitLot(lots[m], uses[o][m])
                BY <3>1, <3>4 DEF returnCashback
            <4>3. \A k \in splitBy(o) : nameOf[k] = l => k = m
                BY <4>1 DEF Injection, IsInjective
            <4>4. lots[m].root = r => come[l] = uses[o][m]
                <5>1. lots[m].root = r => m \in A
                    BY <4>1
                <5>2. \A k \in A : nameOf[k] = l => k = m
                    BY <4>3
                <5> HIDE DEF m, A
                <5>3. m \in A => (CHOOSE k \in A : nameOf[k] = l) = m
                    BY <4>1, <5>2
                <5> QED
                    BY <4>1, <5>1, <5>3 DEF arrives
            <4>5. holds(L[l]) = uses[o][m] /\ L[l].root = lots[m].root
                BY <4>2 DEF splitLot, holds
            <4>6. come[l] \in Nat
                BY <1>5
            <4> HIDE DEF f, g, out, come, L, m, A
            <4>7. CASE lots[m].root = r
                BY <1>6, <2>0, <3>2, <3>3, <4>4, <4>5, <4>7
            <4>8. CASE lots[m].root # r
                BY <1>6, <2>0, <3>2, <4>5, <4>6, <4>8
            <4> QED
                BY <4>7, <4>8
        <3>5. CASE ~\E m \in splitBy(o) : nameOf[m] = l
            <4>1. L[l] = lots[l]
                BY <3>1, <3>5 DEF returnCashback
            <4>2. come[l] \in Nat
                BY <1>5
            <4> HIDE DEF f, g, out, come, L
            <4> QED
                BY <1>6, <2>0, <3>1, <3>2, <4>1, <4>2
        <3> QED
            BY <3>4, <3>5
    <2> QED
        BY <2>1, <2>2
<1>8. \A l \in Lots : f[l] \in Int /\ g[l] \in Int /\ out[l] \in Int /\ come[l] \in Int
    BY <1>4, <1>5
<1> HIDE DEF f, g, out, come
<1>9. SumFunctionOnSet(f, Lots) <= SumFunctionOnSet(g, Lots)
    BY <1>5, <1>7, <1>8, LotsFinite, SumMoved
<1> QED
    BY <1>9 DEF f, g

(* The credit of an earning just made is the earning, and none of it is spent. *)
LEMMA BornWeight ==
    ASSUME IInv, Fresh, [Next]_vars, NEW r \in Lots, lots[r].status = "NONE", lots'[r].root = r
    PROVE  SumFunctionOnSet(weight(lots', uses', r), Lots) <= lots'[r].amount
<1> DEFINE f == weight(lots', uses', r)
           g == [l \in Lots |-> 0]
<1>1. lots' \in [Lots -> Lot] /\ uses' \in [Orders -> [Lots -> Nat]] /\ sound(lots'[r])
    BY IInvStep DEF IInv, TypeOK, LotsSound
<1>2. (\A o \in Orders : uses'[o][r] = 0) /\ \A m \in Lots : lots'[m].root = r => m = r
    BY FreshStep
<1>3. stand(uses', r) = 0
    BY <1>1, <1>2, StandIs
<1>4. lots'[r] \in Lot /\ holds(lots'[r]) \in Nat /\ holds(lots'[r]) <= lots'[r].amount
    <2>1. lots'[r] \in Lot
        BY <1>1
    <2>2. holds(lots'[r]) \in Nat /\ holds(lots'[r]) <= lots'[r].remaining
        BY <2>1, HoldsIs
    <2> QED
        BY <1>1, <2>1, <2>2 DEF sound, Lot
<1>5. f[r] = holds(lots'[r]) /\ \A l \in Lots : l # r => f[l] = 0
    BY <1>2, <1>3, <1>4 DEF weight
<1>6. DiffersAt(Lots, g, f, r)
    <2>1. \A l \in Lots : f[l] \in Nat
        BY <1>1, WeightIs
    <2> QED
        BY <1>5, <2>1 DEF DiffersAt
<1>7. \A l \in Lots : g[l] = 0
    OBVIOUS
<1> HIDE DEF f, g
<1>8. SumFunctionOnSet(f, Lots) = SumFunctionOnSet(g, Lots) + (f[r] - g[r])
    BY <1>6, LotsFinite, SumChanged
<1>9. SumFunctionOnSet(g, Lots) = 0 /\ g[r] = 0
    BY <1>7, LotsFinite, SumZero
<1>10. SumFunctionOnSet(f, Lots) = f[r]
    BY <1>4, <1>5, <1>8, <1>9
<1> QED
    BY <1>4, <1>5, <1>10 DEF f

LEMMA EarnedStep ==
    ASSUME IInv, Fresh, Unspent, EarnedOnce, [Next]_vars
    PROVE  EarnedOnce'
<1> SUFFICES ASSUME NEW r \in Lots, lots'[r].root = r
             PROVE  SumFunctionOnSet(weight(lots', uses', r), Lots) <= lots'[r].amount
    BY EarnedIs DEF Earned
<1>1. CASE lots[r].status = "NONE"
    BY <1>1, BornWeight
<1>2. CASE lots[r].status # "NONE"
    <2>1. lots[r].root = r /\ lots'[r].amount = lots[r].amount
        BY <1>2, RootsStep DEF Rooted
    <2>2. SumFunctionOnSet(weight(lots, uses, r), Lots) <= lots[r].amount
        BY <2>1, EarnedIs DEF Earned
    <2>3. SumFunctionOnSet(weight(lots', uses', r), Lots) <= SumFunctionOnSet(weight(lots, uses, r), Lots)
        BY <1>2, WeightStep, CancelWeight
    <2>4. /\ SumFunctionOnSet(weight(lots, uses, r), Lots) \in Int
          /\ SumFunctionOnSet(weight(lots', uses', r), Lots) \in Int
          /\ lots[r].amount \in Int
        <3>1. /\ lots' \in [Lots -> Lot] /\ uses' \in [Orders -> [Lots -> Nat]]
              /\ lots \in [Lots -> Lot] /\ uses \in [Orders -> [Lots -> Nat]]
            BY IInvStep DEF IInv, TypeOK
        <3> DEFINE f == weight(lots', uses', r)
                   g == weight(lots, uses, r)
        <3>2. (\A l \in Lots : g[l] \in Nat) /\ \A l \in Lots : f[l] \in Nat
            BY <3>1, WeightIs
        <3> HIDE DEF f, g
        <3>3. (\A l \in Lots : g[l] \in Int) /\ \A l \in Lots : f[l] \in Int
            BY <3>2
        <3>4. SumFunctionOnSet(f, Lots) \in Int /\ SumFunctionOnSet(g, Lots) \in Int
            BY <3>3, LotsFinite, SumOf
        <3> QED
            BY <3>1, <3>4 DEF f, g, Lot
    <2> QED
        BY <2>1, <2>2, <2>3, <2>4
<1> QED
    BY <1>1, <1>2

(* The ledger's books, with what they rest on. *)
BInv == IInv /\ Fresh /\ Unspent /\ BooksHold /\ EarnedOnce

LEMMA BInvInit ==
    ASSUME Init
    PROVE  BInv
<1>1. IInv /\ Fresh /\ Unspent
    <2>1. \A l \in Lots : lots[l].root = l
        BY DEF Init, noLot
    <2> QED
        BY <2>1, IInvInit DEF Init, Fresh, Unspent, Lots
<1>2. lots \in [Lots -> Lot] /\ uses \in [Orders -> [Lots -> Nat]]
    BY <1>1 DEF IInv, TypeOK
<1>3. \A l \in Lots : lots[l].status = "NONE" /\ lots[l].remaining = 0
    BY DEF Init, noLot
<1>4. BooksHold
    <2> DEFINE f(s) == [l \in Lots |-> IF lots[l].status = s THEN lots[l].remaining ELSE 0]
    <2>1. ASSUME NEW s PROVE sumOf(lots, s) = 0
        <3>1. \A l \in Lots : f(s)[l] = 0
            BY <1>3
        <3>2. sumOf(lots, s) = SumFunctionOnSet(f(s), Lots)
            BY TotalIs DEF sumOf
        <3> HIDE DEF f
        <3> QED
            BY <3>1, <3>2, LotsFinite, SumZero
    <2> QED
        BY <2>1 DEF BooksHold, recount, Init
<1>5. EarnedOnce
    <2>1. ASSUME NEW r \in Lots PROVE SumFunctionOnSet(weight(lots, uses, r), Lots) = 0
        <3>1. ASSUME NEW l \in Lots PROVE weight(lots, uses, r)[l] = 0
            <4>1. \A o \in Orders : uses[o][l] = 0
                BY DEF Init
            <4>2. stand(uses, l) = 0 /\ holds(lots[l]) = 0
                BY <1>2, <1>3, <4>1, StandIs DEF holds
            <4> QED
                BY <4>2 DEF weight
        <3> QED
            BY <3>1, LotsFinite, SumZero
    <2>2. \A r \in Lots : lots[r].amount \in Nat
        BY <1>2 DEF Lot
    <2> QED
        BY <2>1, <2>2, EarnedIs DEF Earned
<1> QED
    BY <1>1, <1>4, <1>5 DEF BInv

LEMMA BooksInvariant == Spec => []BInv
<1>1. Init => BInv
    BY BInvInit
<1>2. BInv /\ [Next]_vars => BInv'
    BY IInvStep, FreshStep, UnspentStep, BooksStep, EarnedStep DEF BInv
<1> QED
    BY <1>1, <1>2, PTL DEF Spec

(* What the customer sees is what is there: after every placement, delivery,
   cancellation, sweep and adjustment the cached balance is what is left of the
   usable lots, and what the lines of the statement add up to. *)
THEOREM BooksAlwaysHold == Spec => []BooksHold
BY BooksInvariant, PTL DEF BInv

(* What was earned once is credit once: however deliveries, cancellations, returns
   and splits are repeated, what is left of an earning and the uses of it that stand
   are no more than it was. *)
THEOREM EarnedOnlyOnce == Spec => []EarnedOnce
BY BooksInvariant, PTL DEF BInv
=============================================================================

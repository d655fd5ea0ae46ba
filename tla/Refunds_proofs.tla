--------------------------- MODULE Refunds_proofs ---------------------------
(***************************************************************************)
(* What is proved of Refunds for any processes, any amount paid, and any   *)
(* number of askings, refunds of the panel, cancellations and faults; and, *)
(* of a charge whose money is bee-link's alone to give back (ItsOwn), that *)
(* its rows and Asaas's refunds are the same refunds, in the same order.   *)
(***************************************************************************)
EXTENDS Refunds, RefundBook_proofs

GivenUp == {"REFUSED", "DROPPED"}
AskingPlaces == {"call", "write", "refuse", "drop", "lost", "hold"}

\* What a request is sure of at each place; n is how many rows there are.
Fine(place, t, n) ==
  /\ place \in Places /\ t \in Talk
  /\ place = "idle" => t = Blank
  /\ place \in AskingPlaces => t.row \in 1..n
  /\ place \in {"write", "settled", "heard"} => t.read \in RefundTotals
  /\ place \in {"claim", "call", "settle", "settled"} \/ t.next = "claim" => t.want # 0

AllFine == \A p \in Procs : Fine(at[p], talk[p], Len(rows))

TypeInv == TypeOK /\ AllFine

-----------------------------------------------------------------------------
(* Lemmas on the operators. *)

LEMMA RefundSums ==
  ASSUME NEW list \in Seq(Refund), NEW which
  PROVE  centsOf(list, which) \in Nat
<1>1. Len(list) \in Nat /\ \A i \in 1..Len(list) : list[i] \in Refund
  OBVIOUS
<1>2. \A r \in Refund : r.cents \in Nat
  BY AmountIsPaid DEF Refund
<1> QED
  BY <1>1, <1>2, SumsAreNatural

LEMMA ReadingsAreTotals ==
  ASSUME NEW list \in Seq(Refund)
  PROVE  totalsOf(list) \in RefundTotals /\ listings(list) \subseteq RefundTotals
<1>2. \A which : centsOf(list, which) \in Nat
  BY RefundSums
<1>3. refundTotalsOf(list) \in RefundTotals
  BY <1>2 DEF refundTotalsOf, RefundTotals
<1>4. NO_REFUNDS \in RefundTotals /\ Amount \in Nat
  BY AmountIsPaid DEF NO_REFUNDS, RefundTotals
<1>5. \A t \in RefundTotals : /\ [t EXCEPT !.done = Amount] \in RefundTotals
                              /\ [t EXCEPT !.done = Amount, !.pending = 0] \in RefundTotals
  BY <1>4 DEF RefundTotals
<1> QED
  BY <1>3, <1>4, <1>5 DEF totalsOf, listings

LEMMA RefundableFits ==
  ASSUME NEW books \in Rows
  PROVE  refundableOf(books) \in 0..Amount
<1>1. sumOf(books, STANDING_REFUNDS) \in Nat
  BY RowsSums
<1> QED
  BY <1>1, AmountIsPaid DEF refundableOf, NotBelow0

LEMMA RowAdded ==
  ASSUME NEW books \in Rows, NEW cents \in 1..Amount
  PROVE  LET new == claimRefund(books, cents) IN
         /\ new \in Rows /\ Len(new) = Len(books) + 1
         /\ \A i \in 1..Len(books) : new[i] = books[i]
         /\ new[Len(books) + 1].status = "REQUESTED" /\ new[Len(books) + 1].held
<1> DEFINE row == [cents |-> cents, status |-> "REQUESTED", held |-> TRUE]
<1>1. row \in RefundRow /\ row.status = "REQUESTED" /\ row.held
  BY DEF RefundRow, RefundStatuses, STANDING_REFUNDS
<1> HIDE DEF row
<1>2. Append(books, row) \in Rows /\ Len(Append(books, row)) = Len(books) + 1
  BY <1>1 DEF Rows
<1>3. /\ \A i \in 1..Len(books) : Append(books, row)[i] = books[i]
      /\ Append(books, row)[Len(books) + 1] = row
  BY <1>1 DEF Rows
<1> QED
  BY <1>1, <1>2, <1>3 DEF claimRefund, row

\* The writers of one row change that row alone, and only while it is asked.
Closed(books, r, status) == IF askedNow(books, r) THEN [books EXCEPT ![r] = taken(@, status)] ELSE books

LEMMA AskedRowClosed ==
  ASSUME NEW books \in Rows, NEW r \in 1..Len(books), NEW status \in {"PROCESSING", "REFUSED", "DROPPED"}
  PROVE  LET new == Closed(books, r, status) IN
         /\ new \in Rows /\ Len(new) = Len(books)
         /\ \A i \in 1..Len(books) : i # r \/ books[r].status # "REQUESTED" => new[i] = books[i]
         /\ books[r].status = "REQUESTED" => new[r].status = status
         /\ new[r].cents = books[r].cents
<1> DEFINE row == books[r]
<1>1. row \in RefundRow
  BY DEF Rows
<1>2. status \in RefundStatuses
  BY DEF RefundStatuses, STANDING_REFUNDS
<1>3. /\ taken(row, status) \in RefundRow
      /\ taken(row, status).cents = row.cents /\ taken(row, status).status = status
  BY <1>1, <1>2, TakenRow
<1>4. Closed(books, r, status) = IF row.status = "REQUESTED" THEN [books EXCEPT ![r] = taken(row, status)] ELSE books
  BY DEF Closed, askedNow
<1> QED
  BY <1>3, <1>4, RowWritten

LEMMA AskedRowHeld ==
  ASSUME NEW books \in Rows, NEW r \in 1..Len(books)
  PROVE  LET new == holdRefund(books, r) IN
         /\ new \in Rows /\ Len(new) = Len(books)
         /\ \A i \in 1..Len(books) : /\ new[i].status = books[i].status /\ new[i].cents = books[i].cents
                                     /\ new[i].held \/ new[i].held = books[i].held
<1> DEFINE row == books[r]
           held == [row EXCEPT !.held = TRUE]
<1>1. row \in RefundRow
  BY DEF Rows
<1>2. held \in RefundRow /\ held.status = row.status /\ held.cents = row.cents /\ held.held
  BY <1>1 DEF RefundRow
<1>3. holdRefund(books, r) = IF row.status = "REQUESTED" THEN [books EXCEPT ![r] = held] ELSE books
  BY <1>1 DEF holdRefund, askedNow, Rows
<1> HIDE DEF held
<1>4. /\ [books EXCEPT ![r] = held] \in Rows /\ Len([books EXCEPT ![r] = held]) = Len(books)
      /\ [books EXCEPT ![r] = held][r] = held
      /\ \A i \in 1..Len(books) : i # r => [books EXCEPT ![r] = held][i] = books[i]
  BY <1>2, RowWritten
<1> QED
  BY <1>2, <1>3, <1>4

LEMMA WritersClose ==
  ASSUME NEW books, NEW r
  PROVE  /\ takeRefund(books, r) = Closed(books, r, "PROCESSING")
         /\ refuseRefund(books, r) = Closed(books, r, "REFUSED")
         /\ dropRefund(books, r) = Closed(books, r, "DROPPED")
BY DEF takeRefund, refuseRefund, dropRefund, Closed

-----------------------------------------------------------------------------
(* What a step makes of the books. *)

RowStep(before, row) ==
  /\ goesForward(before, row)
  /\ row.status = "REQUESTED" => before.status = "REQUESTED" /\ (before.held => row.held)
  /\ row.status \in GivenUp => \/ before.status \in GivenUp
                               \/ before.status = "REQUESTED" /\ ~before.held

Moved(books, new) ==
  /\ new \in Rows /\ Len(new) >= Len(books)
  /\ \A i \in 1..Len(books) : RowStep(books[i], new[i])
  /\ \A i \in 1..Len(new) : i > Len(books) => new[i].status \notin GivenUp \cup {"REQUESTED"}

LEMMA MovedNot ==
  ASSUME NEW books \in Rows
  PROVE  Moved(books, books)
<1>1. Len(books) \in Nat
  BY DEF Rows
<1> QED
  BY <1>1 DEF Moved, RowStep, goesForward

LEMMA MovedTwice ==
  ASSUME NEW books \in Rows, NEW mid, NEW new, Moved(books, mid), Moved(mid, new)
  PROVE  Moved(books, new)
<1>1. Len(books) \in Nat /\ Len(mid) \in Nat /\ Len(new) \in Nat
  BY DEF Moved, Rows
<1>2. Len(new) >= Len(books)
  BY <1>1 DEF Moved
<1>3. ASSUME NEW i \in 1..Len(books) PROVE RowStep(books[i], new[i])
  <2>1. RowStep(books[i], mid[i]) /\ RowStep(mid[i], new[i])
    BY <1>1 DEF Moved
  <2>2. goesForward(books[i], new[i])
    BY <2>1 DEF RowStep, goesForward
  <2> QED
    BY <2>1, <2>2 DEF RowStep
<1>4. ASSUME NEW i \in 1..Len(new), i > Len(books) PROVE new[i].status \notin GivenUp \cup {"REQUESTED"}
  <2>1. CASE i \in 1..Len(mid)
    <3>1. mid[i].status \notin GivenUp \cup {"REQUESTED"} /\ RowStep(mid[i], new[i])
      BY <2>1, <1>4 DEF Moved
    <3> QED
      BY <3>1 DEF RowStep
  <2>2. CASE i > Len(mid)
    BY <2>2 DEF Moved
  <2> QED
    BY <2>1, <2>2, <1>1
<1> QED
  BY <1>2, <1>3, <1>4 DEF Moved

LEMMA MovedByReconcile ==
  ASSUME NEW books \in Rows, NEW totals \in RefundTotals, NEW authoritative \in BOOLEAN
  PROVE  /\ Moved(books, reconcileRefunds(books, totals, authoritative))
         /\ Len(reconcileRefunds(books, totals, authoritative)) \in Nat
<1> DEFINE new == reconcileRefunds(books, totals, authoritative)
<1>1. /\ new \in Rows /\ Len(new) >= Len(books)
      /\ \A i \in 1..Len(books) : Kept(books[i], new[i], authoritative, i \in deniedBy(books, totals))
      /\ \A i \in 1..Len(new) : i > Len(books) => new[i].status \in TAKEN_REFUNDS
  BY ReconcileKeeps
<1> HIDE DEF new
<1>2. ASSUME NEW i \in 1..Len(books) PROVE RowStep(books[i], new[i])
  BY <1>1 DEF Kept, RowStep, goesForward, GivenUp, TAKEN_REFUNDS
<1>3. Moved(books, new)
  BY <1>1, <1>2 DEF Moved, GivenUp, TAKEN_REFUNDS
<1>4. Len(new) \in Nat
  BY <1>1 DEF Rows
<1> QED
  BY <1>3, <1>4 DEF new

LEMMA MovedByTake ==
  ASSUME NEW books \in Rows, NEW r \in 1..Len(books)
  PROVE  Moved(books, takeRefund(books, r))
<1> DEFINE new == Closed(books, r, "PROCESSING")
<1>1. takeRefund(books, r) = new
  BY WritersClose
<1>2. /\ new \in Rows /\ Len(new) = Len(books)
      /\ \A i \in 1..Len(books) : i # r \/ books[r].status # "REQUESTED" => new[i] = books[i]
      /\ books[r].status = "REQUESTED" => new[r].status = "PROCESSING"
      /\ new[r].cents = books[r].cents
  BY AskedRowClosed
<1>0. Len(books) \in Nat
  BY DEF Rows
<1> HIDE DEF new
<1>3. \A i \in 1..Len(books) : RowStep(books[i], new[i])
  BY <1>2 DEF RowStep, goesForward, GivenUp
<1> QED
  BY <1>0, <1>1, <1>2, <1>3 DEF Moved

LEMMA MovedByHold ==
  ASSUME NEW books \in Rows, NEW r \in 1..Len(books)
  PROVE  Moved(books, holdRefund(books, r))
<1> DEFINE new == holdRefund(books, r)
<1>1. /\ new \in Rows /\ Len(new) = Len(books) /\ Len(books) \in Nat
      /\ \A i \in 1..Len(books) : /\ new[i].status = books[i].status /\ new[i].cents = books[i].cents
                                  /\ new[i].held \/ new[i].held = books[i].held
  BY AskedRowHeld DEF Rows
<1> HIDE DEF new
<1>2. \A i \in 1..Len(books) : RowStep(books[i], new[i])
  BY <1>1 DEF RowStep, goesForward
<1>3. Moved(books, new)
  BY <1>1, <1>2 DEF Moved
<1> QED
  BY <1>3 DEF new

-----------------------------------------------------------------------------
(* Types: one process moves at a time. *)

ProcsTyped == at \in [Procs -> Places] /\ talk \in [Procs -> Talk] /\ AllFine

Goes(p, place, t) == at' = [at EXCEPT ![p] = place] /\ talk' = [talk EXCEPT ![p] = t]

LEMMA ProcessGoes ==
  ASSUME ProcsTyped, NEW p \in Procs, NEW place, NEW t, Goes(p, place, t),
         Fine(place, t, Len(rows')), Len(rows) \in Nat, Len(rows') \in Nat, Len(rows') >= Len(rows)
  PROVE  ProcsTyped'
<1>1. place \in Places /\ t \in Talk
  BY DEF Fine
<1>2. at' \in [Procs -> Places] /\ talk' \in [Procs -> Talk]
  BY <1>1 DEF ProcsTyped, Goes
<1>3. ASSUME NEW q \in Procs PROVE Fine(at'[q], talk'[q], Len(rows'))
  <2>1. CASE q = p
    BY <2>1 DEF ProcsTyped, Goes
  <2>2. CASE q # p
    <3>1. at'[q] = at[q] /\ talk'[q] = talk[q] /\ Fine(at[q], talk[q], Len(rows))
      BY <2>2 DEF ProcsTyped, Goes, AllFine
    <3>2. talk[q].row \in 1..Len(rows) => talk[q].row \in 1..Len(rows')
      OBVIOUS
    <3> QED
      BY <3>1, <3>2 DEF Fine
  <2> QED
    BY <2>1, <2>2
<1> QED
  BY <1>2, <1>3 DEF ProcsTyped, AllFine

LEMMA ProcessStays ==
  ASSUME ProcsTyped, UNCHANGED <<at, talk>>,
         Len(rows) \in Nat, Len(rows') \in Nat, Len(rows') >= Len(rows)
  PROVE  ProcsTyped'
<1>1. ASSUME NEW q \in Procs PROVE Fine(at[q], talk[q], Len(rows'))
  <2>1. Fine(at[q], talk[q], Len(rows))
    BY DEF ProcsTyped, AllFine
  <2>2. talk[q].row \in 1..Len(rows) => talk[q].row \in 1..Len(rows')
    OBVIOUS
  <2> QED
    BY <2>1, <2>2 DEF Fine
<1> QED
  BY <1>1 DEF ProcsTyped, AllFine

LEMMA BlankIsTalk == Blank \in Talk /\ Blank.next = "idle"
BY AmountIsPaid DEF Blank, Talk

\* Where a request goes when it ends, fails, is told of or has heard: it is sure of no more than its place asks.
LEMMA EndsFine ==
  ASSUME NEW p \in Procs, ends(p), NEW n
  PROVE  Goes(p, "idle", Blank) /\ Fine("idle", Blank, n)
BY BlankIsTalk DEF ends, goesTo, Goes, Fine, Places, AskingPlaces

LEMMA ThrowsFine ==
  ASSUME NEW p \in Procs, throws(p), NEW n
  PROVE  \E place \in Places \ AskingPlaces, t \in Talk : Goes(p, place, t) /\ Fine(place, t, n)
<1>1. CASE talk[p].kind = "cancel"
  <2> DEFINE t == [Blank EXCEPT !.kind = "cancel"]
  <2>1. t \in Talk /\ t.next = "idle"
    BY BlankIsTalk DEF Talk
  <2>2. Goes(p, "thrown", t)
    BY <1>1 DEF throws, goesTo, Goes
  <2> HIDE DEF t
  <2>3. Fine("thrown", t, n) /\ "thrown" \in Places \ AskingPlaces
    BY <2>1 DEF Fine, Places, AskingPlaces
  <2> QED
    BY <2>1, <2>2, <2>3
<1>2. CASE talk[p].kind # "cancel"
  <2>1. Goes(p, "idle", Blank) /\ Fine("idle", Blank, n)
    BY <1>2, EndsFine DEF throws
  <2> QED
    BY <2>1, BlankIsTalk DEF Places, AskingPlaces
<1> QED
  BY <1>1, <1>2

LEMMA ToldFine ==
  ASSUME ProcsTyped, NEW p \in Procs, told(p), pay' \in Payment, (pay.refunded + pay.refunding <= Amount)', NEW n
  PROVE  \E place \in Places \ AskingPlaces, t \in Talk : Goes(p, place, t) /\ Fine(place, t, n)
<1> DEFINE next == IF talk[p].kind = "cancel" THEN "cancel" ELSE "idle"
           t == [Blank EXCEPT !.kind = talk[p].kind, !.known = knownOf(pay'), !.next = next]
<1>1. knownOf(pay') \in 0..Amount
  BY AmountIsPaid DEF knownOf, Payment
<1>2. talk[p] \in Talk
  BY DEF ProcsTyped
<1>3. t \in Talk /\ t.next # "claim"
  BY <1>1, <1>2, BlankIsTalk DEF Talk, Blank
<1>4. Goes(p, "list", t)
  BY DEF told, goesTo, Goes
<1> HIDE DEF t
<1>5. Fine("list", t, n) /\ "list" \in Places \ AskingPlaces
  BY <1>3 DEF Fine, Places, AskingPlaces
<1> QED
  BY <1>3, <1>4, <1>5

LEMMA AfterFine ==
  ASSUME ProcsTyped, NEW p \in Procs, at[p] \in {"list", "heard"}, after(p), NEW n
  PROVE  \E place \in Places \ AskingPlaces, t \in Talk : Goes(p, place, t) /\ Fine(place, t, n)
<1> DEFINE next == talk[p].next
           t == IF next = "idle" THEN Blank
                ELSE [talk[p] EXCEPT !.next = "idle", !.known = 0, !.read = Unread, !.whole = FALSE]
<1>1. talk[p] \in Talk /\ Fine(at[p], talk[p], Len(rows))
  BY DEF ProcsTyped, AllFine
<1>2. next \in {"idle", "claim", "cancel"} /\ (next = "claim" => talk[p].want # 0)
  BY <1>1 DEF Talk, Fine
<1>3. /\ t \in Talk /\ t.next = "idle"
      /\ next = "idle" => t = Blank
      /\ next # "idle" => t.want = talk[p].want
  <2> DEFINE u == [talk[p] EXCEPT !.next = "idle", !.known = 0, !.read = Unread, !.whole = FALSE]
  <2>1. 0 \in 0..Amount /\ Unread \in RefundTotals \cup {Unread}
    BY AmountIsPaid
  <2>2. u \in Talk /\ u.want = talk[p].want /\ u.next = "idle"
    BY <1>1, <2>1 DEF Talk
  <2> QED
    BY <2>2, BlankIsTalk
<1>4. Goes(p, next, t)
  BY <1>1 DEF after, goesTo, Goes, ProcsTyped
<1> HIDE DEF t
<1>5. Fine(next, t, n) /\ next \in Places \ AskingPlaces
  BY <1>2, <1>3 DEF Fine, Places, AskingPlaces
<1> QED
  BY <1>3, <1>4, <1>5

-----------------------------------------------------------------------------
(* Each action: what it leaves of the types, and how far its request goes. *)

Bounds == [asks : 0..MaxAsks, panel : 0..MaxPanel, cancels : 0..MaxCancels, faults : 0..MaxFaults]

DataOK == /\ asaas \in Seq(Refund) /\ rows \in Rows
          /\ pay \in Payment /\ pay.refunded + pay.refunding <= Amount
          /\ order \in {"OPEN", "CANCELLED"}
          /\ left \in Bounds

LEMMA TypesAre == TypeInv <=> DataOK /\ ProcsTyped
BY DEF TypeInv, TypeOK, DataOK, ProcsTyped, Rows, Bounds

\* A request that does not begin to ask: where it is asking, it was, for the same row.
GoesOn(p) ==
  \E place \in Places, t \in Talk :
    /\ Goes(p, place, t) /\ Fine(place, t, Len(rows'))
    /\ place \in AskingPlaces => at[p] \in AskingPlaces /\ t.row = talk[p].row
    /\ place \in {"call", "refuse", "drop"} => at[p] = "call" /\ asaas' = asaas

LEMMA LeftFits ==
  ASSUME DataOK
  PROVE  /\ faults => left' \in Bounds
         /\ left.asks > 0 => [left EXCEPT !.asks = @ - 1] \in Bounds
         /\ left.panel > 0 => [left EXCEPT !.panel = @ - 1] \in Bounds
         /\ left.cancels > 0 => [left EXCEPT !.cancels = @ - 1] \in Bounds
<1>1. left \in Bounds
  BY DEF DataOK
<1>2. \A max \in Nat : \A n \in 0..max : n > 0 => n - 1 \in 0..max
  OBVIOUS
<1>3. /\ left.asks > 0 => left.asks - 1 \in 0..MaxAsks
      /\ left.panel > 0 => left.panel - 1 \in 0..MaxPanel
      /\ left.cancels > 0 => left.cancels - 1 \in 0..MaxCancels
      /\ left.faults > 0 => left.faults - 1 \in 0..MaxFaults
  BY <1>1, <1>2, RefundBounds DEF Bounds
<1>4. left.faults > 0 => [left EXCEPT !.faults = @ - 1] \in Bounds
  BY <1>1, <1>3 DEF Bounds
<1> QED
  BY <1>1, <1>3, <1>4 DEF Bounds, faults

LEMMA AskingPlacesArePlaces == AskingPlaces \subseteq Places
BY DEF AskingPlaces, Places

\* A request that goes where it need be sure of nothing.
LEMMA GoesOnElsewhere ==
  ASSUME NEW p \in Procs,
         \E place \in Places \ AskingPlaces, t \in Talk : Goes(p, place, t) /\ Fine(place, t, Len(rows'))
  PROVE  GoesOn(p)
BY DEF GoesOn, AskingPlaces

LEMMA AskTypes ==
  ASSUME TypeInv, NEW p \in Procs, Ask(p) \/ AskCancel(p) \/ Hear(p)
  PROVE  DataOK' /\ GoesOn(p) /\ rows' = rows /\ asaas' = asaas
<1>0. DataOK /\ ProcsTyped
  BY TypesAre
<1>1. \A t \in Talk : /\ t.want # 0 => Fine("claim", t, Len(rows'))
                      /\ t.next = "idle" => Fine("before", t, Len(rows'))
                      /\ t.next = "idle" => Fine("list", t, Len(rows'))
  BY DEF Fine, Places, AskingPlaces
<1>2. {"claim", "before", "list"} \subseteq Places \ AskingPlaces
  BY DEF Places, AskingPlaces
<1>3. CASE Ask(p)
  <2>1. PICK want \in 1..Amount, saw \in 1..Amount :
           talk' = [talk EXCEPT ![p] = [Blank EXCEPT !.kind = "refund", !.want = want, !.saw = saw]]
    BY <1>3 DEF Ask
  <2> DEFINE t == [Blank EXCEPT !.kind = "refund", !.want = want, !.saw = saw]
  <2>2. t \in Talk /\ t.want # 0
    <3>1. want \in 0..Amount /\ saw \in 0..Amount /\ want # 0
      BY AmountIsPaid
    <3> QED
      BY <3>1, BlankIsTalk DEF Talk
  <2>3. Goes(p, "claim", t)
    BY <1>3, <2>1 DEF Ask, goesTo, Goes
  <2> HIDE DEF t
  <2>4. GoesOn(p)
    BY <1>1, <1>2, <2>2, <2>3, GoesOnElsewhere
  <2>5. left.asks > 0 /\ left' = [left EXCEPT !.asks = @ - 1] /\ UNCHANGED <<rows, pay, asaas, order>>
    BY <1>3 DEF Ask, booksStay
  <2>6. left' \in Bounds
    BY <2>5, <1>0, LeftFits
  <2> QED
    BY <2>4, <2>5, <2>6, <1>0 DEF DataOK
<1>4. CASE AskCancel(p)
  <2>1. PICK saw \in 0..Amount : talk' = [talk EXCEPT ![p] = [Blank EXCEPT !.kind = "cancel", !.saw = saw]]
    BY <1>4 DEF AskCancel
  <2> DEFINE t == [Blank EXCEPT !.kind = "cancel", !.saw = saw]
  <2>2. t \in Talk /\ t.next = "idle"
    BY BlankIsTalk DEF Talk
  <2>3. Goes(p, "before", t)
    BY <1>4, <2>1 DEF AskCancel, goesTo, Goes
  <2> HIDE DEF t
  <2>4. GoesOn(p)
    BY <1>1, <1>2, <2>2, <2>3, GoesOnElsewhere
  <2>5. left.asks > 0 /\ left' = [left EXCEPT !.asks = @ - 1] /\ UNCHANGED <<rows, pay, asaas, order>>
    BY <1>4 DEF AskCancel, booksStay
  <2>6. left' \in Bounds
    BY <2>5, <1>0, LeftFits
  <2> QED
    BY <2>4, <2>5, <2>6, <1>0 DEF DataOK
<1>5. CASE Hear(p)
  <2> DEFINE t == [talk[p] EXCEPT !.known = knownOf(pay)]
  <2>0. at[p] = "idle" /\ talk[p] \in Talk /\ talk[p].next = "idle"
    BY <1>5, <1>0, BlankIsTalk DEF Hear, ProcsTyped, AllFine, Fine
  <2>1. knownOf(pay) \in 0..Amount
    BY <1>0, AmountIsPaid DEF knownOf, Payment, DataOK
  <2>2. t \in Talk /\ t.next = talk[p].next
    BY <2>0, <2>1 DEF Talk
  <2>3. Goes(p, "list", t)
    BY <1>5, <1>0 DEF Hear, goesTo, Goes, ProcsTyped
  <2> HIDE DEF t
  <2>4. Fine("list", t, Len(rows'))
    BY <1>1, <2>0, <2>2
  <2>5. GoesOn(p)
    BY <2>4, <1>2, <2>2, <2>3, GoesOnElsewhere
  <2> QED
    BY <2>5, <1>0, <1>5 DEF Hear, booksStay, DataOK
<1> QED
  BY <1>3, <1>4, <1>5

\* A step that asks Asaas for nothing new and closes no row as given up.
Quiet(p) == DataOK' /\ asaas' = asaas /\ Moved(rows, rows') /\ GoesOn(p)

LEMMA OfOne ==
  ASSUME TypeInv, NEW p \in Procs
  PROVE  /\ talk[p] \in Talk /\ at[p] \in Places /\ Fine(at[p], talk[p], Len(rows)) /\ Len(rows) \in Nat
         /\ DataOK /\ ProcsTyped /\ Moved(rows, rows)
         /\ at[p] \in AskingPlaces => talk[p].row \in 1..Len(rows)
<1>1. DataOK /\ ProcsTyped
  BY TypesAre
<1>2. talk[p] \in Talk /\ at[p] \in Places /\ Fine(at[p], talk[p], Len(rows)) /\ Len(rows) \in Nat
  BY <1>1 DEF ProcsTyped, AllFine, DataOK, Rows
<1> QED
  BY <1>1, <1>2, MovedNot DEF Fine, DataOK

LEMMA ReadSet ==
  ASSUME TypeInv, NEW p \in Procs, NEW read \in RefundTotals \cup {Unread}
  PROVE  LET t == [talk[p] EXCEPT !.read = read] IN
         /\ t \in Talk /\ t.read = read
         /\ t.want = talk[p].want /\ t.row = talk[p].row /\ t.next = talk[p].next
<1>1. talk[p] \in Talk
  BY OfOne
<1> QED
  BY <1>1 DEF Talk

LEMMA NotMadeQuiet ==
  ASSUME TypeInv, NEW p \in Procs, NotMade(p)
  PROVE  Quiet(p)
<1>0. at[p] = "call" /\ UNCHANGED <<rows, pay, asaas, order, talk>>
  BY DEF NotMade, booksStay
<1>1. left' \in Bounds
  BY LeftFits, OfOne DEF NotMade, DataOK
<1>2. DataOK'
  BY <1>0, <1>1, OfOne DEF DataOK
<1>3. PICK place \in {"refuse", "drop", "lost"} : goesTo(p, place)
  BY DEF NotMade
<1>4. Goes(p, place, talk[p])
  BY <1>0, <1>3, OfOne DEF ProcsTyped, Goes, goesTo
<1>5. Fine(place, talk[p], Len(rows'))
  BY <1>0, OfOne DEF Fine, Places, AskingPlaces
<1>6. GoesOn(p)
  BY <1>0, <1>4, <1>5, OfOne DEF GoesOn, Places, AskingPlaces
<1> QED
  BY <1>0, <1>2, <1>6, OfOne DEF Quiet

LEMMA RereadQuiet ==
  ASSUME TypeInv, NEW p \in Procs, Reread(p)
  PROVE  Quiet(p)
<1>0. at[p] = "lost" /\ goesTo(p, "hold") /\ UNCHANGED <<rows, pay, asaas, order>>
  BY DEF Reread, booksStay
<1>1. DataOK'
  <2>1. left' \in Bounds
    BY LeftFits, OfOne DEF Reread, DataOK
  <2> QED
    BY <1>0, <2>1, OfOne DEF DataOK
<1>2. PICK read \in RefundTotals \cup {Unread} : talk' = [talk EXCEPT ![p].read = read] \/ UNCHANGED talk
  BY ReadingsAreTotals, OfOne DEF Reread, DataOK
<1>3. PICK t \in Talk : /\ Goes(p, "hold", t)
                        /\ t.want = talk[p].want /\ t.row = talk[p].row /\ t.next = talk[p].next
  <2>1. CASE UNCHANGED talk
    <3>1. Goes(p, "hold", talk[p])
      BY <2>1, <1>0, OfOne DEF ProcsTyped, Goes, goesTo
    <3> QED
      BY <3>1, OfOne
  <2>2. CASE talk' = [talk EXCEPT ![p].read = read]
    <3> DEFINE t == [talk[p] EXCEPT !.read = read]
    <3>1. Goes(p, "hold", t)
      BY <2>2, <1>0, OfOne DEF ProcsTyped, Goes, goesTo
    <3>2. t \in Talk /\ t.want = talk[p].want /\ t.row = talk[p].row /\ t.next = talk[p].next
      BY ReadSet
    <3> QED
      BY <3>1, <3>2
  <2> QED
    BY <1>2, <2>1, <2>2
<1>4. Fine("hold", t, Len(rows'))
  BY <1>0, <1>3, OfOne DEF Fine, Places, AskingPlaces
<1>5. GoesOn(p)
  BY <1>0, <1>3, <1>4 DEF GoesOn, Places, AskingPlaces
<1> QED
  BY <1>0, <1>1, <1>5, OfOne DEF Quiet

LEMMA ReadUnknownQuiet ==
  ASSUME TypeInv, NEW p \in Procs, ReadUnknown(p)
  PROVE  Quiet(p)
<1>0. at[p] = "settle" /\ UNCHANGED <<rows, pay, asaas, order>>
  BY DEF ReadUnknown, booksStay
<1>1. DataOK'
  <2>1. left' \in Bounds
    BY LeftFits, OfOne DEF ReadUnknown, DataOK
  <2> QED
    BY <1>0, <2>1, OfOne DEF DataOK
<1>2. CASE throws(p)
  <2>1. GoesOn(p)
    BY <1>2, ThrowsFine, GoesOnElsewhere
  <2> QED
    BY <1>0, <1>1, <2>1, OfOne DEF Quiet
<1>3. CASE goesTo(p, "settled") /\ talk' = [talk EXCEPT ![p].read = totalsOf(asaas)]
  <2> DEFINE t == [talk[p] EXCEPT !.read = totalsOf(asaas)]
  <2>1. totalsOf(asaas) \in RefundTotals
    BY ReadingsAreTotals, OfOne DEF DataOK
  <2>2. /\ t \in Talk /\ t.read \in RefundTotals
        /\ t.want = talk[p].want /\ t.row = talk[p].row /\ t.next = talk[p].next
    BY <2>1, ReadSet
  <2>3. Goes(p, "settled", t)
    BY <1>3, OfOne DEF ProcsTyped, Goes, goesTo
  <2> HIDE DEF t
  <2>4. Fine("settled", t, Len(rows')) /\ "settled" \in Places \ AskingPlaces
    BY <1>0, <2>2, OfOne DEF Fine, Places, AskingPlaces
  <2>5. GoesOn(p)
    BY <2>2, <2>3, <2>4, GoesOnElsewhere
  <2> QED
    BY <1>0, <1>1, <2>5, OfOne DEF Quiet
<1> QED
  BY <1>2, <1>3 DEF ReadUnknown

LEMMA AskQuiet ==
  ASSUME TypeInv, NEW p \in Procs, Ask(p) \/ AskCancel(p) \/ Hear(p)
  PROVE  Quiet(p)
BY AskTypes, OfOne DEF Quiet

LEMMA HearListQuiet ==
  ASSUME TypeInv, NEW p \in Procs, HearList(p)
  PROVE  Quiet(p)
<1>0. at[p] = "list" /\ UNCHANGED <<rows, pay, asaas, order>>
  BY DEF HearList, booksStay
<1>1. DataOK'
  <2>1. left' \in Bounds
    BY LeftFits, OfOne DEF HearList, DataOK
  <2> QED
    BY <1>0, <2>1, OfOne DEF DataOK
<1>2. CASE after(p)
  <2>1. GoesOn(p)
    BY <1>0, <1>2, AfterFine, GoesOnElsewhere, OfOne
  <2> QED
    BY <1>0, <1>1, <2>1, OfOne DEF Quiet
<1>3. CASE /\ \E listed \in listings(asaas) :
                talk' = [talk EXCEPT ![p].read = heard(listed, talk[p].known), ![p].known = 0,
                                     ![p].whole = wholeAt(asaas)]
           /\ goesTo(p, "heard")
  <2>1. PICK listed \in listings(asaas) :
          talk' = [talk EXCEPT ![p].read = heard(listed, talk[p].known), ![p].known = 0,
                               ![p].whole = wholeAt(asaas)]
    BY <1>3
  <2> DEFINE read == heard(listed, talk[p].known)
             t == [talk[p] EXCEPT !.read = read, !.known = 0, !.whole = wholeAt(asaas)]
  <2>2. read \in RefundTotals
    BY ReadingsAreTotals, OfOne DEF DataOK, heard
  <2>3. wholeAt(asaas) \in BOOLEAN /\ 0 \in 0..Amount
    BY AmountIsPaid DEF wholeAt
  <2>4. Goes(p, "heard", t)
    BY <1>3, <2>1, OfOne DEF ProcsTyped, Goes, goesTo
  <2> HIDE DEF read
  <2>5. /\ t \in Talk /\ t.read \in RefundTotals
        /\ t.want = talk[p].want /\ t.next = talk[p].next
    <3>1. talk[p] \in Talk
      BY OfOne
    <3> QED
      BY <2>2, <2>3, <3>1 DEF Talk
  <2> HIDE DEF t
  <2>6. Fine("heard", t, Len(rows')) /\ "heard" \in Places \ AskingPlaces
    BY <1>0, <2>5, OfOne DEF Fine, Places, AskingPlaces
  <2>7. GoesOn(p)
    BY <2>4, <2>5, <2>6, GoesOnElsewhere
  <2> QED
    BY <1>0, <1>1, <2>7, OfOne DEF Quiet
<1> QED
  BY <1>2, <1>3 DEF HearList

LEMMA EndsGoOn ==
  ASSUME NEW p \in Procs, ends(p)
  PROVE  GoesOn(p)
BY EndsFine, BlankIsTalk, GoesOnElsewhere DEF Places, AskingPlaces

\* A step to a place where nothing is asked and nothing held but what the request holds already.
LEMMA StaysAsItIs ==
  ASSUME TypeInv, NEW p \in Procs, goesTo(p, "cancel"), UNCHANGED talk, talk[p].next = "claim" => talk[p].want # 0
  PROVE  GoesOn(p)
<1>1. Goes(p, "cancel", talk[p])
  BY OfOne DEF ProcsTyped, Goes, goesTo
<1>2. Fine("cancel", talk[p], Len(rows')) /\ "cancel" \in Places \ AskingPlaces
  BY OfOne DEF Fine, Places, AskingPlaces
<1> QED
  BY <1>1, <1>2, OfOne, GoesOnElsewhere

LEMMA BeforeQuiet ==
  ASSUME TypeInv, NEW p \in Procs, Before(p)
  PROVE  Quiet(p)
<1>0. at[p] = "before" /\ UNCHANGED <<rows, pay, asaas, order, left>>
  BY DEF Before, booksStay
<1>1. DataOK'
  BY <1>0, OfOne DEF DataOK
<1>2. talk[p].next = "claim" => talk[p].want # 0
  BY OfOne DEF Fine
<1>3. CASE goesTo(p, "cancel") /\ UNCHANGED talk
  BY <1>0, <1>1, <1>2, <1>3, StaysAsItIs, OfOne DEF Quiet
<1>4. CASE ends(p)
  BY <1>0, <1>1, <1>4, EndsGoOn, OfOne DEF Quiet
<1>5. CASE /\ talk[p].saw # 0 /\ goesTo(p, "claim")
           /\ talk' = [talk EXCEPT ![p].want = IF refundableOf(rows) > 0 THEN refundableOf(rows) ELSE talk[p].saw]
  <2> DEFINE want == IF refundableOf(rows) > 0 THEN refundableOf(rows) ELSE talk[p].saw
             t == [talk[p] EXCEPT !.want = want]
  <2>0. talk[p] \in Talk
    BY OfOne
  <2>1. want \in 0..Amount /\ want # 0
    BY <1>5, <2>0, RefundableFits, OfOne DEF Talk, DataOK
  <2>2. Goes(p, "claim", t)
    BY <1>5, OfOne DEF ProcsTyped, Goes, goesTo
  <2> HIDE DEF want
  <2>3. t \in Talk /\ t.want # 0
    BY <2>0, <2>1 DEF Talk
  <2> HIDE DEF t
  <2>4. Fine("claim", t, Len(rows')) /\ "claim" \in Places \ AskingPlaces
    BY <2>3 DEF Fine, Places, AskingPlaces
  <2>5. GoesOn(p)
    BY <2>2, <2>3, <2>4, GoesOnElsewhere
  <2> QED
    BY <1>0, <1>1, <2>5, OfOne DEF Quiet
<1> QED
  BY <1>3, <1>4, <1>5 DEF Before

LEMMA ThrownQuiet ==
  ASSUME TypeInv, NEW p \in Procs, Thrown(p)
  PROVE  Quiet(p)
<1>0. at[p] = "thrown" /\ UNCHANGED <<rows, pay, asaas, order, left>>
  BY DEF Thrown, booksStay
<1>1. DataOK'
  BY <1>0, OfOne DEF DataOK
<1>2. talk[p].next = "claim" => talk[p].want # 0
  BY OfOne DEF Fine
<1>3. GoesOn(p)
  BY <1>2, StaysAsItIs, EndsGoOn DEF Thrown
<1> QED
  BY <1>0, <1>1, <1>3, OfOne DEF Quiet

LEMMA CancelQuiet ==
  ASSUME TypeInv, NEW p \in Procs, Cancel(p)
  PROVE  Quiet(p)
<1>0. ends(p) /\ UNCHANGED <<rows, pay, asaas, left>>
  BY DEF Cancel, booksStay
<1>1. order' \in {"OPEN", "CANCELLED"}
  BY OfOne DEF Cancel, DataOK
<1>2. DataOK'
  BY <1>0, <1>1, OfOne DEF DataOK
<1> QED
  BY <1>0, <1>2, EndsGoOn, OfOne DEF Quiet

LEMMA CrashQuiet ==
  ASSUME TypeInv, NEW p \in Procs, Crash(p)
  PROVE  Quiet(p)
<1>0. ends(p) /\ faults /\ UNCHANGED <<rows, pay, asaas, order>>
  BY DEF Crash, booksStay
<1>1. left' \in Bounds
  BY <1>0, LeftFits, OfOne
<1>2. DataOK'
  BY <1>0, <1>1, OfOne DEF DataOK
<1> QED
  BY <1>0, <1>2, EndsGoOn, OfOne DEF Quiet

-----------------------------------------------------------------------------
(* The steps that write the rows. *)

LEMMA BooksWritten ==
  ASSUME TypeInv, NEW new \in Rows, NEW money \in Payment,
         rows' = new, pay' = settleRefundMoney(money, new), UNCHANGED <<asaas, order, left>>
  PROVE  DataOK' /\ pay' \in Payment /\ (pay.refunded + pay.refunding <= Amount)' /\ knownOf(pay') \in 0..Amount
<1>1. DataOK
  BY TypesAre
<1>2. pay' \in Payment /\ (pay.refunded + pay.refunding <= Amount)'
  BY SettledPayment
<1>3. knownOf(pay') \in 0..Amount
  BY <1>2, AmountIsPaid DEF knownOf, Payment
<1> QED
  BY <1>1, <1>2, <1>3 DEF DataOK

LEMMA HeldRead ==
  ASSUME TypeInv, NEW p \in Procs, at[p] \in {"write", "settled", "heard"}
  PROVE  talk[p].read \in RefundTotals
BY OfOne DEF Fine

LEMMA WriteQuiet ==
  ASSUME TypeInv, NEW p \in Procs, Write(p)
  PROVE  Quiet(p)
<1> DEFINE known == reconcileRefunds(rows, talk[p].read, FALSE)
           r == talk[p].row
           new == takeRefund(known, r)
<1>0. at[p] = "write" /\ told(p) /\ UNCHANGED <<asaas, order, left>>
  BY DEF Write
<1>1. rows \in Rows /\ talk[p].read \in RefundTotals /\ r \in 1..Len(rows) /\ Len(rows) \in Nat
  BY <1>0, HeldRead, OfOne DEF DataOK, AskingPlaces
<1>2. Moved(rows, known) /\ Len(known) \in Nat
  BY <1>1, MovedByReconcile
<1>3. rows' = new /\ pay' = settleRefundMoney(pay, new)
  BY DEF Write, writes
<1> HIDE DEF known
<1>4. known \in Rows /\ r \in 1..Len(known)
  BY <1>1, <1>2 DEF Moved
<1>5. Moved(rows, new)
  BY <1>1, <1>2, <1>4, MovedByTake, MovedTwice
<1>6. new \in Rows
  BY <1>5 DEF Moved
<1> HIDE DEF new
<1>7. DataOK' /\ pay' \in Payment /\ (pay.refunded + pay.refunding <= Amount)'
  BY <1>0, <1>3, <1>6, BooksWritten, OfOne DEF DataOK
<1>8. GoesOn(p)
  BY <1>0, <1>7, ToldFine, GoesOnElsewhere, OfOne
<1> QED
  BY <1>0, <1>3, <1>5, <1>7, <1>8 DEF Quiet

LEMMA HoldQuiet ==
  ASSUME TypeInv, NEW p \in Procs, Hold(p)
  PROVE  Quiet(p)
<1> DEFINE known == IF talk[p].read = Unread THEN rows ELSE reconcileRefunds(rows, talk[p].read, FALSE)
           r == talk[p].row
           new == holdRefund(known, r)
<1>0. at[p] = "hold" /\ (told(p) \/ throws(p)) /\ UNCHANGED <<asaas, order, left>>
  BY DEF Hold
<1>1. /\ rows \in Rows /\ r \in 1..Len(rows) /\ Len(rows) \in Nat
      /\ talk[p].read \in RefundTotals \cup {Unread}
  BY <1>0, OfOne DEF DataOK, AskingPlaces, Talk
<1>2. Moved(rows, known) /\ Len(known) \in Nat
  BY <1>1, MovedByReconcile, MovedNot
<1>3. rows' = new /\ pay' = settleRefundMoney(pay, new)
  BY DEF Hold, writes
<1> HIDE DEF known
<1>4. known \in Rows /\ r \in 1..Len(known)
  BY <1>1, <1>2 DEF Moved
<1>5. Moved(rows, new)
  BY <1>1, <1>2, <1>4, MovedByHold, MovedTwice
<1>6. new \in Rows
  BY <1>5 DEF Moved
<1> HIDE DEF new
<1>7. DataOK' /\ pay' \in Payment /\ (pay.refunded + pay.refunding <= Amount)'
  BY <1>0, <1>3, <1>6, BooksWritten, OfOne DEF DataOK
<1>8. GoesOn(p)
  BY <1>0, <1>7, ToldFine, ThrowsFine, GoesOnElsewhere, OfOne
<1> QED
  BY <1>0, <1>3, <1>5, <1>7, <1>8 DEF Quiet

LEMMA SettleUnknownQuiet ==
  ASSUME TypeInv, NEW p \in Procs, SettleUnknown(p)
  PROVE  Quiet(p)
<1> DEFINE new == reconcileRefunds(rows, talk[p].read, TRUE)
           t == [talk[p] EXCEPT !.read = Unread, !.again = TRUE, !.next = "claim", !.known = knownOf(pay')]
<1>0. at[p] = "settled" /\ goesTo(p, "list") /\ UNCHANGED <<asaas, order, left>>
  BY DEF SettleUnknown
<1>1. rows \in Rows /\ talk[p].read \in RefundTotals
  BY <1>0, HeldRead, OfOne DEF DataOK
<1>2. Moved(rows, new)
  BY <1>1, MovedByReconcile
<1>3. rows' = new /\ pay' = settleRefundMoney(pay, new)
  BY DEF SettleUnknown, writes
<1>4. new \in Rows
  BY <1>2 DEF Moved
<1>5. Goes(p, "list", t)
  BY <1>0, OfOne DEF SettleUnknown, ProcsTyped, Goes, goesTo
<1> HIDE DEF new
<1>6. DataOK' /\ knownOf(pay') \in 0..Amount
  BY <1>0, <1>3, <1>4, BooksWritten, OfOne DEF DataOK
<1>7. t \in Talk /\ t.want = talk[p].want
  <2>1. talk[p] \in Talk
    BY OfOne
  <2> QED
    BY <1>6, <2>1 DEF Talk
<1>8. talk[p].want # 0
  BY <1>0, OfOne DEF Fine
<1> HIDE DEF t
<1>9. Fine("list", t, Len(rows')) /\ "list" \in Places \ AskingPlaces
  BY <1>7, <1>8 DEF Fine, Places, AskingPlaces
<1>10. GoesOn(p)
  BY <1>5, <1>7, <1>9, GoesOnElsewhere
<1> QED
  BY <1>0, <1>2, <1>3, <1>6, <1>10 DEF Quiet

LEMMA HearWriteQuiet ==
  ASSUME TypeInv, NEW p \in Procs, HearWrite(p)
  PROVE  Quiet(p)
<1> DEFINE new == reconcileRefunds(rows, talk[p].read, FALSE)
           money == [pay EXCEPT !.status = IF talk[p].whole THEN "REFUNDED" ELSE pay.status]
<1>0. at[p] = "heard" /\ after(p) /\ UNCHANGED <<asaas, order, left>>
  BY DEF HearWrite
<1>1. rows \in Rows /\ talk[p].read \in RefundTotals
  BY <1>0, HeldRead, OfOne DEF DataOK
<1>2. Moved(rows, new)
  BY <1>1, MovedByReconcile
<1>3. rows' = new /\ pay' = settleRefundMoney(money, new)
  BY DEF HearWrite
<1>4. new \in Rows
  BY <1>2 DEF Moved
<1>5. money \in Payment
  BY OfOne DEF DataOK, Payment
<1> HIDE DEF new, money
<1>6. DataOK'
  BY <1>0, <1>3, <1>4, <1>5, BooksWritten
<1>7. GoesOn(p)
  BY <1>0, AfterFine, GoesOnElsewhere, OfOne
<1> QED
  BY <1>0, <1>2, <1>3, <1>6, <1>7 DEF Quiet

\* A claim is the one step by which a request begins to ask of Asaas, for a row nobody had.
Begins(p) ==
  /\ DataOK' /\ asaas' = asaas
  /\ rows' \in Rows /\ Len(rows') = Len(rows) + 1
  /\ \A i \in 1..Len(rows) : rows'[i] = rows[i]
  /\ rows'[Len(rows) + 1].status = "REQUESTED" /\ rows'[Len(rows) + 1].held
  /\ \E t \in Talk : Goes(p, "call", t) /\ Fine("call", t, Len(rows')) /\ t.row = Len(rows) + 1

LEMMA ClaimQuietOrBegins ==
  ASSUME TypeInv, NEW p \in Procs, Claim(p)
  PROVE  Quiet(p) \/ Begins(p)
<1>0. at[p] = "claim" /\ UNCHANGED <<asaas, pay, order, left>>
  BY DEF Claim
<1>1. rows \in Rows /\ Len(rows) \in Nat /\ talk[p] \in Talk /\ talk[p].want # 0
  BY <1>0, OfOne DEF DataOK, Fine
<1>2. CASE throws(p) /\ UNCHANGED rows
  <2>1. DataOK'
    BY <1>0, <1>2, OfOne DEF DataOK
  <2> QED
    BY <1>0, <1>2, <2>1, ThrowsFine, GoesOnElsewhere, OfOne DEF Quiet
<1>3. CASE goesTo(p, "settle") /\ UNCHANGED <<rows, talk>>
  <2>1. DataOK'
    BY <1>0, <1>3, OfOne DEF DataOK
  <2>2. Goes(p, "settle", talk[p])
    BY <1>3, OfOne DEF ProcsTyped, Goes, goesTo
  <2>3. Fine("settle", talk[p], Len(rows')) /\ "settle" \in Places \ AskingPlaces
    BY <1>0, OfOne DEF Fine, Places, AskingPlaces
  <2> QED
    BY <1>0, <1>1, <1>3, <2>1, <2>2, <2>3, GoesOnElsewhere, OfOne DEF Quiet
<1>4. CASE /\ mayClaim(talk[p])
           /\ rows' = claimRefund(rows, talk[p].want)
           /\ talk' = [talk EXCEPT ![p].row = Len(rows) + 1, ![p].saw = 0, ![p].again = FALSE] /\ goesTo(p, "call")
  <2> DEFINE t == [talk[p] EXCEPT !.row = Len(rows) + 1, !.saw = 0, !.again = FALSE]
  <2>1. talk[p].want \in 1..Amount
    BY <1>1, AmountIsPaid DEF Talk
  <2>2. /\ rows' \in Rows /\ Len(rows') = Len(rows) + 1
        /\ \A i \in 1..Len(rows) : rows'[i] = rows[i]
        /\ rows'[Len(rows) + 1].status = "REQUESTED" /\ rows'[Len(rows) + 1].held
    BY <1>1, <1>4, <2>1, RowAdded
  <2>3. Goes(p, "call", t)
    BY <1>4, OfOne DEF ProcsTyped, Goes, goesTo
  <2>4. t \in Talk /\ t.row = Len(rows) + 1 /\ t.want = talk[p].want
    <3>1. Len(rows) + 1 \in Nat /\ 0 \in 0..Amount
      BY <1>1, AmountIsPaid
    <3> QED
      BY <1>1, <3>1 DEF Talk
  <2> HIDE DEF t
  <2>5. Fine("call", t, Len(rows'))
    <3>1. t.row \in 1..Len(rows')
      BY <1>1, <2>2, <2>4
    <3> QED
      BY <1>1, <2>4, <3>1 DEF Fine, Places
  <2>6. DataOK'
    BY <1>0, <2>2, OfOne DEF DataOK
  <2> QED
    BY <1>0, <2>2, <2>3, <2>4, <2>5, <2>6 DEF Begins
<1> QED
  BY <1>2, <1>3, <1>4 DEF Claim

\* Asaas holds one refund more, of the row being asked, and the request is past its call.
Makes(p) ==
  /\ DataOK' /\ rows' = rows /\ GoesOn(p)
  /\ at[p] = "call" /\ at'[p] \in {"write", "lost"}
  /\ \E refund \in Refund : refund.by = talk[p].row /\ asaas' = Append(asaas, refund)

LEMMA MadeMakes ==
  ASSUME TypeInv, NEW p \in Procs, Made(p)
  PROVE  Makes(p)
<1>0. at[p] = "call" /\ UNCHANGED <<rows, pay, order>>
  BY DEF Made, booksStay
<1>1. PICK shown \in BOOLEAN :
        asaas' = Append(asaas, [cents |-> talk[p].want, status |-> "PENDING", shown |-> shown, by |-> talk[p].row])
  BY DEF Made
<1> DEFINE refund == [cents |-> talk[p].want, status |-> "PENDING", shown |-> shown, by |-> talk[p].row]
<1>2. refund \in Refund /\ refund.by = talk[p].row
  <2>1. talk[p].want \in 0..Amount /\ talk[p].want # 0 /\ talk[p].row \in Nat
    BY <1>0, OfOne DEF Fine, Talk
  <2>2. talk[p].want \in 1..Amount
    BY <2>1, AmountIsPaid
  <2> QED
    BY <2>1, <2>2 DEF Refund
<1> HIDE DEF refund
<1>3. asaas' = Append(asaas, refund)
  BY <1>1 DEF refund
<1>4. asaas' \in Seq(Refund)
  BY <1>2, <1>3, OfOne DEF DataOK
<1>5. left' \in Bounds
  BY LeftFits, OfOne DEF Made, DataOK
<1>6. DataOK'
  BY <1>0, <1>4, <1>5, OfOne DEF DataOK
<1>7. CASE goesTo(p, "write") /\ talk' = [talk EXCEPT ![p].read = totalsOf(asaas')]
  <2> DEFINE t == [talk[p] EXCEPT !.read = totalsOf(asaas')]
  <2>1. totalsOf(asaas') \in RefundTotals
    BY <1>4, ReadingsAreTotals
  <2>2. /\ t \in Talk /\ t.read \in RefundTotals
        /\ t.want = talk[p].want /\ t.row = talk[p].row /\ t.next = talk[p].next
    BY <2>1, ReadSet
  <2>3. Goes(p, "write", t) /\ at'[p] = "write"
    BY <1>7, OfOne DEF ProcsTyped, Goes, goesTo
  <2> HIDE DEF t
  <2>4. Fine("write", t, Len(rows'))
    BY <1>0, <2>2, OfOne DEF Fine, Places, AskingPlaces
  <2>5. GoesOn(p)
    BY <1>0, <2>2, <2>3, <2>4 DEF GoesOn, Places, AskingPlaces
  <2> QED
    BY <1>0, <1>2, <1>3, <1>6, <2>3, <2>5 DEF Makes
<1>8. CASE goesTo(p, "lost") /\ UNCHANGED talk
  <2>1. Goes(p, "lost", talk[p]) /\ at'[p] = "lost"
    BY <1>8, OfOne DEF ProcsTyped, Goes, goesTo
  <2>2. Fine("lost", talk[p], Len(rows'))
    BY <1>0, OfOne DEF Fine, Places, AskingPlaces
  <2>3. GoesOn(p)
    BY <1>0, <2>1, <2>2, OfOne DEF GoesOn, Places, AskingPlaces
  <2> QED
    BY <1>0, <1>2, <1>3, <1>6, <2>1, <2>3 DEF Makes
<1> QED
  BY <1>7, <1>8 DEF Made

\* A row asked for in vain is closed, and its request asks no more.
GivesUp(p) ==
  LET r == talk[p].row IN
  /\ DataOK' /\ asaas' = asaas /\ rows' \in Rows /\ Len(rows') = Len(rows)
  /\ at[p] \in {"refuse", "drop"}
  /\ \E place \in Places \ AskingPlaces, t \in Talk : Goes(p, place, t) /\ Fine(place, t, Len(rows'))
  /\ \A i \in 1..Len(rows) : i # r => rows'[i] = rows[i]
  /\ rows'[r] = rows[r] \/ (rows[r].status = "REQUESTED" /\ rows'[r].status \in GivenUp)
  /\ rows'[r].cents = rows[r].cents

LEMMA ClosingGivesUp ==
  ASSUME TypeInv, NEW p \in Procs, Refuse(p) \/ Drop(p)
  PROVE  GivesUp(p)
<1> DEFINE r == talk[p].row
<1>0. at[p] \in {"refuse", "drop"} /\ throws(p) /\ UNCHANGED <<asaas, pay, order, left>>
  BY DEF Refuse, Drop
<1>1. rows \in Rows /\ r \in 1..Len(rows)
  BY <1>0, OfOne DEF DataOK, AskingPlaces
<1>2. PICK status \in {"REFUSED", "DROPPED"} : rows' = Closed(rows, r, status)
  BY WritersClose DEF Refuse, Drop
<1>3. /\ rows' \in Rows /\ Len(rows') = Len(rows)
      /\ \A i \in 1..Len(rows) : i # r \/ rows[r].status # "REQUESTED" => rows'[i] = rows[i]
      /\ rows[r].status = "REQUESTED" => rows'[r].status = status
      /\ rows'[r].cents = rows[r].cents
  <2>1. status \in {"PROCESSING", "REFUSED", "DROPPED"}
    OBVIOUS
  <2> HIDE DEF r
  <2> DEFINE closed == Closed(rows, r, status)
  <2>2. /\ closed \in Rows /\ Len(closed) = Len(rows)
        /\ \A i \in 1..Len(rows) : i # r \/ rows[r].status # "REQUESTED" => closed[i] = rows[i]
        /\ rows[r].status = "REQUESTED" => closed[r].status = status
        /\ closed[r].cents = rows[r].cents
    BY <1>1, <2>1, AskedRowClosed
  <2>3. rows' = closed
    BY <1>2
  <2> HIDE DEF closed
  <2> QED
    BY <2>2, <2>3
<1>4. DataOK'
  BY <1>0, <1>3, OfOne DEF DataOK
<1>5. \E place \in Places \ AskingPlaces, t \in Talk : Goes(p, place, t) /\ Fine(place, t, Len(rows'))
  BY <1>0, ThrowsFine
<1> QED
  BY <1>0, <1>1, <1>3, <1>4, <1>5 DEF GivesUp, GivenUp

\* Asaas, and the clock, with every request where it was.
Around(i) ==
  /\ DataOK' /\ UNCHANGED <<at, talk>>
  /\ \/ /\ rows' = rows
        /\ \/ /\ Len(asaas') = Len(asaas)
              /\ \A j \in 1..Len(asaas) : asaas'[j].by = asaas[j].by /\ (asaas[j].shown => asaas'[j].shown)
           \/ \E refund \in Refund : refund.by = 0 /\ asaas' = Append(asaas, refund)
     \/ /\ asaas' = asaas /\ i \in 1..Len(rows) /\ (Timely => ~covered(i))
        /\ rows' = [rows EXCEPT ![i].held = FALSE]

LEMMA ClaimEndsAround ==
  ASSUME TypeInv, NEW i \in DOMAIN rows, ClaimEnds(i)
  PROVE  Around(i)
<1>0. DataOK /\ rows \in Rows /\ i \in 1..Len(rows)
  BY TypesAre DEF DataOK, Rows
<1> DEFINE row == [rows[i] EXCEPT !.held = FALSE]
<1>1. row \in RefundRow
  <2>1. rows[i] \in RefundRow
    BY <1>0 DEF Rows
  <2> QED
    BY <2>1 DEF RefundRow
<1>2. rows' = [rows EXCEPT ![i] = row]
  BY <1>0 DEF ClaimEnds, Rows
<1> HIDE DEF row
<1>3. rows' \in Rows
  BY <1>0, <1>1, <1>2, RowWritten
<1> QED
  BY <1>0, <1>3 DEF ClaimEnds, DataOK, Around

LEMMA RefundChanged ==
  ASSUME TypeInv, NEW j \in DOMAIN asaas, Shows(j) \/ Concludes(j) \/ Cancels(j)
  PROVE  Around(j)
<1>0. DataOK /\ asaas \in Seq(Refund) /\ j \in 1..Len(asaas) /\ asaas[j] \in Refund
  BY TypesAre DEF DataOK
<1>1. PICK refund \in Refund : /\ asaas' = [asaas EXCEPT ![j] = refund]
                               /\ refund.by = asaas[j].by /\ (asaas[j].shown => refund.shown)
  <2>1. /\ [asaas[j] EXCEPT !.shown = TRUE] \in Refund
        /\ [asaas[j] EXCEPT !.status = "DONE"] \in Refund
        /\ [asaas[j] EXCEPT !.status = "CANCELLED"] \in Refund
    BY <1>0 DEF Refund
  <2>2. /\ [asaas[j] EXCEPT !.shown = TRUE].by = asaas[j].by /\ [asaas[j] EXCEPT !.shown = TRUE].shown
        /\ \A status : /\ [asaas[j] EXCEPT !.status = status].by = asaas[j].by
                       /\ [asaas[j] EXCEPT !.status = status].shown = asaas[j].shown
    BY <1>0 DEF Refund
  <2>3. \/ asaas' = [asaas EXCEPT ![j] = [asaas[j] EXCEPT !.shown = TRUE]]
        \/ asaas' = [asaas EXCEPT ![j] = [asaas[j] EXCEPT !.status = "DONE"]]
        \/ asaas' = [asaas EXCEPT ![j] = [asaas[j] EXCEPT !.status = "CANCELLED"]]
    BY <1>0 DEF Shows, Concludes, Cancels
  <2> QED
    BY <2>1, <2>2, <2>3
<1>2. /\ asaas' \in Seq(Refund) /\ Len(asaas') = Len(asaas)
      /\ \A k \in 1..Len(asaas) : asaas'[k] = IF k = j THEN refund ELSE asaas[k]
  BY <1>0, <1>1
<1>3. UNCHANGED <<rows, pay, order, at, talk>>
  BY DEF Shows, Concludes, Cancels, booksStay
<1>4. left' \in Bounds
  BY <1>0, LeftFits DEF Shows, Concludes, Cancels, DataOK
<1>5. DataOK'
  BY <1>0, <1>2, <1>3, <1>4 DEF DataOK
<1>6. \A k \in 1..Len(asaas) : asaas'[k].by = asaas[k].by /\ (asaas[k].shown => asaas'[k].shown)
  BY <1>1, <1>2
<1> QED
  BY <1>2, <1>3, <1>5, <1>6 DEF Around

LEMMA PanelAround ==
  ASSUME TypeInv, PanelRefund
  PROVE  Around(0)
<1>0. DataOK /\ asaas \in Seq(Refund)
  BY TypesAre DEF DataOK
<1>1. PICK cents \in 1..roomAt(asaas) :
        asaas' = Append(asaas, [cents |-> cents, status |-> "PENDING", shown |-> TRUE, by |-> 0])
  BY DEF PanelRefund
<1> DEFINE refund == [cents |-> cents, status |-> "PENDING", shown |-> TRUE, by |-> 0]
<1>2. cents \in 1..Amount
  <2>1. centsOf(asaas, standsAt(asaas)) \in Nat
    BY <1>0, RefundSums
  <2> QED
    BY <2>1, AmountIsPaid DEF roomAt
<1>3. refund \in Refund /\ refund.by = 0
  BY <1>2 DEF Refund
<1> HIDE DEF refund
<1>4. asaas' = Append(asaas, refund)
  BY <1>1 DEF refund
<1>5. asaas' \in Seq(Refund)
  BY <1>0, <1>3, <1>4
<1>6. UNCHANGED <<rows, pay, order, at, talk>> /\ left' \in Bounds
  BY <1>0, LeftFits DEF PanelRefund, booksStay
<1>7. DataOK'
  BY <1>0, <1>5, <1>6 DEF DataOK
<1> QED
  BY <1>3, <1>4, <1>6, <1>7 DEF Around

-----------------------------------------------------------------------------
(* Every step is of one of five kinds. *)

LEMMA ProcStepIs ==
  ASSUME TypeInv, NEW p \in Procs, Ask(p) \/ AskCancel(p) \/ Hear(p) \/ Works(p) \/ Crash(p)
  PROVE  Quiet(p) \/ Begins(p) \/ Makes(p) \/ GivesUp(p)
<1>1. CASE Ask(p) \/ AskCancel(p) \/ Hear(p)
  BY <1>1, AskQuiet
<1>2. CASE Crash(p)
  BY <1>2, CrashQuiet
<1>3. CASE Claim(p)
  BY <1>3, ClaimQuietOrBegins
<1>4. CASE Made(p)
  BY <1>4, MadeMakes
<1>5. CASE Refuse(p) \/ Drop(p)
  BY <1>5, ClosingGivesUp
<1>6. CASE NotMade(p) \/ Write(p) \/ Reread(p) \/ Hold(p) \/ ReadUnknown(p) \/ SettleUnknown(p)
  BY <1>6, NotMadeQuiet, WriteQuiet, RereadQuiet, HoldQuiet, ReadUnknownQuiet, SettleUnknownQuiet
<1>7. CASE HearList(p) \/ HearWrite(p) \/ Before(p) \/ Thrown(p) \/ Cancel(p)
  BY <1>7, HearListQuiet, HearWriteQuiet, BeforeQuiet, ThrownQuiet, CancelQuiet
<1> QED
  BY <1>1, <1>2, <1>3, <1>4, <1>5, <1>6, <1>7 DEF Works

LEMMA StepIs ==
  ASSUME TypeInv, Next
  PROVE  \/ \E p \in Procs : Quiet(p) \/ Begins(p) \/ Makes(p) \/ GivesUp(p)
         \/ \E i \in Nat : Around(i)
<1>2. ASSUME NEW i \in DOMAIN rows, ClaimEnds(i)
      PROVE  i \in Nat /\ Around(i)
  <2>1. Around(i)
    BY <1>2, ClaimEndsAround
  <2>2. rows \in Rows
    BY TypesAre DEF DataOK
  <2> QED
    BY <2>1, <2>2 DEF Rows
<1>3. ASSUME NEW j \in DOMAIN asaas, Shows(j) \/ Concludes(j) \/ Cancels(j)
      PROVE  j \in Nat /\ Around(j)
  <2>1. Around(j)
    BY <1>3, RefundChanged
  <2>2. asaas \in Seq(Refund)
    BY TypesAre DEF DataOK
  <2> QED
    BY <2>1, <2>2
<1>4. PanelRefund => \E i \in Nat : Around(i)
  BY PanelAround
<1> QED
  BY <1>2, <1>3, <1>4, ProcStepIs DEF Next

LEMMA TypeStays ==
  ASSUME TypeInv, [Next]_vars
  PROVE  TypeInv'
<1>0. DataOK /\ ProcsTyped /\ rows \in Rows /\ Len(rows) \in Nat
  BY TypesAre DEF DataOK, Rows
<1>1. CASE UNCHANGED vars
  <2>1. DataOK' /\ ProcsTyped'
    BY <1>0, <1>1 DEF vars, DataOK, ProcsTyped, AllFine
  <2> QED
    BY <2>1, TypesAre DEF TypeInv, TypeOK, DataOK, ProcsTyped, AllFine, Rows, Bounds
<1>2. CASE Next
  <2>1. ASSUME NEW p \in Procs, Quiet(p) \/ Begins(p) \/ Makes(p) \/ GivesUp(p)
        PROVE  DataOK' /\ ProcsTyped'
    <3>1. DataOK' /\ Len(rows') \in Nat /\ Len(rows') >= Len(rows)
      BY <1>0, <2>1 DEF Quiet, Begins, Makes, GivesUp, Moved, DataOK, Rows
    <3>2. \E place, t : Goes(p, place, t) /\ Fine(place, t, Len(rows'))
      BY <2>1 DEF Quiet, Begins, Makes, GivesUp, GoesOn
    <3> QED
      BY <1>0, <3>1, <3>2, ProcessGoes
  <2>2. ASSUME NEW i \in Nat, Around(i)
        PROVE  DataOK' /\ ProcsTyped'
    <3>1. DataOK' /\ UNCHANGED <<at, talk>>
      BY <2>2 DEF Around
    <3>2. Len(rows') \in Nat /\ Len(rows') >= Len(rows)
      BY <1>0, <2>2 DEF Around, Rows
    <3> QED
      BY <1>0, <3>1, <3>2, ProcessStays
  <2>3. DataOK' /\ ProcsTyped'
    BY <1>2, <2>1, <2>2, StepIs
  <2> QED
    BY <2>3 DEF TypeInv, TypeOK, DataOK, ProcsTyped, AllFine, Rows, Bounds
<1> QED
  BY <1>1, <1>2

LEMMA TypeStarts ==
  ASSUME Init
  PROVE  TypeInv
<1>1. DataOK
  BY AmountIsPaid, RefundBounds DEF Init, DataOK, Rows, Payment, Bounds
<1>2. ProcsTyped
  <2>1. Fine("idle", Blank, Len(rows))
    BY BlankIsTalk DEF Fine, Places, AskingPlaces
  <2> QED
    BY <2>1, BlankIsTalk DEF Init, ProcsTyped, AllFine, Places
<1> QED
  BY <1>1, <1>2, TypesAre

\* Every step of every behaviour keeps the types, whatever was paid and whatever is asked:
\* no reading makes the payment say that more is back or on its way than was paid.
THEOREM TypeCorrect == Spec => []TypeOK
<1>1. Init => TypeInv
  BY TypeStarts
<1>2. TypeInv /\ [Next]_vars => TypeInv'
  BY TypeStays
<1>3. TypeInv => TypeOK
  BY DEF TypeInv
<1> QED
  BY <1>1, <1>2, <1>3, PTL DEF Spec

LEMMA RowsGo ==
  ASSUME TypeInv, [Next]_vars
  PROVE  \A i \in DOMAIN rows : i \in DOMAIN rows' /\ goesForward(rows[i], rows'[i])
<1>0. DataOK /\ ProcsTyped /\ rows \in Rows /\ Len(rows) \in Nat /\ DOMAIN rows = 1..Len(rows)
  BY TypesAre DEF DataOK, Rows
<1>1. ASSUME NEW i \in 1..Len(rows), UNCHANGED rows
      PROVE  i \in DOMAIN rows' /\ goesForward(rows[i], rows'[i])
  BY <1>0, <1>1 DEF goesForward
<1>2. ASSUME NEW i \in 1..Len(rows), Moved(rows, rows')
      PROVE  i \in DOMAIN rows' /\ goesForward(rows[i], rows'[i])
  <2>1. Len(rows') \in Nat /\ Len(rows') >= Len(rows) /\ DOMAIN rows' = 1..Len(rows')
    BY <1>0, <1>2 DEF Moved, Rows
  <2> QED
    BY <1>0, <1>2, <2>1 DEF Moved, RowStep
<1>3. ASSUME NEW i \in 1..Len(rows), NEW p \in Procs, Begins(p)
      PROVE  i \in DOMAIN rows' /\ goesForward(rows[i], rows'[i])
  <2>1. DOMAIN rows' = 1..Len(rows') /\ Len(rows') = Len(rows) + 1 /\ rows'[i] = rows[i]
    BY <1>3 DEF Begins, Rows
  <2> QED
    BY <1>0, <2>1 DEF goesForward
<1>4. ASSUME NEW i \in 1..Len(rows), NEW p \in Procs, GivesUp(p)
      PROVE  i \in DOMAIN rows' /\ goesForward(rows[i], rows'[i])
  <2>1. DOMAIN rows' = 1..Len(rows)
    BY <1>4 DEF GivesUp, Rows
  <2> QED
    BY <1>4, <2>1 DEF GivesUp, goesForward
<1>5. ASSUME NEW i \in 1..Len(rows), NEW k \in Nat, Around(k)
      PROVE  i \in DOMAIN rows' /\ goesForward(rows[i], rows'[i])
  <2>1. CASE UNCHANGED rows
    BY <2>1, <1>1
  <2>2. CASE rows' = [rows EXCEPT ![k].held = FALSE] /\ k \in 1..Len(rows)
    <3>1. rows[i] \in RefundRow
      BY <1>0 DEF Rows
    <3>2. DOMAIN rows' = DOMAIN rows
      BY <2>2
    <3>3. rows'[i] = IF i = k THEN [rows[i] EXCEPT !.held = FALSE] ELSE rows[i]
      BY <1>0, <2>2 DEF Rows
    <3>4. rows'[i].cents = rows[i].cents /\ rows'[i].status = rows[i].status
      BY <3>1, <3>3 DEF RefundRow
    <3> QED
      BY <1>0, <3>2, <3>4 DEF goesForward
  <2> QED
    BY <1>5, <2>1, <2>2 DEF Around
<1>6. UNCHANGED vars => UNCHANGED rows
  BY DEF vars
<1>7. \A p \in Procs : /\ Quiet(p) => Moved(rows, rows')
                       /\ Makes(p) => UNCHANGED rows
  BY DEF Quiet, Makes
<1> QED
  BY <1>0, <1>1, <1>2, <1>3, <1>4, <1>5, <1>6, <1>7, StepIs

\* No transaction, however late its reading of Asaas, moves a row back or changes its cents.
THEOREM RowsForward == Spec => RowsGoForward
<1>1. Init => TypeInv
  BY TypeStarts
<1>2. TypeInv /\ [Next]_vars => TypeInv'
  BY TypeStays
<1>3. TypeInv /\ [Next]_vars
      => [\A i \in DOMAIN rows : i \in DOMAIN rows' /\ goesForward(rows[i], rows'[i])]_vars
  BY RowsGo
<1> QED
  BY <1>1, <1>2, <1>3, PTL DEF Spec, RowsGoForward

-----------------------------------------------------------------------------
(* No row is given up while it is asked of Asaas, or made and not shown.   *)
(* The argument needs one row per request, claims that hold as long as the *)
(* row is covered, and nothing made of a row whose request was turned away. *)

Held == \A i \in DOMAIN rows : covered(i) /\ rows[i].status = "REQUESTED" => rows[i].held
Alone == \A p, q \in Procs : asking(p) /\ asking(q) /\ talk[p].row = talk[q].row => p = q
Unmade == \A p \in Procs : at[p] \in {"call", "refuse", "drop"} =>
            \A j \in DOMAIN asaas : asaas[j].by # talk[p].row
Known == \A j \in DOMAIN asaas : asaas[j].by \in 0..Len(rows)

SafeInv == Held /\ Alone /\ Unmade /\ Known /\ NotGivenUp

LEMMA AskingIs ==
  ASSUME NEW p
  PROVE  asking(p) <=> at[p] \in AskingPlaces
BY DEF asking, AskingPlaces

\* After a request went on, it asks for no row it did not ask for before, and the others are where they were.
LEMMA StillAsks ==
  ASSUME TypeInv, NEW p \in Procs, GoesOn(p), NEW q \in Procs, asking(q)'
  PROVE  asking(q) /\ talk'[q].row = talk[q].row
<1>0. at \in [Procs -> Places] /\ talk \in [Procs -> Talk]
  BY OfOne DEF ProcsTyped
<1>1. PICK place \in Places, t \in Talk :
        Goes(p, place, t) /\ (place \in AskingPlaces => at[p] \in AskingPlaces /\ t.row = talk[p].row)
  BY DEF GoesOn
<1>2. at' = [at EXCEPT ![p] = place] /\ talk' = [talk EXCEPT ![p] = t]
  BY <1>1 DEF Goes
<1>3. at'[q] \in AskingPlaces
  BY DEF asking, AskingPlaces
<1>4. CASE q = p
  <2>1. place \in AskingPlaces /\ talk'[q] = t
    BY <1>0, <1>2, <1>3, <1>4
  <2> QED
    BY <1>1, <1>4, <2>1, AskingIs
<1>5. CASE q # p
  <2>1. at'[q] = at[q] /\ talk'[q] = talk[q]
    BY <1>0, <1>2, <1>5
  <2> QED
    BY <1>3, <2>1, AskingIs
<1> QED
  BY <1>4, <1>5

LEMMA StillUnmade ==
  ASSUME TypeInv, NEW p \in Procs, GoesOn(p), asaas' = asaas, NEW q \in Procs, at'[q] \in {"call", "refuse", "drop"}
  PROVE  at[q] \in {"call", "refuse", "drop"} /\ talk'[q].row = talk[q].row
<1>0. at \in [Procs -> Places] /\ talk \in [Procs -> Talk]
  BY OfOne DEF ProcsTyped
<1>1. PICK place \in Places, t \in Talk :
        /\ Goes(p, place, t)
        /\ place \in {"call", "refuse", "drop"} => at[p] = "call"
  BY DEF GoesOn
<1>2. at' = [at EXCEPT ![p] = place]
  BY <1>1 DEF Goes
<1>3. talk'[q].row = talk[q].row
  <2>1. asking(q)'
    BY DEF asking
  <2> QED
    BY <2>1, StillAsks
<1>4. CASE q = p
  BY <1>0, <1>1, <1>2, <1>3, <1>4
<1>5. CASE q # p
  BY <1>0, <1>2, <1>3, <1>5
<1> QED
  BY <1>4, <1>5

LEMMA RowsLast ==
  ASSUME TypeInv, SafeInv, Moved(rows, rows'),
         \A i \in 1..Len(rows) : covered(i)' => covered(i)
  PROVE  Held' /\ NotGivenUp'
<1>0. Len(rows) \in Nat /\ DOMAIN rows = 1..Len(rows)
  BY TypesAre DEF DataOK, Rows
<1>1. Len(rows') \in Nat /\ DOMAIN rows' = 1..Len(rows')
  BY DEF Moved, Rows
<1>2. ASSUME NEW i \in 1..Len(rows'), covered(i)'
      PROVE  /\ rows'[i].status = "REQUESTED" => rows'[i].held
             /\ rows'[i].status \notin GivenUp
  <2>1. CASE i \in 1..Len(rows)
    <3>1. covered(i) /\ RowStep(rows[i], rows'[i])
      BY <1>2, <2>1 DEF Moved
    <3>2. rows[i].status \notin GivenUp /\ (rows[i].status = "REQUESTED" => rows[i].held)
      BY <1>0, <2>1, <3>1 DEF SafeInv, Held, NotGivenUp, GivenUp
    <3> QED
      BY <3>1, <3>2 DEF RowStep
  <2>2. CASE i > Len(rows)
    BY <2>2 DEF Moved
  <2> QED
    BY <1>0, <1>1, <2>1, <2>2
<1>3. Held'
  BY <1>1, <1>2 DEF Held
<1>4. NotGivenUp'
  BY <1>1, <1>2 DEF NotGivenUp, GivenUp
<1> QED
  BY <1>3, <1>4

LEMMA QuietSafe ==
  ASSUME TypeInv, SafeInv, NEW p \in Procs, Quiet(p)
  PROVE  SafeInv'
<1>0. asaas' = asaas /\ Moved(rows, rows') /\ GoesOn(p)
  BY DEF Quiet
<1>1. \A i \in 1..Len(rows) : covered(i)' => covered(i)
  BY <1>0, StillAsks DEF covered
<1>2. Held' /\ NotGivenUp'
  BY <1>0, <1>1, RowsLast
<1>3. Alone'
  BY <1>0, StillAsks DEF Alone, SafeInv
<1>4. Unmade'
  BY <1>0, StillUnmade DEF Unmade, SafeInv
<1>5. Known'
  <2>1. Len(rows) \in Nat /\ Len(rows') \in Nat /\ Len(rows') >= Len(rows)
    BY <1>0, TypesAre DEF Moved, DataOK, Rows
  <2> QED
    BY <1>0, <2>1 DEF Known, SafeInv
<1> QED
  BY <1>2, <1>3, <1>4, <1>5 DEF SafeInv

\* The row just claimed is nobody else's, held, and nothing was made of it.
LEMMA BeginsSafe ==
  ASSUME TypeInv, SafeInv, NEW p \in Procs, Begins(p)
  PROVE  SafeInv'
<1> DEFINE n == Len(rows)
<1>0. /\ n \in Nat /\ DOMAIN rows = 1..n /\ DOMAIN rows' = 1..(n + 1) /\ asaas' = asaas
      /\ at \in [Procs -> Places] /\ talk \in [Procs -> Talk] /\ Len(rows') = n + 1
  BY TypesAre DEF DataOK, Rows, Begins, ProcsTyped
<1>1. PICK t \in Talk : Goes(p, "call", t) /\ t.row = n + 1
  BY DEF Begins
<1>2. \A q \in Procs : /\ q # p => at'[q] = at[q] /\ talk'[q] = talk[q]
                       /\ q = p => at'[q] = "call" /\ talk'[q].row = n + 1
  BY <1>0, <1>1 DEF Goes
<1>3. \A q \in Procs : asking(q) => talk[q].row \in 1..n
  BY AskingIs, OfOne
<1>4. \A q \in Procs : q # p /\ asking(q)' => asking(q) /\ talk'[q].row = talk[q].row
  BY <1>2 DEF asking
<1>5. ASSUME NEW i \in 1..n, covered(i)'
      PROVE  covered(i)
  <2>1. n + 1 # i
    BY <1>0
  <2>2. CASE \E q \in Procs : asking(q)' /\ talk'[q].row = i
    BY <1>2, <1>4, <2>1, <2>2 DEF covered
  <2>3. CASE \E j \in DOMAIN asaas : asaas[j].by = i /\ ~asaas[j].shown
    BY <2>3 DEF covered
  <2> QED
    BY <1>0, <1>5, <2>2, <2>3 DEF covered
<1>6. ASSUME NEW i \in 1..(n + 1), covered(i)'
      PROVE  /\ rows'[i].status = "REQUESTED" => rows'[i].held
             /\ rows'[i].status \notin {"REFUSED", "DROPPED"}
  <2>1. CASE i \in 1..n
    <3>1. rows'[i] = rows[i] /\ covered(i)
      BY <1>5, <1>6, <2>1 DEF Begins
    <3> QED
      BY <1>0, <2>1, <3>1 DEF SafeInv, Held, NotGivenUp
  <2>2. CASE i = n + 1
    BY <2>2 DEF Begins
  <2> QED
    BY <1>0, <2>1, <2>2
<1>7. Held' /\ NotGivenUp'
  BY <1>0, <1>6 DEF Held, NotGivenUp
<1>8. Alone'
  <2> SUFFICES ASSUME NEW q \in Procs, NEW r \in Procs, asking(q)', asking(r)', talk'[q].row = talk'[r].row
               PROVE  q = r
    BY DEF Alone
  <2>1. CASE q # p /\ r # p
    BY <1>4, <2>1 DEF Alone, SafeInv
  <2>2. \A s \in Procs : s # p /\ asking(s)' => talk'[s].row \in 1..n /\ talk'[s].row # n + 1
    BY <1>0, <1>3, <1>4
  <2> QED
    BY <1>2, <2>1, <2>2
<1>9. Unmade'
  <2> SUFFICES ASSUME NEW q \in Procs, at'[q] \in {"call", "refuse", "drop"}, NEW j \in DOMAIN asaas
               PROVE  asaas[j].by # talk'[q].row
    BY <1>0 DEF Unmade
  <2>1. CASE q = p
    <3>1. asaas[j].by \in 0..n
      BY DEF Known, SafeInv
    <3> QED
      BY <1>0, <1>2, <2>1, <3>1
  <2>2. CASE q # p
    BY <1>2, <2>2 DEF Unmade, SafeInv
  <2> QED
    BY <2>1, <2>2
<1>10. Known'
  BY <1>0 DEF Known, SafeInv
<1> QED
  BY <1>7, <1>8, <1>9, <1>10 DEF SafeInv

LEMMA MakesSafe ==
  ASSUME TypeInv, SafeInv, NEW p \in Procs, Makes(p)
  PROVE  SafeInv'
<1> DEFINE n == Len(asaas)
           r == talk[p].row
<1>0. /\ n \in Nat /\ DOMAIN asaas = 1..n /\ asaas \in Seq(Refund) /\ rows' = rows /\ GoesOn(p)
      /\ at[p] = "call" /\ at'[p] \in {"write", "lost"} /\ asking(p) /\ r \in 1..Len(rows) /\ Len(rows) \in Nat
  BY OfOne, AskingIs DEF DataOK, Makes, AskingPlaces
<1>1. PICK refund \in Refund : refund.by = r /\ asaas' = Append(asaas, refund)
  BY DEF Makes
<1>2. /\ DOMAIN asaas' = 1..(n + 1) /\ asaas'[n + 1] = refund
      /\ \A j \in 1..n : asaas'[j] = asaas[j]
  BY <1>0, <1>1
<1>3. ASSUME NEW i, covered(i)'
      PROVE  covered(i)
  <2>1. CASE \E q \in Procs : asking(q)' /\ talk'[q].row = i
    BY <1>0, <2>1, StillAsks DEF covered
  <2>2. CASE \E j \in DOMAIN asaas' : asaas'[j].by = i /\ ~asaas'[j].shown
    <3>1. PICK j \in 1..(n + 1) : asaas'[j].by = i /\ ~asaas'[j].shown
      BY <1>2, <2>2
    <3>2. CASE j \in 1..n
      BY <1>0, <1>2, <3>1, <3>2 DEF covered
    <3>3. CASE j = n + 1
      BY <1>0, <1>1, <1>2, <3>1, <3>3 DEF covered
    <3> QED
      BY <1>0, <3>2, <3>3
  <2> QED
    BY <1>3, <2>1, <2>2 DEF covered
<1>4. Held' /\ NotGivenUp'
  BY <1>0, <1>3 DEF Held, NotGivenUp, SafeInv
<1>5. Alone'
  BY <1>0, StillAsks DEF Alone, SafeInv
<1>6. Unmade'
  <2> SUFFICES ASSUME NEW q \in Procs, at'[q] \in {"call", "refuse", "drop"}, NEW j \in 1..(n + 1)
               PROVE  asaas'[j].by # talk'[q].row
    BY <1>2 DEF Unmade
  <2>1. q # p
    BY <1>0
  <2>2. asking(q) /\ talk'[q].row = talk[q].row
    <3>1. asking(q)'
      BY DEF asking
    <3> QED
      BY <1>0, <3>1, StillAsks
  <2>3. at[q] \in {"call", "refuse", "drop"}
    <3>1. \E place, t : Goes(p, place, t)
      BY <1>0 DEF GoesOn
    <3> QED
      BY <2>1, <3>1, OfOne DEF Goes, ProcsTyped
  <2>4. talk[q].row # r
    BY <1>0, <2>1, <2>2 DEF Alone, SafeInv
  <2>5. CASE j \in 1..n
    BY <1>0, <1>2, <2>2, <2>3, <2>5 DEF Unmade, SafeInv
  <2>6. CASE j = n + 1
    BY <1>1, <1>2, <2>2, <2>4, <2>6
  <2> QED
    BY <1>0, <2>5, <2>6
<1>7. Known'
  <2>1. \A j \in 1..(n + 1) : asaas'[j].by \in 0..Len(rows)
    <3>1. \A j \in 1..n : asaas'[j].by \in 0..Len(rows)
      BY <1>0, <1>2 DEF Known, SafeInv
    <3>2. asaas'[n + 1].by \in 0..Len(rows)
      BY <1>0, <1>1, <1>2
    <3> QED
      BY <1>0, <3>1, <3>2
  <2> QED
    BY <1>0, <1>2, <2>1 DEF Known
<1> QED
  BY <1>4, <1>5, <1>6, <1>7 DEF SafeInv

\* The row given up is covered no more: its request was alone with it, and nothing was made of it.
LEMMA GivesUpSafe ==
  ASSUME TypeInv, SafeInv, NEW p \in Procs, GivesUp(p)
  PROVE  SafeInv'
<1> DEFINE r == talk[p].row
<1>0. /\ Len(rows) \in Nat /\ DOMAIN rows = 1..Len(rows) /\ DOMAIN rows' = DOMAIN rows /\ Len(rows') = Len(rows)
      /\ asaas' = asaas /\ at[p] \in {"refuse", "drop"} /\ asking(p)
      /\ at \in [Procs -> Places] /\ talk \in [Procs -> Talk]
  BY OfOne, AskingIs DEF DataOK, Rows, GivesUp, AskingPlaces, ProcsTyped
<1>1. PICK place \in Places \ AskingPlaces, t \in Talk : Goes(p, place, t) /\ Fine(place, t, Len(rows'))
  BY DEF GivesUp
<1>2. at'[p] \notin AskingPlaces /\ \A q \in Procs \ {p} : at'[q] = at[q] /\ talk'[q] = talk[q]
  BY <1>0, <1>1 DEF Goes
<1>3. \A q \in Procs : asking(q)' => q # p /\ asking(q) /\ talk'[q].row = talk[q].row
  BY <1>2 DEF asking, AskingPlaces
<1>4. \A i : covered(i)' => covered(i)
  BY <1>0, <1>3 DEF covered
<1>5. ASSUME NEW i, covered(i)' PROVE i # r
  <2>1. ~ \E q \in Procs : asking(q)' /\ talk'[q].row = r
    BY <1>0, <1>3 DEF Alone, SafeInv
  <2>2. ~ \E j \in DOMAIN asaas : asaas[j].by = r
    BY <1>0 DEF Unmade, SafeInv
  <2> QED
    BY <1>0, <1>5, <2>1, <2>2 DEF covered
<1>6. ASSUME NEW i \in 1..Len(rows), covered(i)'
      PROVE  rows'[i] = rows[i] /\ covered(i)
  BY <1>4, <1>5, <1>6 DEF GivesUp
<1>7. Held' /\ NotGivenUp'
  BY <1>0, <1>6 DEF Held, NotGivenUp, SafeInv
<1>8. Alone' /\ Known'
  BY <1>0, <1>3 DEF Alone, Known, SafeInv
<1>9. Unmade'
  <2>1. \A q \in Procs : at'[q] \in {"call", "refuse", "drop"} => q # p
    BY <1>2 DEF AskingPlaces
  <2> QED
    BY <1>0, <1>2, <2>1 DEF Unmade, SafeInv
<1> QED
  BY <1>7, <1>8, <1>9 DEF SafeInv

LEMMA AroundSafe ==
  ASSUME Timely, TypeInv, SafeInv, NEW i \in Nat, Around(i)
  PROVE  SafeInv'
<1>0. /\ Len(rows) \in Nat /\ DOMAIN rows = 1..Len(rows) /\ rows \in Rows
      /\ asaas \in Seq(Refund) /\ Len(asaas) \in Nat /\ DOMAIN asaas = 1..Len(asaas) /\ DataOK'
  BY TypesAre DEF DataOK, Rows, Around
<1>1. /\ UNCHANGED <<at, talk>>
      /\ \A q \in Procs : asking(q)' <=> asking(q)
      /\ \A q \in Procs : asking(q) => talk[q].row \in 1..Len(rows)
  BY AskingIs, OfOne DEF Around, asking
<1>2. Alone'
  BY <1>1 DEF Alone, SafeInv
<1>3. CASE rows' = rows
  <2>1. ASSUME NEW j \in DOMAIN asaas'
        PROVE  \/ asaas'[j].by = 0
               \/ /\ j \in DOMAIN asaas /\ asaas'[j].by = asaas[j].by
                  /\ asaas[j].shown => asaas'[j].shown
    <3>1. CASE /\ Len(asaas') = Len(asaas)
               /\ \A k \in 1..Len(asaas) : asaas'[k].by = asaas[k].by /\ (asaas[k].shown => asaas'[k].shown)
      <4>1. DOMAIN asaas' = 1..Len(asaas)
        BY <1>0, <3>1 DEF DataOK
      <4> QED
        BY <1>0, <2>1, <3>1, <4>1
    <3>2. CASE \E refund \in Refund : refund.by = 0 /\ asaas' = Append(asaas, refund)
      <4>1. PICK refund \in Refund : refund.by = 0 /\ asaas' = Append(asaas, refund)
        BY <3>2
      <4>2. j \in 1..(Len(asaas) + 1) /\ asaas'[j] = IF j = Len(asaas) + 1 THEN refund ELSE asaas[j]
        BY <1>0, <2>1, <4>1
      <4> QED
        BY <1>0, <4>1, <4>2
    <3>3. CASE asaas' = asaas
      BY <2>1, <3>3
    <3> QED
      BY <3>1, <3>2, <3>3 DEF Around
  <2>2. \A k \in 1..Len(rows) : covered(k)' => covered(k)
    BY <1>1, <2>1 DEF covered
  <2>3. Held' /\ NotGivenUp'
    BY <1>0, <1>3, <2>2 DEF Held, NotGivenUp, SafeInv
  <2>4. Unmade'
    <3> SUFFICES ASSUME NEW q \in Procs, at[q] \in {"call", "refuse", "drop"}, NEW j \in DOMAIN asaas'
                 PROVE  asaas'[j].by # talk[q].row
      BY <1>1 DEF Unmade
    <3>1. talk[q].row # 0
      BY <1>1 DEF asking
    <3> QED
      BY <2>1, <3>1 DEF Unmade, SafeInv
  <2>5. Known'
    BY <1>0, <1>3, <2>1 DEF Known, SafeInv
  <2> QED
    BY <1>2, <2>3, <2>4, <2>5 DEF SafeInv
<1>4. CASE /\ asaas' = asaas /\ i \in 1..Len(rows) /\ ~covered(i)
           /\ rows' = [rows EXCEPT ![i].held = FALSE]
  <2>1. \A k \in 1..Len(rows) : covered(k)' <=> covered(k)
    BY <1>1, <1>4 DEF covered
  <2>2. DOMAIN rows' = DOMAIN rows /\ Len(rows') = Len(rows) /\ \A k \in 1..Len(rows) : k # i => rows'[k] = rows[k]
    BY <1>0, <1>4 DEF Rows
  <2>3. Held' /\ NotGivenUp'
    BY <1>0, <1>4, <2>1, <2>2 DEF Held, NotGivenUp, SafeInv
  <2>4. Unmade' /\ Known'
    BY <1>1, <1>4, <2>2 DEF Unmade, Known, SafeInv
  <2> QED
    BY <1>2, <2>3, <2>4 DEF SafeInv
<1> QED
  BY <1>3, <1>4 DEF Around

LEMMA SafeStays ==
  ASSUME Timely, TypeInv, SafeInv, [Next]_vars
  PROVE  SafeInv'
<1>1. CASE UNCHANGED vars
  BY <1>1 DEF vars, SafeInv, Held, Alone, Unmade, Known, NotGivenUp, covered, asking
<1>2. CASE Next
  BY <1>2, StepIs, QuietSafe, BeginsSafe, MakesSafe, GivesUpSafe, AroundSafe
<1> QED
  BY <1>1, <1>2

LEMMA SafeStarts ==
  ASSUME Init
  PROVE  SafeInv
BY DEF Init, SafeInv, Held, Alone, Unmade, Known, NotGivenUp, asking

\* While a claim and a hold outlast the call they cover and the time Asaas takes to show what it made,
\* no row is given up whose refund is being asked or was made: its money is not asked for again.
THEOREM GivenUpOnlyWhenGone == ASSUME Timely PROVE Spec => []NotGivenUp
<1>1. Init => TypeInv /\ SafeInv
  BY TypeStarts, SafeStarts
<1>2. TypeInv /\ SafeInv /\ [Next]_vars => TypeInv' /\ SafeInv'
  BY TypeStays, SafeStays
<1>3. SafeInv => NotGivenUp
  BY DEF SafeInv
<1> QED
  BY <1>1, <1>2, <1>3, PTL DEF Spec


-----------------------------------------------------------------------------
(* What the rows are made of, and what was read. *)

\* A reading written, with what its transaction does to the row it asked for.
ReadingWritten(new) ==
  \E p \in Procs, authoritative \in BOOLEAN :
    LET known == reconcileRefunds(rows, talk[p].read, authoritative)
        r == talk[p].row
    IN /\ talk[p].read \in RefundTotals
       /\ new = known \/ (r \in 1..Len(rows) /\ (new = takeRefund(known, r) \/ new = holdRefund(known, r)))

OwnRowWritten(new) ==
  \E r \in 1..Len(rows) : \/ new = refuseRefund(rows, r) \/ new = dropRefund(rows, r) \/ new = holdRefund(rows, r)
                          \/ new = [rows EXCEPT ![r].held = FALSE]

ClaimWritten(new) == \E cents \in 1..Amount : cents <= refundableOf(rows) /\ new = claimRefund(rows, cents)

LEMMA RowsAreWritten ==
  ASSUME TypeInv, Next
  PROVE  rows' = rows \/ ReadingWritten(rows') \/ OwnRowWritten(rows') \/ ClaimWritten(rows')
<1>0. rows \in Rows /\ DOMAIN rows = 1..Len(rows)
  BY TypesAre, RowsAreCents DEF DataOK
<1>1. ASSUME NEW p \in Procs, Claim(p), rows' # rows PROVE ClaimWritten(rows')
  <2>1. mayClaim(talk[p]) /\ rows' = claimRefund(rows, talk[p].want) /\ at[p] = "claim"
    BY <1>1 DEF Claim
  <2>2. talk[p].want \in 1..Amount
    BY <2>1, OfOne, AmountIsPaid DEF Fine, Talk
  <2> QED
    BY <2>1, <2>2 DEF ClaimWritten, mayClaim
<1>2. ASSUME NEW p \in Procs, Write(p) PROVE ReadingWritten(rows')
  <2>1. at[p] = "write" /\ rows' = takeRefund(reconcileRefunds(rows, talk[p].read, FALSE), talk[p].row)
    BY <1>2 DEF Write, writes
  <2>2. talk[p].read \in RefundTotals /\ talk[p].row \in 1..Len(rows)
    BY <2>1, HeldRead, OfOne DEF AskingPlaces
  <2> QED
    BY <2>1, <2>2 DEF ReadingWritten
<1>3. ASSUME NEW p \in Procs, Hold(p) PROVE ReadingWritten(rows') \/ OwnRowWritten(rows')
  <2>1. /\ at[p] = "hold"
        /\ rows' = holdRefund(IF talk[p].read = Unread THEN rows ELSE reconcileRefunds(rows, talk[p].read, FALSE), talk[p].row)
    BY <1>3 DEF Hold, writes
  <2>2. talk[p].read \in RefundTotals \cup {Unread} /\ talk[p].row \in 1..Len(rows)
    BY <2>1, OfOne DEF Talk, AskingPlaces
  <2>3. CASE talk[p].read = Unread
    BY <2>1, <2>2, <2>3 DEF OwnRowWritten
  <2>4. CASE talk[p].read # Unread
    BY <2>1, <2>2, <2>4 DEF ReadingWritten
  <2> QED
    BY <2>3, <2>4
<1>4. ASSUME NEW p \in Procs, SettleUnknown(p) \/ HearWrite(p) PROVE ReadingWritten(rows')
  <2>1. /\ at[p] \in {"settled", "heard"}
        /\ \E authoritative \in BOOLEAN : rows' = reconcileRefunds(rows, talk[p].read, authoritative)
    BY <1>4 DEF SettleUnknown, HearWrite, writes
  <2>2. talk[p].read \in RefundTotals
    BY <2>1, HeldRead
  <2> QED
    BY <2>1, <2>2 DEF ReadingWritten
<1>5. ASSUME NEW p \in Procs, Refuse(p) \/ Drop(p) PROVE OwnRowWritten(rows')
  <2>1. at[p] \in {"refuse", "drop"} /\ (rows' = refuseRefund(rows, talk[p].row) \/ rows' = dropRefund(rows, talk[p].row))
    BY <1>5 DEF Refuse, Drop
  <2>2. talk[p].row \in 1..Len(rows)
    BY <2>1, OfOne DEF AskingPlaces
  <2> QED
    BY <2>1, <2>2 DEF OwnRowWritten
<1>6. ASSUME NEW i \in DOMAIN rows, ClaimEnds(i) PROVE OwnRowWritten(rows')
  BY <1>0, <1>6 DEF ClaimEnds, OwnRowWritten
<1>7. ASSUME NEW p \in Procs, \/ Ask(p) \/ AskCancel(p) \/ Hear(p) \/ Crash(p) \/ Made(p) \/ NotMade(p) \/ Reread(p)
                              \/ ReadUnknown(p) \/ HearList(p) \/ Before(p) \/ Thrown(p) \/ Cancel(p)
      PROVE  rows' = rows
  BY <1>7 DEF Ask, AskCancel, Hear, Crash, Made, NotMade, Reread, ReadUnknown, HearList, Before, Thrown, Cancel, booksStay
<1>8. ASSUME NEW j \in DOMAIN asaas, Shows(j) \/ Concludes(j) \/ Cancels(j) PROVE rows' = rows
  BY <1>8 DEF Shows, Concludes, Cancels, booksStay
<1>9. PanelRefund => rows' = rows
  BY DEF PanelRefund, booksStay
<1> QED
  BY <1>1, <1>2, <1>3, <1>4, <1>5, <1>6, <1>7, <1>8, <1>9 DEF Next, Works

\* A row's own writer keeps its cents, and closes it only while it is asked.
OwnStep(books, new) ==
  /\ new \in Rows /\ Len(new) = Len(books)
  /\ \A i \in 1..Len(books) :
       /\ new[i].cents = books[i].cents
       /\ \/ new[i].status = books[i].status
          \/ books[i].status = "REQUESTED" /\ new[i].status \in {"PROCESSING", "REFUSED", "DROPPED"}

LEMMA ClosedIsOwn ==
  ASSUME NEW books \in Rows, NEW r \in 1..Len(books), NEW status \in {"PROCESSING", "REFUSED", "DROPPED"}
  PROVE  OwnStep(books, Closed(books, r, status))
<1> DEFINE closed == Closed(books, r, status)
<1>1. /\ closed \in Rows /\ Len(closed) = Len(books)
      /\ \A i \in 1..Len(books) : i # r \/ books[r].status # "REQUESTED" => closed[i] = books[i]
      /\ books[r].status = "REQUESTED" => closed[r].status = status
      /\ closed[r].cents = books[r].cents
  BY AskedRowClosed
<1> HIDE DEF closed
<1>2. OwnStep(books, closed)
  BY <1>1 DEF OwnStep
<1> QED
  BY <1>2 DEF closed

LEMMA HeldIsOwn ==
  ASSUME NEW books \in Rows, NEW r \in 1..Len(books)
  PROVE  /\ OwnStep(books, holdRefund(books, r))
         /\ OwnStep(books, [books EXCEPT ![r].held = FALSE])
<1> DEFINE held == holdRefund(books, r)
           row == [books[r] EXCEPT !.held = FALSE]
           wrote == [books EXCEPT ![r] = row]
<1>1. /\ held \in Rows /\ Len(held) = Len(books)
      /\ \A i \in 1..Len(books) : held[i].status = books[i].status /\ held[i].cents = books[i].cents
  BY AskedRowHeld
<1>2. [books EXCEPT ![r].held = FALSE] = wrote
  BY DEF Rows
<1>3. row \in RefundRow /\ row.cents = books[r].cents /\ row.status = books[r].status
  <2>1. books[r] \in RefundRow
    BY DEF Rows
  <2> QED
    BY <2>1 DEF RefundRow
<1> HIDE DEF row
<1>4. /\ wrote \in Rows /\ Len(wrote) = Len(books) /\ wrote[r] = row
      /\ \A i \in 1..Len(books) : i # r => wrote[i] = books[i]
  BY <1>3, RowWritten
<1> HIDE DEF held, wrote
<1>5. OwnStep(books, held)
  BY <1>1 DEF OwnStep
<1>6. OwnStep(books, wrote)
  BY <1>3, <1>4 DEF OwnStep
<1> QED
  BY <1>2, <1>5, <1>6 DEF held

\* The sums a row's own writer leaves no larger: what stands, and what is denied.
LEMMA RowWriterSums ==
  ASSUME NEW books \in Rows, NEW r \in 1..Len(books), NEW new,
         \/ new = takeRefund(books, r) \/ new = refuseRefund(books, r) \/ new = dropRefund(books, r)
         \/ new = holdRefund(books, r) \/ new = [books EXCEPT ![r].held = FALSE],
         NEW statuses \in {STANDING_REFUNDS, {"DENIED"}}
  PROVE  new \in Rows /\ sumOf(new, statuses) <= sumOf(books, statuses)
<1>1. OwnStep(books, new)
  BY WritersClose, ClosedIsOwn, HeldIsOwn, Zenon
<1>2. \A i \in 1..Len(books) : new[i].status \in statuses => books[i].status \in statuses
  BY <1>1 DEF OwnStep, STANDING_REFUNDS
<1>3. /\ new \in Rows /\ Len(new) = Len(books)
      /\ \A i \in 1..Len(books) : /\ new[i].cents = books[i].cents
                                  /\ new[i].status \in statuses => books[i].status \in statuses
  BY <1>1, <1>2 DEF OwnStep
<1> QED
  BY <1>3, SumsFall

\* What stands, whatever is asked and read: the claim is written under the lock, for no more than is
\* left, and a reading adds rows for no more than is left.
LEMMA StandingFits ==
  ASSUME TypeInv, NeverMoreThanPaid, [Next]_vars
  PROVE  NeverMoreThanPaid'
<1>0. rows \in Rows /\ Len(rows) \in Nat
  BY TypesAre, RowsAreCents DEF DataOK, Cents
<1>1. CASE rows' = rows
  BY <1>1 DEF NeverMoreThanPaid
<1>2. CASE OwnRowWritten(rows')
  <2>1. sumOf(rows', STANDING_REFUNDS) <= sumOf(rows, STANDING_REFUNDS) /\ rows' \in Rows
    BY <1>0, <1>2, RowWriterSums DEF OwnRowWritten
  <2>2. sumOf(rows, STANDING_REFUNDS) \in Nat /\ sumOf(rows', STANDING_REFUNDS) \in Nat
    BY <1>0, <2>1, RowsSums
  <2> QED
    BY <2>1, <2>2, AmountIsPaid DEF NeverMoreThanPaid
<1>3. CASE ReadingWritten(rows')
  <2>1. PICK p \in Procs, authoritative \in BOOLEAN :
          LET known == reconcileRefunds(rows, talk[p].read, authoritative)
              r == talk[p].row
          IN /\ talk[p].read \in RefundTotals
             /\ rows' = known \/ (r \in 1..Len(rows) /\ (rows' = takeRefund(known, r) \/ rows' = holdRefund(known, r)))
    BY <1>3 DEF ReadingWritten
  <2> DEFINE known == reconcileRefunds(rows, talk[p].read, authoritative)
             r == talk[p].row
  <2>2. sumOf(known, STANDING_REFUNDS) <= Amount /\ known \in Rows /\ Len(known) >= Len(rows)
    BY <1>0, <2>1, ReconcileSums, ReconcileKeeps DEF NeverMoreThanPaid
  <2>3. rows' = known \/ (r \in 1..Len(rows) /\ (rows' = takeRefund(known, r) \/ rows' = holdRefund(known, r)))
    BY <2>1
  <2> HIDE DEF known
  <2>4. CASE rows' = known
    BY <2>2, <2>4 DEF NeverMoreThanPaid
  <2>5. CASE r \in 1..Len(rows) /\ (rows' = takeRefund(known, r) \/ rows' = holdRefund(known, r))
    <3>1. r \in 1..Len(known)
      BY <1>0, <2>2, <2>5 DEF Rows
    <3>2. rows' \in Rows /\ sumOf(rows', STANDING_REFUNDS) <= sumOf(known, STANDING_REFUNDS)
      BY <2>2, <2>5, <3>1, RowWriterSums
    <3>3. sumOf(known, STANDING_REFUNDS) \in Nat /\ sumOf(rows', STANDING_REFUNDS) \in Nat
      BY <2>2, <3>2, RowsSums
    <3> QED
      BY <2>2, <3>2, <3>3, AmountIsPaid DEF NeverMoreThanPaid
  <2> QED
    BY <2>3, <2>4, <2>5
<1>4. CASE ClaimWritten(rows')
  <2>1. PICK cents \in 1..Amount : cents <= refundableOf(rows) /\ rows' = claimRefund(rows, cents)
    BY <1>4 DEF ClaimWritten
  <2> DEFINE row == [cents |-> cents, status |-> "REQUESTED", held |-> TRUE]
             new == Append(rows, row)
  <2>2. row \in RefundRow /\ row.status \in STANDING_REFUNDS /\ row.cents = cents
    BY DEF RefundRow, RefundStatuses, STANDING_REFUNDS
  <2>3. rows' = new
    BY <2>1 DEF claimRefund
  <2> HIDE DEF row
  <2>4. /\ new \in Rows /\ Len(new) = Len(rows) + 1
        /\ \A i \in 1..Len(rows) : new[i] = rows[i]
        /\ new[Len(new)] = row
    BY <1>0, <2>2 DEF Rows
  <2> HIDE DEF new
  <2>5. sumOf(new, STANDING_REFUNDS) = sumOf(rows, STANDING_REFUNDS) + IF new[Len(new)].status \in STANDING_REFUNDS THEN new[Len(new)].cents ELSE 0
    BY <1>0, <2>4, SumOneRowMore
  <2>6. sumOf(new, STANDING_REFUNDS) = sumOf(rows, STANDING_REFUNDS) + cents
    BY <2>2, <2>4, <2>5
  <2>7. sumOf(rows, STANDING_REFUNDS) \in Nat
    BY <1>0, RowsSums
  <2>8. sumOf(new, STANDING_REFUNDS) <= Amount
    BY <2>1, <2>6, <2>7, AmountIsPaid DEF refundableOf, NotBelow0, NeverMoreThanPaid
  <2> QED
    BY <2>3, <2>8 DEF NeverMoreThanPaid
<1> QED
  BY <1>1, <1>2, <1>3, <1>4, RowsAreWritten DEF vars

\* The refunds that stand never add up to more than was paid, whatever was asked at once, whatever
\* was found at Asaas's panel, and however late each reading is written.
THEOREM PaidOnceOnly == Spec => []NeverMoreThanPaid
<1>1. Init => TypeInv /\ NeverMoreThanPaid
  <2>1. ASSUME Init PROVE NeverMoreThanPaid
    <3>1. rows = <<>> /\ rows \in Rows
      BY <2>1 DEF Init, Rows
    <3>2. \A i \in 1..Len(rows) : i \notin rowsIn(rows, STANDING_REFUNDS)
      BY <3>1
    <3>3. sumOf(rows, STANDING_REFUNDS) = 0
      BY <3>1, <3>2, RowsAreCents, SumOfNone DEF sumOf
    <3> QED
      BY <3>3, AmountIsPaid DEF NeverMoreThanPaid
  <2> QED
    BY <2>1, TypeStarts
<1>2. TypeInv /\ NeverMoreThanPaid /\ [Next]_vars => TypeInv' /\ NeverMoreThanPaid'
  BY TypeStays, StandingFits
<1> QED
  BY <1>1, <1>2, PTL DEF Spec


\* What a request holds read of Asaas was read before, or is read now.
Readings(list) == {totalsOf(list)} \cup listings(list)

LEMMA ReadsAre ==
  ASSUME TypeInv, Next, NEW q \in Procs
  PROVE  talk'[q].read = talk[q].read \/ talk'[q].read = Unread \/ talk'[q].read \in Readings(asaas')
<1>0. talk \in [Procs -> Talk]
  BY TypesAre DEF ProcsTyped
<1> DEFINE Read(t) == t.read = talk[q].read \/ t.read = Unread \/ t.read \in Readings(asaas')
<1>u. Blank.read = Unread /\ \A kind : [Blank EXCEPT !.kind = kind].read = Unread
  BY DEF Blank
<1>e. ASSUME NEW p \in Procs, ends(p) \/ throws(p) \/ told(p) PROVE Read(talk'[q])
  <2>1. PICK t : t.read = Unread /\ talk' = [talk EXCEPT ![p] = t]
    BY <1>e DEF ends, throws, told, Blank
  <2> QED
    BY <1>0, <2>1
<1>a. ASSUME NEW p \in Procs, after(p) PROVE Read(talk'[q])
  <2>1. talk[p] \in Talk
    BY <1>0
  <2> DEFINE u == [talk[p] EXCEPT !.next = "idle", !.known = 0, !.read = Unread, !.whole = FALSE]
  <2>3. u.read = Unread
    BY <2>1 DEF Talk
  <2>4. talk' = [talk EXCEPT ![p] = IF talk[p].next = "idle" THEN Blank ELSE u]
    BY <1>0, <1>a DEF after
  <2> HIDE DEF u
  <2>2. PICK t : t.read = Unread /\ talk' = [talk EXCEPT ![p] = t]
    BY <1>u, <2>3, <2>4
  <2> QED
    BY <1>0, <2>2
<1>s. UNCHANGED talk => Read(talk'[q])
  OBVIOUS
<1>r. ASSUME NEW p \in Procs, talk' = [talk EXCEPT ![p].read = totalsOf(asaas')] PROVE Read(talk'[q])
  <2>1. talk[p] \in Talk
    BY <1>0
  <2>2. PICK t : t.read = totalsOf(asaas') /\ talk' = [talk EXCEPT ![p] = t]
    BY <1>0, <1>r, <2>1 DEF Talk
  <2> QED
    BY <1>0, <2>2 DEF Readings
<1>1. ASSUME NEW p \in Procs, Ask(p) \/ AskCancel(p) PROVE Read(talk'[q])
  <2>1. PICK t : t.read = Unread /\ talk' = [talk EXCEPT ![p] = t]
    BY <1>1 DEF Ask, AskCancel, Blank
  <2> QED
    BY <1>0, <2>1
<1>2. ASSUME NEW p \in Procs, Hear(p) \/ Before(p) \/ Claim(p) PROVE Read(talk'[q])
  <2>0. talk[p] \in Talk
    BY <1>0
  <2>1. CASE \E t : t.read = talk[p].read /\ talk' = [talk EXCEPT ![p] = t]
    BY <1>0, <2>1
  <2>2. CASE ~\E t : t.read = talk[p].read /\ talk' = [talk EXCEPT ![p] = t]
    <3>1. \A known, want, row : /\ [talk[p] EXCEPT !.known = known].read = talk[p].read
                                /\ [talk[p] EXCEPT !.want = want].read = talk[p].read
                                /\ [talk[p] EXCEPT !.row = row, !.saw = 0, !.again = FALSE].read = talk[p].read
      BY <2>0 DEF Talk
    <3>2. \/ ends(p) \/ throws(p) \/ UNCHANGED talk
          \/ \E known : talk' = [talk EXCEPT ![p] = [talk[p] EXCEPT !.known = known]]
          \/ \E want : talk' = [talk EXCEPT ![p] = [talk[p] EXCEPT !.want = want]]
          \/ \E row : talk' = [talk EXCEPT ![p] = [talk[p] EXCEPT !.row = row, !.saw = 0, !.again = FALSE]]
      <4>1. CASE Hear(p)
        <5>1. talk' = [talk EXCEPT ![p] = [talk[p] EXCEPT !.known = knownOf(pay)]]
          BY <1>0, <4>1 DEF Hear
        <5> QED
          BY <5>1
      <4>2. CASE Before(p)
        <5> DEFINE want == IF refundableOf(rows) > 0 THEN refundableOf(rows) ELSE talk[p].saw
        <5>1. ends(p) \/ UNCHANGED talk \/ talk' = [talk EXCEPT ![p] = [talk[p] EXCEPT !.want = want]]
          BY <1>0, <4>2 DEF Before
        <5> QED
          BY <5>1
      <4>3. CASE Claim(p)
        <5>1. \/ throws(p) \/ UNCHANGED talk
              \/ talk' = [talk EXCEPT ![p] = [talk[p] EXCEPT !.row = Len(rows) + 1, !.saw = 0, !.again = FALSE]]
          BY <1>0, <4>3 DEF Claim
        <5> QED
          BY <5>1
      <4> QED
        BY <1>2, <4>1, <4>2, <4>3
    <3> QED
      BY <1>e, <1>s, <2>2, <3>1, <3>2
  <2> QED
    BY <2>1, <2>2
<1>3. ASSUME NEW p \in Procs, Made(p) \/ NotMade(p) \/ Reread(p) \/ ReadUnknown(p) PROVE Read(talk'[q])
  <2>1. \/ talk' = [talk EXCEPT ![p].read = totalsOf(asaas')] \/ UNCHANGED talk \/ throws(p)
    BY <1>3 DEF Made, NotMade, Reread, ReadUnknown
  <2> QED
    BY <1>e, <1>r, <1>s, <2>1
<1>4. ASSUME NEW p \in Procs, Write(p) \/ Refuse(p) \/ Drop(p) \/ Hold(p) \/ Thrown(p) \/ Cancel(p) \/ Crash(p) PROVE Read(talk'[q])
  <2>1. told(p) \/ throws(p) \/ ends(p) \/ UNCHANGED talk
    BY <1>4 DEF Write, Refuse, Drop, Hold, Thrown, Cancel, Crash
  <2> QED
    BY <1>e, <1>s, <2>1
<1>5. ASSUME NEW p \in Procs, SettleUnknown(p) PROVE Read(talk'[q])
  <2>1. talk[p] \in Talk
    BY <1>0
  <2> DEFINE u == [talk[p] EXCEPT !.read = Unread, !.again = TRUE, !.next = "claim", !.known = knownOf(pay')]
  <2>3. u.read = Unread
    BY <2>1 DEF Talk
  <2>4. talk' = [talk EXCEPT ![p] = u]
    BY <1>0, <1>5 DEF SettleUnknown
  <2> HIDE DEF u
  <2>2. PICK t : t.read = Unread /\ talk' = [talk EXCEPT ![p] = t]
    BY <2>3, <2>4
  <2> QED
    BY <1>0, <2>2
<1>6. ASSUME NEW p \in Procs, HearList(p) PROVE Read(talk'[q])
  <2>1. CASE after(p)
    BY <1>a, <2>1
  <2>2. CASE ~after(p)
    <3>1. PICK listed \in listings(asaas) :
            talk' = [talk EXCEPT ![p].read = heard(listed, talk[p].known), ![p].known = 0, ![p].whole = wholeAt(asaas)]
      BY <1>6, <2>2 DEF HearList
    <3> DEFINE read == heard(listed, talk[p].known)
               t == [talk[p] EXCEPT !.read = read, !.known = 0, !.whole = wholeAt(asaas)]
    <3>2. talk[p] \in Talk /\ asaas' = asaas
      BY <1>0, <1>6 DEF HearList
    <3>3. read \in Readings(asaas')
      BY <3>2 DEF heard, Readings
    <3>4. talk' = [talk EXCEPT ![p] = t]
      BY <1>0, <3>1
    <3> HIDE DEF read
    <3>5. t.read = read
      BY <3>2 DEF Talk
    <3> HIDE DEF t
    <3> QED
      BY <1>0, <3>3, <3>4, <3>5
  <2> QED
    BY <2>1, <2>2
<1>7. ASSUME NEW p \in Procs, HearWrite(p) PROVE Read(talk'[q])
  BY <1>a, <1>7 DEF HearWrite
<1>8. \/ \E i \in DOMAIN rows : ClaimEnds(i)
      \/ \E j \in DOMAIN asaas : Shows(j) \/ Concludes(j) \/ Cancels(j)
      \/ PanelRefund
      => UNCHANGED talk
  BY DEF ClaimEnds, Shows, Concludes, Cancels, PanelRefund
<1> QED
  BY <1>1, <1>2, <1>3, <1>4, <1>5, <1>6, <1>7, <1>8, <1>s DEF Next, Works


\* Asaas forgets no refund, and takes none back once it concluded or was cancelled.
Grown(list, new) ==
  /\ new \in Seq(Refund) /\ Len(new) \in {Len(list), Len(list) + 1}
  /\ \A j \in 1..Len(list) :
       /\ new[j].cents = list[j].cents /\ new[j].by = list[j].by /\ (list[j].shown => new[j].shown)
       /\ new[j].status = list[j].status \/ (list[j].status = "PENDING" /\ new[j].status \in {"DONE", "CANCELLED"})
  /\ \A j \in 1..Len(new) : j > Len(list) => new[j].status = "PENDING"

LEMMA AsaasGrows ==
  ASSUME TypeInv, [Next]_vars
  PROVE  Grown(asaas, asaas')
<1>0. asaas \in Seq(Refund) /\ Len(asaas) \in Nat /\ DOMAIN asaas = 1..Len(asaas)
  BY TypesAre DEF DataOK
<1>1. ASSUME asaas' = asaas PROVE Grown(asaas, asaas')
  <2>1. Grown(asaas, asaas)
    BY <1>0 DEF Grown
  <2> QED
    BY <1>1, <2>1
<1>2. ASSUME NEW refund \in Refund, refund.status = "PENDING", asaas' = Append(asaas, refund)
      PROVE  Grown(asaas, asaas')
  <2>1. /\ asaas' \in Seq(Refund) /\ Len(asaas') = Len(asaas) + 1
        /\ \A j \in 1..Len(asaas) : asaas'[j] = asaas[j]
        /\ asaas'[Len(asaas) + 1] = refund
    BY <1>0, <1>2
  <2> QED
    BY <1>0, <1>2, <2>1 DEF Grown
<1>3. ASSUME NEW p \in Procs, Made(p) PROVE Grown(asaas, asaas')
  <2>1. PICK shown \in BOOLEAN :
          asaas' = Append(asaas, [cents |-> talk[p].want, status |-> "PENDING", shown |-> shown, by |-> talk[p].row])
    BY <1>3 DEF Made
  <2>2. at[p] = "call"
    BY <1>3 DEF Made
  <2>3. talk[p].want \in 1..Amount /\ talk[p].row \in Nat
    BY <2>2, OfOne, AmountIsPaid DEF Fine, Talk
  <2> DEFINE refund == [cents |-> talk[p].want, status |-> "PENDING", shown |-> shown, by |-> talk[p].row]
  <2>4. refund \in Refund /\ refund.status = "PENDING"
    BY <2>3 DEF Refund
  <2>5. asaas' = Append(asaas, refund)
    BY <2>1
  <2> HIDE DEF refund
  <2> QED
    BY <1>2, <2>4, <2>5
<1>4. ASSUME PanelRefund PROVE Grown(asaas, asaas')
  <2>1. PICK cents \in 1..roomAt(asaas) :
          asaas' = Append(asaas, [cents |-> cents, status |-> "PENDING", shown |-> TRUE, by |-> 0])
    BY <1>4 DEF PanelRefund
  <2> DEFINE refund == [cents |-> cents, status |-> "PENDING", shown |-> TRUE, by |-> 0]
  <2>2. cents \in 1..Amount
    <3>1. centsOf(asaas, standsAt(asaas)) \in Nat
      BY <1>0, RefundSums
    <3> QED
      BY <3>1, AmountIsPaid DEF roomAt
  <2>3. refund \in Refund /\ refund.status = "PENDING"
    BY <2>2 DEF Refund
  <2>4. asaas' = Append(asaas, refund)
    BY <2>1
  <2> HIDE DEF refund
  <2> QED
    BY <1>2, <2>3, <2>4
<1>5. ASSUME NEW j \in DOMAIN asaas, Shows(j) \/ Concludes(j) \/ Cancels(j) PROVE Grown(asaas, asaas')
  <2>0. asaas[j] \in Refund /\ j \in 1..Len(asaas)
    BY <1>0
  <2>1. PICK refund \in Refund :
          /\ asaas' = [asaas EXCEPT ![j] = refund]
          /\ refund.cents = asaas[j].cents /\ refund.by = asaas[j].by /\ (asaas[j].shown => refund.shown)
          /\ refund.status = asaas[j].status \/ (asaas[j].status = "PENDING" /\ refund.status \in {"DONE", "CANCELLED"})
    <3>1. CASE Shows(j)
      <4> DEFINE refund == [asaas[j] EXCEPT !.shown = TRUE]
      <4>1. /\ refund \in Refund /\ refund.shown
            /\ refund.cents = asaas[j].cents /\ refund.by = asaas[j].by /\ refund.status = asaas[j].status
        BY <2>0 DEF Refund
      <4>2. asaas' = [asaas EXCEPT ![j] = refund]
        BY <1>0, <3>1 DEF Shows
      <4> HIDE DEF refund
      <4> QED
        BY <4>1, <4>2
    <3>2. CASE Concludes(j) \/ Cancels(j)
      <4>1. PICK status \in {"DONE", "CANCELLED"} : asaas' = [asaas EXCEPT ![j].status = status]
        BY <3>2 DEF Concludes, Cancels
      <4> DEFINE refund == [asaas[j] EXCEPT !.status = status]
      <4>2. /\ refund \in Refund /\ refund.shown = asaas[j].shown /\ refund.status \in {"DONE", "CANCELLED"}
            /\ refund.cents = asaas[j].cents /\ refund.by = asaas[j].by
        BY <2>0, <4>1 DEF Refund
      <4>3. asaas' = [asaas EXCEPT ![j] = refund] /\ asaas[j].status = "PENDING"
        BY <1>0, <3>2, <4>1 DEF Concludes, Cancels
      <4> HIDE DEF refund
      <4> QED
        BY <4>2, <4>3
    <3> QED
      BY <1>5, <3>1, <3>2
  <2>2. /\ asaas' \in Seq(Refund) /\ Len(asaas') = Len(asaas)
        /\ \A k \in 1..Len(asaas) : asaas'[k] = IF k = j THEN refund ELSE asaas[k]
    BY <1>0, <2>0, <2>1
  <2> QED
    BY <1>0, <2>0, <2>1, <2>2 DEF Grown
<1>6. ASSUME NEW p \in Procs, \/ Ask(p) \/ AskCancel(p) \/ Hear(p) \/ Crash(p) \/ Claim(p) \/ NotMade(p) \/ Reread(p)
                              \/ Write(p) \/ Refuse(p) \/ Drop(p) \/ Hold(p) \/ SettleUnknown(p) \/ HearWrite(p)
                              \/ ReadUnknown(p) \/ HearList(p) \/ Before(p) \/ Thrown(p) \/ Cancel(p)
      PROVE  asaas' = asaas
  BY <1>6 DEF Ask, AskCancel, Hear, Crash, Claim, NotMade, Reread, Write, Refuse, Drop, Hold, SettleUnknown,
              HearWrite, ReadUnknown, HearList, Before, Thrown, Cancel
<1>7. ASSUME NEW i \in DOMAIN rows, ClaimEnds(i) PROVE asaas' = asaas
  BY <1>7 DEF ClaimEnds
<1>8. UNCHANGED vars => asaas' = asaas
  BY DEF vars
<1> QED
  BY <1>1, <1>3, <1>4, <1>5, <1>6, <1>7, <1>8 DEF Next, Works

LEMMA RefundsAreCents ==
  ASSUME NEW list \in Seq(Refund)
  PROVE  Cents(list) /\ DOMAIN list = 1..Len(list)
<1>1. Len(list) \in Nat /\ DOMAIN list = 1..Len(list) /\ \A i \in 1..Len(list) : list[i] \in Refund
  OBVIOUS
<1>2. \A r \in Refund : r.cents \in Nat
  BY AmountIsPaid DEF Refund
<1> QED
  BY <1>1, <1>2 DEF Cents

cancelledAt(list) == centsOf(list, refundsAt(list, {"CANCELLED"}))

LEMMA CancelledIsRead ==
  ASSUME NEW list \in Seq(Refund), NEW t \in Readings(list)
  PROVE  t \in RefundTotals /\ t.cancelled <= cancelledAt(list)
<1> DEFINE shown == {i \in DOMAIN list : list[i].shown}
           cancelled == refundsAt(list, {"CANCELLED"})
           sums == refundTotalsOf(list)
<1>1. /\ centsOf(list, shown \cap cancelled) <= centsOf(list, cancelled)
      /\ centsOf(list, cancelled) \in Nat
  <2>1. Cents(list) /\ shown \cap cancelled \subseteq cancelled
    BY RefundsAreCents
  <2> HIDE DEF shown, cancelled
  <2> QED
    BY <2>1, SumsAreNatural DEF Cents
<1>2. sums.cancelled = centsOf(list, shown \cap cancelled)
  BY DEF refundTotalsOf
<1> HIDE DEF shown, cancelled
<1>3. t \in RefundTotals
  BY ReadingsAreTotals DEF Readings
<1>4. t.cancelled = 0 \/ t.cancelled = sums.cancelled
  <2>1. NO_REFUNDS.cancelled = 0 /\ [NO_REFUNDS EXCEPT !.done = Amount].cancelled = 0
    BY DEF NO_REFUNDS
  <2>2. \A u \in {NO_REFUNDS, sums} : [u EXCEPT !.done = Amount, !.pending = 0].cancelled = u.cancelled
    BY DEF NO_REFUNDS, refundTotalsOf
  <2>3. t = totalsOf(list) => t.cancelled = 0 \/ t.cancelled = sums.cancelled
    BY <2>1 DEF totalsOf
  <2>4. t \in listings(list) => t.cancelled = 0 \/ t.cancelled = sums.cancelled
    <3> HIDE DEF sums
    <3>1. listings(list) = {IF wholeAt(list) THEN [u EXCEPT !.done = Amount, !.pending = 0] ELSE u : u \in {NO_REFUNDS, sums}}
      BY DEF listings, sums
    <3> QED
      BY <2>1, <2>2, <3>1
  <2> QED
    BY <2>3, <2>4 DEF Readings
<1> QED
  BY <1>1, <1>2, <1>3, <1>4 DEF cancelledAt, cancelled

\* What Asaas concluded or cancelled stays so.
LEMMA SettledGrows ==
  ASSUME NEW list \in Seq(Refund), NEW new, Grown(list, new), NEW status \in {"DONE", "CANCELLED"}
  PROVE  centsOf(list, refundsAt(list, {status})) <= centsOf(new, refundsAt(new, {status}))
<1> DEFINE wc == refundsAt(list, {status})
           wa == refundsAt(new, {status})
<1>0. /\ new \in Seq(Refund) /\ Cents(list) /\ Cents(new)
      /\ DOMAIN list = 1..Len(list) /\ DOMAIN new = 1..Len(new)
      /\ Len(list) \in Nat /\ Len(new) \in Nat /\ Len(new) >= Len(list)
  BY RefundsAreCents DEF Grown, Cents
<1>1. ASSUME NEW i \in Nat \ {0} PROVE Share(list, wc, i) <= Share(new, wa, i)
  <2>0. Share(new, wa, i) \in Nat
    BY <1>0, SharesAreNatural
  <2>1. CASE i \in 1..Len(list)
    <3>0. i \in 1..Len(new)
      BY <1>0, <2>1
    <3>3. new[i].cents = list[i].cents /\ (list[i].status = status => new[i].status = status)
      BY <2>1 DEF Grown
    <3>1. i \in wc => i \in wa
      BY <1>0, <2>1, <3>0, <3>3 DEF refundsAt
    <3>2. list[i].cents \in Nat
      BY <1>0, <2>1 DEF Cents
    <3> HIDE DEF wa, wc
    <3> QED
      BY <2>0, <2>1, <3>0, <3>1, <3>2, <3>3 DEF Share
  <2>2. CASE i \notin 1..Len(list)
    BY <2>0, <2>2 DEF Share
  <2> QED
    BY <2>1, <2>2
<1> HIDE DEF wa, wc
<1>2. centsOf(list, wc) <= centsOf(new, wa)
  BY <1>0, <1>1, SumsOrdered
<1> QED
  BY <1>2 DEF wa, wc

LEMMA CancelledGrows ==
  ASSUME NEW list \in Seq(Refund), NEW new, Grown(list, new)
  PROVE  cancelledAt(list) <= cancelledAt(new)
BY SettledGrows DEF cancelledAt


CancelledKnown == \A p \in Procs : talk[p].read # Unread => talk[p].read.cancelled <= cancelledAt(asaas)

LEMMA DeniedFits ==
  ASSUME TypeInv, CancelledKnown, DeniedIsCancelled, [Next]_vars
  PROVE  CancelledKnown' /\ DeniedIsCancelled'
<1>0. rows \in Rows /\ asaas \in Seq(Refund) /\ asaas' \in Seq(Refund)
  BY TypesAre, AsaasGrows DEF DataOK, Grown
<1>1. cancelledAt(asaas) <= cancelledAt(asaas') /\ cancelledAt(asaas) \in Nat /\ cancelledAt(asaas') \in Nat
  BY <1>0, AsaasGrows, CancelledGrows, RefundSums DEF cancelledAt
<1>c. DeniedIsCancelled <=> sumOf(rows, {"DENIED"}) <= cancelledAt(asaas)
  BY DEF DeniedIsCancelled, cancelledAt, everCancelled
<1>d. DeniedIsCancelled' <=> sumOf(rows', {"DENIED"}) <= cancelledAt(asaas')
  BY DEF DeniedIsCancelled, cancelledAt, everCancelled
<1>2. CASE UNCHANGED vars
  BY <1>2 DEF vars, CancelledKnown, DeniedIsCancelled, everCancelled, cancelledAt
<1>3. CASE Next
  <2>1. ASSUME NEW q \in Procs, talk'[q].read # Unread
        PROVE  talk'[q].read.cancelled <= cancelledAt(asaas')
    <3>1. CASE talk'[q].read = talk[q].read
      <4>1. talk[q].read \in RefundTotals
        <5>1. talk[q] \in Talk
          BY OfOne
        <5> QED
          BY <2>1, <3>1, <5>1 DEF Talk
      <4>2. talk[q].read.cancelled \in Nat /\ talk[q].read.cancelled <= cancelledAt(asaas)
        BY <2>1, <3>1, <4>1 DEF CancelledKnown, RefundTotals
      <4> QED
        BY <1>1, <3>1, <4>2
    <3>2. CASE talk'[q].read \in Readings(asaas')
      BY <1>0, <3>2, CancelledIsRead
    <3> QED
      BY <1>3, <2>1, <3>1, <3>2, ReadsAre
  <2>2. CancelledKnown'
    BY <2>1 DEF CancelledKnown
  <2>3. sumOf(rows, {"DENIED"}) \in Nat
    BY <1>0, RowsSums
  <2>4. CASE rows' = rows
    BY <1>1, <1>c, <1>d, <2>2, <2>3, <2>4
  <2>5. CASE OwnRowWritten(rows')
    <3>1. sumOf(rows', {"DENIED"}) <= sumOf(rows, {"DENIED"}) /\ rows' \in Rows
      BY <1>0, <2>5, RowWriterSums DEF OwnRowWritten
    <3>2. sumOf(rows', {"DENIED"}) \in Nat
      BY <3>1, RowsSums
    <3> QED
      BY <1>1, <1>c, <1>d, <2>2, <2>3, <3>1, <3>2
  <2>6. CASE ReadingWritten(rows')
    <3>1. PICK p \in Procs, authoritative \in BOOLEAN :
            LET known == reconcileRefunds(rows, talk[p].read, authoritative)
                r == talk[p].row
            IN /\ talk[p].read \in RefundTotals
               /\ rows' = known \/ (r \in 1..Len(rows) /\ (rows' = takeRefund(known, r) \/ rows' = holdRefund(known, r)))
      BY <2>6 DEF ReadingWritten
    <3> DEFINE known == reconcileRefunds(rows, talk[p].read, authoritative)
               r == talk[p].row
    <3>2. /\ known \in Rows /\ Len(known) >= Len(rows)
          /\ \/ sumOf(known, {"DENIED"}) <= sumOf(rows, {"DENIED"})
             \/ sumOf(known, {"DENIED"}) <= talk[p].read.cancelled
      BY <1>0, <3>1, ReconcileSums, ReconcileKeeps
    <3>3. rows' = known \/ (r \in 1..Len(rows) /\ (rows' = takeRefund(known, r) \/ rows' = holdRefund(known, r)))
      BY <3>1
    <3>4. talk[p].read.cancelled <= cancelledAt(asaas) /\ talk[p].read.cancelled \in Nat
      BY <3>1, NothingRead DEF CancelledKnown, RefundTotals
    <3> HIDE DEF known
    <3>5. sumOf(known, {"DENIED"}) \in Nat
      BY <3>2, RowsSums
    <3>6. sumOf(known, {"DENIED"}) <= cancelledAt(asaas)
      BY <1>1, <1>c, <2>3, <3>2, <3>4, <3>5
    <3>7. rows' \in Rows /\ sumOf(rows', {"DENIED"}) <= sumOf(known, {"DENIED"})
      <4>1. CASE rows' = known
        BY <3>2, <3>5, <4>1
      <4>2. CASE r \in 1..Len(rows) /\ (rows' = takeRefund(known, r) \/ rows' = holdRefund(known, r))
        <5>1. r \in 1..Len(known)
          BY <1>0, <3>2, <4>2 DEF Rows
        <5> QED
          BY <3>2, <4>2, <5>1, RowWriterSums
      <4> QED
        BY <3>3, <4>1, <4>2
    <3>8. sumOf(rows', {"DENIED"}) \in Nat
      BY <3>7, RowsSums
    <3> QED
      BY <1>1, <1>d, <2>2, <3>5, <3>6, <3>7, <3>8
  <2>7. CASE ClaimWritten(rows')
    <3>1. PICK cents \in 1..Amount : rows' = claimRefund(rows, cents)
      BY <2>7 DEF ClaimWritten
    <3>2. /\ rows' \in Rows /\ Len(rows') = Len(rows) + 1
          /\ \A i \in 1..Len(rows) : rows'[i] = rows[i]
          /\ rows'[Len(rows')].status = "REQUESTED"
      <4> DEFINE new == claimRefund(rows, cents)
      <4>1. /\ new \in Rows /\ Len(new) = Len(rows) + 1
            /\ \A i \in 1..Len(rows) : new[i] = rows[i]
            /\ new[Len(rows) + 1].status = "REQUESTED"
        BY <1>0, RowAdded
      <4> HIDE DEF new
      <4> QED
        BY <3>1, <4>1 DEF new
    <3>3. sumOf(rows', {"DENIED"})
            = sumOf(rows, {"DENIED"}) + IF rows'[Len(rows')].status \in {"DENIED"} THEN rows'[Len(rows')].cents ELSE 0
      BY <1>0, <3>2, SumOneRowMore
    <3>4. sumOf(rows', {"DENIED"}) = sumOf(rows, {"DENIED"})
      BY <2>3, <3>2, <3>3
    <3> QED
      BY <1>1, <1>c, <1>d, <2>2, <2>3, <3>4
  <2> QED
    BY <1>3, <2>4, <2>5, <2>6, <2>7, RowsAreWritten
<1> QED
  BY <1>2, <1>3

\* Whatever readings cross, and however late they are written, no more money is said to be denied
\* than Asaas cancelled: a shop is not told to give back again what was given back.
THEOREM DeniedOnlyWhenCancelled == Spec => []DeniedIsCancelled
<1>1. Init => TypeInv /\ CancelledKnown /\ DeniedIsCancelled
  <2>1. ASSUME Init PROVE CancelledKnown /\ DeniedIsCancelled
    <3>1. rows = <<>> /\ rows \in Rows /\ asaas = <<>> /\ asaas \in Seq(Refund)
      BY <2>1 DEF Init, Rows
    <3>2. \A i \in 1..Len(rows) : i \notin rowsIn(rows, {"DENIED"})
      BY <3>1
    <3>3. sumOf(rows, {"DENIED"}) = 0
      BY <3>1, <3>2, RowsAreCents, SumOfNone DEF sumOf
    <3>4. centsOf(asaas, everCancelled) \in Nat
      BY <3>1, RefundSums
    <3>5. CancelledKnown
      BY <2>1 DEF Init, CancelledKnown, Blank
    <3> QED
      BY <3>3, <3>4, <3>5 DEF DeniedIsCancelled
  <2> QED
    BY <2>1, TypeStarts
<1>2. TypeInv /\ CancelledKnown /\ DeniedIsCancelled /\ [Next]_vars
      => TypeInv' /\ CancelledKnown' /\ DeniedIsCancelled'
  BY TypeStays, DeniedFits
<1> QED
  BY <1>1, <1>2, PTL DEF Spec

-----------------------------------------------------------------------------
(* Rows that agree with Asaas: every refund of the charge was asked for here and none was cancelled. *)

usedUpto(list, k) == {list[j].by : j \in 1..k}
used(list) == usedUpto(list, Len(list))
backAt(list) == centsOf(list, refundsAt(list, {"DONE"}))

\* Each refund has its row, which stands, and later refunds have later rows.
AskedHere(books, list) ==
  /\ \A j \in 1..Len(list) : /\ list[j].by \in 1..Len(books)
                             /\ books[list[j].by].cents = list[j].cents
                             /\ books[list[j].by].status \in STANDING_REFUNDS
  /\ \A j, k \in 1..Len(list) : k < j => list[k].by < list[j].by

\* A row is taken only for a refund, none is denied, and only the last may still be asked.
TakenHere(books, list) ==
  /\ \A i \in 1..Len(books) : books[i].status \in TAKEN_REFUNDS \cup {"DENIED"} =>
       i \in used(list) /\ books[i].status # "DENIED"
  /\ \A i \in 1..Len(books) : books[i].status = "REQUESTED" => i = Len(books)

\* The oldest rows are done first, and their money is back.
DoneHere(books, list) ==
  /\ \A i, j \in 1..Len(books) :
       i < j /\ books[i].status \in STANDING_REFUNDS /\ books[j].status = "DONE" => books[i].status = "DONE"
  /\ sumOf(books, {"DONE"}) <= backAt(list)

Agree(books, list) == AskedHere(books, list) /\ TakenHere(books, list) /\ DoneHere(books, list)

\* A reading of the k oldest refunds, of which no more came back than has.
ReadAs(totals, list, k) ==
  /\ k \in 0..Len(list) /\ totals.cancelled = 0
  /\ totals.done + totals.pending = centsOf(list, 1..k)
  /\ totals.done <= backAt(list)

\* Two lists that hold as much at every place have the same sum.
LEMMA SameShares ==
  ASSUME NEW a, Cents(a), NEW c, Cents(c), NEW wa, NEW wc,
         \A i \in Nat \ {0} : Share(c, wc, i) = Share(a, wa, i)
  PROVE  centsOf(c, wc) = centsOf(a, wa)
<1>1. \A i : Share(a, wa, i) \in Nat
  BY SharesAreNatural
<1>2. /\ \A i \in Nat \ {0} : Share(c, wc, i) <= Share(a, wa, i)
      /\ \A i \in Nat \ {0} : Share(a, wa, i) <= Share(c, wc, i)
  BY <1>1
<1>3. centsOf(c, wc) <= centsOf(a, wa) /\ centsOf(a, wa) \in Nat /\ centsOf(c, wc) \in Nat
  BY <1>2, SumsOrdered
<1>4. centsOf(a, wa) <= centsOf(c, wc)
  BY <1>2, SumsOrdered
<1> QED
  BY <1>3, <1>4

LEMMA SameSums ==
  ASSUME NEW a, Cents(a), NEW c, Cents(c), Len(c) = Len(a),
         \A i \in 1..Len(a) : c[i].cents = a[i].cents
  PROVE  \A which : centsOf(c, which) = centsOf(a, which)
<1> SUFFICES ASSUME NEW which PROVE centsOf(c, which) = centsOf(a, which)
  OBVIOUS
<1>1. \A i \in Nat \ {0} : Share(c, which, i) = Share(a, which, i)
  BY DEF Share
<1> QED
  BY <1>1, SameShares

LEMMA RowsSameSums ==
  ASSUME NEW books \in Rows, NEW new \in Rows, Len(new) = Len(books),
         \A i \in 1..Len(books) : new[i].cents = books[i].cents
  PROVE  \A which : centsOf(new, which) = centsOf(books, which)
BY RowsAreCents, SameSums

\* The k oldest refunds add up to their rows.
LEMMA UsedSums ==
  ASSUME NEW books \in Rows, NEW list \in Seq(Refund), AskedHere(books, list), NEW k \in 0..Len(list)
  PROVE  centsOf(list, 1..k) = centsOf(books, usedUpto(list, k))
<1> DEFINE n == Len(list)
           Ok(m) == centsOf(list, 1..m) = centsOf(books, usedUpto(list, m))
           Bad == {m \in 0..n : ~Ok(m)}
<1>0. n \in Nat /\ Cents(list) /\ Cents(books)
  BY RefundsAreCents, RowsAreCents DEF Cents
<1>1. Bad = {}
  <2> SUFFICES ASSUME Bad # {} PROVE FALSE
    OBVIOUS
  <2> HIDE DEF Ok
  <2>0. Bad \subseteq Nat
    BY <1>0
  <2>1. PICK m \in Bad : \A i \in Bad : m <= i
    BY <2>0, NatHasLeast
  <2>2. m # 0
    <3>1. Ok(0)
      <4>1. \A i \in 1..Len(list) : i \notin 1..0
        OBVIOUS
      <4>2. \A i \in 1..Len(books) : i \notin usedUpto(list, 0)
        BY DEF usedUpto
      <4>3. centsOf(list, 1..0) = 0 /\ centsOf(books, usedUpto(list, 0)) = 0
        BY <1>0, <4>1, <4>2, SumOfNone
      <4> QED
        BY <4>3 DEF Ok
    <3> QED
      BY <2>1, <3>1
  <2>3. m \in 1..n /\ Ok(m - 1) /\ m - 1 \in 0..n
    <3>1. m - 1 \in 0..n /\ ~(m <= m - 1) /\ m \in 1..n
      BY <2>1, <2>2, <1>0
    <3> QED
      BY <2>1, <3>1
  <2> DEFINE row == list[m].by
  <2>4. row \in 1..Len(books) /\ books[row].cents = list[m].cents
    BY <2>3 DEF AskedHere
  <2>5. 1..m = (1..(m - 1)) \cup {m} /\ (1..(m - 1)) \cap {m} = {}
    BY <2>3
  <2>6. /\ usedUpto(list, m) = usedUpto(list, m - 1) \cup {row}
        /\ usedUpto(list, m - 1) \cap {row} = {}
    <3>1. \A i \in 1..(m - 1) : list[i].by < row
      BY <2>3, <1>0 DEF AskedHere
    <3>2. \A i \in 1..(m - 1) : list[i].by # row
      <4>1. \A i \in 1..(m - 1) : list[i].by \in 1..Len(books)
        BY <2>3, <1>0 DEF AskedHere
      <4> QED
        BY <2>4, <3>1, <4>1
    <3> HIDE DEF row
    <3> QED
      BY <2>5, <3>2 DEF usedUpto, row
  <2> HIDE DEF row
  <2>7. centsOf(list, (1..(m - 1)) \cup {m}) = centsOf(list, 1..(m - 1)) + centsOf(list, {m})
    BY <1>0, <2>5, SumOfBoth
  <2>8. centsOf(books, usedUpto(list, m - 1) \cup {row}) = centsOf(books, usedUpto(list, m - 1)) + centsOf(books, {row})
    BY <1>0, <2>6, SumOfBoth
  <2>9. centsOf(list, {m}) = list[m].cents /\ centsOf(books, {row}) = books[row].cents
    BY <1>0, <2>3, <2>4, SumOfOne
  <2>10. centsOf(list, 1..(m - 1)) = centsOf(books, usedUpto(list, m - 1))
    BY <2>3 DEF Ok
  <2>11. centsOf(list, 1..m) = centsOf(list, (1..(m - 1)) \cup {m})
    BY <2>5, Zenon
  <2>12. centsOf(books, usedUpto(list, m)) = centsOf(books, usedUpto(list, m - 1) \cup {row})
    BY <2>6, Zenon
  <2>13. Ok(m)
    BY <2>4, <2>7, <2>8, <2>9, <2>10, <2>11, <2>12 DEF Ok
  <2> QED
    BY <2>1, <2>13
<1> QED
  BY <1>1

\* Those rows stand, and are older than any other that does.
LEMMA UsedStand ==
  ASSUME NEW books \in Rows, NEW list \in Seq(Refund), Agree(books, list), NEW k \in 0..Len(list)
  PROVE  LET K == usedUpto(list, k) IN
         /\ K \subseteq 1..Len(books) /\ K \subseteq used(list)
         /\ \A i \in K : books[i].status \in STANDING_REFUNDS
         /\ \A i \in 1..Len(books) : books[i].status \in STANDING_REFUNDS /\ i \notin K => \A r \in K : r < i
         /\ k = Len(list) => K = used(list)
<1> DEFINE K == usedUpto(list, k)
<1>0. /\ Len(list) \in Nat /\ Len(books) \in Nat /\ 1..k \subseteq 1..Len(list)
      /\ AskedHere(books, list) /\ TakenHere(books, list)
  BY RefundsAreCents, RowsAreCents DEF Cents, Agree
<1>1. K \subseteq 1..Len(books) /\ K \subseteq used(list) /\ \A i \in K : books[i].status \in STANDING_REFUNDS
  BY <1>0 DEF AskedHere, usedUpto, used
<1>2. ASSUME NEW i \in 1..Len(books), books[i].status \in STANDING_REFUNDS, i \notin K, NEW r \in K
      PROVE  r < i
  <2>1. PICK j \in 1..k : r = list[j].by
    BY DEF usedUpto
  <2>2. CASE i \in used(list)
    <3>1. PICK m \in 1..Len(list) : i = list[m].by
      BY <2>2 DEF used, usedUpto
    <3>2. m \notin 1..k
      BY <1>2, <3>1 DEF usedUpto
    <3>3. j \in 1..Len(list) /\ j < m
      BY <1>0, <2>1, <3>1, <3>2
    <3> QED
      BY <1>0, <2>1, <3>1, <3>3 DEF AskedHere
  <2>3. CASE i \notin used(list)
    <3>1. books[i].status = "REQUESTED"
      BY <1>0, <1>2, <2>3 DEF TakenHere, STANDING_REFUNDS, TAKEN_REFUNDS
    <3>2. i = Len(books)
      BY <1>0, <3>1 DEF TakenHere
    <3>3. r \in 1..Len(books) /\ r # i
      BY <1>1, <1>2
    <3> QED
      BY <1>0, <3>2, <3>3
  <2> QED
    BY <2>2, <2>3
<1>3. k = Len(list) => K = used(list)
  BY DEF used
<1> HIDE DEF K
<1>4. \A i \in 1..Len(books) : books[i].status \in STANDING_REFUNDS /\ i \notin K => \A r \in K : r < i
  BY <1>2
<1> QED
  BY <1>1, <1>3, <1>4 DEF K

LEMMA ReadIsOfRows ==
  ASSUME NEW books \in Rows, NEW list \in Seq(Refund), Agree(books, list), NEW totals, NEW k,
         ReadAs(totals, list, k), sumOf(books, STANDING_REFUNDS) <= Amount
  PROVE  ReadingOf(books, totals, usedUpto(list, k))
<1> DEFINE K == usedUpto(list, k)
<1>0. k \in 0..Len(list) /\ AskedHere(books, list)
  BY DEF ReadAs, Agree
<1>1. /\ K \subseteq 1..Len(books) /\ \A i \in K : books[i].status \in STANDING_REFUNDS
      /\ \A i \in 1..Len(books) : books[i].status \in STANDING_REFUNDS /\ i \notin K => \A r \in K : r < i
  BY <1>0, UsedStand
<1>2. centsOf(list, 1..k) = centsOf(books, K)
  BY <1>0, UsedSums
<1>3. centsOf(books, K) <= Amount
  <2> HIDE DEF K
  <2>1. K \subseteq rowsIn(books, STANDING_REFUNDS)
    BY <1>1, RowsAreCents DEF rowsIn
  <2>2. Cents(books)
    BY RowsAreCents
  <2>3. centsOf(books, K) <= sumOf(books, STANDING_REFUNDS) /\ centsOf(books, K) \in Nat /\ sumOf(books, STANDING_REFUNDS) \in Nat
    BY <2>1, <2>2, SumsAreNatural, CentsAreNatural DEF sumOf, Cents
  <2> QED
    BY <2>3, AmountIsPaid
<1> HIDE DEF K
<1>4. ReadingOf(books, totals, K)
  BY <1>1, <1>2, <1>3 DEF ReadingOf, ReadAs
<1> QED
  BY <1>4 DEF K

\* A reading of the oldest refunds, written however late, leaves the rows agreeing with Asaas, when one
\* that gives up on a row its claim left read every refund.
LEMMA ReconcileAgrees ==
  ASSUME NEW books \in Rows, NEW list \in Seq(Refund), Agree(books, list), NEW totals \in RefundTotals, NEW k,
         ReadAs(totals, list, k), sumOf(books, STANDING_REFUNDS) <= Amount, NEW authoritative \in BOOLEAN,
         authoritative /\ k # Len(list) => \A i \in used(list) : books[i].status = "REQUESTED" => books[i].held
  PROVE  LET new == reconcileRefunds(books, totals, authoritative) IN
         /\ new \in Rows /\ Len(new) = Len(books) /\ Agree(new, list)
         /\ \A i \in 1..Len(books) : new[i].cents = books[i].cents
         /\ k = Len(list) => \A i \in used(list) : new[i].status \in TAKEN_REFUNDS
         /\ k = Len(list) /\ totals.pending = 0 => \A i \in used(list) : new[i].status = "DONE"
<1> DEFINE n == Len(books)
           K == usedUpto(list, k)
           new == reconcileRefunds(books, totals, authoritative)
           D == rowsIn(books, {"DONE"})
<1>0. /\ n \in Nat /\ Cents(books) /\ DOMAIN books = 1..n /\ k \in 0..Len(list)
      /\ AskedHere(books, list) /\ TakenHere(books, list) /\ DoneHere(books, list)
      /\ Len(list) \in Nat /\ totals.done <= backAt(list)
  BY RowsAreCents, RefundsAreCents DEF Cents, ReadAs, Agree
<1>1. PICK q : ReadExactly(books, new, totals, K, q, authoritative)
  BY ReadIsOfRows, CoversExactly
<1>2. /\ Len(new) = n /\ q \in 0..n
      /\ centsOf(books, K \cap (1..q)) <= totals.done
      /\ totals.pending = 0 => q = n
  BY <1>1 DEF ReadExactly
<1>q. q \in Nat /\ q <= n /\ n \in Nat
  <2>1. q \in 0..n /\ n \in Nat
    BY <1>0, <1>2
  <2> QED
    BY <2>1
<1>d. /\ \A i, j \in 1..n : i < j /\ books[i].status \in STANDING_REFUNDS /\ books[j].status = "DONE" => books[i].status = "DONE"
      /\ sumOf(books, {"DONE"}) <= backAt(list)
  BY <1>0 DEF DoneHere
<1>3. new \in Rows /\ \A i \in 1..n : new[i].cents = books[i].cents
  BY ReconcileKeeps DEF Kept
<1>4. /\ K \subseteq 1..n /\ K \subseteq used(list)
      /\ \A i \in K : books[i].status \in STANDING_REFUNDS
      /\ \A i \in 1..n : books[i].status \in STANDING_REFUNDS /\ i \notin K => \A r \in K : r < i
      /\ k = Len(list) => K = used(list)
  BY <1>0, UsedStand
<1> HIDE DEF new, K
<1>5. ASSUME NEW i \in 1..n
      PROVE  /\ i \in K => new[i].status \in TAKEN_REFUNDS
             /\ i \notin K => \/ new[i] = books[i]
                              \/ /\ books[i].status = "REQUESTED" /\ new[i].status = "REFUSED"
                                 /\ i \notin used(list)
             /\ new[i].status = "DONE" <=> books[i].status = "DONE" \/ (i \in K /\ i <= q)
  <2>1. RowRead(books[i], new[i], i, K, q, authoritative)
    BY <1>1 DEF ReadExactly
  <2>2. ASSUME i \notin K, books[i].status = "REQUESTED", ~books[i].held, authoritative PROVE i \notin used(list)
    BY <1>4, <2>2
  <2> QED
    BY <2>1, <2>2 DEF RowRead
<1>6. AskedHere(new, list)
  <2>1. ASSUME NEW j \in 1..Len(list)
        PROVE  /\ list[j].by \in 1..Len(new)
               /\ new[list[j].by].cents = list[j].cents
               /\ new[list[j].by].status \in STANDING_REFUNDS
    <3>1. list[j].by \in 1..n /\ books[list[j].by].cents = list[j].cents /\ books[list[j].by].status \in STANDING_REFUNDS
      BY <1>0 DEF AskedHere
    <3>2. list[j].by \in used(list)
      BY DEF used, usedUpto
    <3>3. new[list[j].by].status \in STANDING_REFUNDS
      BY <1>5, <3>1, <3>2 DEF STANDING_REFUNDS, TAKEN_REFUNDS
    <3> QED
      BY <1>2, <1>3, <3>1, <3>3
  <2> QED
    BY <1>0, <2>1 DEF AskedHere
<1>7. TakenHere(new, list)
  <2>1. ASSUME NEW i \in 1..n, new[i].status \in TAKEN_REFUNDS \cup {"DENIED"}
        PROVE  i \in used(list) /\ new[i].status # "DENIED"
    <3>1. CASE i \in K
      BY <1>4, <1>5, <3>1 DEF TAKEN_REFUNDS
    <3>2. CASE i \notin K
      <4>1. new[i] = books[i]
        BY <1>5, <2>1, <3>2 DEF TAKEN_REFUNDS
      <4> QED
        BY <1>0, <2>1, <4>1 DEF TakenHere
    <3> QED
      BY <3>1, <3>2
  <2>2. ASSUME NEW i \in 1..n, new[i].status = "REQUESTED" PROVE i = n
    <3>1. i \notin K /\ new[i] = books[i]
      BY <1>5, <2>2 DEF TAKEN_REFUNDS
    <3> QED
      BY <1>0, <2>2, <3>1 DEF TakenHere
  <2> QED
    BY <1>2, <2>1, <2>2 DEF TakenHere
<1>8. ASSUME NEW i \in 1..n, NEW j \in 1..n, i < j, new[i].status \in STANDING_REFUNDS, new[j].status = "DONE"
      PROVE  new[i].status = "DONE"
  <2>1. books[i].status \in STANDING_REFUNDS
    BY <1>4, <1>5, <1>8 DEF STANDING_REFUNDS, TAKEN_REFUNDS
  <2>2. CASE books[j].status = "DONE"
    <3>1. books[i].status = "DONE"
      BY <1>d, <1>8, <2>1, <2>2
    <3> QED
      BY <1>5, <3>1
  <2>3. CASE j \in K /\ j <= q
    <3>1. i \in K
      <4>1. i \notin K => j < i
        BY <1>4, <2>1, <2>3
      <4> QED
        BY <1>0, <1>8, <4>1
    <3>2. i <= q
      BY <1>q, <1>8, <2>3
    <3> QED
      BY <1>5, <3>1, <3>2
  <2> QED
    BY <1>5, <1>8, <2>2, <2>3
<1>9. sumOf(new, {"DONE"}) <= backAt(list)
  <2> DEFINE reach == K \cap (1..q)
  <2>1. rowsIn(new, {"DONE"}) = D \cup reach
    <3>1. DOMAIN new = 1..n
      BY <1>2, <1>3, RowsAreCents
    <3>2. \A i \in 1..n : new[i].status = "DONE" <=> books[i].status = "DONE" \/ (i \in K /\ i \in 1..q)
      <4>1. \A i \in 1..n : i <= q <=> i \in 1..q
        BY <1>q
      <4> QED
        BY <1>5, <4>1
    <3> QED
      BY <1>0, <1>4, <3>1, <3>2 DEF rowsIn
  <2>2. \A which : centsOf(new, which) = centsOf(books, which)
    BY <1>2, <1>3, RowsSameSums
  <2> HIDE DEF D, reach
  <2>3. sumOf(new, {"DONE"}) = centsOf(books, D \cup reach)
    BY <2>1, <2>2, Zenon DEF sumOf
  <2>4. CASE reach \subseteq D
    <3>1. D \cup reach = D
      BY <2>4
    <3>2. centsOf(books, D \cup reach) = sumOf(books, {"DONE"})
      BY <3>1, Zenon DEF sumOf, D
    <3> QED
      BY <1>d, <2>3, <3>2
  <2>5. CASE ~(reach \subseteq D)
    <3>1. PICK x \in reach : x \notin D
      BY <2>5
    <3>2. x \in K /\ x \in 1..n /\ x <= q /\ books[x].status # "DONE" /\ books[x].status \in STANDING_REFUNDS
      <4>1. x \in K /\ x \in 1..q
        BY <3>1 DEF reach
      <4>2. x \in 1..n /\ x <= q /\ books[x].status \in STANDING_REFUNDS
        BY <1>q, <1>4, <4>1
      <4>3. books[x].status # "DONE"
        BY <1>0, <3>1, <4>2 DEF D, rowsIn
      <4> QED
        BY <4>1, <4>2, <4>3
    <3>3. ASSUME NEW d \in D PROVE d \in reach
      <4>1. d \in 1..n /\ books[d].status = "DONE" /\ books[d].status \in STANDING_REFUNDS /\ d # x
        BY <1>0, <3>1 DEF D, rowsIn, STANDING_REFUNDS
      <4>2. ~(x < d)
        BY <1>d, <3>2, <4>1
      <4>3. d < x
        BY <1>0, <3>2, <4>1, <4>2
      <4>4. d \in K
        <5>1. d \notin K => x < d
          BY <1>4, <3>2, <4>1
        <5> QED
          BY <4>2, <5>1
      <4> QED
        BY <1>q, <3>2, <4>1, <4>3, <4>4 DEF reach
    <3>4. D \cup reach = reach
      BY <3>3
    <3>5. centsOf(books, D \cup reach) = centsOf(books, K \cap (1..q))
      BY <3>4, Zenon DEF reach
    <3>6. centsOf(books, K \cap (1..q)) \in Nat /\ totals.done \in Nat
      BY <1>0, CentsAreNatural DEF RefundTotals
    <3>7. backAt(list) \in Nat
      BY RefundSums DEF backAt
    <3> QED
      <4>1. centsOf(books, K \cap (1..q)) <= totals.done /\ totals.done <= backAt(list)
        BY <1>0, <1>2
      <4> QED
        BY <2>3, <3>5, <3>6, <3>7, <4>1
  <2> QED
    BY <2>4, <2>5
<1>10. DoneHere(new, list)
  BY <1>2, <1>8, <1>9 DEF DoneHere
<1>11. ASSUME k = Len(list), NEW i \in used(list)
       PROVE  new[i].status \in TAKEN_REFUNDS /\ (totals.pending = 0 => new[i].status = "DONE")
  <2>1. i \in K /\ i \in 1..n
    BY <1>4, <1>11
  <2>2. totals.pending = 0 => i <= q
    <3>1. totals.pending = 0 => q = n
      BY <1>2
    <3> QED
      BY <1>q, <2>1, <3>1
  <2> QED
    BY <1>5, <2>1, <2>2
<1> QED
  BY <1>2, <1>3, <1>6, <1>7, <1>10, <1>11 DEF Agree, new

\* A row's own writer leaves them agreeing, when it takes a row Asaas has a refund for or closes one it has none for.
LEMMA WriterAgrees ==
  ASSUME NEW books \in Rows, NEW list \in Seq(Refund), Agree(books, list), NEW new, OwnStep(books, new),
         \A i \in 1..Len(books) : new[i].status # books[i].status =>
           (i \in used(list) <=> new[i].status = "PROCESSING")
  PROVE  Agree(new, list)
<1> DEFINE n == Len(books)
<1>0. /\ n \in Nat /\ DOMAIN books = 1..n /\ Len(list) \in Nat
      /\ AskedHere(books, list) /\ TakenHere(books, list) /\ DoneHere(books, list)
  BY RowsAreCents, RefundsAreCents DEF Cents, Agree
<1>1. new \in Rows /\ Len(new) = n /\ \A i \in 1..n : new[i].cents = books[i].cents
  BY DEF OwnStep
<1>2. \A i \in 1..n : \/ new[i].status = books[i].status
                      \/ books[i].status = "REQUESTED" /\ new[i].status = "PROCESSING" /\ i \in used(list)
                      \/ books[i].status = "REQUESTED" /\ new[i].status \in GivenUp /\ i \notin used(list)
  BY DEF OwnStep, GivenUp
<1>3. AskedHere(new, list)
  <2>1. ASSUME NEW j \in 1..Len(list)
        PROVE  /\ list[j].by \in 1..Len(new)
               /\ new[list[j].by].cents = list[j].cents
               /\ new[list[j].by].status \in STANDING_REFUNDS
    <3>1. list[j].by \in 1..n /\ books[list[j].by].cents = list[j].cents /\ books[list[j].by].status \in STANDING_REFUNDS
      BY <1>0 DEF AskedHere
    <3>2. list[j].by \in used(list)
      BY DEF used, usedUpto
    <3>3. new[list[j].by].status \in STANDING_REFUNDS
      BY <1>2, <3>1, <3>2 DEF STANDING_REFUNDS
    <3> QED
      BY <1>1, <3>1, <3>3
  <2> QED
    BY <1>0, <2>1 DEF AskedHere
<1>4. TakenHere(new, list)
  <2>1. \A i \in 1..n : new[i].status \in TAKEN_REFUNDS \cup {"DENIED"} => i \in used(list) /\ new[i].status # "DENIED"
    BY <1>0, <1>2 DEF TakenHere, TAKEN_REFUNDS, GivenUp
  <2>2. \A i \in 1..n : new[i].status = "REQUESTED" => books[i].status = "REQUESTED"
    BY <1>2 DEF GivenUp
  <2> QED
    BY <1>0, <1>1, <2>1, <2>2 DEF TakenHere
<1>5. \A i \in 1..n : /\ new[i].status = "DONE" <=> books[i].status = "DONE"
                      /\ new[i].status \in STANDING_REFUNDS => books[i].status \in STANDING_REFUNDS
  BY <1>2 DEF GivenUp, STANDING_REFUNDS
<1>6. sumOf(new, {"DONE"}) = sumOf(books, {"DONE"})
  <2>1. rowsIn(new, {"DONE"}) = rowsIn(books, {"DONE"})
    <3>1. DOMAIN new = 1..n
      BY <1>1, RowsAreCents
    <3> QED
      BY <1>0, <1>5, <3>1 DEF rowsIn
  <2>2. \A which : centsOf(new, which) = centsOf(books, which)
    BY <1>1, RowsSameSums
  <2> QED
    BY <2>1, <2>2, Zenon DEF sumOf
<1>7. DoneHere(new, list)
  BY <1>0, <1>1, <1>5, <1>6 DEF DoneHere
<1> QED
  BY <1>3, <1>4, <1>7 DEF Agree

\* A claim leaves them agreeing, while nothing else is asked.
LEMMA ClaimAgrees ==
  ASSUME NEW books \in Rows, NEW list \in Seq(Refund), Agree(books, list), NEW new \in Rows, Len(new) = Len(books) + 1,
         \A i \in 1..Len(books) : new[i] = books[i] /\ books[i].status # "REQUESTED",
         new[Len(new)].status = "REQUESTED"
  PROVE  Agree(new, list)
<1> DEFINE n == Len(books)
<1>0. /\ n \in Nat /\ Len(list) \in Nat /\ 1..Len(new) = (1..n) \cup {n + 1} /\ n + 1 \notin 1..n
      /\ AskedHere(books, list) /\ TakenHere(books, list) /\ DoneHere(books, list)
  BY RowsAreCents, RefundsAreCents DEF Cents, Agree
<1>1. AskedHere(new, list)
  BY <1>0 DEF AskedHere
<1>2. TakenHere(new, list)
  <2>1. ASSUME NEW i \in 1..Len(new), new[i].status \in TAKEN_REFUNDS \cup {"DENIED"}
        PROVE  i \in used(list) /\ new[i].status # "DENIED"
    <3>1. i \in 1..n /\ new[i] = books[i]
      BY <1>0, <2>1 DEF TAKEN_REFUNDS
    <3> QED
      BY <1>0, <2>1, <3>1 DEF TakenHere
  <2>2. ASSUME NEW i \in 1..Len(new), new[i].status = "REQUESTED" PROVE i = Len(new)
    BY <1>0, <2>2
  <2> QED
    BY <2>1, <2>2 DEF TakenHere
<1>3. sumOf(new, {"DONE"}) = sumOf(books, {"DONE"})
  <2>1. sumOf(new, {"DONE"}) = sumOf(books, {"DONE"}) + IF new[Len(new)].status \in {"DONE"} THEN new[Len(new)].cents ELSE 0
    BY SumOneRowMore
  <2>2. sumOf(books, {"DONE"}) \in Nat
    BY RowsSums
  <2> QED
    BY <2>1, <2>2
<1>4. DoneHere(new, list)
  <2>1. ASSUME NEW i \in 1..Len(new), NEW j \in 1..Len(new), i < j, new[i].status \in STANDING_REFUNDS, new[j].status = "DONE"
        PROVE  new[i].status = "DONE"
    <3>1. j \in 1..n /\ new[j] = books[j]
      BY <1>0, <2>1
    <3>2. i \in 1..n /\ new[i] = books[i]
      BY <1>0, <2>1, <3>1
    <3> QED
      BY <1>0, <2>1, <3>1, <3>2 DEF DoneHere
  <2> QED
    BY <1>0, <1>3, <2>1 DEF DoneHere
<1> QED
  BY <1>1, <1>2, <1>4 DEF Agree

\* What happens at Asaas leaves them agreeing, when a refund made is of the row still asked.
LEMMA AsaasAgrees ==
  ASSUME NEW books \in Rows, NEW list \in Seq(Refund), Agree(books, list), NEW new, Grown(list, new),
         Len(new) # Len(list) =>
           /\ new[Len(new)].by \in 1..Len(books) \ used(list)
           /\ books[new[Len(new)].by].status = "REQUESTED"
           /\ books[new[Len(new)].by].cents = new[Len(new)].cents
  PROVE  Agree(books, new) /\ used(list) \subseteq used(new)
<1> DEFINE n == Len(list)
           m == Len(new)
<1>0. /\ n \in Nat /\ m \in Nat /\ new \in Seq(Refund) /\ m \in {n, n + 1} /\ Len(books) \in Nat
      /\ AskedHere(books, list) /\ TakenHere(books, list) /\ DoneHere(books, list)
      /\ \A j \in 1..n : new[j].cents = list[j].cents /\ new[j].by = list[j].by
  BY RefundsAreCents, RowsAreCents DEF Cents, Grown, Agree
<1>1. \A j \in 1..m : j \in 1..n \/ (j = m /\ m = n + 1)
  BY <1>0
<1>2. AskedHere(books, new)
  <2>1. ASSUME NEW j \in 1..m
        PROVE  /\ new[j].by \in 1..Len(books)
               /\ books[new[j].by].cents = new[j].cents
               /\ books[new[j].by].status \in STANDING_REFUNDS
    <3>1. CASE j \in 1..n
      BY <1>0, <3>1 DEF AskedHere
    <3>2. CASE j \notin 1..n
      BY <1>0, <1>1, <3>2 DEF STANDING_REFUNDS
    <3> QED
      BY <3>1, <3>2
  <2>2. ASSUME NEW j \in 1..m, NEW k \in 1..m, k < j PROVE new[k].by < new[j].by
    <3>1. k \in 1..n
      BY <1>0, <2>2
    <3>2. CASE j \in 1..n
      BY <1>0, <2>2, <3>1, <3>2 DEF AskedHere
    <3>3. CASE j \notin 1..n
      <4>1. j = m /\ m # n
        BY <1>0, <1>1, <3>3
      <4>2. new[j].by \in 1..Len(books) \ used(list) /\ books[new[j].by].status = "REQUESTED"
        BY <4>1
      <4>3. new[j].by = Len(books)
        BY <1>0, <4>2 DEF TakenHere
      <4>4. new[k].by \in used(list) /\ new[k].by \in 1..Len(books)
        BY <1>0, <3>1 DEF used, usedUpto, AskedHere
      <4> QED
        BY <1>0, <4>2, <4>3, <4>4
    <3> QED
      BY <3>2, <3>3
  <2> QED
    BY <2>1, <2>2 DEF AskedHere
<1>3. used(list) \subseteq used(new)
  <2>1. 1..n \subseteq 1..m
    BY <1>0
  <2> QED
    BY <1>0, <2>1 DEF used, usedUpto
<1>4. TakenHere(books, new)
  BY <1>0, <1>3 DEF TakenHere
<1>5. DoneHere(books, new)
  <2>1. backAt(list) <= backAt(new) /\ backAt(list) \in Nat /\ backAt(new) \in Nat
    BY <1>0, SettledGrows, RefundSums DEF backAt
  <2>2. sumOf(books, {"DONE"}) \in Nat
    BY RowsSums
  <2> QED
    BY <1>0, <2>1, <2>2 DEF DoneHere
<1> QED
  BY <1>2, <1>3, <1>4, <1>5 DEF Agree

\* A reading of the oldest refunds stays one, however late it is looked at.
LEMMA ReadStays ==
  ASSUME NEW list \in Seq(Refund), NEW new, Grown(list, new), NEW totals \in RefundTotals, NEW k, ReadAs(totals, list, k)
  PROVE  ReadAs(totals, new, k)
<1>0. /\ Len(list) \in Nat /\ Len(new) \in Nat /\ Len(new) >= Len(list) /\ new \in Seq(Refund)
      /\ Cents(list) /\ Cents(new) /\ k \in 0..Len(list)
      /\ \A j \in 1..Len(list) : new[j].cents = list[j].cents
  BY RefundsAreCents DEF Cents, Grown, ReadAs
<1>1. centsOf(new, 1..k) = centsOf(list, 1..k)
  <2>1. \A i \in Nat \ {0} : Share(new, 1..k, i) = Share(list, 1..k, i)
    BY <1>0 DEF Share
  <2> QED
    BY <1>0, <2>1, SameShares
<1>2. backAt(list) <= backAt(new) /\ backAt(list) \in Nat /\ backAt(new) \in Nat /\ totals.done \in Nat
  BY <1>0, SettledGrows, RefundSums DEF backAt, RefundTotals
<1>3. k \in 0..Len(new)
  BY <1>0
<1> QED
  BY <1>1, <1>2, <1>3 DEF ReadAs

-----------------------------------------------------------------------------
(* What is read of refunds that show in the order they were made. *)

ShownFirst(list) == \A j, k \in 1..Len(list) : k < j /\ list[j].shown => list[k].shown
NoneCancelled(list) == refundsAt(list, {"CANCELLED"}) = {}
showing(list) == {j \in 1..Len(list) : list[j].shown}

\* They add up to no more than was paid: each has a row that stands.
LEMMA AskedFits ==
  ASSUME NEW books \in Rows, NEW list \in Seq(Refund), AskedHere(books, list),
         sumOf(books, STANDING_REFUNDS) <= Amount
  PROVE  /\ centsOf(list, 1..Len(list)) \in Nat
         /\ centsOf(list, 1..Len(list)) <= sumOf(books, STANDING_REFUNDS)
         /\ centsOf(list, 1..Len(list)) <= Amount
<1> DEFINE n == Len(list)
<1>0. n \in Nat /\ n \in 0..n /\ Cents(books) /\ DOMAIN books = 1..Len(books)
  BY RefundsAreCents, RowsAreCents DEF Cents
<1>1. centsOf(list, 1..n) = centsOf(books, usedUpto(list, n))
  BY <1>0, UsedSums
<1>2. usedUpto(list, n) \subseteq rowsIn(books, STANDING_REFUNDS)
  BY <1>0 DEF usedUpto, AskedHere, rowsIn
<1>3. /\ centsOf(books, usedUpto(list, n)) \in Nat /\ sumOf(books, STANDING_REFUNDS) \in Nat
      /\ centsOf(books, usedUpto(list, n)) <= sumOf(books, STANDING_REFUNDS)
  BY <1>0, <1>2, SumsAreNatural DEF sumOf, Cents
<1> QED
  BY <1>1, <1>3, AmountIsPaid

\* What is back of them is all of them, once it is what was paid.
LEMMA BackFits ==
  ASSUME NEW list \in Seq(Refund)
  PROVE  backAt(list) \in Nat /\ backAt(list) <= centsOf(list, 1..Len(list))
<1>1. refundsAt(list, {"DONE"}) \subseteq 1..Len(list)
  BY RefundsAreCents DEF refundsAt
<1> QED
  BY <1>1, RefundsAreCents, SumsAreNatural DEF backAt, Cents

LEMMA ShownUpto ==
  ASSUME NEW list \in Seq(Refund), ShownFirst(list)
  PROVE  \E k \in 0..Len(list) : showing(list) = 1..k
<1> DEFINE n == Len(list)
           S == {m \in 0..n : \A j \in 1..n : list[j].shown => j <= m}
<1>0. n \in Nat
  BY RefundsAreCents DEF Cents
<1>1. S \subseteq Nat /\ n \in S
  BY <1>0
<1>2. PICK m \in S : \A i \in S : m <= i
  BY <1>1, NatHasLeast
<1>3. m \in 0..n /\ \A j \in 1..n : list[j].shown => j <= m
  BY <1>2
<1>4. CASE m = 0
  <2>1. \A j \in 1..n : ~list[j].shown
    BY <1>0, <1>3, <1>4
  <2>2. showing(list) = 1..m
    BY <1>4, <2>1 DEF showing
  <2> QED
    BY <1>3, <2>2
<1>5. CASE m # 0
  <2>1. m - 1 \in 0..n /\ ~(m <= m - 1) /\ m \in 1..n
    BY <1>0, <1>3, <1>5
  <2>2. m - 1 \notin S
    BY <1>2, <2>1
  <2>3. PICK j \in 1..n : list[j].shown /\ ~(j <= m - 1)
    BY <2>1, <2>2
  <2>4. j = m
    BY <1>0, <1>3, <2>1, <2>3
  <2>5. \A k \in 1..n : k <= m => list[k].shown
    <3>1. \A k \in 1..n : k < m \/ k = m \/ ~(k <= m)
      BY <2>1
    <3> QED
      BY <2>1, <2>3, <2>4, <3>1 DEF ShownFirst
  <2>6. \A k : k \in showing(list) <=> k \in 1..m
    <3>1. \A k : k \in 1..m <=> k \in 1..n /\ k <= m
      BY <1>0, <2>1
    <3> QED
      BY <1>3, <2>5, <3>1 DEF showing
  <2>7. showing(list) = 1..m
    BY <2>6
  <2> QED
    BY <1>3, <2>7
<1> QED
  BY <1>4, <1>5

LEMMA SumsReadAs ==
  ASSUME NEW list \in Seq(Refund), NoneCancelled(list), NEW k \in 0..Len(list), showing(list) = 1..k
  PROVE  /\ ReadAs(refundTotalsOf(list), list, k)
         /\ refundsAt(list, {"PENDING"}) = {} => refundTotalsOf(list).pending = 0
<1> DEFINE n == Len(list)
           shown == {i \in DOMAIN list : list[i].shown}
           D == shown \cap refundsAt(list, {"DONE"})
           P == shown \cap refundsAt(list, {"PENDING"})
           C == shown \cap refundsAt(list, {"CANCELLED"})
<1>0. Cents(list) /\ DOMAIN list = 1..n /\ \A i \in 1..n : list[i] \in Refund
  BY RefundsAreCents
<1>1. /\ refundTotalsOf(list).done = centsOf(list, D)
      /\ refundTotalsOf(list).pending = centsOf(list, P)
      /\ refundTotalsOf(list).cancelled = centsOf(list, C)
  BY DEF refundTotalsOf
<1>2. C = {}
  BY DEF NoneCancelled
<1>3. D \cup P = 1..k /\ D \cap P = {}
  <2>1. shown = 1..k
    BY <1>0 DEF showing
  <2>2. \A i \in 1..n : list[i].status \in {"DONE", "PENDING"}
    BY <1>0 DEF NoneCancelled, refundsAt, Refund
  <2>3. D \cup P = shown
    BY <1>0, <2>2 DEF refundsAt
  <2>4. D \cap P = {}
    BY DEF refundsAt
  <2> QED
    BY <2>1, <2>3, <2>4
<1>4. D \subseteq refundsAt(list, {"DONE"})
  OBVIOUS
<1>5. refundsAt(list, {"PENDING"}) = {} => P = {}
  OBVIOUS
<1> HIDE DEF D, P, C
<1>6. centsOf(list, C) = 0 /\ (P = {} => centsOf(list, P) = 0)
  BY <1>0, <1>2, SumOfNone
<1>7. centsOf(list, D) + centsOf(list, P) = centsOf(list, 1..k)
  <2>1. centsOf(list, D \cup P) = centsOf(list, D) + centsOf(list, P)
    BY <1>0, <1>3, SumOfBoth
  <2>2. centsOf(list, D \cup P) = centsOf(list, 1..k)
    BY <1>3, Zenon
  <2> QED
    BY <2>1, <2>2
<1>8. centsOf(list, D) <= backAt(list)
  BY <1>0, <1>4, SumsAreNatural DEF backAt, Cents
<1> QED
  BY <1>1, <1>5, <1>6, <1>7, <1>8 DEF ReadAs

LEMMA WholeReadAs ==
  ASSUME NEW books \in Rows, NEW list \in Seq(Refund), AskedHere(books, list),
         sumOf(books, STANDING_REFUNDS) <= Amount, wholeAt(list), NEW t,
         t.done = Amount, t.pending = 0, t.cancelled = 0
  PROVE  ReadAs(t, list, Len(list))
<1>1. centsOf(list, 1..Len(list)) <= Amount /\ centsOf(list, 1..Len(list)) \in Nat
  BY AskedFits
<1>2. backAt(list) = Amount
  BY DEF wholeAt, backAt
<1>3. backAt(list) \in Nat /\ backAt(list) <= centsOf(list, 1..Len(list))
  BY BackFits
<1>4. Len(list) \in 0..Len(list)
  BY RefundsAreCents DEF Cents
<1>5. t.done + t.pending = centsOf(list, 1..Len(list))
  BY <1>1, <1>2, <1>3
<1> QED
  BY <1>2, <1>4, <1>5, AmountIsPaid DEF ReadAs

\* Whatever way the charge is read, it is read as some of the oldest refunds.
LEMMA ReadingIsAs ==
  ASSUME NEW books \in Rows, NEW list \in Seq(Refund), AskedHere(books, list),
         sumOf(books, STANDING_REFUNDS) <= Amount, NoneCancelled(list), ShownFirst(list), NEW t \in Readings(list)
  PROVE  \E k : ReadAs(t, list, k)
<1> DEFINE s == refundTotalsOf(list)
<1>1. PICK k \in 0..Len(list) : showing(list) = 1..k
  BY ShownUpto
<1>2. ReadAs(s, list, k)
  BY <1>1, SumsReadAs
<1>3. ReadAs(NO_REFUNDS, list, 0)
  <2>1. Cents(list) /\ \A i \in 1..Len(list) : i \notin 1..0
    BY RefundsAreCents
  <2>2. centsOf(list, 1..0) = 0
    BY <2>1, SumOfNone
  <2>3. NO_REFUNDS.done = 0 /\ NO_REFUNDS.pending = 0 /\ NO_REFUNDS.cancelled = 0
    BY DEF NO_REFUNDS
  <2>4. 0 \in 0..Len(list)
    BY <2>1 DEF Cents
  <2> QED
    BY <2>2, <2>3, <2>4, BackFits DEF ReadAs
<1>4. s.cancelled = 0 /\ NO_REFUNDS.cancelled = 0 /\ NO_REFUNDS.pending = 0
  BY <1>2 DEF ReadAs, NO_REFUNDS
<1>5. \A u \in {NO_REFUNDS, s} : LET w == [u EXCEPT !.done = Amount, !.pending = 0] IN
                                 w.done = Amount /\ w.pending = 0 /\ w.cancelled = u.cancelled
  <2>1. \A which : centsOf(list, which) \in Nat
    BY RefundSums
  <2>2. s \in RefundTotals /\ NO_REFUNDS \in RefundTotals
    BY <2>1 DEF refundTotalsOf, RefundTotals, NO_REFUNDS
  <2> HIDE DEF s
  <2> QED
    BY <2>2 DEF RefundTotals
<1>6. LET w == [NO_REFUNDS EXCEPT !.done = Amount] IN w.done = Amount /\ w.pending = 0 /\ w.cancelled = 0
  BY DEF NO_REFUNDS
<1> HIDE DEF s
<1>7. t = s \/ t = NO_REFUNDS \/ (wholeAt(list) /\ t.done = Amount /\ t.pending = 0 /\ t.cancelled = 0)
  BY <1>4, <1>5, <1>6 DEF Readings, totalsOf, listings, s
<1>8. wholeAt(list) /\ t.done = Amount /\ t.pending = 0 /\ t.cancelled = 0 => ReadAs(t, list, Len(list))
  BY WholeReadAs
<1> QED
  BY <1>2, <1>3, <1>7, <1>8

\* Once every refund shows, it is read as all of them.
LEMMA AllIsRead ==
  ASSUME NEW books \in Rows, NEW list \in Seq(Refund), AskedHere(books, list),
         sumOf(books, STANDING_REFUNDS) <= Amount, NoneCancelled(list),
         \A j \in 1..Len(list) : list[j].shown, NEW t \in {totalsOf(list), refundTotalsOf(list)}
  PROVE  ReadAs(t, list, Len(list)) /\ (refundsAt(list, {"PENDING"}) = {} => t.pending = 0)
<1> DEFINE s == refundTotalsOf(list)
           w == [NO_REFUNDS EXCEPT !.done = Amount]
<1>1. showing(list) = 1..Len(list) /\ Len(list) \in 0..Len(list)
  BY RefundsAreCents DEF showing, Cents
<1>2. ReadAs(s, list, Len(list)) /\ (refundsAt(list, {"PENDING"}) = {} => s.pending = 0)
  BY <1>1, SumsReadAs
<1>3. w.done = Amount /\ w.pending = 0 /\ w.cancelled = 0
  BY DEF NO_REFUNDS
<1> HIDE DEF s, w
<1>4. wholeAt(list) => ReadAs(w, list, Len(list))
  BY <1>3, WholeReadAs
<1>5. t = s \/ (wholeAt(list) /\ t = w)
  BY DEF totalsOf, s, w
<1> QED
  BY <1>2, <1>3, <1>4, <1>5

-----------------------------------------------------------------------------
(* Where a request comes from, and whether it was told that all is back. *)

Telling == {"call", "write", "settled"}

\* A request goes nowhere a row or a reading waits for it.
Elsewhere(p) ==
  \E place \in Places \ Telling :
    at' = [at EXCEPT ![p] = place] /\ \A q \in Procs \ {p} : talk'[q] = talk[q]

LEMMA GoesElsewhere ==
  ASSUME TypeInv, NEW p \in Procs, ends(p) \/ throws(p) \/ told(p) \/ after(p)
  PROVE  Elsewhere(p)
<1>0. talk \in [Procs -> Talk] /\ talk[p] \in Talk
  BY TypesAre DEF ProcsTyped
<1>1. PICK place \in {"idle", "thrown", "list", "claim", "cancel"} :
        at' = [at EXCEPT ![p] = place] /\ \E t : talk' = [talk EXCEPT ![p] = t]
  <2>1. CASE ends(p)
    BY <2>1 DEF ends, goesTo
  <2>2. CASE throws(p)
    BY <2>2 DEF throws, ends, goesTo
  <2>3. CASE told(p)
    BY <2>3 DEF told, goesTo
  <2>4. CASE after(p)
    <3>1. talk[p].next \in {"idle", "claim", "cancel"}
      BY <1>0 DEF Talk
    <3> DEFINE t == IF talk[p].next = "idle" THEN Blank
                    ELSE [talk[p] EXCEPT !.next = "idle", !.known = 0, !.read = Unread, !.whole = FALSE]
    <3>2. at' = [at EXCEPT ![p] = talk[p].next] /\ talk' = [talk EXCEPT ![p] = t]
      BY <1>0, <2>4 DEF after, goesTo
    <3> QED
      BY <3>1, <3>2
  <2> QED
    BY <2>1, <2>2, <2>3, <2>4
<1>2. place \in Places \ Telling
  BY DEF Places, Telling
<1> QED
  BY <1>0, <1>1, <1>2 DEF Elsewhere

LEMMA MostGoElsewhere ==
  ASSUME TypeInv, NEW p \in Procs,
         \/ Ask(p) \/ AskCancel(p) \/ Hear(p) \/ NotMade(p) \/ Write(p) \/ Refuse(p) \/ Drop(p) \/ Reread(p)
         \/ Hold(p) \/ SettleUnknown(p) \/ HearList(p) \/ HearWrite(p) \/ Before(p) \/ Thrown(p) \/ Cancel(p) \/ Crash(p)
  PROVE  Elsewhere(p)
<1>0. talk \in [Procs -> Talk]
  BY TypesAre DEF ProcsTyped
<1>1. {"claim", "before", "list", "refuse", "drop", "lost", "hold", "heard", "cancel", "idle"} \subseteq Places \ Telling
  BY DEF Places, Telling
<1>2. ASSUME NEW place \in Places \ Telling, goesTo(p, place), UNCHANGED talk \/ \E t : talk' = [talk EXCEPT ![p] = t]
      PROVE  Elsewhere(p)
  BY <1>0, <1>2 DEF Elsewhere, goesTo
<1>3. CASE Ask(p) \/ AskCancel(p)
  <2>1. \E t : talk' = [talk EXCEPT ![p] = t]
    BY <1>3 DEF Ask, AskCancel
  <2>2. goesTo(p, "claim") \/ goesTo(p, "before")
    BY <1>3 DEF Ask, AskCancel
  <2> QED
    BY <1>1, <1>2, <2>1, <2>2
<1>4. CASE Hear(p) \/ SettleUnknown(p)
  <2>1. \E t : talk' = [talk EXCEPT ![p] = t]
    BY <1>4 DEF Hear, SettleUnknown
  <2>2. goesTo(p, "list")
    BY <1>4 DEF Hear, SettleUnknown
  <2> QED
    BY <1>1, <1>2, <2>1, <2>2
<1>5. CASE NotMade(p) \/ Reread(p)
  <2>1. UNCHANGED talk \/ \E t : talk' = [talk EXCEPT ![p] = t]
    BY <1>5 DEF NotMade, Reread
  <2>2. goesTo(p, "refuse") \/ goesTo(p, "drop") \/ goesTo(p, "lost") \/ goesTo(p, "hold")
    BY <1>5 DEF NotMade, Reread
  <2> QED
    BY <1>1, <1>2, <2>1, <2>2
<1>6. CASE HearList(p)
  <2>1. CASE after(p)
    BY <2>1, GoesElsewhere
  <2>2. CASE ~after(p)
    <3>1. \E t : talk' = [talk EXCEPT ![p] = t]
      BY <1>6, <2>2 DEF HearList
    <3>2. goesTo(p, "heard")
      BY <1>6, <2>2 DEF HearList
    <3> QED
      BY <1>1, <1>2, <3>1, <3>2
  <2> QED
    BY <2>1, <2>2
<1>7. CASE Before(p)
  <2>1. \/ ends(p)
        \/ (goesTo(p, "cancel") \/ goesTo(p, "claim")) /\ (UNCHANGED talk \/ \E t : talk' = [talk EXCEPT ![p] = t])
    BY <1>7 DEF Before
  <2> QED
    BY <1>1, <1>2, <2>1, GoesElsewhere
<1>8. CASE Thrown(p) \/ Cancel(p) \/ Crash(p)
  <2>1. ends(p) \/ (goesTo(p, "cancel") /\ UNCHANGED talk)
    BY <1>8 DEF Thrown, Cancel, Crash
  <2> QED
    BY <1>1, <1>2, <2>1, GoesElsewhere
<1>9. CASE Write(p) \/ Refuse(p) \/ Drop(p) \/ Hold(p) \/ HearWrite(p)
  <2>1. told(p) \/ throws(p) \/ after(p)
    BY <1>9 DEF Write, Refuse, Drop, Hold, HearWrite
  <2> QED
    BY <2>1, GoesElsewhere
<1> QED
  BY <1>3, <1>4, <1>5, <1>6, <1>7, <1>8, <1>9

\* The row a request claimed is for what it asks.
Claimed(q) == /\ rows' = claimRefund(rows, talk[q].want)
              /\ talk'[q].row = Len(rows) + 1 /\ talk'[q].want = talk[q].want

LEMMA WhereFrom ==
  ASSUME TypeInv, Next, NEW q \in Procs, at'[q] \in Telling
  PROVE  \/ at'[q] = at[q] /\ talk'[q] = talk[q]
         \/ at'[q] = "call" /\ Claimed(q)
         \/ at'[q] = "write" /\ Made(q) /\ talk'[q].row = talk[q].row
         \/ at'[q] = "settled" /\ ReadUnknown(q) /\ talk'[q].read = totalsOf(asaas)
<1>0. at \in [Procs -> Places] /\ talk \in [Procs -> Talk]
  BY TypesAre DEF ProcsTyped
<1>1. ASSUME NEW p \in Procs, Elsewhere(p) PROVE at'[q] = at[q] /\ talk'[q] = talk[q]
  BY <1>0, <1>1 DEF Elsewhere
<1>2. ASSUME NEW p \in Procs, p # q, NEW place, goesTo(p, place), UNCHANGED talk \/ \E t : talk' = [talk EXCEPT ![p] = t]
      PROVE  at'[q] = at[q] /\ talk'[q] = talk[q]
  BY <1>0, <1>2 DEF goesTo
<1>3. ASSUME NEW p \in Procs, Claim(p)
      PROVE  (at'[q] = at[q] /\ talk'[q] = talk[q]) \/ (at'[q] = "call" /\ Claimed(q))
  <2>1. CASE throws(p)
    BY <1>1, <2>1, GoesElsewhere
  <2>2. CASE goesTo(p, "settle") /\ UNCHANGED talk
    <3>1. p # q
      BY <1>0, <2>2 DEF goesTo, Telling
    <3> QED
      BY <1>2, <2>2, <3>1
  <2>3. CASE ~throws(p) /\ ~(goesTo(p, "settle") /\ UNCHANGED talk)
    <3> DEFINE t == [talk[p] EXCEPT !.row = Len(rows) + 1, !.saw = 0, !.again = FALSE]
    <3>1. goesTo(p, "call") /\ talk' = [talk EXCEPT ![p] = t] /\ rows' = claimRefund(rows, talk[p].want)
      BY <1>0, <1>3, <2>3 DEF Claim
    <3>2. t.row = Len(rows) + 1 /\ t.want = talk[p].want
      BY <1>0 DEF Talk
    <3> HIDE DEF t
    <3>3. CASE p # q
      BY <1>2, <3>1, <3>3
    <3>4. CASE p = q
      BY <1>0, <1>3, <3>1, <3>2, <3>4 DEF goesTo, Claimed
    <3> QED
      BY <3>3, <3>4
  <2> QED
    BY <2>1, <2>2, <2>3
<1>4. ASSUME NEW p \in Procs, Made(p)
      PROVE  (at'[q] = at[q] /\ talk'[q] = talk[q]) \/ (at'[q] = "write" /\ Made(q) /\ talk'[q].row = talk[q].row)
  <2>1. CASE goesTo(p, "write") /\ talk' = [talk EXCEPT ![p].read = totalsOf(asaas')]
    <3> DEFINE t == [talk[p] EXCEPT !.read = totalsOf(asaas')]
    <3>1. talk' = [talk EXCEPT ![p] = t]
      BY <1>0, <2>1
    <3>2. t.row = talk[p].row
      BY <1>0 DEF Talk
    <3> HIDE DEF t
    <3>3. CASE p # q
      BY <1>2, <2>1, <3>1, <3>3
    <3>4. CASE p = q
      BY <1>0, <1>4, <2>1, <3>1, <3>2, <3>4 DEF goesTo
    <3> QED
      BY <3>3, <3>4
  <2>2. CASE goesTo(p, "lost") /\ UNCHANGED talk
    <3>1. p # q
      BY <1>0, <2>2 DEF goesTo, Telling
    <3> QED
      BY <1>2, <2>2, <3>1
  <2> QED
    BY <1>4, <2>1, <2>2 DEF Made
<1>5. ASSUME NEW p \in Procs, ReadUnknown(p)
      PROVE  \/ at'[q] = at[q] /\ talk'[q] = talk[q]
             \/ at'[q] = "settled" /\ ReadUnknown(q) /\ talk'[q].read = totalsOf(asaas)
  <2>1. CASE throws(p)
    BY <1>1, <2>1, GoesElsewhere
  <2>2. CASE ~throws(p)
    <3> DEFINE t == [talk[p] EXCEPT !.read = totalsOf(asaas)]
    <3>1. goesTo(p, "settled") /\ talk' = [talk EXCEPT ![p] = t]
      BY <1>0, <1>5, <2>2 DEF ReadUnknown
    <3>2. t.read = totalsOf(asaas)
      BY <1>0 DEF Talk
    <3> HIDE DEF t
    <3>3. CASE p # q
      BY <1>2, <3>1, <3>3
    <3>4. CASE p = q
      BY <1>0, <1>5, <3>1, <3>2, <3>4 DEF goesTo
    <3> QED
      BY <3>3, <3>4
  <2> QED
    BY <2>1, <2>2
<1>6. \/ \E i \in DOMAIN rows : ClaimEnds(i)
      \/ \E j \in DOMAIN asaas : Shows(j) \/ Concludes(j) \/ Cancels(j)
      \/ PanelRefund
      => UNCHANGED <<at, talk>>
  BY DEF ClaimEnds, Shows, Concludes, Cancels, PanelRefund
<1> QED
  BY <1>1, <1>3, <1>4, <1>5, <1>6, MostGoElsewhere DEF Next, Works

LEMMA WholesAre ==
  ASSUME TypeInv, Next, NEW q \in Procs, talk'[q].whole
  PROVE  talk[q].whole \/ (wholeAt(asaas) /\ asaas' = asaas)
<1> DEFINE Told(t) == t.whole => talk[q].whole \/ (wholeAt(asaas) /\ asaas' = asaas)
<1>0. talk \in [Procs -> Talk] /\ \A p \in Procs : talk[p] \in Talk
  BY TypesAre DEF ProcsTyped
<1>s. UNCHANGED talk => Told(talk'[q])
  OBVIOUS
<1>w. ASSUME NEW p \in Procs, NEW t, talk' = [talk EXCEPT ![p] = t], t.whole => talk[p].whole
      PROVE  Told(talk'[q])
  BY <1>0, <1>w
<1> HIDE DEF Told
<1>f. ASSUME NEW p \in Procs, NEW t, talk' = [talk EXCEPT ![p] = t], t.whole = FALSE
      PROVE  Told(talk'[q])
  BY <1>w, <1>f
<1>b. Blank.whole = FALSE /\ [Blank EXCEPT !.kind = "cancel"].whole = FALSE
  BY DEF Blank
<1>t. ASSUME NEW p \in Procs
      PROVE  /\ \A known : [talk[p] EXCEPT !.known = known].whole = talk[p].whole
             /\ \A want : [talk[p] EXCEPT !.want = want].whole = talk[p].whole
             /\ \A read : [talk[p] EXCEPT !.read = read].whole = talk[p].whole
             /\ \A row : [talk[p] EXCEPT !.row = row, !.saw = 0, !.again = FALSE].whole = talk[p].whole
             /\ \A known : [talk[p] EXCEPT !.read = Unread, !.again = TRUE, !.next = "claim", !.known = known].whole = talk[p].whole
             /\ \A read, whole : [talk[p] EXCEPT !.read = read, !.known = 0, !.whole = whole].whole = whole
             /\ [talk[p] EXCEPT !.next = "idle", !.known = 0, !.read = Unread, !.whole = FALSE].whole = FALSE
  <2>1. talk[p] \in Talk
    BY <1>0
  <2> QED
    BY <2>1 DEF Talk
<1>e. ASSUME NEW p \in Procs, ends(p) PROVE Told(talk'[q])
  BY <1>b, <1>e, <1>f DEF ends
<1>h. ASSUME NEW p \in Procs, throws(p) PROVE Told(talk'[q])
  <2> DEFINE t == [Blank EXCEPT !.kind = "cancel"]
  <2>1. ends(p) \/ talk' = [talk EXCEPT ![p] = t]
    BY <1>h DEF throws
  <2>2. t.whole = FALSE
    BY <1>b
  <2> HIDE DEF t
  <2> QED
    BY <1>e, <1>f, <2>1, <2>2
<1>l. ASSUME NEW p \in Procs, told(p) PROVE Told(talk'[q])
  <2> DEFINE t == [Blank EXCEPT !.kind = talk[p].kind, !.known = knownOf(pay'),
                                !.next = IF talk[p].kind = "cancel" THEN "cancel" ELSE "idle"]
  <2>1. talk' = [talk EXCEPT ![p] = t]
    BY <1>l DEF told
  <2>2. t.whole = FALSE
    BY DEF Blank
  <2> HIDE DEF t
  <2> QED
    BY <1>f, <2>1, <2>2
<1>a. ASSUME NEW p \in Procs, after(p) PROVE Told(talk'[q])
  <2> DEFINE u == [talk[p] EXCEPT !.next = "idle", !.known = 0, !.read = Unread, !.whole = FALSE]
  <2>1. talk' = [talk EXCEPT ![p] = Blank] \/ talk' = [talk EXCEPT ![p] = u]
    BY <1>0, <1>a DEF after
  <2>2. u.whole = FALSE
    BY <1>t
  <2> HIDE DEF u
  <2> QED
    BY <1>b, <1>f, <2>1, <2>2
<1>1. ASSUME NEW p \in Procs, Ask(p) \/ AskCancel(p) PROVE Told(talk'[q])
  <2>1. PICK want, saw : \/ talk' = [talk EXCEPT ![p] = [Blank EXCEPT !.kind = "refund", !.want = want, !.saw = saw]]
                         \/ talk' = [talk EXCEPT ![p] = [Blank EXCEPT !.kind = "cancel", !.saw = saw]]
    BY <1>1 DEF Ask, AskCancel
  <2> DEFINE t == [Blank EXCEPT !.kind = "refund", !.want = want, !.saw = saw]
             u == [Blank EXCEPT !.kind = "cancel", !.saw = saw]
  <2>2. talk' = [talk EXCEPT ![p] = t] \/ talk' = [talk EXCEPT ![p] = u]
    BY <2>1
  <2>3. t.whole = FALSE /\ u.whole = FALSE
    BY DEF Blank
  <2> HIDE DEF t, u
  <2> QED
    BY <1>f, <2>2, <2>3
<1>2. ASSUME NEW p \in Procs, Hear(p) PROVE Told(talk'[q])
  <2>1. talk' = [talk EXCEPT ![p] = [talk[p] EXCEPT !.known = knownOf(pay)]]
    BY <1>0, <1>2 DEF Hear
  <2> QED
    BY <1>t, <1>w, <2>1
<1>3. ASSUME NEW p \in Procs, Before(p) PROVE Told(talk'[q])
  <2>1. \/ ends(p) \/ UNCHANGED talk
        \/ \E want : talk' = [talk EXCEPT ![p] = [talk[p] EXCEPT !.want = want]]
    <3> DEFINE want == IF refundableOf(rows) > 0 THEN refundableOf(rows) ELSE talk[p].saw
    <3>1. ends(p) \/ UNCHANGED talk \/ talk' = [talk EXCEPT ![p] = [talk[p] EXCEPT !.want = want]]
      BY <1>0, <1>3 DEF Before
    <3> QED
      BY <3>1
  <2> QED
    BY <1>e, <1>s, <1>t, <1>w, <2>1
<1>4. ASSUME NEW p \in Procs, Claim(p) PROVE Told(talk'[q])
  <2>1. \/ throws(p) \/ UNCHANGED talk
        \/ talk' = [talk EXCEPT ![p] = [talk[p] EXCEPT !.row = Len(rows) + 1, !.saw = 0, !.again = FALSE]]
    BY <1>0, <1>4 DEF Claim
  <2> QED
    BY <1>h, <1>s, <1>t, <1>w, <2>1
<1>5. ASSUME NEW p \in Procs, Made(p) \/ NotMade(p) \/ Reread(p) \/ ReadUnknown(p) PROVE Told(talk'[q])
  <2>1. throws(p) \/ UNCHANGED talk \/ \E read : talk' = [talk EXCEPT ![p] = [talk[p] EXCEPT !.read = read]]
    <3>1. \A read : [talk EXCEPT ![p].read = read] = [talk EXCEPT ![p] = [talk[p] EXCEPT !.read = read]]
      BY <1>0
    <3> QED
      BY <1>5, <3>1 DEF Made, NotMade, Reread, ReadUnknown
  <2> QED
    BY <1>h, <1>s, <1>t, <1>w, <2>1
<1>6. ASSUME NEW p \in Procs, Write(p) \/ Refuse(p) \/ Drop(p) \/ Hold(p) \/ Thrown(p) \/ Cancel(p) \/ Crash(p) PROVE Told(talk'[q])
  <2>1. told(p) \/ throws(p) \/ ends(p) \/ UNCHANGED talk
    BY <1>6 DEF Write, Refuse, Drop, Hold, Thrown, Cancel, Crash
  <2> QED
    BY <1>e, <1>h, <1>l, <1>s, <2>1
<1>7. ASSUME NEW p \in Procs, SettleUnknown(p) PROVE Told(talk'[q])
  <2>1. talk' = [talk EXCEPT ![p] = [talk[p] EXCEPT !.read = Unread, !.again = TRUE, !.next = "claim", !.known = knownOf(pay')]]
    BY <1>0, <1>7 DEF SettleUnknown
  <2> QED
    BY <1>t, <1>w, <2>1
<1>8. ASSUME NEW p \in Procs, HearList(p) PROVE Told(talk'[q])
  <2>1. CASE after(p)
    BY <1>a, <2>1
  <2>2. CASE ~after(p)
    <3>1. PICK listed \in listings(asaas) :
            talk' = [talk EXCEPT ![p].read = heard(listed, talk[p].known), ![p].known = 0, ![p].whole = wholeAt(asaas)]
      BY <1>8, <2>2 DEF HearList
    <3> DEFINE t == [talk[p] EXCEPT !.read = heard(listed, talk[p].known), !.known = 0, !.whole = wholeAt(asaas)]
    <3>2. talk' = [talk EXCEPT ![p] = t] /\ asaas' = asaas
      BY <1>0, <1>8, <3>1 DEF HearList
    <3>3. t.whole = wholeAt(asaas)
      BY <1>t
    <3> HIDE DEF t
    <3>4. q # p => talk'[q] = talk[q]
      BY <1>0, <3>2
    <3>5. q = p => talk'[q] = t
      BY <1>0, <3>2
    <3> QED
      BY <1>0, <3>2, <3>3, <3>4, <3>5 DEF Told
  <2> QED
    BY <2>1, <2>2
<1>9. ASSUME NEW p \in Procs, HearWrite(p) PROVE Told(talk'[q])
  BY <1>a, <1>9 DEF HearWrite
<1>10. \/ \E i \in DOMAIN rows : ClaimEnds(i)
       \/ \E j \in DOMAIN asaas : Shows(j) \/ Concludes(j) \/ Cancels(j)
       \/ PanelRefund
       => UNCHANGED talk
  BY DEF ClaimEnds, Shows, Concludes, Cancels, PanelRefund
<1>11. Told(talk'[q])
  BY <1>1, <1>2, <1>3, <1>4, <1>5, <1>6, <1>7, <1>8, <1>9, <1>10, <1>s DEF Next, Works
<1> QED
  BY <1>11 DEF Told

-----------------------------------------------------------------------------
(* The invariant, and what each step makes of it. *)

AllHeld(books, list) == \A i \in used(list) : books[i].status = "REQUESTED" => books[i].held

\* What was read is the oldest refunds; a settlement has read them all, or every row it could give up on is held.
Reads == \A p \in Procs : talk[p].read # Unread =>
  \E k : ReadAs(talk[p].read, asaas, k) /\ (at[p] = "settled" /\ k # Len(asaas) => AllHeld(rows, asaas))

PayTrue == /\ pay.status = "REFUNDED" => wholeAt(asaas)
           /\ pay.refunded <= backAt(asaas)
           /\ \A p \in Procs : talk[p].whole => wholeAt(asaas)

\* The row of a call is for what it asks; the row of a refund just made has it.
AtCall == \A p \in Procs : /\ at[p] = "call" => rows[talk[p].row].cents = talk[p].want
                           /\ at[p] = "write" => talk[p].row \in used(asaas)

OwnParts == Agree(rows, asaas) /\ Reads /\ PayTrue /\ ShownFirst(asaas) /\ AtCall
OwnInv == ItsOwn => OwnParts

\* What the rest of the argument stands on.
Sound == TypeInv /\ SafeInv /\ NeverMoreThanPaid

LEMMA WasItsOwn ==
  ASSUME NEW list \in Seq(Refund), NEW new, Grown(list, new),
         \A j \in 1..Len(new) : new[j].status # "CANCELLED" /\ new[j].by # 0
  PROVE  \A j \in 1..Len(list) : list[j].status # "CANCELLED" /\ list[j].by # 0
<1>1. Len(list) \in Nat /\ Len(new) \in Nat /\ Len(new) >= Len(list)
  BY DEF Grown
<1>2. \A j \in 1..Len(list) : j \in 1..Len(new)
  BY <1>1
<1> QED
  BY <1>2 DEF Grown

LEMMA ItsOwnIs ==
  ASSUME asaas \in Seq(Refund)
  PROVE  /\ ItsOwn <=> \A j \in 1..Len(asaas) : asaas[j].status # "CANCELLED" /\ asaas[j].by # 0
         /\ ItsOwn => NoneCancelled(asaas)
<1>1. DOMAIN asaas = 1..Len(asaas)
  BY RefundsAreCents
<1> QED
  BY <1>1 DEF ItsOwn, everCancelled, NoneCancelled, refundsAt

LEMMA StaysItsOwn ==
  ASSUME TypeInv, [Next]_vars, ItsOwn'
  PROVE  ItsOwn
<1>1. asaas \in Seq(Refund) /\ asaas' \in Seq(Refund)
  BY TypesAre, AsaasGrows DEF DataOK, Grown
<1>2. Grown(asaas, asaas')
  BY AsaasGrows
<1>3. \A j \in 1..Len(asaas') : asaas'[j].status # "CANCELLED" /\ asaas'[j].by # 0
  <2>1. DOMAIN asaas' = 1..Len(asaas')
    BY <1>1, RefundsAreCents
  <2> QED
    BY <2>1 DEF ItsOwn, everCancelled, refundsAt
<1>4. \A j \in 1..Len(asaas) : asaas[j].status # "CANCELLED" /\ asaas[j].by # 0
  BY <1>1, <1>2, <1>3, WasItsOwn
<1> QED
  BY <1>1, <1>4, ItsOwnIs

LEMMA ReadingAgrees ==
  ASSUME Sound, OwnParts, NEW p \in Procs, talk[p].read # Unread, NEW authoritative \in BOOLEAN,
         authoritative => at[p] = "settled"
  PROVE  LET new == reconcileRefunds(rows, talk[p].read, authoritative) IN
         new \in Rows /\ Len(new) = Len(rows) /\ Agree(new, asaas)
<1>1. rows \in Rows /\ asaas \in Seq(Refund) /\ talk[p].read \in RefundTotals
  BY TypesAre DEF Sound, DataOK, ProcsTyped, Talk
<1>2. PICK k : ReadAs(talk[p].read, asaas, k) /\ (at[p] = "settled" /\ k # Len(asaas) => AllHeld(rows, asaas))
  BY DEF OwnParts, Reads
<1>3. authoritative /\ k # Len(asaas) => \A i \in used(asaas) : rows[i].status = "REQUESTED" => rows[i].held
  BY <1>2 DEF AllHeld
<1>4. Agree(rows, asaas) /\ sumOf(rows, STANDING_REFUNDS) <= Amount
  BY DEF OwnParts, Sound, NeverMoreThanPaid
<1> QED
  BY <1>1, <1>2, <1>3, <1>4, ReconcileAgrees

\* Each writer of the books.
LEMMA ClaimKeeps ==
  ASSUME Sound, OwnParts, NEW p \in Procs, Claim(p)
  PROVE  Agree(rows', asaas')
<1>1. rows \in Rows /\ asaas \in Seq(Refund) /\ asaas' = asaas /\ Agree(rows, asaas) /\ DOMAIN rows = 1..Len(rows)
  BY TypesAre, RowsAreCents DEF Sound, DataOK, OwnParts, Claim
<1>2. CASE rows' = rows
  BY <1>1, <1>2
<1>3. CASE rows' # rows
  <2>1. askedRows = {} /\ mayClaim(talk[p]) /\ rows' = claimRefund(rows, talk[p].want) /\ at[p] = "claim"
    BY <1>3 DEF Claim
  <2>2. talk[p].want \in 1..Amount
    <3>1. talk[p] \in Talk /\ Fine("claim", talk[p], Len(rows))
      BY <2>1, TypesAre DEF Sound, ProcsTyped, AllFine
    <3>2. talk[p].want \in 0..Amount /\ talk[p].want # 0
      BY <3>1 DEF Talk, Fine
    <3> QED
      BY <3>2, AmountIsPaid
  <2>3. /\ rows' \in Rows /\ Len(rows') = Len(rows) + 1
        /\ \A i \in 1..Len(rows) : rows'[i] = rows[i]
        /\ rows'[Len(rows) + 1].status = "REQUESTED"
    BY <1>1, <2>1, <2>2, RowAdded
  <2>4. \A i \in 1..Len(rows) : rows[i].status # "REQUESTED"
    BY <1>1, <2>1 DEF askedRows, rowsIn
  <2>5. rows'[Len(rows')].status = "REQUESTED" /\ \A i \in 1..Len(rows) : rows'[i] = rows[i] /\ rows[i].status # "REQUESTED"
    BY <2>3, <2>4
  <2>6. Agree(rows', asaas)
    BY <1>1, <2>3, <2>5, ClaimAgrees
  <2> QED
    BY <1>1, <2>6
<1> QED
  BY <1>2, <1>3

LEMMA WriteKeeps ==
  ASSUME Sound, OwnParts, NEW p \in Procs, Write(p)
  PROVE  Agree(rows', asaas')
<1> DEFINE r == talk[p].row
           mid == reconcileRefunds(rows, talk[p].read, FALSE)
<1>1. /\ asaas \in Seq(Refund) /\ asaas' = asaas /\ at[p] = "write"
      /\ rows' = takeRefund(mid, r) /\ Fine("write", talk[p], Len(rows))
  BY TypesAre DEF Sound, DataOK, ProcsTyped, AllFine, Write, writes
<1>2. r \in 1..Len(rows) /\ r \in used(asaas) /\ talk[p].read # Unread
  <2>1. r \in 1..Len(rows) /\ talk[p].read \in RefundTotals
    BY <1>1 DEF Fine, AskingPlaces
  <2> QED
    BY <1>1, <2>1, NothingRead DEF OwnParts, AtCall
<1>3. mid \in Rows /\ Len(mid) = Len(rows) /\ Agree(mid, asaas)
  BY <1>2, ReadingAgrees
<1>4. rows' = Closed(mid, r, "PROCESSING")
  BY <1>1, WritersClose
<1> HIDE DEF mid, r
<1>5. OwnStep(mid, rows')
  BY <1>2, <1>3, <1>4, ClosedIsOwn
<1>6. \A i \in 1..Len(mid) : rows'[i].status # mid[i].status => (i \in used(asaas) <=> rows'[i].status = "PROCESSING")
  <2>1. /\ \A i \in 1..Len(mid) : i # r \/ mid[r].status # "REQUESTED" => rows'[i] = mid[i]
        /\ mid[r].status = "REQUESTED" => rows'[r].status = "PROCESSING"
    <3>1. r \in 1..Len(mid)
      BY <1>2, <1>3
    <3>2. LET new == Closed(mid, r, "PROCESSING") IN
          /\ \A i \in 1..Len(mid) : i # r \/ mid[r].status # "REQUESTED" => new[i] = mid[i]
          /\ mid[r].status = "REQUESTED" => new[r].status = "PROCESSING"
      BY <1>3, <3>1, AskedRowClosed
    <3> QED
      BY <1>4, <3>2, Zenon
  <2> QED
    BY <1>2, <2>1
<1>7. Agree(rows', asaas)
  BY <1>1, <1>3, <1>5, <1>6, WriterAgrees
<1> QED
  BY <1>1, <1>7

LEMMA HoldKeeps ==
  ASSUME Sound, OwnParts, NEW p \in Procs, Hold(p)
  PROVE  Agree(rows', asaas')
<1> DEFINE r == talk[p].row
           known == IF talk[p].read = Unread THEN rows ELSE reconcileRefunds(rows, talk[p].read, FALSE)
<1>1. /\ asaas \in Seq(Refund) /\ asaas' = asaas /\ at[p] = "hold" /\ rows \in Rows /\ Agree(rows, asaas)
      /\ rows' = holdRefund(known, r) /\ Fine("hold", talk[p], Len(rows))
  BY TypesAre DEF Sound, DataOK, ProcsTyped, AllFine, Hold, writes, OwnParts
<1>2. r \in 1..Len(rows)
  BY <1>1 DEF Fine, AskingPlaces
<1>3. known \in Rows /\ Len(known) = Len(rows) /\ Agree(known, asaas)
  <2>1. talk[p].read # Unread =>
          LET new == reconcileRefunds(rows, talk[p].read, FALSE) IN
          new \in Rows /\ Len(new) = Len(rows) /\ Agree(new, asaas)
    BY ReadingAgrees
  <2> QED
    BY <1>1, <2>1
<1> HIDE DEF known, r
<1>4. OwnStep(known, rows')
  BY <1>1, <1>2, <1>3, HeldIsOwn
<1>5. \A i \in 1..Len(known) : rows'[i].status = known[i].status
  BY <1>1, <1>2, <1>3, AskedRowHeld
<1>6. Agree(rows', asaas)
  BY <1>1, <1>3, <1>4, <1>5, WriterAgrees
<1> QED
  BY <1>1, <1>6

LEMMA HearingKeeps ==
  ASSUME Sound, OwnParts, NEW p \in Procs, HearWrite(p) \/ SettleUnknown(p)
  PROVE  Agree(rows', asaas')
<1>1. PICK authoritative \in BOOLEAN :
        /\ rows' = reconcileRefunds(rows, talk[p].read, authoritative) /\ asaas' = asaas
        /\ at[p] \in {"heard", "settled"} /\ (authoritative => at[p] = "settled")
  BY DEF HearWrite, SettleUnknown, writes
<1>2. talk[p].read # Unread
  <2>1. Fine(at[p], talk[p], Len(rows))
    BY TypesAre DEF Sound, ProcsTyped, AllFine
  <2> QED
    BY <1>1, <2>1, NothingRead DEF Fine
<1>3. Agree(reconcileRefunds(rows, talk[p].read, authoritative), asaas)
  BY <1>1, <1>2, ReadingAgrees
<1> QED
  BY <1>1, <1>3

LEMMA ClosingKeeps ==
  ASSUME Sound, OwnParts, NEW p \in Procs, Refuse(p) \/ Drop(p)
  PROVE  Agree(rows', asaas')
<1> DEFINE r == talk[p].row
<1>1. /\ asaas \in Seq(Refund) /\ asaas' = asaas /\ rows \in Rows /\ Agree(rows, asaas)
      /\ at[p] \in {"refuse", "drop"} /\ Fine(at[p], talk[p], Len(rows))
  BY TypesAre DEF Sound, DataOK, ProcsTyped, AllFine, OwnParts, Refuse, Drop
<1>2. PICK status \in {"REFUSED", "DROPPED"} : rows' = Closed(rows, r, status)
  BY WritersClose DEF Refuse, Drop
<1>3. r \in 1..Len(rows)
  BY <1>1 DEF Fine, AskingPlaces
<1>4. r \notin used(asaas)
  <2>1. \A j \in 1..Len(asaas) : asaas[j].by # r
    BY <1>1, RefundsAreCents DEF Sound, SafeInv, Unmade
  <2> QED
    BY <2>1 DEF used, usedUpto
<1> HIDE DEF r
<1>5. OwnStep(rows, rows')
  BY <1>1, <1>2, <1>3, ClosedIsOwn
<1>6. \A i \in 1..Len(rows) : rows'[i].status # rows[i].status => (i \in used(asaas) <=> rows'[i].status = "PROCESSING")
  <2>1. /\ \A i \in 1..Len(rows) : i # r \/ rows[r].status # "REQUESTED" => rows'[i] = rows[i]
        /\ rows[r].status = "REQUESTED" => rows'[r].status = status
    <3>0. status \in {"PROCESSING", "REFUSED", "DROPPED"} /\ rows \in Rows /\ r \in 1..Len(rows)
      BY <1>1, <1>3
    <3> DEFINE closed == Closed(rows, r, status)
    <3>1. /\ closed \in Rows /\ Len(closed) = Len(rows)
          /\ \A i \in 1..Len(rows) : i # r \/ rows[r].status # "REQUESTED" => closed[i] = rows[i]
          /\ rows[r].status = "REQUESTED" => closed[r].status = status
          /\ closed[r].cents = rows[r].cents
      BY <3>0, AskedRowClosed
    <3> QED
      BY <1>2, <3>1, Zenon
  <2> QED
    BY <1>4, <2>1
<1>7. Agree(rows', asaas)
  BY <1>1, <1>5, <1>6, WriterAgrees
<1> QED
  BY <1>1, <1>7

LEMMA ClaimEndsKeeps ==
  ASSUME Sound, OwnParts, NEW i \in DOMAIN rows, ClaimEnds(i)
  PROVE  Agree(rows', asaas')
<1>1. /\ asaas \in Seq(Refund) /\ asaas' = asaas /\ rows \in Rows /\ Agree(rows, asaas)
      /\ rows' = [rows EXCEPT ![i].held = FALSE] /\ i \in 1..Len(rows)
  BY TypesAre, RowsAreCents DEF Sound, DataOK, OwnParts, ClaimEnds
<1>2. OwnStep(rows, rows')
  BY <1>1, HeldIsOwn
<1>3. \A j \in 1..Len(rows) : rows'[j].status = rows[j].status
  <2> DEFINE row == [rows[i] EXCEPT !.held = FALSE]
  <2>1. rows[i] \in RefundRow
    BY <1>1 DEF Rows
  <2>2. row \in RefundRow /\ row.status = rows[i].status
    BY <2>1 DEF RefundRow
  <2>3. rows' = [rows EXCEPT ![i] = row]
    BY <1>1, <2>1 DEF Rows
  <2> HIDE DEF row
  <2> QED
    BY <1>1, <2>2, <2>3, RowWritten
<1>4. Agree(rows', asaas)
  BY <1>1, <1>2, <1>3, WriterAgrees
<1> QED
  BY <1>1, <1>4

\* A refund is made for a row that is still asked and has none.
LEMMA MadeIsAsked ==
  ASSUME Sound, OwnParts, NEW p \in Procs, Made(p)
  PROVE  LET r == talk[p].row IN
         /\ r \in 1..Len(rows) /\ r \notin used(asaas) /\ rows[r].status = "REQUESTED" /\ rows[r].held
         /\ rows' = rows /\ Len(asaas') = Len(asaas) + 1
         /\ asaas'[Len(asaas')].by = r /\ asaas'[Len(asaas')].cents = rows[r].cents
         /\ \A j \in 1..Len(asaas) : asaas'[j] = asaas[j]
         /\ asaas'[Len(asaas')].shown => \A j \in 1..Len(asaas) : InOrder => asaas[j].shown
<1> DEFINE r == talk[p].row
<1>1. /\ asaas \in Seq(Refund) /\ rows \in Rows /\ DOMAIN rows = 1..Len(rows) /\ DOMAIN asaas = 1..Len(asaas) /\ Len(asaas) \in Nat
      /\ at[p] = "call" /\ Fine("call", talk[p], Len(rows)) /\ rows' = rows
  BY TypesAre, RowsAreCents, RefundsAreCents DEF Sound, DataOK, ProcsTyped, AllFine, Made, booksStay, Cents
<1>2. r \in 1..Len(rows)
  BY <1>1 DEF Fine, AskingPlaces
<1>3. r \notin used(asaas)
  <2>1. \A j \in 1..Len(asaas) : asaas[j].by # r
    BY <1>1 DEF Sound, SafeInv, Unmade
  <2> QED
    BY <2>1 DEF used, usedUpto
<1>4. covered(r)
  BY <1>1 DEF covered, asking
<1>5. rows[r].status = "REQUESTED" /\ rows[r].held
  <2>1. rows[r].status \notin {"REFUSED", "DROPPED"}
    BY <1>1, <1>2, <1>4 DEF Sound, SafeInv, NotGivenUp
  <2>2. rows[r].status \notin TAKEN_REFUNDS \cup {"DENIED"}
    BY <1>2, <1>3 DEF OwnParts, Agree, TakenHere
  <2>3. rows[r].status \in RefundStatuses
    <3>1. rows[r] \in RefundRow
      BY <1>1, <1>2 DEF Rows
    <3> QED
      BY <3>1 DEF RefundRow
  <2>4. rows[r].status = "REQUESTED"
    BY <2>1, <2>2, <2>3 DEF RefundStatuses, STANDING_REFUNDS, TAKEN_REFUNDS
  <2> QED
    BY <1>1, <1>2, <1>4, <2>4 DEF Sound, SafeInv, Held
<1>6. talk[p].want = rows[r].cents
  BY <1>1 DEF OwnParts, AtCall
<1>7. PICK shown \in {s \in BOOLEAN : s => mayShow(Len(asaas) + 1)} :
        asaas' = Append(asaas, [cents |-> talk[p].want, status |-> "PENDING", shown |-> shown, by |-> talk[p].row])
  BY DEF Made
<1> DEFINE refund == [cents |-> talk[p].want, status |-> "PENDING", shown |-> shown, by |-> r]
<1>8. /\ refund.by = r /\ refund.cents = talk[p].want /\ refund.shown = shown
      /\ asaas' = Append(asaas, refund)
  BY <1>7
<1> HIDE DEF refund, r
<1>9. Len(asaas') = Len(asaas) + 1 /\ asaas'[Len(asaas) + 1] = refund /\ \A j \in 1..Len(asaas) : asaas'[j] = asaas[j]
  BY <1>1, <1>8
<1>10. shown /\ InOrder => \A j \in 1..Len(asaas) : asaas[j].shown
  <2>1. 1..((Len(asaas) + 1) - 1) = 1..Len(asaas)
    BY <1>1
  <2>2. shown => mayShow(Len(asaas) + 1)
    BY <1>7
  <2> QED
    BY <2>1, <2>2 DEF mayShow
<1> QED
  BY <1>1, <1>2, <1>3, <1>5, <1>6, <1>8, <1>9, <1>10 DEF r

\* While they are its own, the panel gives nothing back, and only a call that was made adds a refund.
LEMMA NoneOfThePanel ==
  ASSUME TypeInv, ItsOwn'
  PROVE  ~PanelRefund
<1> SUFFICES ASSUME PanelRefund PROVE FALSE
  OBVIOUS
<1>0. asaas \in Seq(Refund)
  BY TypesAre DEF DataOK
<1>1. PICK cents \in 1..roomAt(asaas) :
        asaas' = Append(asaas, [cents |-> cents, status |-> "PENDING", shown |-> TRUE, by |-> 0])
  BY DEF PanelRefund
<1> DEFINE refund == [cents |-> cents, status |-> "PENDING", shown |-> TRUE, by |-> 0]
<1>2. refund.by = 0 /\ asaas' = Append(asaas, refund)
  BY <1>1
<1> HIDE DEF refund
<1>3. Len(asaas) + 1 \in DOMAIN asaas' /\ asaas'[Len(asaas) + 1] = refund
  BY <1>0, <1>2
<1> QED
  BY <1>2, <1>3 DEF ItsOwn

LEMMA AsaasLonger ==
  ASSUME TypeInv, Next, ItsOwn', Len(asaas') # Len(asaas)
  PROVE  \E p \in Procs : Made(p)
<1>0. asaas \in Seq(Refund)
  BY TypesAre DEF DataOK
<1>1. ASSUME NEW p \in Procs, ~Made(p), Ask(p) \/ AskCancel(p) \/ Hear(p) \/ Works(p) \/ Crash(p) PROVE asaas' = asaas
  BY <1>1 DEF Ask, AskCancel, Hear, Works, Crash, Claim, NotMade, Write, Refuse, Drop, Reread, Hold, ReadUnknown,
              SettleUnknown, HearList, HearWrite, Before, Thrown, Cancel
<1>2. ASSUME NEW i \in DOMAIN rows, ClaimEnds(i) PROVE asaas' = asaas
  BY <1>2 DEF ClaimEnds
<1>3. ASSUME NEW j \in DOMAIN asaas, Shows(j) \/ Concludes(j) \/ Cancels(j) PROVE Len(asaas') = Len(asaas)
  <2>1. \A refund : Len([asaas EXCEPT ![j] = refund]) = Len(asaas)
    BY <1>0
  <2>2. \E refund : asaas' = [asaas EXCEPT ![j] = refund]
    BY <1>0, <1>3 DEF Shows, Concludes, Cancels
  <2> QED
    BY <2>1, <2>2
<1>4. ~PanelRefund
  BY NoneOfThePanel
<1> QED
  BY <1>1, <1>2, <1>3, <1>4 DEF Next

LEMMA UsedGrows ==
  ASSUME NEW list \in Seq(Refund), NEW new, Grown(list, new)
  PROVE  /\ Len(new) = Len(list) => used(new) = used(list)
         /\ Len(new) # Len(list) => used(new) = used(list) \cup {new[Len(new)].by}
         /\ used(list) \subseteq used(new)
<1>0. /\ Len(list) \in Nat /\ Len(new) \in {Len(list), Len(list) + 1}
      /\ \A j \in 1..Len(list) : new[j].by = list[j].by
  BY DEF Grown
<1>1. CASE Len(new) = Len(list)
  BY <1>0, <1>1 DEF used, usedUpto
<1>2. CASE Len(new) # Len(list)
  <2>1. Len(new) = Len(list) + 1 /\ 1..Len(new) = (1..Len(list)) \cup {Len(new)}
    BY <1>0, <1>2
  <2>2. used(new) = used(list) \cup {new[Len(new)].by}
    BY <1>0, <2>1 DEF used, usedUpto
  <2> QED
    BY <1>2, <2>2
<1> QED
  BY <1>1, <1>2

LEMMA MadeKeeps ==
  ASSUME Sound, OwnParts, Next, NEW p \in Procs, Made(p)
  PROVE  Agree(rows', asaas') /\ AllHeld(rows', asaas') /\ talk[p].row \in used(asaas')
<1> DEFINE r == talk[p].row
<1>0. /\ rows \in Rows /\ asaas \in Seq(Refund) /\ Agree(rows, asaas) /\ TakenHere(rows, asaas)
      /\ Len(asaas) \in Nat /\ Len(rows) \in Nat
  BY TypesAre, RefundsAreCents, RowsAreCents DEF Sound, DataOK, OwnParts, Agree, Cents
<1>1. Grown(asaas, asaas')
  BY AsaasGrows DEF Sound
<1>2. /\ r \in 1..Len(rows) /\ r \notin used(asaas) /\ rows[r].status = "REQUESTED" /\ rows[r].held
      /\ rows' = rows /\ Len(asaas') = Len(asaas) + 1
      /\ asaas'[Len(asaas')].by = r /\ asaas'[Len(asaas')].cents = rows[r].cents
  BY MadeIsAsked
<1> HIDE DEF r
<1>3. Agree(rows, asaas')
  BY <1>0, <1>1, <1>2, AsaasAgrees
<1>4. used(asaas') = used(asaas) \cup {r}
  BY <1>0, <1>1, <1>2, UsedGrows
<1>5. \A i \in used(asaas) : rows[i].status # "REQUESTED"
  <2>1. ASSUME NEW i \in used(asaas), rows[i].status = "REQUESTED" PROVE FALSE
    <3>1. i \in 1..Len(rows)
      BY <1>0 DEF used, usedUpto, Agree, AskedHere
    <3>2. i = Len(rows) /\ r = Len(rows)
      BY <1>0, <1>2, <2>1, <3>1 DEF TakenHere
    <3> QED
      BY <1>2, <3>2
  <2> QED
    BY <2>1
<1>6. AllHeld(rows, asaas')
  BY <1>2, <1>4, <1>5 DEF AllHeld
<1> QED
  BY <1>2, <1>3, <1>4, <1>6 DEF r

LEMMA OthersKeep ==
  ASSUME Sound, OwnParts, Next, rows' = rows, Len(asaas') = Len(asaas)
  PROVE  Agree(rows', asaas')
<1>1. rows \in Rows /\ asaas \in Seq(Refund) /\ Agree(rows, asaas)
  BY TypesAre DEF Sound, DataOK, OwnParts
<1>2. Grown(asaas, asaas')
  BY AsaasGrows DEF Sound
<1>3. Agree(rows, asaas')
  BY <1>1, <1>2, AsaasAgrees
<1> QED
  BY <1>3

\* Every step leaves the rows agreeing with Asaas, while the refunds stay the rows' own.
LEMMA AgreesStay ==
  ASSUME Sound, OwnParts, Next, ItsOwn'
  PROVE  Agree(rows', asaas')
<1>1. ASSUME NEW p \in Procs, Claim(p) \/ Write(p) \/ Hold(p) \/ HearWrite(p) \/ SettleUnknown(p) \/ Refuse(p) \/ Drop(p) \/ Made(p)
      PROVE  Agree(rows', asaas')
  BY <1>1, ClaimKeeps, WriteKeeps, HoldKeeps, HearingKeeps, ClosingKeeps, MadeKeeps
<1>2. ASSUME NEW p \in Procs, Ask(p) \/ AskCancel(p) \/ Hear(p) \/ Crash(p)
      PROVE  rows' = rows /\ asaas' = asaas
  BY <1>2 DEF Ask, AskCancel, Hear, Crash, booksStay
<1>3. ASSUME NEW p \in Procs, NotMade(p) \/ Reread(p) \/ ReadUnknown(p) \/ HearList(p) \/ Before(p) \/ Thrown(p) \/ Cancel(p)
      PROVE  rows' = rows /\ asaas' = asaas
  BY <1>3 DEF NotMade, Reread, ReadUnknown, HearList, Before, Thrown, Cancel, booksStay
<1>4. ASSUME NEW i \in DOMAIN rows, ClaimEnds(i) PROVE Agree(rows', asaas')
  BY <1>4, ClaimEndsKeeps
<1>5. (\E j \in DOMAIN asaas : Shows(j) \/ Concludes(j) \/ Cancels(j)) \/ PanelRefund => rows' = rows
  BY DEF Shows, Concludes, Cancels, PanelRefund, booksStay
<1>6. CASE \E p \in Procs : Made(p)
  BY <1>1, <1>6
<1>7. CASE ~\E p \in Procs : Made(p)
  <2>1. Len(asaas') = Len(asaas)
    BY <1>7, AsaasLonger DEF Sound
  <2>2. rows' = rows => Agree(rows', asaas')
    BY <2>1, OthersKeep
  <2>3. ASSUME NEW p \in Procs, Ask(p) \/ AskCancel(p) \/ Hear(p) \/ Works(p) \/ Crash(p) PROVE Agree(rows', asaas')
    BY <1>1, <1>2, <1>3, <2>2, <2>3 DEF Works
  <2> QED
    BY <1>4, <1>5, <2>2, <2>3 DEF Next
<1> QED
  BY <1>6, <1>7

\* A row still asked was asked, and stays held unless its claim runs out.
LEMMA AskedStaysHeld ==
  ASSUME TypeInv, Next, ~\E i \in DOMAIN rows : ClaimEnds(i), NEW i \in 1..Len(rows), rows'[i].status = "REQUESTED"
  PROVE  rows[i].status = "REQUESTED" /\ (rows[i].held => rows'[i].held)
<1>1. ASSUME NEW p \in Procs, Quiet(p) PROVE rows[i].status = "REQUESTED" /\ (rows[i].held => rows'[i].held)
  BY <1>1 DEF Quiet, Moved, RowStep
<1>2. ASSUME NEW p \in Procs, Begins(p) \/ Makes(p) PROVE rows'[i] = rows[i]
  BY <1>2 DEF Begins, Makes
<1>3. ASSUME NEW p \in Procs, GivesUp(p) PROVE rows'[i] = rows[i]
  BY <1>3 DEF GivesUp, GivenUp
<1>4. (\E j \in DOMAIN asaas : Shows(j) \/ Concludes(j) \/ Cancels(j)) \/ PanelRefund => rows' = rows
  BY DEF Shows, Concludes, Cancels, PanelRefund, booksStay
<1>5. ASSUME NEW p \in Procs, Ask(p) \/ AskCancel(p) \/ Hear(p) \/ Works(p) \/ Crash(p)
      PROVE  rows[i].status = "REQUESTED" /\ (rows[i].held => rows'[i].held)
  BY <1>1, <1>2, <1>3, <1>5, ProcStepIs
<1> QED
  BY <1>4, <1>5 DEF Next

LEMMA HeldStays ==
  ASSUME Sound, OwnParts, Next, ItsOwn', Timely, settling, AllHeld(rows, asaas)
  PROVE  AllHeld(rows', asaas')
<1>0. asaas \in Seq(Refund) /\ Agree(rows, asaas) /\ Grown(asaas, asaas')
  BY TypesAre, AsaasGrows DEF Sound, DataOK, OwnParts
<1>1. CASE \E p \in Procs : Made(p)
  BY <1>1, MadeKeeps
<1>2. CASE ~\E p \in Procs : Made(p)
  <2>1. used(asaas') = used(asaas)
    <3>1. Len(asaas') = Len(asaas)
      BY <1>2, AsaasLonger DEF Sound
    <3> QED
      BY <1>0, <3>1, UsedGrows
  <2>2. \A i \in used(asaas) : i \in 1..Len(rows)
    BY <1>0 DEF used, usedUpto, Agree, AskedHere
  <2>3. ~\E i \in DOMAIN rows : ClaimEnds(i)
    BY DEF ClaimEnds
  <2>4. \A i \in 1..Len(rows) : rows'[i].status = "REQUESTED" =>
           rows[i].status = "REQUESTED" /\ (rows[i].held => rows'[i].held)
    BY <2>3, AskedStaysHeld DEF Sound
  <2>5. ASSUME NEW i \in used(asaas'), rows'[i].status = "REQUESTED" PROVE rows'[i].held
    <3>1. i \in used(asaas) /\ i \in 1..Len(rows)
      BY <2>1, <2>2
    <3>2. rows[i].status = "REQUESTED" /\ (rows[i].held => rows'[i].held)
      BY <2>4, <2>5, <3>1
    <3>3. rows[i].held
      BY <3>1, <3>2 DEF AllHeld
    <3> QED
      BY <3>2, <3>3
  <2> QED
    BY <2>5 DEF AllHeld
<1> QED
  BY <1>1, <1>2

\* A reading made to settle the unknown holds every refund, or no row it could give up on is unheld.
LEMMA SettlingReadsAll ==
  ASSUME Sound, OwnParts, ItsOwn
  PROVE  \E k : ReadAs(totalsOf(asaas), asaas, k) /\ (k # Len(asaas) => AllHeld(rows, asaas))
<1>0. /\ rows \in Rows /\ asaas \in Seq(Refund) /\ Len(rows) \in Nat /\ Len(asaas) \in Nat
      /\ DOMAIN rows = 1..Len(rows) /\ DOMAIN asaas = 1..Len(asaas)
  BY TypesAre, RowsAreCents, RefundsAreCents DEF Sound, DataOK, Cents
<1>1. /\ AskedHere(rows, asaas) /\ TakenHere(rows, asaas) /\ ShownFirst(asaas) /\ NoneCancelled(asaas)
      /\ sumOf(rows, STANDING_REFUNDS) <= Amount
  BY <1>0, ItsOwnIs DEF OwnParts, Agree, Sound, NeverMoreThanPaid
<1>2. CASE \A j \in 1..Len(asaas) : asaas[j].shown
  <2>1. ReadAs(totalsOf(asaas), asaas, Len(asaas))
    BY <1>0, <1>1, <1>2, AllIsRead
  <2> QED
    BY <2>1
<1>3. CASE ~\A j \in 1..Len(asaas) : asaas[j].shown
  <2>1. PICK k : ReadAs(totalsOf(asaas), asaas, k)
    <3>1. totalsOf(asaas) \in Readings(asaas)
      BY DEF Readings
    <3> QED
      BY <1>0, <1>1, <3>1, ReadingIsAs
  <2>2. ASSUME NEW i \in used(asaas), rows[i].status = "REQUESTED", ~rows[i].held PROVE FALSE
    <3>1. PICK m \in 1..Len(asaas) : asaas[m].by = i
      BY DEF used, usedUpto
    <3>2. i \in 1..Len(rows)
      BY <1>1, <3>1 DEF AskedHere
    <3>3. ~covered(i)
      BY <1>0, <2>2, <3>2 DEF Sound, SafeInv, Held
    <3>4. asaas[m].shown
      BY <1>0, <3>1, <3>3 DEF covered
    <3>5. i = Len(rows)
      BY <1>1, <2>2, <3>2 DEF TakenHere
    <3>6. ASSUME NEW j \in 1..Len(asaas) PROVE asaas[j].shown
      <4>1. asaas[j].by \in 1..Len(rows)
        BY <1>1 DEF AskedHere
      <4>2. ~(asaas[m].by < asaas[j].by)
        BY <1>0, <3>1, <3>5, <4>1
      <4>3. ~(m < j)
        BY <1>1, <3>1, <4>2 DEF AskedHere
      <4>4. j = m \/ j < m
        BY <1>0, <3>1, <4>3
      <4> QED
        BY <1>1, <3>4, <4>4 DEF ShownFirst
    <3> QED
      BY <1>3, <3>6
  <2> QED
    BY <2>1, <2>2 DEF AllHeld
<1> QED
  BY <1>2, <1>3

LEMMA ReadsStay ==
  ASSUME Sound, OwnParts, Next, ItsOwn, ItsOwn', Timely, Sound', Agree(rows', asaas'), ShownFirst(asaas')
  PROVE  Reads'
<1>0. /\ rows' \in Rows /\ asaas \in Seq(Refund) /\ asaas' \in Seq(Refund) /\ Grown(asaas, asaas')
      /\ talk \in [Procs -> Talk] /\ TypeInv
  BY TypesAre, AsaasGrows DEF Sound, DataOK, ProcsTyped, TypeInv, TypeOK, Rows
<1>1. AskedHere(rows', asaas') /\ sumOf(rows', STANDING_REFUNDS) <= Amount /\ NoneCancelled(asaas')
  <2>1. NoneCancelled(asaas')
    BY DEF ItsOwn, everCancelled, NoneCancelled
  <2> QED
    BY <2>1 DEF Agree, Sound, NeverMoreThanPaid
<1>2. ASSUME NEW q \in Procs, talk'[q].read # Unread
      PROVE  \E k : ReadAs(talk'[q].read, asaas', k) /\ (at'[q] = "settled" /\ k # Len(asaas') => AllHeld(rows', asaas'))
  <2>1. CASE at'[q] # "settled"
    <3>1. CASE talk'[q].read = talk[q].read
      <4>1. PICK k : ReadAs(talk[q].read, asaas, k)
        BY <1>2, <3>1 DEF OwnParts, Reads
      <4>2. talk[q].read \in RefundTotals
        BY <1>0, <1>2, <3>1 DEF Talk
      <4>3. ReadAs(talk[q].read, asaas', k)
        BY <1>0, <4>1, <4>2, ReadStays
      <4> QED
        BY <2>1, <3>1, <4>3
    <3>2. CASE talk'[q].read \in Readings(asaas')
      <4>1. \E k : ReadAs(talk'[q].read, asaas', k)
        BY <1>0, <1>1, <3>2, ReadingIsAs
      <4> QED
        BY <2>1, <4>1
    <3> QED
      BY <1>0, <1>2, <3>1, <3>2, ReadsAre
  <2>2. CASE at'[q] = "settled" /\ at'[q] = at[q] /\ talk'[q] = talk[q]
    <3>1. PICK k : ReadAs(talk[q].read, asaas, k) /\ (k # Len(asaas) => AllHeld(rows, asaas))
      BY <1>2, <2>2 DEF OwnParts, Reads
    <3>2. talk[q].read \in RefundTotals
      BY <1>0, <1>2, <2>2 DEF Talk
    <3>3. ReadAs(talk[q].read, asaas', k)
      BY <1>0, <3>1, <3>2, ReadStays
    <3>4. ASSUME k # Len(asaas') PROVE AllHeld(rows', asaas')
      <4>1. CASE k # Len(asaas)
        <5>1. settling
          BY <2>2 DEF settling
        <5> QED
          BY <3>1, <4>1, <5>1, HeldStays
      <4>2. CASE k = Len(asaas)
        <5>1. \E p \in Procs : Made(p)
          BY <1>0, <3>4, <4>2, AsaasLonger
        <5> QED
          BY <5>1, MadeKeeps
      <4> QED
        BY <4>1, <4>2
    <3> QED
      BY <2>2, <3>3, <3>4
  <2>3. CASE at'[q] = "settled" /\ ReadUnknown(q) /\ talk'[q].read = totalsOf(asaas)
    <3>1. rows' = rows /\ asaas' = asaas
      BY <2>3 DEF ReadUnknown, booksStay
    <3>2. PICK k : ReadAs(totalsOf(asaas), asaas, k) /\ (k # Len(asaas) => AllHeld(rows, asaas))
      BY SettlingReadsAll
    <3> QED
      BY <2>3, <3>1, <3>2
  <2> QED
    BY <1>0, <2>1, <2>2, <2>3, WhereFrom DEF Telling
<1> QED
  BY <1>2 DEF Reads

-----------------------------------------------------------------------------
(* What the payment says of the money. *)

LEMMA SettledTrue ==
  ASSUME NEW books \in Rows, NEW list \in Seq(Refund), NEW money \in Payment,
         sumOf(books, {"DONE"}) <= backAt(list), backAt(list) <= Amount, money.status = "REFUNDED" => wholeAt(list)
  PROVE  LET new == settleRefundMoney(money, books) IN
         (new.status = "REFUNDED" => wholeAt(list)) /\ new.refunded <= backAt(list)
<1> DEFINE whole == money.status = "REFUNDED" \/ backOf(books) >= Amount
           refunded == IF whole THEN Amount ELSE backOf(books)
           status == IF whole THEN "REFUNDED" ELSE IF refunded > 0 THEN "PARTIALLY_REFUNDED" ELSE money.status
           new == settleRefundMoney(money, books)
<1>1. backOf(books) \in Nat /\ backAt(list) \in Nat /\ backOf(books) <= backAt(list)
  BY RowsSums, BackFits DEF backOf
<1>2. whole => wholeAt(list) /\ backAt(list) = Amount
  <2>1. wholeAt(list) <=> backAt(list) = Amount
    BY DEF wholeAt, backAt
  <2> QED
    BY <1>1, <2>1, AmountIsPaid
<1>3. new = [money EXCEPT !.refunded = refunded, !.refunding = refundingOf(books, refunded), !.status = status]
  BY DEF settleRefundMoney
<1>4. new.status = status /\ new.refunded = refunded
  BY <1>3 DEF Payment
<1> HIDE DEF new
<1>5. refunded <= backAt(list)
  BY <1>1, <1>2
<1>6. status = "REFUNDED" => whole
  BY DEF Payment
<1> QED
  BY <1>2, <1>4, <1>5, <1>6 DEF new

LEMMA PayIsSettled ==
  ASSUME TypeInv, Next
  PROVE  \/ pay' = pay
         \/ \E money \in Payment :
              /\ money.status = "REFUNDED" => pay.status = "REFUNDED" \/ \E p \in Procs : talk[p].whole
              /\ pay' = settleRefundMoney(money, rows')
<1>0. pay \in Payment
  BY TypesAre DEF DataOK
<1>1. ASSUME NEW p \in Procs, Write(p) \/ Hold(p) \/ SettleUnknown(p) PROVE pay' = settleRefundMoney(pay, rows')
  BY <1>1 DEF Write, Hold, SettleUnknown, writes
<1>2. ASSUME NEW p \in Procs, HearWrite(p)
      PROVE  \E money \in Payment : /\ money.status = "REFUNDED" => pay.status = "REFUNDED" \/ talk[p].whole
                                    /\ pay' = settleRefundMoney(money, rows')
  <2> DEFINE status == IF talk[p].whole THEN "REFUNDED" ELSE pay.status
             money == [pay EXCEPT !.status = status]
  <2>1. pay' = settleRefundMoney(money, rows')
    BY <1>0, <1>2 DEF HearWrite
  <2>2. money \in Payment /\ money.status = status
    BY <1>0 DEF Payment
  <2> HIDE DEF money
  <2> QED
    BY <2>1, <2>2
<1>3. ASSUME NEW p \in Procs, Claim(p) \/ Made(p) \/ NotMade(p) \/ Refuse(p) \/ Drop(p) \/ Reread(p) \/ ReadUnknown(p)
                              \/ HearList(p) \/ Before(p) \/ Thrown(p) \/ Cancel(p)
      PROVE  pay' = pay
  BY <1>3 DEF Claim, Made, NotMade, Refuse, Drop, Reread, ReadUnknown, HearList, Before, Thrown, Cancel, booksStay
<1>4. ASSUME NEW p \in Procs, Ask(p) \/ AskCancel(p) \/ Hear(p) \/ Crash(p) PROVE pay' = pay
  BY <1>4 DEF Ask, AskCancel, Hear, Crash, booksStay
<1>5. (\E i \in DOMAIN rows : ClaimEnds(i)) \/ (\E j \in DOMAIN asaas : Shows(j) \/ Concludes(j) \/ Cancels(j)) \/ PanelRefund
      => pay' = pay
  BY DEF ClaimEnds, Shows, Concludes, Cancels, PanelRefund, booksStay
<1>6. ASSUME NEW p \in Procs, Works(p) PROVE Write(p) \/ Hold(p) \/ SettleUnknown(p) \/ HearWrite(p) \/ pay' = pay
  BY <1>3, <1>6 DEF Works
<1> QED
  BY <1>0, <1>1, <1>2, <1>4, <1>5, <1>6 DEF Next

LEMMA PayStaysTrue ==
  ASSUME Sound, OwnParts, Next, Sound', Agree(rows', asaas')
  PROVE  PayTrue'
<1>0. /\ rows' \in Rows /\ asaas \in Seq(Refund) /\ asaas' \in Seq(Refund) /\ Grown(asaas, asaas')
      /\ pay \in Payment /\ TypeInv /\ PayTrue
  BY TypesAre, AsaasGrows DEF Sound, DataOK, ProcsTyped, TypeInv, TypeOK, Rows, OwnParts
<1>1. backAt(asaas) \in Nat /\ backAt(asaas') \in Nat /\ backAt(asaas) <= backAt(asaas')
  BY <1>0, SettledGrows, RefundSums DEF backAt
<1>2. backAt(asaas') <= Amount
  <2>1. AskedHere(rows', asaas') /\ sumOf(rows', STANDING_REFUNDS) <= Amount
    BY DEF Agree, Sound, NeverMoreThanPaid
  <2>2. centsOf(asaas', 1..Len(asaas')) \in Nat /\ centsOf(asaas', 1..Len(asaas')) <= Amount
    BY <1>0, <2>1, AskedFits
  <2>3. backAt(asaas') <= centsOf(asaas', 1..Len(asaas'))
    BY <1>0, BackFits
  <2> QED
    BY <1>1, <2>2, <2>3, AmountIsPaid
<1>3. wholeAt(asaas) => wholeAt(asaas')
  BY <1>1, <1>2, AmountIsPaid DEF wholeAt, backAt
<1>4. sumOf(rows', {"DONE"}) <= backAt(asaas')
  BY DEF Agree, DoneHere
<1>5. (pay'.status = "REFUNDED" => wholeAt(asaas')) /\ pay'.refunded <= backAt(asaas')
  <2>1. CASE pay' = pay
    <3>1. pay.refunded \in Nat /\ pay.refunded <= backAt(asaas)
      BY <1>0, AmountIsPaid DEF Payment, PayTrue
    <3> QED
      BY <1>0, <1>1, <1>3, <2>1, <3>1 DEF PayTrue
  <2>2. CASE \E money \in Payment :
               /\ money.status = "REFUNDED" => pay.status = "REFUNDED" \/ \E p \in Procs : talk[p].whole
               /\ pay' = settleRefundMoney(money, rows')
    <3>1. PICK money \in Payment :
            /\ money.status = "REFUNDED" => pay.status = "REFUNDED" \/ \E p \in Procs : talk[p].whole
            /\ pay' = settleRefundMoney(money, rows')
      BY <2>2
    <3>2. money.status = "REFUNDED" => wholeAt(asaas')
      BY <1>0, <1>3, <3>1 DEF PayTrue
    <3> QED
      BY <1>0, <1>2, <1>4, <3>1, <3>2, SettledTrue
  <2> QED
    BY <1>0, <2>1, <2>2, PayIsSettled
<1>6. ASSUME NEW q \in Procs, talk'[q].whole PROVE wholeAt(asaas')
  BY <1>0, <1>3, <1>6, WholesAre DEF PayTrue
<1> QED
  BY <1>5, <1>6 DEF PayTrue

-----------------------------------------------------------------------------
(* The order refunds show in, and the rows calls are for. *)

LEMMA StillShownFirst ==
  ASSUME Sound, OwnParts, Next, ItsOwn', InOrder
  PROVE  ShownFirst(asaas')
<1>0. /\ asaas \in Seq(Refund) /\ Len(asaas) \in Nat /\ DOMAIN asaas = 1..Len(asaas) /\ ShownFirst(asaas) /\ TypeInv
      /\ \A j \in 1..Len(asaas) : asaas[j] \in Refund
  BY TypesAre, RefundsAreCents DEF Sound, DataOK, OwnParts, Cents
<1>1. ASSUME NEW p \in Procs, Made(p) PROVE ShownFirst(asaas')
  <2>1. /\ Len(asaas') = Len(asaas) + 1 /\ \A j \in 1..Len(asaas) : asaas'[j] = asaas[j]
        /\ asaas'[Len(asaas')].shown => \A j \in 1..Len(asaas) : InOrder => asaas[j].shown
    BY <1>1, MadeIsAsked
  <2>2. ASSUME NEW j \in 1..Len(asaas'), NEW k \in 1..Len(asaas'), k < j, asaas'[j].shown PROVE asaas'[k].shown
    <3>1. k \in 1..Len(asaas)
      BY <1>0, <2>1, <2>2
    <3>2. CASE j \in 1..Len(asaas)
      BY <1>0, <2>1, <2>2, <3>1, <3>2 DEF ShownFirst
    <3>3. CASE j \notin 1..Len(asaas)
      <4>1. j = Len(asaas')
        BY <1>0, <2>1, <3>3
      <4> QED
        BY <2>1, <2>2, <3>1, <4>1
    <3> QED
      BY <3>2, <3>3
  <2> QED
    BY <2>2 DEF ShownFirst
<1>2. ASSUME NEW i \in DOMAIN asaas, Shows(i) \/ Concludes(i) \/ Cancels(i) PROVE ShownFirst(asaas')
  <2>1. PICK refund \in Refund : /\ asaas' = [asaas EXCEPT ![i] = refund]
                                 /\ asaas[i].shown => refund.shown
                                 /\ refund.shown => asaas[i].shown \/ mayShow(i)
    <3> DEFINE a == [asaas[i] EXCEPT !.shown = TRUE]
               b == [asaas[i] EXCEPT !.status = "DONE"]
               c == [asaas[i] EXCEPT !.status = "CANCELLED"]
    <3>1. asaas[i] \in Refund
      BY <1>0
    <3>2. a \in Refund /\ b \in Refund /\ c \in Refund /\ a.shown /\ b.shown = asaas[i].shown /\ c.shown = asaas[i].shown
      BY <3>1 DEF Refund
    <3>3. \/ asaas' = [asaas EXCEPT ![i] = a] /\ mayShow(i)
          \/ asaas' = [asaas EXCEPT ![i] = b]
          \/ asaas' = [asaas EXCEPT ![i] = c]
      BY <1>0, <1>2 DEF Shows, Concludes, Cancels
    <3> HIDE DEF a, b, c
    <3> QED
      BY <3>2, <3>3
  <2>2. /\ Len(asaas') = Len(asaas)
        /\ \A j \in 1..Len(asaas) : asaas'[j] = IF j = i THEN refund ELSE asaas[j]
    BY <1>0, <2>1
  <2>3. refund.shown => \A k \in 1..Len(asaas) : k < i => asaas[k].shown
    <3>1. mayShow(i) => \A k \in 1..Len(asaas) : k < i => asaas[k].shown
      <4>1. \A k \in 1..Len(asaas) : k < i => k \in 1..(i - 1)
        BY <1>0
      <4> QED
        BY <4>1 DEF mayShow
    <3> QED
      BY <1>0, <2>1, <3>1 DEF ShownFirst
  <2>4. ASSUME NEW j \in 1..Len(asaas'), NEW k \in 1..Len(asaas'), k < j, asaas'[j].shown PROVE asaas'[k].shown
    <3>1. asaas[k].shown
      <4>1. CASE j = i
        BY <1>0, <2>2, <2>3, <2>4, <4>1
      <4>2. CASE j # i
        BY <1>0, <2>2, <2>4, <4>2 DEF ShownFirst
      <4> QED
        BY <4>1, <4>2
    <3> QED
      BY <2>1, <2>2, <3>1
  <2> QED
    BY <2>4 DEF ShownFirst
<1>3. ASSUME NEW p \in Procs, ~Made(p), Ask(p) \/ AskCancel(p) \/ Hear(p) \/ Works(p) \/ Crash(p) PROVE asaas' = asaas
  BY <1>3 DEF Ask, AskCancel, Hear, Works, Crash, Claim, NotMade, Write, Refuse, Drop, Reread, Hold, ReadUnknown,
              SettleUnknown, HearList, HearWrite, Before, Thrown, Cancel
<1>4. (\E i \in DOMAIN rows : ClaimEnds(i)) => asaas' = asaas
  BY DEF ClaimEnds
<1>5. ~PanelRefund
  BY <1>0, NoneOfThePanel
<1> QED
  BY <1>0, <1>1, <1>2, <1>3, <1>4, <1>5 DEF Next

LEMMA StillAtCall ==
  ASSUME Sound, OwnParts, Next, Sound'
  PROVE  AtCall'
<1>0. /\ rows \in Rows /\ asaas \in Seq(Refund) /\ Grown(asaas, asaas') /\ TypeInv /\ Agree(rows, asaas)
      /\ at \in [Procs -> Places] /\ DOMAIN rows = 1..Len(rows)
  BY TypesAre, AsaasGrows, RowsAreCents DEF Sound, DataOK, ProcsTyped, OwnParts
<1>1. ASSUME NEW q \in Procs, at'[q] = "call" PROVE rows'[talk'[q].row].cents = talk'[q].want
  <2>1. CASE at'[q] = at[q] /\ talk'[q] = talk[q]
    <3>1. talk[q].row \in DOMAIN rows /\ rows[talk[q].row].cents = talk[q].want
      <4>1. Fine("call", talk[q], Len(rows))
        BY <1>0, <1>1, <2>1, TypesAre DEF ProcsTyped, AllFine
      <4> QED
        BY <1>0, <1>1, <2>1, <4>1 DEF Fine, AskingPlaces, OwnParts, AtCall
    <3>2. rows'[talk[q].row].cents = rows[talk[q].row].cents
      BY <1>0, <3>1, RowsGo DEF goesForward
    <3> QED
      BY <2>1, <3>1, <3>2
  <2>2. CASE Claimed(q)
    <3> DEFINE row == [cents |-> talk[q].want, status |-> "REQUESTED", held |-> TRUE]
    <3>1. rows' = Append(rows, row) /\ row.cents = talk[q].want
      BY <2>2 DEF Claimed, claimRefund
    <3> HIDE DEF row
    <3>2. rows'[Len(rows) + 1] = row
      BY <1>0, <3>1 DEF Rows
    <3> QED
      BY <2>2, <3>1, <3>2 DEF Claimed
  <2> QED
    BY <1>0, <1>1, <2>1, <2>2, WhereFrom DEF Telling
<1>2. ASSUME NEW q \in Procs, at'[q] = "write" PROVE talk'[q].row \in used(asaas')
  <2>1. CASE at'[q] = at[q] /\ talk'[q] = talk[q]
    <3>1. talk[q].row \in used(asaas)
      BY <1>2, <2>1 DEF OwnParts, AtCall
    <3> QED
      BY <1>0, <2>1, <3>1, UsedGrows
  <2>2. CASE Made(q) /\ talk'[q].row = talk[q].row
    BY <2>2, MadeKeeps
  <2> QED
    BY <1>0, <1>2, <2>1, <2>2, WhereFrom DEF Telling
<1> QED
  BY <1>1, <1>2 DEF AtCall

LEMMA OwnStays ==
  ASSUME Timely, InOrder, Sound, OwnInv, [Next]_vars
  PROVE  Sound' /\ OwnInv'
<1>1. Sound'
  BY TypeStays, SafeStays, StandingFits DEF Sound
<1>2. CASE UNCHANGED vars
  BY <1>1, <1>2 DEF vars, OwnInv, OwnParts, ItsOwn, everCancelled, Reads, PayTrue, AtCall
<1>3. ASSUME Next, ItsOwn' PROVE OwnParts'
  <2>1. ItsOwn /\ OwnParts
    BY <1>3, StaysItsOwn DEF Sound, OwnInv
  <2>2. Agree(rows', asaas')
    BY <1>3, <2>1, AgreesStay
  <2>3. ShownFirst(asaas')
    BY <1>3, <2>1, StillShownFirst
  <2>4. Reads'
    BY <1>1, <1>3, <2>1, <2>2, <2>3, ReadsStay
  <2>5. PayTrue'
    BY <1>1, <1>3, <2>1, <2>2, PayStaysTrue
  <2>6. AtCall'
    BY <1>1, <1>3, <2>1, StillAtCall
  <2> QED
    BY <2>2, <2>3, <2>4, <2>5, <2>6 DEF OwnParts
<1> QED
  BY <1>1, <1>2, <1>3 DEF OwnInv

LEMMA OwnStarts ==
  ASSUME Init
  PROVE  Sound /\ OwnInv
<1>0. rows = <<>> /\ asaas = <<>> /\ rows \in Rows /\ asaas \in Seq(Refund) /\ Len(rows) = 0 /\ Len(asaas) = 0
  BY DEF Init, Rows
<1>1. \A which : centsOf(asaas, which) = 0 /\ centsOf(rows, which) = 0
  BY <1>0, RowsAreCents, RefundsAreCents, SumOfNone
<1>2. Sound
  BY <1>1, TypeStarts, SafeStarts, AmountIsPaid DEF Sound, NeverMoreThanPaid, sumOf
<1>3. Agree(rows, asaas)
  BY <1>0, <1>1 DEF Agree, AskedHere, TakenHere, DoneHere, sumOf, backAt
<1>4. Reads /\ AtCall
  BY DEF Init, Reads, AtCall, Blank
<1>5. PayTrue
  BY <1>1 DEF Init, PayTrue, Blank, backAt
<1>6. ShownFirst(asaas)
  BY <1>0 DEF ShownFirst
<1> QED
  BY <1>2, <1>3, <1>4, <1>5, <1>6 DEF OwnInv, OwnParts

-----------------------------------------------------------------------------
(* What follows of it. *)

\* Every refund of the charge is asked here and stands; the rows taken are theirs.
LEMMA OwnSums ==
  ASSUME NEW books \in Rows, NEW list \in Seq(Refund), Agree(books, list), NoneCancelled(list),
         sumOf(books, STANDING_REFUNDS) <= Amount
  PROVE  LET all == centsOf(list, 1..Len(list)) IN
         /\ all \in Nat /\ all <= Amount /\ all <= sumOf(books, STANDING_REFUNDS)
         /\ centsOf(list, standsAt(list)) = all /\ centsOf(list, DOMAIN list) = all
         /\ sumOf(books, TAKEN_REFUNDS \cup {"DENIED"}) <= all
         /\ sumOf(books, TAKEN_REFUNDS) <= all
         /\ backAt(list) <= all
<1> DEFINE n == Len(list)
           all == centsOf(list, 1..n)
<1>0. /\ AskedHere(books, list) /\ TakenHere(books, list) /\ Cents(books) /\ DOMAIN books = 1..Len(books)
      /\ DOMAIN list = 1..n /\ n \in 0..n /\ \A j \in 1..n : list[j] \in Refund
  BY RowsAreCents, RefundsAreCents DEF Agree, Cents
<1>1. all \in Nat /\ all <= Amount /\ all <= sumOf(books, STANDING_REFUNDS)
  BY <1>0, AskedFits
<1>2. standsAt(list) = 1..n
  <2>1. \A j \in 1..n : list[j].status \in {"PENDING", "DONE"}
    BY <1>0 DEF NoneCancelled, refundsAt, Refund
  <2> QED
    BY <1>0, <2>1 DEF standsAt, refundsAt
<1>3. rowsIn(books, TAKEN_REFUNDS \cup {"DENIED"}) \subseteq used(list)
  BY <1>0 DEF rowsIn, TakenHere
<1>4. rowsIn(books, TAKEN_REFUNDS) \subseteq used(list)
  BY <1>0 DEF rowsIn, TakenHere
<1>5. centsOf(books, used(list)) = all
  BY <1>0, UsedSums DEF used
<1> HIDE DEF all
<1>6. sumOf(books, TAKEN_REFUNDS \cup {"DENIED"}) <= all
  BY <1>0, <1>3, <1>5, SumsAreNatural DEF sumOf, Cents
<1>7. sumOf(books, TAKEN_REFUNDS) <= all
  BY <1>0, <1>4, <1>5, SumsAreNatural DEF sumOf, Cents
<1>8. backAt(list) <= all
  BY BackFits DEF all
<1>9. centsOf(list, standsAt(list)) = all /\ centsOf(list, DOMAIN list) = all
  BY <1>0, <1>2 DEF all
<1> QED
  BY <1>1, <1>6, <1>7, <1>8, <1>9 DEF all

LEMMA OwnIs ==
  ASSUME Sound, OwnInv, ItsOwn
  PROVE  /\ rows \in Rows /\ asaas \in Seq(Refund) /\ Agree(rows, asaas) /\ NoneCancelled(asaas)
         /\ sumOf(rows, STANDING_REFUNDS) <= Amount
BY TypesAre, ItsOwnIs DEF Sound, DataOK, OwnInv, OwnParts, NeverMoreThanPaid

LEMMA OwnShows ==
  ASSUME Sound, OwnInv
  PROVE  AskedIsCounted /\ TakenIsReal /\ OwnBackIsBack
<1>1. ASSUME ItsOwn PROVE centsOf(asaas, askedOfAsaas \cap standsAt(asaas)) <= sumOf(rows, STANDING_REFUNDS)
  <2>1. /\ centsOf(asaas, 1..Len(asaas)) <= sumOf(rows, STANDING_REFUNDS)
        /\ centsOf(asaas, 1..Len(asaas)) \in Nat
    BY <1>1, OwnIs, OwnSums
  <2>2. asaas \in Seq(Refund)
    BY <1>1, OwnIs
  <2>3. askedOfAsaas \cap standsAt(asaas) \subseteq 1..Len(asaas)
    BY <2>2, RefundsAreCents DEF askedOfAsaas
  <2>4. /\ centsOf(asaas, askedOfAsaas \cap standsAt(asaas)) \in Nat
        /\ centsOf(asaas, askedOfAsaas \cap standsAt(asaas)) <= centsOf(asaas, 1..Len(asaas))
    BY <2>2, <2>3, RefundsAreCents, SumsAreNatural DEF Cents
  <2>5. sumOf(rows, STANDING_REFUNDS) \in Nat
    BY <1>1, OwnIs, RowsSums
  <2> QED
    BY <2>1, <2>4, <2>5
<1>2. ASSUME ItsOwn PROVE sumOf(rows, TAKEN_REFUNDS \cup {"DENIED"}) <= centsOf(asaas, DOMAIN asaas)
  BY <1>2, OwnIs, OwnSums
<1>3. ASSUME ItsOwn PROVE SaidBackIsBack
  BY <1>3 DEF OwnInv, OwnParts, PayTrue, SaidBackIsBack, backAt
<1> QED
  BY <1>1, <1>2, <1>3 DEF AskedIsCounted, TakenIsReal, OwnBackIsBack

\* While a claim outlasts what it covers and refunds show in the order they were made, a refund asked of
\* Asaas, however its answer was lost and its reading late, is among those counted against what is left.
THEOREM AskedCounts == ASSUME Timely, InOrder PROVE Spec => []AskedIsCounted
<1>1. Init => Sound /\ OwnInv
  BY OwnStarts
<1>2. Sound /\ OwnInv /\ [Next]_vars => Sound' /\ OwnInv'
  BY OwnStays
<1>3. Sound /\ OwnInv => AskedIsCounted
  BY OwnShows
<1> QED
  BY <1>1, <1>2, <1>3, PTL DEF Spec

\* As long, no row says that money was taken that no refund at Asaas is of.
THEOREM TakenMeansMade == ASSUME Timely, InOrder PROVE Spec => []TakenIsReal
<1>1. Init => Sound /\ OwnInv
  BY OwnStarts
<1>2. Sound /\ OwnInv /\ [Next]_vars => Sound' /\ OwnInv'
  BY OwnStays
<1>3. Sound /\ OwnInv => TakenIsReal
  BY OwnShows
<1> QED
  BY <1>1, <1>2, <1>3, PTL DEF Spec

\* As long, the payment says back no more than Asaas gave back.
THEOREM BackMeansBack == ASSUME Timely, InOrder PROVE Spec => []OwnBackIsBack
<1>1. Init => Sound /\ OwnInv
  BY OwnStarts
<1>2. Sound /\ OwnInv /\ [Next]_vars => Sound' /\ OwnInv'
  BY OwnStays
<1>3. Sound /\ OwnInv => OwnBackIsBack
  BY OwnShows
<1> QED
  BY <1>1, <1>2, <1>3, PTL DEF Spec

LEMMA CancelledByItself ==
  ASSUME Next, order' # order
  PROVE  mayCancel
<1>1. ASSUME NEW p \in Procs, Ask(p) \/ AskCancel(p) \/ Hear(p) \/ Crash(p) PROVE FALSE
  BY <1>1 DEF Ask, AskCancel, Hear, Crash
<1>2. ASSUME NEW p \in Procs, Works(p) PROVE Cancel(p)
  BY <1>2 DEF Works, Claim, Made, NotMade, Write, Refuse, Drop, Reread, Hold, ReadUnknown, SettleUnknown,
              HearList, HearWrite, Before, Thrown
<1>3. \E p \in Procs : Cancel(p)
  BY <1>1, <1>2 DEF Next, ClaimEnds, Shows, Concludes, Cancels, PanelRefund
<1> QED
  BY <1>3 DEF Cancel

LEMMA CancelledIsGivenBack ==
  ASSUME Sound, OwnInv, ItsOwn, mayCancel
  PROVE  centsOf(asaas, standsAt(asaas)) = Amount
<1> DEFINE all == centsOf(asaas, 1..Len(asaas))
<1>1. /\ all \in Nat /\ all <= Amount /\ centsOf(asaas, standsAt(asaas)) = all
      /\ sumOf(rows, TAKEN_REFUNDS) <= all /\ backAt(asaas) <= all
  BY OwnIs, OwnSums
<1>2. sumOf(rows, TAKEN_REFUNDS) \in Nat /\ backAt(asaas) \in Nat
  BY OwnIs, RowsSums, BackFits
<1> HIDE DEF all
<1>3. CASE holdsMoney(pay)
  <2>1. unrefundedOf(rows) = 0
    BY <1>3 DEF mayCancel
  <2>2. sumOf(rows, TAKEN_REFUNDS) >= Amount
    BY <1>2, <2>1, AmountIsPaid DEF unrefundedOf, NotBelow0
  <2> QED
    BY <1>1, <1>2, <2>2, AmountIsPaid
<1>4. CASE ~holdsMoney(pay)
  <2>1. backAt(asaas) = Amount
    BY <1>4 DEF holdsMoney, OwnInv, OwnParts, PayTrue, wholeAt, backAt
  <2> QED
    BY <1>1, <1>2, <2>1, AmountIsPaid
<1> QED
  BY <1>3, <1>4

\* As long, a paid order is cancelled only once Asaas holds refunds for all that was paid.
THEOREM CancelledGivesBack == ASSUME Timely, InOrder PROVE Spec => CancelGivesBack
<1>1. Init => Sound /\ OwnInv
  BY OwnStarts
<1>2. Sound /\ OwnInv /\ [Next]_vars => Sound' /\ OwnInv'
  BY OwnStays
<1>3. Sound /\ OwnInv /\ [Next]_vars
      => [order' # order /\ ItsOwn => centsOf(asaas, standsAt(asaas)) = Amount]_vars
  BY CancelledByItself, CancelledIsGivenBack DEF vars
<1> QED
  BY <1>1, <1>2, <1>3, PTL DEF Spec, CancelGivesBack

LEMMA HeardAgrees ==
  ASSUME Sound, OwnInv, ItsOwn, NEW p \in Procs, heardWhole(p)
  PROVE  rowsAgree(rows')
<1> DEFINE n == Len(asaas)
           t == talk[p].read
           all == centsOf(asaas, 1..n)
<1>0. /\ rows \in Rows /\ asaas \in Seq(Refund) /\ Agree(rows, asaas) /\ NoneCancelled(asaas)
      /\ sumOf(rows, STANDING_REFUNDS) <= Amount /\ AskedHere(rows, asaas) /\ DOMAIN asaas = 1..n /\ n \in 0..n
  BY OwnIs, RefundsAreCents DEF Agree, Cents
<1>1. /\ rows' = reconcileRefunds(rows, t, FALSE) /\ t \in {totalsOf(asaas), refundTotalsOf(asaas)}
      /\ \A j \in 1..n : asaas[j].shown
  BY <1>0 DEF heardWhole, HearWrite
<1>2. ReadAs(t, asaas, n) /\ (refundsAt(asaas, {"PENDING"}) = {} => t.pending = 0)
  BY <1>0, <1>1, AllIsRead
<1>3. t \in RefundTotals
  <2>1. Fine("heard", talk[p], Len(rows))
    BY TypesAre DEF Sound, ProcsTyped, AllFine, heardWhole, HearWrite
  <2> QED
    BY <2>1 DEF Fine
<1> HIDE DEF t
<1>4. /\ rows' \in Rows /\ Agree(rows', asaas)
      /\ \A i \in used(asaas) : rows'[i].status \in TAKEN_REFUNDS
      /\ t.pending = 0 => \A i \in used(asaas) : rows'[i].status = "DONE"
  BY <1>0, <1>1, <1>2, <1>3, ReconcileAgrees
<1>5. centsOf(rows', used(asaas)) = all
  BY <1>0, <1>4, UsedSums DEF used, Agree
<1>6. all = centsOf(asaas, standsAt(asaas))
  BY <1>0, OwnSums
<1>7. /\ used(asaas) \subseteq DOMAIN rows'
      /\ \A i \in DOMAIN rows' : rows'[i].status \in TAKEN_REFUNDS => i \in used(asaas)
  BY <1>4, RowsAreCents DEF Agree, AskedHere, TakenHere, used, usedUpto
<1> HIDE DEF all
<1>8. sumOf(rows', TAKEN_REFUNDS) = all
  <2>1. rowsIn(rows', TAKEN_REFUNDS) = used(asaas)
    BY <1>4, <1>7 DEF rowsIn
  <2> QED
    BY <1>5, <2>1, Zenon DEF sumOf
<1>9. ASSUME refundsAt(asaas, {"PENDING"}) = {} PROVE sumOf(rows', {"DONE"}) = all
  <2>1. rowsIn(rows', {"DONE"}) = used(asaas)
    BY <1>2, <1>4, <1>7, <1>9 DEF rowsIn, TAKEN_REFUNDS
  <2> QED
    BY <1>5, <2>1, Zenon DEF sumOf
<1> QED
  BY <1>6, <1>8, <1>9 DEF rowsAgree

\* As long, a hearing that read all Asaas holds leaves the rows saying what Asaas says.
THEOREM HearingsAgree == ASSUME Timely, InOrder PROVE Spec => HearingAgrees
<1>1. Init => Sound /\ OwnInv
  BY OwnStarts
<1>2. Sound /\ OwnInv /\ [Next]_vars => Sound' /\ OwnInv'
  BY OwnStays
<1>3. Sound /\ OwnInv /\ [Next]_vars
      => [\A p \in Procs : heardWhole(p) /\ ItsOwn => rowsAgree(rows')]_vars
  BY HeardAgrees
<1> QED
  BY <1>1, <1>2, <1>3, PTL DEF Spec, HearingAgrees

=============================================================================

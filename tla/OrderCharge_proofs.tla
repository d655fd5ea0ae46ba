------------------------- MODULE OrderCharge_proofs -------------------------
(***************************************************************************)
(* What the writers of an order's charges keep, for any set of charges;    *)
(* and the types and the one charge at a time of OrderCharge, for any      *)
(* number of requests, charges and totals.                                 *)
(***************************************************************************)
EXTENDS OrderCharge, TLAPS

-----------------------------------------------------------------------------
(* What a writer of the book keeps of it *)

\* A hearing writes a status a row can have, whatever Asaas says.
LEMMA StatusWrittenType ==
  ASSUME NEW current \in RowStatuses \cup {NoStatus},
         NEW lastWord \in AsaasWords \cup {NoStatus},
         NEW word \in AsaasWords \cup {NoStatus}
  PROVE  statusWritten(current, lastWord, word) \in RowStatuses
<1>1. \A s \in RowStatuses \cup {NoStatus} : statusSaidBy(word, s) \in RowStatuses
  BY DEF statusSaidBy, SAID, SaidWords, RowStatuses, NoStatus, AsaasWords, PaidAndUnsettled,
         UnknownWord, wasPaid, holdsMoney
<1>2. statusAfter(current, word, FALSE) \in RowStatuses
  BY <1>1 DEF statusAfter, isLive, DeadStatuses, RowStatuses, NoStatus
<1>. QED  BY <1>1, <1>2 DEF statusWritten, cashUndone, RowStatuses, NoStatus

\* Every word of Asaas that is not the undoing of a receipt in cash leaves a living row
\* where it was or further on, and living; and brings a dead one back only as paid.
LEMMA StatusOnlyRises ==
  ASSUME NEW current \in RowStatuses,
         NEW lastWord \in AsaasWords \cup {NoStatus},
         NEW word \in AsaasWords \cup {NoStatus},
         ~cashUndone(current, lastWord, word)
  PROVE  LET now == statusWritten(current, lastWord, word)
         IN  /\ isLive(current) => isLive(now) /\ RANK[now] >= RANK[current]
             /\ current \in DeadStatuses => now = current \/ wasPaid(now)
<1>. DEFINE said == statusSaidBy(word, IF isLive(current) THEN current ELSE NoStatus)
<1>1. statusWritten(current, lastWord, word) = statusAfter(current, word, FALSE)
  BY DEF statusWritten
<1>2. said \in RowStatuses \ DeadStatuses
  BY DEF statusSaidBy, SAID, SaidWords, RowStatuses, NoStatus, AsaasWords, PaidAndUnsettled,
         UnknownWord, wasPaid, holdsMoney, isLive, DeadStatuses
<1>3. CASE isLive(current)
  <2>1. statusAfter(current, word, FALSE) = IF RANK[said] >= RANK[current] THEN said ELSE current
    BY <1>3 DEF statusAfter, isLive, DeadStatuses, RowStatuses, NoStatus
  <2>2. RANK[current] \in Int
    BY <1>3 DEF RANK, isLive, DeadStatuses, RowStatuses
  <2>3. current \notin DeadStatuses
    BY <1>3 DEF isLive
  <2>. HIDE DEF said
  <2>4. isLive(said)
    BY <1>2 DEF isLive
  <2>5. CASE RANK[said] >= RANK[current]
    <3>1. statusWritten(current, lastWord, word) = said
      BY <1>1, <2>1, <2>5
    <3>. QED  BY <2>3, <2>4, <2>5, <3>1
  <2>6. CASE ~(RANK[said] >= RANK[current])
    <3>1. statusWritten(current, lastWord, word) = current
      BY <1>1, <2>1, <2>6
    <3>. QED  BY <1>3, <2>2, <2>3, <3>1
  <2>. QED  BY <2>5, <2>6
<1>4. CASE ~isLive(current)
  <2>1. current \in DeadStatuses /\ current # NoStatus
    BY <1>4 DEF isLive, DeadStatuses, RowStatuses, NoStatus
  <2>. HIDE DEF said
  <2>2. statusAfter(current, word, FALSE) = IF wasPaid(said) THEN said ELSE current
    BY <1>4, <2>1 DEF statusAfter, said
  <2>. QED  BY <1>1, <1>4, <2>1, <2>2
<1>. QED  BY <1>3, <1>4

-----------------------------------------------------------------------------
\* The empty book is a book.
LEMMA EmptyBookType == EmptyBook \in Book
BY DEF EmptyBook, Book, NoRow, Row

\* A writer maps a book to a book.
LEMMA CancelRowsType ==
  ASSUME NEW b \in Book, NEW gone
  PROVE  cancelRows(b, gone) \in Book
<1>. DEFINE row(c) == IF c \in gone /\ waits(b.rows[c].status)
                        THEN [b.rows[c] EXCEPT !.status = "CANCELLED"]
                        ELSE b.rows[c]
<1>1. ASSUME NEW c \in Charges
      PROVE  row(c) \in Row
  BY DEF Book, Row, RowStatuses
<1>2. cancelRows(b, gone) = [b EXCEPT !.rows = [c \in Charges |-> row(c)]]
  BY DEF cancelRows
<1>. HIDE DEF row
<1>. QED  BY <1>1, <1>2 DEF Book

LEMMA ApplyChargesType ==
  ASSUME NEW b \in Book, NEW S, NEW words \in [Charges -> AsaasWords \cup {NoStatus}],
         NEW off \in BOOLEAN
  PROVE  applyCharges(b, S, words, off) \in Book
<1>1. ASSUME NEW c \in Charges
      PROVE  written(b, c, words[c]) \in Row
  <2>1. /\ b.rows[c].status \in RowStatuses \cup {NoStatus}
        /\ b.rows[c].word \in AsaasWords \cup {NoStatus}
        /\ words[c] \in AsaasWords \cup {NoStatus}
    BY DEF Book, Row
  <2>2. statusWritten(b.rows[c].status, b.rows[c].word, words[c]) \in RowStatuses
    BY <2>1, StatusWrittenType
  <2>. QED  BY <2>1, <2>2 DEF written, Row
<1>2. tellPaid(b, S, words, off) \in BOOLEAN
  BY DEF tellPaid
<1>. QED  BY <1>1, <1>2 DEF applyCharges, Book

LEMMA NoteStraysType ==
  ASSUME NEW b \in Book, NEW S, NEW reason \in StrayReasons
  PROVE  noteStrays(b, S, reason) \in Book
BY DEF noteStrays, Book

LEMMA RecordRefusalType ==
  ASSUME NEW b \in Book
  PROVE  recordRefusal(b) \in Book
BY DEF recordRefusal, Book

-----------------------------------------------------------------------------
(* How the writers move a row *)

\* What each writer makes of one row.
LEMMA CancelRowsRow ==
  ASSUME NEW b \in Book, NEW gone, NEW c \in Charges
  PROVE  /\ cancelRows(b, gone).rows[c].word = b.rows[c].word
         /\ cancelRows(b, gone).rows[c].status =
              IF c \in gone /\ waits(b.rows[c].status) THEN "CANCELLED" ELSE b.rows[c].status
         /\ cancelRows(b, gone).stray = b.stray
<1>. DEFINE row(d) == IF d \in gone /\ waits(b.rows[d].status)
                        THEN [b.rows[d] EXCEPT !.status = "CANCELLED"]
                        ELSE b.rows[d]
<1>1. /\ row(c).word = b.rows[c].word
      /\ row(c).status = IF c \in gone /\ waits(b.rows[c].status) THEN "CANCELLED" ELSE b.rows[c].status
  BY DEF Book, Row
<1>2. cancelRows(b, gone) = [b EXCEPT !.rows = [d \in Charges |-> row(d)]]
  BY DEF cancelRows
<1>. HIDE DEF row
<1>3. cancelRows(b, gone).rows[c] = row(c) /\ cancelRows(b, gone).stray = b.stray
  BY <1>2 DEF Book
<1>. QED  BY <1>1, <1>3

LEMMA ApplyChargesRow ==
  ASSUME NEW b \in Book, NEW S, NEW words, NEW off, NEW c \in Charges
  PROVE  applyCharges(b, S, words, off).rows[c] =
           IF c \in S THEN written(b, c, words[c]) ELSE b.rows[c]
BY DEF applyCharges, Book

LEMMA NoteStraysRow ==
  ASSUME NEW b \in Book, NEW S, NEW reason
  PROVE  noteStrays(b, S, reason).rows = b.rows
BY DEF noteStrays, Book

\* A hearing leaves a living row living, even one whose receipt in cash is undone.
LEMMA LivingStaysLiving ==
  ASSUME NEW current \in RowStatuses, isLive(current),
         NEW lastWord \in AsaasWords \cup {NoStatus},
         NEW word \in AsaasWords \cup {NoStatus}
  PROVE  isLive(statusWritten(current, lastWord, word))
<1>1. CASE cashUndone(current, lastWord, word)
  <2>1. word \in {"PENDING", "OVERDUE"} /\ statusWritten(current, lastWord, word) = statusSaidBy(word, NoStatus)
    BY <1>1 DEF cashUndone, statusWritten
  <2>2. statusSaidBy(word, NoStatus) \in {"PENDING", "OVERDUE"}
    <3>1. /\ SAID["PENDING"] = "PENDING" /\ SAID["OVERDUE"] = "OVERDUE"
          /\ {"PENDING", "OVERDUE"} \subseteq SaidWords
      BY DEF SAID, SaidWords
    <3>2. statusSaidBy(word, NoStatus) = SAID[word]
      BY <2>1, <3>1 DEF statusSaidBy, PaidAndUnsettled
    <3>. QED  BY <2>1, <3>1, <3>2
  <2>. QED  BY <2>1, <2>2 DEF isLive, RowStatuses, DeadStatuses
<1>2. CASE ~cashUndone(current, lastWord, word)
  BY <1>2, StatusOnlyRises
<1>. QED  BY <1>1, <1>2

\* Writing what Asaas says on living rows makes no other row alive.
LEMMA ApplyToLiving ==
  ASSUME NEW b \in Book, NEW S, S \subseteq liveCharges(b),
         NEW words \in [Charges -> AsaasWords \cup {NoStatus}], NEW off \in BOOLEAN
  PROVE  liveCharges(applyCharges(b, S, words, off)) = liveCharges(b)
<1>1. ASSUME NEW c \in Charges
      PROVE  isLive(applyCharges(b, S, words, off).rows[c].status) <=> isLive(b.rows[c].status)
  <2>1. CASE c \in S
    <3>1. /\ b.rows[c].status \in RowStatuses /\ isLive(b.rows[c].status)
          /\ b.rows[c].word \in AsaasWords \cup {NoStatus}
          /\ words[c] \in AsaasWords \cup {NoStatus}
      BY <2>1 DEF liveCharges, isLive, Book, Row
    <3>2. isLive(statusWritten(b.rows[c].status, b.rows[c].word, words[c]))
      BY <3>1, LivingStaysLiving
    <3>3. applyCharges(b, S, words, off).rows[c].status
            = statusWritten(b.rows[c].status, b.rows[c].word, words[c])
      <4>1. applyCharges(b, S, words, off).rows[c] = written(b, c, words[c])
        BY <2>1, ApplyChargesRow
      <4>. QED  BY <4>1 DEF written
    <3>. QED  BY <3>1, <3>2, <3>3
  <2>2. CASE c \notin S
    BY <2>2, ApplyChargesRow
  <2>. QED  BY <2>1, <2>2
<1>. QED  BY <1>1 DEF liveCharges

LEMMA CancelRowsLiving ==
  ASSUME NEW b \in Book, NEW gone
  PROVE  liveCharges(cancelRows(b, gone)) = liveCharges(b) \ (gone \cap waitingCharges(b))
<1>1. ASSUME NEW c \in Charges
      PROVE  isLive(cancelRows(b, gone).rows[c].status)
               <=> isLive(b.rows[c].status) /\ ~(c \in gone /\ waits(b.rows[c].status))
  BY CancelRowsRow DEF isLive, DeadStatuses
<1>. QED  BY <1>1 DEF liveCharges, waitingCharges

\* A living row is paid or waits to be.
LEMMA LivingRows ==
  ASSUME NEW b \in Book
  PROVE  liveCharges(b) = paidCharges(b) \cup waitingCharges(b)
BY DEF liveCharges, paidCharges, waitingCharges, isLive, wasPaid, holdsMoney, waits, RowStatuses, DeadStatuses

LEMMA OneLiveIs ==
  ASSUME NEW b \in Book
  PROVE  OneLive(b) <=> \A c, d \in liveCharges(b) : c = d
BY DEF OneLive, liveCharges

-----------------------------------------------------------------------------
(* Types *)

TypeCharge == charge \in [Charges -> Charge]
TypeOrder == order \in [status : OrderStatuses, total : Totals \cup {Open}, late : BOOLEAN]
TypeClaim == claim \in [by : Procs \cup {Nobody, Unanswered}, live : BOOLEAN]
TypeTalk == pc \in [Procs -> Places] /\ talk \in [Procs -> Talk]
TypeBudget == budget \in [asks : Nat, faults : Nat]

LEMMA TypeParts ==
  TypeOK <=> /\ TypeCharge /\ book \in Book /\ TypeOrder /\ TypeClaim
             /\ due \in BOOLEAN /\ TypeTalk /\ TypeBudget
BY DEF TypeOK, TypeCharge, TypeOrder, TypeClaim, TypeTalk, TypeBudget

LEMMA TypePartsNext ==
  TypeOK' <=> /\ TypeCharge' /\ book' \in Book /\ TypeOrder' /\ TypeClaim'
              /\ due' \in BOOLEAN /\ TypeTalk' /\ TypeBudget'
BY DEF TypeOK, TypeCharge, TypeOrder, TypeClaim, TypeTalk, TypeBudget

\* What a request reads is of the type it keeps it as.
LEMMA ViewTypes ==
  ASSUME TypeOK
  PROVE  /\ listing \in [Charges -> AsaasWords \cup {NoStatus}]
         /\ statuses \in [Charges -> RowStatuses \cup {NoStatus}]
         /\ cancelled \in BOOLEAN
         /\ wantedNow \in Totals \cup {Open}
<1>1. listing \in [Charges -> AsaasWords \cup {NoStatus}]
  BY DEF TypeOK, listing, Charge
<1>2. statuses \in [Charges -> RowStatuses \cup {NoStatus}]
  BY DEF TypeOK, statuses, Book, Row
<1>. QED  BY <1>1, <1>2 DEF TypeOK, cancelled, wantedNow

LEMMA BlankType == Blank \in Talk
BY DEF Blank, Talk, AllKinds

LEMMA TalkFields ==
  ASSUME NEW t \in Talk
  PROVE  /\ t.kind \in AllKinds \cup {"none"}
         /\ t.want \in Totals \cup {Open}
         /\ t.known \in [Charges -> RowStatuses \cup {NoStatus}]
         /\ t.seen \in [Charges -> AsaasWords \cup {NoStatus}]
         /\ t.todo \in SUBSET Charges
         /\ t.keep \in Charges \cup {NoCharge}
         /\ t.paids \in SUBSET Charges
         /\ t.gone \in SUBSET Charges
         /\ t.off \in BOOLEAN
BY DEF Talk

\* A request's step keeps the types of where it is and of what it remembers.
LEMMA GotoType ==
  ASSUME TypeTalk, NEW p \in Procs, NEW place \in Places, NEW t \in Talk
  PROVE  /\ goto(p, place) => pc' \in [Procs -> Places]
         /\ say(p, t) => talk' \in [Procs -> Talk]
  BY DEF goto, say, TypeTalk

LEMMA FinishType ==
  ASSUME TypeTalk, NEW p \in Procs, finish(p)
  PROVE  TypeTalk'
BY BlankType DEF goto, say, finish, TypeTalk, Places

LEMMA BeginType ==
  ASSUME TypeTalk, NEW p \in Procs, NEW place \in Places, NEW kind, NEW want \in Totals \cup {Open},
         begin(p, kind, place, want)
  PROVE  TypeTalk'
<1>1. [Blank EXCEPT !.kind = kind, !.want = want] \in Talk
  BY BlankType, Sets DEF begin, Talk
<1>. QED  BY <1>1, GotoType DEF begin, TypeTalk

LEMMA SpendType ==
  ASSUME TypeBudget
  PROVE  /\ ask => TypeBudget'
         /\ fault => TypeBudget'
BY DEF TypeBudget, ask, fault

LEMMA RemovalType ==
  ASSUME TypeCharge, due \in BOOLEAN, NEW c \in Charges
  PROVE  /\ takenOut(c) => TypeCharge' /\ due' \in BOOLEAN
         /\ removed(c) => TypeCharge' /\ due' \in BOOLEAN
BY DEF TypeCharge, Charge, takenOut, removed

LEMMA AfterRemovalType ==
  ASSUME TypeCharge, NEW c \in Charges, NEW t \in Talk
  PROVE  afterRemoval(t, c) \in Talk
BY DEF TypeCharge, Charge, present, afterRemoval, Talk

-----------------------------------------------------------------------------
\* The requests' own steps, one lemma a group: ensure.
LEMMA EnsureTypes ==
  ASSUME TypeOK, NEW p \in Procs
  PROVE  /\ Ensure(p) => TypeOK'
         /\ Known(p) => TypeOK'
         /\ List(p) => TypeOK'
         /\ Sort(p) => TypeOK'
         /\ Beside(p) => TypeOK'
         /\ Renew(p) => TypeOK'
         /\ GiveUp(p) => TypeOK'
<1>. /\ TypeCharge /\ book \in Book /\ TypeOrder /\ TypeClaim
     /\ due \in BOOLEAN /\ TypeTalk /\ TypeBudget
  BY TypeParts
<1>. talk[p] \in Talk
  BY DEF TypeTalk
<1>1. ASSUME Ensure(p) PROVE TypeOK'
  <2>1. TypeTalk'
    BY <1>1, BeginType DEF Ensure, Places, TypeOrder
  <2>2. TypeClaim' /\ TypeBudget'
    BY <1>1, SpendType DEF Ensure, TypeClaim
  <2>. QED  BY <1>1, <2>1, <2>2, TypePartsNext DEF Ensure, TypeCharge, TypeOrder
<1>2. ASSUME Known(p) PROVE TypeOK'
  <2>1. [talk[p] EXCEPT !.known = statuses] \in Talk
    BY ViewTypes DEF Talk
  <2>2. TypeTalk'
    BY <1>2, <2>1, GotoType DEF Known, Places, TypeTalk
  <2>. QED  BY <1>2, <2>2, TypePartsNext DEF Known, TypeCharge, TypeOrder, TypeClaim, TypeBudget
<1>3. ASSUME List(p) PROVE TypeOK'
  <2>1. ASSUME NEW c \in paidIn(listing)
        PROVE  [talk[p] EXCEPT !.seen = listing, !.paids = {c}, !.todo = unpaidIn(listing)] \in Talk
    BY ViewTypes DEF Talk, paidIn, unpaidIn, listedIn
  <2>2. ASSUME NEW k \in oneOf(keepersOf(talk[p], listing))
        PROVE  [talk[p] EXCEPT !.seen = listing, !.keep = k, !.todo = listedIn(listing) \ {k}] \in Talk
    BY ViewTypes DEF Talk, listedIn, oneOf, keepersOf
  <2>3. TypeTalk'
    BY <1>3, <2>1, <2>2, GotoType DEF List, Places, TypeTalk
  <2>. QED  BY <1>3, <2>3, TypePartsNext DEF List, TypeCharge, TypeOrder, TypeClaim, TypeBudget
<1>4. ASSUME Sort(p) PROVE TypeOK'
  <2>1. PICK c \in talk[p].todo :
          LET t == afterRemoval(talk[p], c)
          IN  /\ removed(c)
              /\ \/ t.paids = {} /\ say(p, t) /\ goto(p, "sort")
                 \/ /\ t.paids # {}
                    /\ say(p, [t EXCEPT !.todo = unpaidIn(t.seen)])
                    /\ goto(p, "beside")
    BY <1>4 DEF Sort
  <2>2. c \in Charges
    BY TalkFields
  <2>. DEFINE t == afterRemoval(talk[p], c)
  <2>3. t \in Talk
    BY <2>2, AfterRemovalType
  <2>. HIDE DEF t
  <2>4. [t EXCEPT !.todo = unpaidIn(t.seen)] \in Talk
    BY <2>3 DEF Talk, unpaidIn, listedIn
  <2>5. TypeTalk'
    BY <2>1, <2>3, <2>4, GotoType DEF Places, TypeTalk, t
  <2>6. TypeCharge' /\ due' \in BOOLEAN
    BY <2>1, <2>2, RemovalType
  <2>. QED  BY <1>4, <2>5, <2>6, TypePartsNext DEF Sort, TypeOrder, TypeClaim, TypeBudget
<1>5. ASSUME Beside(p) PROVE TypeOK'
  <2>1. PICK c \in talk[p].todo :
          /\ say(p, [talk[p] EXCEPT !.todo = @ \ {c}])
          /\ \/ removed(c) /\ UNCHANGED budget
             \/ fault /\ UNCHANGED <<charge, due>>
    BY <1>5 DEF Beside
  <2>2. c \in Charges
    BY TalkFields
  <2>3. [talk[p] EXCEPT !.todo = @ \ {c}] \in Talk
    BY DEF Talk
  <2>4. TypeTalk'
    BY <1>5, <2>1, <2>3, GotoType DEF Beside, Places, TypeTalk
  <2>5. TypeCharge' /\ due' \in BOOLEAN /\ TypeBudget'
    BY <2>1, <2>2, RemovalType, SpendType DEF TypeCharge, TypeBudget
  <2>. QED  BY <1>5, <2>4, <2>5, TypePartsNext DEF Beside, TypeOrder, TypeClaim
<1>6. ASSUME Renew(p) PROVE TypeOK'
  <2>1. TypeClaim'
    <3>1. CASE claim' = [by |-> p, live |-> TRUE]
      BY <3>1 DEF TypeClaim
    <3>2. CASE UNCHANGED claim
      BY <3>2 DEF TypeClaim
    <3>. QED  BY <1>6, <3>1, <3>2 DEF Renew
  <2>2. TypeTalk'
    BY <1>6 DEF Renew, goto, Places, TypeTalk
  <2>. QED  BY <1>6, <2>1, <2>2, TypePartsNext DEF Renew, TypeCharge, TypeOrder, TypeBudget
<1>7. ASSUME GiveUp(p) PROVE TypeOK'
  <2>1. TypeTalk' /\ book' \in Book
    BY <1>7, CancelRowsType DEF GiveUp, goto, Places, TypeTalk
  <2>. QED  BY <1>7, <2>1, TypePartsNext DEF GiveUp, TypeCharge, TypeOrder, TypeClaim, TypeBudget
<1>. QED  BY <1>1, <1>2, <1>3, <1>4, <1>5, <1>6, <1>7

LEMMA MadeType ==
  ASSUME TypeCharge, NEW c \in Charges, NEW want \in Totals \cup {Open}, NEW w \in FirstWords,
         NEW shown \in BOOLEAN, made(c, want, w, shown)
  PROVE  TypeCharge'
<1>1. [word |-> w, total |-> want, age |-> 0, deleted |-> FALSE, shown |-> shown] \in Charge
  BY Words DEF Charge
<1>. QED  BY <1>1 DEF made, TypeCharge

\* The requests' own steps: the rest of ensure.
LEMMA SettleTypes ==
  ASSUME TypeOK, NEW p \in Procs
  PROVE  /\ Create(p) => TypeOK'
         /\ RecordRefusal(p) => TypeOK'
         /\ Settle(p) => TypeOK'
         /\ Unwant(p) => TypeOK'
         /\ KeepIt(p) => TypeOK'
         /\ HoldFor(p) => TypeOK'
         /\ LetGo(p) => TypeOK'
<1>. /\ TypeCharge /\ book \in Book /\ TypeOrder /\ TypeClaim
     /\ due \in BOOLEAN /\ TypeTalk /\ TypeBudget
  BY TypeParts
<1>0. talk[p] \in Talk
  BY DEF TypeTalk
<1>1. ASSUME Create(p) PROVE TypeOK'
  <2>0. book' = book /\ order' = order /\ claim' = claim /\ due' = due
    BY <1>1 DEF Create
  <2>1. talk[p].want \in Totals \cup {Open}
    BY <1>0, TalkFields
  <2>2. CASE \E c \in Charges, w \in FirstWords :
               /\ charge[c].word = NoStatus
               /\ made(c, talk[p].want, w, TRUE)
               /\ say(p, [talk[p] EXCEPT !.keep = c, !.seen[c] = w, !.known = Blank.known])
               /\ goto(p, "settle")
               /\ UNCHANGED budget
    <3>1. PICK c \in Charges, w \in FirstWords :
               /\ made(c, talk[p].want, w, TRUE)
               /\ say(p, [talk[p] EXCEPT !.keep = c, !.seen[c] = w, !.known = Blank.known])
               /\ goto(p, "settle")
               /\ UNCHANGED budget
      BY <2>2
    <3>2. TypeCharge'
      BY <2>1, <3>1, MadeType
    <3>3. [talk[p] EXCEPT !.keep = c, !.seen[c] = w, !.known = Blank.known] \in Talk
      BY <1>0, BlankType, Words DEF Talk
    <3>4. TypeTalk'
      BY <3>1, <3>3, GotoType DEF TypeTalk, Places
    <3>. QED  BY <2>0, <3>1, <3>2, <3>4, TypePartsNext DEF TypeOrder, TypeClaim, TypeBudget
  <2>3. CASE goto(p, "refused") /\ UNCHANGED <<charge, talk, budget>>
    <3>1. TypeTalk'
      BY <2>3 DEF TypeTalk, Places, goto
    <3>. QED  BY <2>0, <2>3, <3>1, TypePartsNext DEF TypeCharge, TypeOrder, TypeClaim, TypeBudget
  <2>4. CASE /\ fault
             /\ \/ \E c \in Charges, w \in FirstWords :
                      charge[c].word = NoStatus /\ made(c, talk[p].want, w, FALSE)
                \/ UNCHANGED charge
             /\ goto(p, "hold")
             /\ UNCHANGED talk
    <3>1. TypeTalk'
      BY <2>4 DEF TypeTalk, Places, goto
    <3>2. TypeCharge'
      BY <2>1, <2>4, MadeType DEF TypeCharge
    <3>3. TypeBudget'
      BY <2>4, SpendType
    <3>. QED  BY <2>0, <3>1, <3>2, <3>3, TypePartsNext DEF TypeOrder, TypeClaim
  <2>. QED  BY <1>1, <2>2, <2>3, <2>4 DEF Create
<1>2. ASSUME RecordRefusal(p) PROVE TypeOK'
  <2>1. TypeTalk' /\ book' \in Book
    BY <1>2, RecordRefusalType DEF RecordRefusal, goto, Places, TypeTalk
  <2>. QED  BY <1>2, <2>1, TypePartsNext DEF RecordRefusal, TypeCharge, TypeOrder, TypeClaim, TypeBudget
<1>3. ASSUME Settle(p) PROVE TypeOK'
  <2>. DEFINE t == talk[p]
              c == target(t)
              b == applyCharge(cancelRows(book, rowsKnown(t) \ {c}), c, t.seen, cancelled)
  <2>1. b \in Book
    BY <1>0, TalkFields, ViewTypes, CancelRowsType, ApplyChargesType DEF applyCharge
  <2>2. noteStrays(book, {c}, "ORDER_ALREADY_PAID") \in Book
    BY NoteStraysType DEF StrayReasons
  <2>. HIDE DEF b, c
  <2>3. book' \in {book, b, noteStrays(book, {c}, "ORDER_ALREADY_PAID")}
    BY <1>3 DEF Settle, b, c
  <2>4. claim' \in {claim, [by |-> Nobody, live |-> FALSE]}
    BY <1>3 DEF Settle, b, c
  <2>5. \/ finish(p)
        \/ UNCHANGED talk /\ \E place \in {"letgo", "unwant"} : goto(p, place)
    BY <1>3 DEF Settle, b, c
  <2>6. book' \in Book
    BY <2>1, <2>2, <2>3
  <2>7. TypeClaim'
    <3>1. CASE claim' = claim
      BY <3>1 DEF TypeClaim
    <3>2. CASE claim' = [by |-> Nobody, live |-> FALSE]
      BY <3>2 DEF TypeClaim
    <3>. QED  BY <2>4, <3>1, <3>2
  <2>8. TypeTalk'
    BY <2>5, GotoType, FinishType DEF TypeTalk, Places
  <2>. QED  BY <1>3, <2>6, <2>7, <2>8, TypePartsNext DEF Settle, TypeCharge, TypeOrder, TypeBudget
<1>4. ASSUME Unwant(p) PROVE TypeOK'
  <2>. DEFINE c == target(talk[p])
  <2>1. TypeTalk'
    BY <1>4 DEF Unwant, goto, Places, TypeTalk
  <2>2. TypeBudget'
    BY <1>4, SpendType DEF Unwant, TypeBudget
  <2>. HIDE DEF c
  <2>3. removed(c) \/ UNCHANGED <<charge, due>>
    BY <1>4 DEF Unwant, c
  <2>4. TypeCharge' /\ due' \in BOOLEAN
    BY <2>3 DEF TypeCharge, Charge, removed, takenOut
  <2>. QED  BY <1>4, <2>1, <2>2, <2>4, TypePartsNext DEF Unwant, TypeOrder, TypeClaim
<1>5. ASSUME KeepIt(p) PROVE TypeOK'
  <2>1. applyCharge(book, target(talk[p]), talk[p].seen, cancelled) \in Book
    BY <1>0, TalkFields, ViewTypes, ApplyChargesType DEF applyCharge
  <2>2. TypeTalk'
    BY <1>5 DEF KeepIt, goto, Places, TypeTalk
  <2>3. book' \in Book
    BY <1>5, <2>1 DEF KeepIt
  <2>. QED  BY <1>5, <2>2, <2>3, TypePartsNext DEF KeepIt, TypeCharge, TypeOrder, TypeClaim, TypeBudget
<1>6. ASSUME HoldFor(p) PROVE TypeOK'
  <2>1. TypeTalk'
    BY <1>6, FinishType DEF HoldFor
  <2>2. TypeClaim'
    BY <1>6 DEF HoldFor, heldFor, TypeClaim
  <2>. QED  BY <1>6, <2>1, <2>2, TypePartsNext DEF HoldFor, TypeCharge, TypeOrder, TypeBudget
<1>7. ASSUME LetGo(p) PROVE TypeOK'
  <2>1. TypeTalk'
    BY <1>7, FinishType DEF LetGo
  <2>2. TypeClaim'
    BY <1>7 DEF LetGo, TypeClaim
  <2>. QED  BY <1>7, <2>1, <2>2, TypePartsNext DEF LetGo, TypeCharge, TypeOrder, TypeBudget
<1>. QED  BY <1>1, <1>2, <1>3, <1>4, <1>5, <1>6, <1>7

\* A request that begins is somewhere it may be, and remembers nothing yet.
LEMMA StartTypes ==
  ASSUME TypeOK, NEW p \in Procs
  PROVE  /\ Hear(p) => TypeOK'
         /\ Recheck(p) => TypeOK'
         /\ Look(p) => TypeOK'
         /\ Cancel(p) => TypeOK'
         /\ AgreeFee(p) => TypeOK'
         /\ CancelDue(p) => TypeOK'
<1>. /\ TypeCharge /\ book \in Book /\ TypeOrder /\ TypeClaim
     /\ due \in BOOLEAN /\ TypeTalk /\ TypeBudget
  BY TypeParts
<1>0. ASSUME NEW kind, NEW place \in {"hread", "rread", "change"}, begin(p, kind, place, Open)
      PROVE  TypeTalk'
  BY <1>0, BeginType DEF Places
<1>1. ASSUME Hear(p) PROVE TypeOK'
  BY <1>0, <1>1, TypePartsNext DEF Hear, TypeCharge, TypeOrder, TypeClaim, TypeBudget
<1>2. ASSUME Recheck(p) PROVE TypeOK'
  BY <1>0, <1>2, TypePartsNext DEF Recheck, TypeCharge, TypeOrder, TypeClaim, TypeBudget
<1>3. ASSUME Look(p) PROVE TypeOK'
  BY <1>0, <1>3, SpendType, TypePartsNext DEF Look, TypeCharge, TypeOrder, TypeClaim
<1>4. ASSUME Cancel(p) PROVE TypeOK'
  BY <1>0, <1>4, SpendType, TypePartsNext DEF Cancel, hearOf, TypeCharge, TypeOrder, TypeClaim
<1>5. ASSUME AgreeFee(p) PROVE TypeOK'
  BY <1>0, <1>5, SpendType, TypePartsNext DEF AgreeFee, hearOf, TypeCharge, TypeOrder, TypeClaim
<1>6. ASSUME CancelDue(p) PROVE TypeOK'
  BY <1>0, <1>6, TypePartsNext DEF CancelDue, TypeCharge, TypeOrder, TypeClaim, TypeBudget
<1>. QED  BY <1>1, <1>2, <1>3, <1>4, <1>5, <1>6

\* A hearing maps a book to a book.
LEMMA HeardOfType ==
  ASSUME TypeOK, NEW b \in Book, NEW t \in Talk, NEW first
  PROVE  /\ appliedTo(b, t) \in Book
         /\ takenBy(appliedTo(b, t), t, first) \in Book
         /\ heardOf(b, t, first) \in Book
<1>1. t.seen \in [Charges -> AsaasWords \cup {NoStatus}] /\ cancelled \in BOOLEAN
  BY TalkFields, ViewTypes
<1>2. ASSUME NEW g \in Book
      PROVE  takenBy(g, t, first) \in Book
  <2>1. \A S : noteStrays(g, S, "ORDER_ALREADY_PAID") \in Book
    BY NoteStraysType DEF StrayReasons
  <2>. DEFINE a == applyCharge(cancelRows(g, liveCharges(g)), first, t.seen, cancelled)
  <2>2. a \in Book
    BY <1>1, CancelRowsType, ApplyChargesType DEF applyCharge
  <2>. HIDE DEF a
  <2>3. \A S : noteStrays(a, S, "ORDER_ALREADY_PAID") \in Book
    BY <2>2, NoteStraysType DEF StrayReasons
  <2>. QED  BY <2>1, <2>3 DEF takenBy, a
<1>3. appliedTo(b, t) \in Book
  BY <1>1, CancelRowsType, ApplyChargesType DEF appliedTo
<1>4. takenBy(appliedTo(b, t), t, first) \in Book
  BY <1>2, <1>3
<1>5. heardOf(b, t, first) \in Book
  <2>. DEFINE h == takenBy(appliedTo(b, t), t, first)
  <2>. HIDE DEF h
  <2>1. h \in Book
    BY <1>4 DEF h
  <2>2. \A S : noteStrays(h, S, "ORDER_CANCELLED") \in Book
    BY <2>1, NoteStraysType DEF StrayReasons
  <2>. QED  BY <2>1, <2>2 DEF heardOf, h
<1>. QED  BY <1>3, <1>4, <1>5

\* What a release writes is a book.
LEMMA ReleasedType ==
  ASSUME TypeOK, NEW b \in Book, NEW t \in Talk, NEW paid
  PROVE  /\ releasedTo(b, t, paid) \in Book
         /\ releaseStrays(b, t, paid) \in Book
<1>1. t.seen \in [Charges -> AsaasWords \cup {NoStatus}] /\ cancelled \in BOOLEAN
  BY TalkFields, ViewTypes
<1>2. \A g : cancelRows(b, g) \in Book
  BY CancelRowsType
<1>3. \A g, c : applyCharge(cancelRows(b, g), c, t.seen, cancelled) \in Book
  BY <1>1, <1>2, ApplyChargesType DEF applyCharge
<1>4. releasedTo(b, t, paid) \in Book
  BY <1>2, <1>3 DEF releasedTo
<1>5. \A S, R : noteStrays(noteStrays(b, S, "ORDER_CANCELLED"), R, "ORDER_ALREADY_PAID") \in Book
  <2>. SUFFICES ASSUME NEW S, NEW R
                PROVE  noteStrays(noteStrays(b, S, "ORDER_CANCELLED"), R, "ORDER_ALREADY_PAID") \in Book
    OBVIOUS
  <2>1. noteStrays(b, S, "ORDER_CANCELLED") \in Book
    BY NoteStraysType DEF StrayReasons
  <2>. QED  BY <2>1, NoteStraysType DEF StrayReasons
<1>6. releaseStrays(b, t, paid) \in Book
  BY <1>5 DEF releaseStrays
<1>. QED  BY <1>4, <1>6

\* The requests' own steps: hearing Asaas, and changing the order on it.
LEMMA HearTypes ==
  ASSUME TypeOK, NEW p \in Procs
  PROVE  /\ HearRows(p) => TypeOK'
         /\ HearList(p) => TypeOK'
         /\ HearMissing(p) => TypeOK'
         /\ HearWrite(p) => TypeOK'
         /\ Change(p) => TypeOK'
         /\ Push(p) => TypeOK'
<1>. /\ TypeCharge /\ book \in Book /\ TypeOrder /\ TypeClaim
     /\ due \in BOOLEAN /\ TypeTalk /\ TypeBudget
  BY TypeParts
<1>0. talk[p] \in Talk
  BY DEF TypeTalk
<1>1. ASSUME HearRows(p) PROVE TypeOK'
  <2>1. [talk[p] EXCEPT !.known = statuses] \in Talk
    BY <1>0, ViewTypes DEF Talk
  <2>2. TypeTalk'
    BY <1>1, <2>1, GotoType DEF HearRows, Places, TypeTalk
  <2>. QED  BY <1>1, <2>2, TypePartsNext DEF HearRows, TypeCharge, TypeOrder, TypeClaim, TypeBudget
<1>2. ASSUME HearList(p) PROVE TypeOK'
  <2>1. [talk[p] EXCEPT !.seen = listing,
           !.todo = {c \in Charges : waits(talk[p].known[c]) /\ listing[c] = NoStatus}] \in Talk
    BY <1>0, ViewTypes DEF Talk
  <2>2. TypeTalk'
    BY <1>2, <2>1, GotoType DEF HearList, Places, TypeTalk
  <2>. QED  BY <1>2, <2>2, TypePartsNext DEF HearList, TypeCharge, TypeOrder, TypeClaim, TypeBudget
<1>3. ASSUME HearMissing(p) PROVE TypeOK'
  <2>1. PICK c \in talk[p].todo :
          say(p, IF present(c) THEN [talk[p] EXCEPT !.todo = @ \ {c}, !.seen[c] = charge[c].word]
                               ELSE [talk[p] EXCEPT !.todo = @ \ {c}, !.gone = @ \cup {c}])
    BY <1>3 DEF HearMissing
  <2>2. c \in Charges /\ charge[c].word \in AsaasWords \cup {NoStatus}
    BY <1>0, TalkFields DEF TypeCharge, Charge
  <2>3. [talk[p] EXCEPT !.todo = @ \ {c}, !.seen[c] = charge[c].word] \in Talk
    BY <1>0, <2>2 DEF Talk
  <2>4. [talk[p] EXCEPT !.todo = @ \ {c}, !.gone = @ \cup {c}] \in Talk
    BY <1>0, <2>2 DEF Talk
  <2>5. TypeTalk'
    BY <1>3, <2>1, <2>3, <2>4, GotoType DEF HearMissing, Places, TypeTalk
  <2>. QED  BY <1>3, <2>5, TypePartsNext DEF HearMissing, TypeCharge, TypeOrder, TypeClaim, TypeBudget
<1>4. ASSUME HearWrite(p) PROVE TypeOK'
  <2>. DEFINE t == talk[p]
              left == [Blank EXCEPT !.kind = t.kind,
                         !.seen = IF t.kind = "unpaid" THEN t.seen ELSE Blank.seen]
  <2>1. \E first \in oneOf(paidIn(talk[p].seen)) :
          /\ book' = heardOf(book, talk[p], first)
          /\ \/ finish(p)
             \/ say(p, left) /\ \E place \in {"rread", "push", "change"} : goto(p, place)
    BY <1>4 DEF HearWrite
  <2>2. left \in Talk
    BY <1>0, TalkFields, BlankType DEF Talk
  <2>. HIDE DEF left
  <2>3. TypeTalk'
    BY <2>1, <2>2, GotoType, FinishType DEF TypeTalk, Places
  <2>4. book' \in Book
    BY <1>0, <2>1, HeardOfType
  <2>. QED  BY <1>4, <2>3, <2>4, TypePartsNext DEF HearWrite, TypeCharge, TypeOrder, TypeClaim, TypeBudget
<1>5. ASSUME Change(p) PROVE TypeOK'
  <2>1. \/ finish(p) /\ UNCHANGED order
        \/ /\ goto(p, "rread") /\ UNCHANGED talk
           /\ \/ order' = [order EXCEPT !.status = "CANCELLED"]
              \/ \E total \in Totals : order' = [order EXCEPT !.total = total, !.late = FALSE]
    BY <1>5 DEF Change, agreed
  <2>2. TypeTalk'
    BY <2>1, GotoType, FinishType DEF TypeTalk, Places
  <2>3. TypeOrder'
    BY <2>1 DEF TypeOrder, OrderStatuses
  <2>. QED  BY <1>5, <2>2, <2>3, TypePartsNext DEF Change, TypeCharge, TypeClaim, TypeBudget
<1>6. ASSUME Push(p) PROVE TypeOK'
  <2>1. TypeTalk'
    BY <1>6, FinishType DEF Push
  <2>2. TypeOrder'
    BY <1>6 DEF Push, TypeOrder
  <2>. QED  BY <1>6, <2>1, <2>2, TypePartsNext DEF Push, TypeCharge, TypeClaim, TypeBudget
<1>. QED  BY <1>1, <1>2, <1>3, <1>4, <1>5, <1>6

\* The requests' own steps: release.
LEMMA ReleaseTypes ==
  ASSUME TypeOK, NEW p \in Procs
  PROVE  /\ RelRead(p) => TypeOK'
         /\ RelList(p) => TypeOK'
         /\ RelSort(p) => TypeOK'
         /\ RelFitting(p) => TypeOK'
         /\ RelWrite(p) => TypeOK'
<1>. /\ TypeCharge /\ book \in Book /\ TypeOrder /\ TypeClaim
     /\ due \in BOOLEAN /\ TypeTalk /\ TypeBudget
  BY TypeParts
<1>0. talk[p] \in Talk
  BY DEF TypeTalk
<1>1. ASSUME RelRead(p) PROVE TypeOK'
  <2>1. [talk[p] EXCEPT !.known = statuses, !.off = cancelled, !.want = wantedNow] \in Talk
    BY <1>0, ViewTypes DEF Talk
  <2>2. TypeTalk'
    BY <1>1, <2>1, GotoType, FinishType DEF RelRead, Places, TypeTalk
  <2>. QED  BY <1>1, <2>2, TypePartsNext DEF RelRead, TypeCharge, TypeOrder, TypeClaim, TypeBudget
<1>2. ASSUME RelList(p) PROVE TypeOK'
  <2>1. PICK k \in oneOf(fittingOf(talk[p], listing)) :
          say(p, [talk[p] EXCEPT !.seen = listing, !.keep = k, !.paids = paidIn(listing),
                                 !.todo = unpaidIn(listing) \ {k}])
    BY <1>2 DEF RelList
  <2>2. [talk[p] EXCEPT !.seen = listing, !.keep = k, !.paids = paidIn(listing),
                        !.todo = unpaidIn(listing) \ {k}] \in Talk
    BY <1>0, ViewTypes DEF Talk, paidIn, unpaidIn, listedIn, oneOf, fittingOf
  <2>3. TypeTalk'
    BY <1>2, <2>1, <2>2, GotoType DEF RelList, Places, TypeTalk
  <2>. QED  BY <1>2, <2>3, TypePartsNext DEF RelList, TypeCharge, TypeOrder, TypeClaim, TypeBudget
<1>3. ASSUME RelSort(p) PROVE TypeOK'
  <2>1. PICK c \in talk[p].todo : removed(c) /\ say(p, afterRemoval(talk[p], c))
    BY <1>3 DEF RelSort
  <2>2. c \in Charges
    BY <1>0, TalkFields
  <2>3. TypeTalk'
    BY <1>0, <1>3, <2>1, <2>2, AfterRemovalType, GotoType DEF RelSort, Places, TypeTalk
  <2>4. TypeCharge' /\ due' \in BOOLEAN
    BY <2>1, <2>2, RemovalType
  <2>. QED  BY <1>3, <2>3, <2>4, TypePartsNext DEF RelSort, TypeOrder, TypeClaim, TypeBudget
<1>4. ASSUME RelFitting(p) PROVE TypeOK'
  <2>1. talk[p].keep \in Charges
    BY <1>0, <1>4, TalkFields DEF RelFitting, besidePaid
  <2>2. [talk[p] EXCEPT !.keep = NoCharge] \in Talk
    BY <1>0 DEF Talk
  <2>3. TypeTalk'
    BY <1>4, <2>2, GotoType DEF RelFitting, Places, TypeTalk
  <2>4. TypeCharge' /\ due' \in BOOLEAN
    BY <1>4, <2>1, RemovalType DEF RelFitting
  <2>. QED  BY <1>4, <2>3, <2>4, TypePartsNext DEF RelFitting, TypeOrder, TypeClaim, TypeBudget
<1>5. ASSUME RelWrite(p) PROVE TypeOK'
  <2>1. TypeTalk'
    BY <1>5, FinishType DEF RelWrite
  <2>2. PICK paid \in paidOf(talk[p]) :
          LET b == releasedTo(book, talk[p], paid)
          IN  book' = IF OneLive(b) THEN releaseStrays(b, talk[p], paid) ELSE book
    BY <1>5 DEF RelWrite
  <2>3. book' \in Book
    BY <1>0, <2>2, ReleasedType
  <2>. QED  BY <1>5, <2>1, <2>3, TypePartsNext DEF RelWrite, TypeCharge, TypeOrder, TypeClaim, TypeBudget
<1>. QED  BY <1>1, <1>2, <1>3, <1>4, <1>5

LEMMA FailedType ==
  ASSUME TypeOK, NEW p \in Procs, failed(p)
  PROVE  TypeTalk'
<1>. TypeTalk /\ talk[p] \in Talk
  BY TypeParts DEF TypeTalk
<1>1. [Blank EXCEPT !.kind = talk[p].kind] \in Talk
  BY TalkFields, BlankType DEF Talk
<1>2. CASE goto(p, "letgo") /\ UNCHANGED talk
  BY <1>2, GotoType DEF TypeTalk, Places
<1>3. CASE goto(p, "change") /\ say(p, [Blank EXCEPT !.kind = talk[p].kind])
  BY <1>1, <1>3, GotoType DEF TypeTalk, Places
<1>4. CASE goto(p, "push") /\ say(p, [Blank EXCEPT !.kind = talk[p].kind])
  BY <1>1, <1>4, GotoType DEF TypeTalk, Places
<1>5. CASE finish(p)
  BY <1>5, FinishType
<1>. QED  BY <1>2, <1>3, <1>4, <1>5 DEF failed

\* What goes wrong, and what Asaas, the customer, the shop and the clock do.
LEMMA WorldTypes ==
  ASSUME TypeOK
  PROVE  /\ \A p \in Procs : CallFails(p) \/ RemovalUnheard(p) \/ Crash(p) => TypeOK'
         /\ \A c \in Charges : WordMoves(c) \/ Surface(c) \/ OfferEnds(c) \/ Restore(c) => TypeOK'
         /\ ClaimEnds \/ DeadlinePasses \/ ShopMovesOrder => TypeOK'
<1>. /\ TypeCharge /\ book \in Book /\ TypeOrder /\ TypeClaim
     /\ due \in BOOLEAN /\ TypeTalk /\ TypeBudget
  BY TypeParts
<1>1. ASSUME NEW p \in Procs, CallFails(p) PROVE TypeOK'
  <2>1. TypeTalk' /\ TypeBudget' /\ due' \in BOOLEAN
    BY <1>1, FailedType, SpendType DEF CallFails
  <2>. QED  BY <1>1, <2>1, TypePartsNext DEF CallFails, TypeCharge, TypeOrder, TypeClaim
<1>2. ASSUME NEW p \in Procs, RemovalUnheard(p) PROVE TypeOK'
  <2>1. TypeTalk' /\ TypeBudget'
    BY <1>2, FailedType, SpendType DEF RemovalUnheard
  <2>2. TypeCharge' /\ due' \in BOOLEAN
    <3>1. PICK c : takenOut(c)
      BY <1>2 DEF RemovalUnheard
    <3>. QED  BY <3>1 DEF takenOut, TypeCharge, Charge
  <2>. QED  BY <1>2, <2>1, <2>2, TypePartsNext DEF RemovalUnheard, TypeOrder, TypeClaim
<1>3. ASSUME NEW p \in Procs, Crash(p) PROVE TypeOK'
  <2>1. TypeTalk' /\ TypeBudget' /\ due' \in BOOLEAN
    BY <1>3, FinishType, SpendType DEF Crash
  <2>. QED  BY <1>3, <2>1, TypePartsNext DEF Crash, TypeCharge, TypeOrder, TypeClaim
<1>4. ASSUME NEW c \in Charges, WordMoves(c) PROVE TypeOK'
  <2>1. PICK w \in AsaasWords : charge' = [charge EXCEPT ![c].word = w]
    BY <1>4 DEF WordMoves
  <2>2. TypeCharge'
    BY <2>1 DEF TypeCharge, Charge
  <2>. QED  BY <1>4, <2>2, TypePartsNext DEF WordMoves, TypeOrder, TypeClaim, TypeTalk, TypeBudget
<1>5. ASSUME NEW c \in Charges, Surface(c) PROVE TypeOK'
  <2>1. TypeCharge'
    BY <1>5 DEF Surface, TypeCharge, Charge
  <2>. QED  BY <1>5, <2>1, TypePartsNext DEF Surface, TypeOrder, TypeClaim, TypeTalk, TypeBudget
<1>6. ASSUME NEW c \in Charges, OfferEnds(c) PROVE TypeOK'
  <2>1. charge[c].age + 1 \in 0..2
    BY <1>6, Bounds DEF OfferEnds, TypeCharge, Charge
  <2>2. TypeCharge'
    BY <1>6, <2>1 DEF OfferEnds, TypeCharge, Charge
  <2>. QED  BY <1>6, <2>2, TypePartsNext DEF OfferEnds, TypeOrder, TypeClaim, TypeTalk, TypeBudget
<1>7. ASSUME NEW c \in Charges, Restore(c) PROVE TypeOK'
  <2>1. TypeCharge' /\ due' \in BOOLEAN /\ TypeBudget'
    BY <1>7, SpendType DEF Restore, TypeCharge, Charge
  <2>. QED  BY <1>7, <2>1, TypePartsNext DEF Restore, TypeOrder, TypeClaim, TypeTalk
<1>8. ASSUME ClaimEnds PROVE TypeOK'
  <2>1. TypeClaim'
    BY <1>8 DEF ClaimEnds, TypeClaim
  <2>. QED  BY <1>8, <2>1, TypePartsNext DEF ClaimEnds, TypeCharge, TypeOrder, TypeTalk, TypeBudget
<1>9. ASSUME DeadlinePasses PROVE TypeOK'
  <2>1. TypeOrder'
    BY <1>9 DEF DeadlinePasses, TypeOrder
  <2>. QED  BY <1>9, <2>1, TypePartsNext DEF DeadlinePasses, TypeCharge, TypeClaim, TypeTalk, TypeBudget
<1>10. ASSUME ShopMovesOrder PROVE TypeOK'
  <2>1. TypeOrder'
    BY <1>10, ShopMoves DEF ShopMovesOrder, TypeOrder
  <2>. QED  BY <1>10, <2>1, TypePartsNext DEF ShopMovesOrder, TypeCharge, TypeClaim, TypeTalk, TypeBudget
<1>. QED  BY <1>1, <1>2, <1>3, <1>4, <1>5, <1>6, <1>7, <1>8, <1>9, <1>10

LEMMA TypeInit == Init => TypeOK
<1>. SUFFICES ASSUME Init PROVE TypeOK
  OBVIOUS
<1>1. TypeCharge
  BY DEF Init, TypeCharge, NoneMade, Charge
<1>2. TypeOrder
  BY Amounts DEF Init, TypeOrder, OrderStatuses
<1>3. TypeTalk
  BY BlankType DEF Init, TypeTalk, Places
<1>4. TypeClaim /\ TypeBudget /\ due \in BOOLEAN /\ book \in Book
  BY EmptyBookType, Bounds DEF Init, TypeClaim, TypeBudget
<1>. QED  BY <1>1, <1>2, <1>3, <1>4, TypeParts

LEMMA TypeStutter == TypeOK /\ UNCHANGED vars => TypeOK'
BY DEF TypeOK, vars

LEMMA TypeNext == TypeOK /\ [Next]_vars => TypeOK'
<1>. SUFFICES ASSUME TypeOK, Next PROVE TypeOK'
  BY TypeStutter
<1>1. ASSUME NEW p \in Procs, Start(p) PROVE TypeOK'
  BY <1>1, EnsureTypes, StartTypes DEF Start
<1>2. ASSUME NEW p \in Procs, Proceed(p) PROVE TypeOK'
  BY <1>2, EnsureTypes, SettleTypes, HearTypes, ReleaseTypes DEF Proceed
<1>. QED  BY <1>1, <1>2, WorldTypes DEF Next

\* Whatever the requests, the charges, the totals and the faults, every variable keeps
\* its type: in particular every row has a status order_payments can hold, whichever
\* writers of payment-facts.ts composed it.
THEOREM TypeCorrect == Spec => []TypeOK
BY TypeInit, TypeNext, PTL DEF Spec

-----------------------------------------------------------------------------
(* One charge at a time.                                                   *)
(*                                                                         *)
(* A request creates with the claim its own and running (HolderCreates),   *)
(* nothing of the order left at Asaas (NoneLeft).  It got there because it *)
(* listed everything (UnshownIsHeld: a charge the listing does not show    *)
(* yet is covered by a claim no listing holder has) and every charge it    *)
(* listed was removed or kept (SortHasAll), and because nobody else can    *)
(* create while the claim is its own.                                      *)

AtEnsure == {"known", "list", "sort", "beside", "giveup", "create", "refused", "settle",
             "unwant", "keepit", "letgo"}

HolderCreates ==
  \A p \in Procs : pc[p] \in {"giveup", "create"} => claim.by = p /\ claim.live

UnshownIsHeld ==
  \A c \in Charges : present(c) /\ ~charge[c].shown =>
    claim.live /\ \A p \in Procs : claim.by = p => pc[p] \notin AtEnsure

SortHasAll ==
  \A p \in Procs : pc[p] = "sort" /\ claim.by = p =>
    \A c \in Charges : present(c) => c \in talk[p].todo \/ c = talk[p].keep

NoneLeft ==
  \A p \in Procs : pc[p] \in {"giveup", "create"} => \A c \in Charges : ~present(c)

ChargeInv == TypeOK /\ HolderCreates /\ UnshownIsHeld /\ SortHasAll /\ NoneLeft

\* No charge appears, and none leaves the listing it is in but by being removed.
NoNewCharge ==
  \A c \in Charges : present(c)' => present(c) /\ (charge[c].shown => charge'[c].shown)

LEMMA RemovalAddsNone ==
  ASSUME TypeCharge, NEW c
  PROVE  /\ takenOut(c) => NoNewCharge
         /\ removed(c) => NoNewCharge
         /\ UNCHANGED charge => NoNewCharge
BY DEF TypeCharge, Charge, takenOut, removed, present, NoNewCharge

\* A step of one request that makes no charge, leaves the claim and does not go where
\* the invariant asks something of it keeps the invariant.
LEMMA ElsewhereKeeps ==
  ASSUME ChargeInv, NEW p \in Procs, NoNewCharge, claim' = claim,
         \A q \in Procs \ {p} : pc'[q] = pc[q] /\ talk'[q] = talk[q],
         pc'[p] \notin {"sort", "giveup", "create"},
         pc'[p] \in AtEnsure => pc[p] \in AtEnsure
  PROVE  HolderCreates' /\ UnshownIsHeld' /\ SortHasAll' /\ NoneLeft'
<1>1. HolderCreates'
  BY DEF ChargeInv, HolderCreates
<1>2. UnshownIsHeld'
  BY DEF ChargeInv, UnshownIsHeld, NoNewCharge
<1>3. SortHasAll'
  BY DEF ChargeInv, SortHasAll, NoNewCharge
<1>4. NoneLeft'
  BY DEF ChargeInv, NoneLeft, NoNewCharge
<1>. QED  BY <1>1, <1>2, <1>3, <1>4

\* So does a step of no request.
LEMMA NobodyKeeps ==
  ASSUME ChargeInv, NoNewCharge, UNCHANGED <<claim, pc, talk>>
  PROVE  HolderCreates' /\ UnshownIsHeld' /\ SortHasAll' /\ NoneLeft'
BY DEF ChargeInv, HolderCreates, UnshownIsHeld, SortHasAll, NoneLeft, NoNewCharge

\* Where a request goes is where it then is, and the others stay where they were.
LEMMA GotoKeeps ==
  ASSUME TypeTalk, NEW p \in Procs
  PROVE  /\ \A place : goto(p, place) => pc'[p] = place /\ \A q \in Procs \ {p} : pc'[q] = pc[q]
         /\ \A t : say(p, t) => talk'[p] = t /\ \A q \in Procs \ {p} : talk'[q] = talk[q]
         /\ finish(p) => /\ pc'[p] = "idle"
                         /\ \A q \in Procs \ {p} : pc'[q] = pc[q] /\ talk'[q] = talk[q]
         /\ \A kind, place, want : begin(p, kind, place, want) =>
              /\ pc[p] = "idle" /\ pc'[p] = place
              /\ \A q \in Procs \ {p} : pc'[q] = pc[q] /\ talk'[q] = talk[q]
BY DEF TypeTalk, goto, say, finish, begin

OneChargeParts == HolderCreates /\ UnshownIsHeld /\ SortHasAll /\ NoneLeft

\* Steps of requests that neither make a charge nor touch the claim.
LEMMA ElsewhereSteps ==
  ASSUME ChargeInv, NEW p \in Procs
  PROVE  /\ Known(p) \/ Beside(p) \/ RecordRefusal(p) \/ Unwant(p) \/ KeepIt(p) => OneChargeParts'
         /\ HearRows(p) \/ HearList(p) \/ HearMissing(p) \/ HearWrite(p) => OneChargeParts'
         /\ Change(p) \/ Push(p) => OneChargeParts'
         /\ RelRead(p) \/ RelList(p) \/ RelSort(p) \/ RelFitting(p) \/ RelWrite(p) => OneChargeParts'
         /\ Hear(p) \/ Recheck(p) \/ Look(p) \/ Cancel(p) \/ AgreeFee(p) \/ CancelDue(p) => OneChargeParts'
         /\ CallFails(p) \/ RemovalUnheard(p) \/ Crash(p) => OneChargeParts'
<1>. TypeCharge /\ TypeTalk
  BY TypeParts DEF ChargeInv
<1>. DEFINE Others == \A q \in Procs \ {p} : pc'[q] = pc[q] /\ talk'[q] = talk[q]
            Elsewhere == /\ NoNewCharge /\ claim' = claim /\ Others
                         /\ pc'[p] \notin {"sort", "giveup", "create"}
                         /\ pc'[p] \in AtEnsure => pc[p] \in AtEnsure
<1>0. Elsewhere => OneChargeParts'
  BY ElsewhereKeeps DEF OneChargeParts
<1>1. Known(p) \/ Beside(p) \/ RecordRefusal(p) \/ Unwant(p) \/ KeepIt(p) => Elsewhere
  <2>1. Known(p) => Elsewhere
    BY GotoKeeps, RemovalAddsNone DEF Known, AtEnsure
  <2>2. Beside(p) => Elsewhere
    BY GotoKeeps, RemovalAddsNone DEF Beside
  <2>3. RecordRefusal(p) => Elsewhere
    BY GotoKeeps, RemovalAddsNone DEF RecordRefusal, AtEnsure
  <2>4. Unwant(p) => Elsewhere
    BY GotoKeeps, RemovalAddsNone DEF Unwant, AtEnsure
  <2>5. KeepIt(p) => Elsewhere
    BY GotoKeeps, RemovalAddsNone DEF KeepIt, AtEnsure
  <2>. QED  BY <2>1, <2>2, <2>3, <2>4, <2>5
<1>2. HearRows(p) \/ HearList(p) \/ HearMissing(p) \/ HearWrite(p) => Elsewhere
  <2>1. HearRows(p) => Elsewhere
    BY GotoKeeps, RemovalAddsNone DEF HearRows, AtEnsure
  <2>2. HearList(p) => Elsewhere
    BY GotoKeeps, RemovalAddsNone DEF HearList, AtEnsure
  <2>3. HearMissing(p) => Elsewhere
    BY GotoKeeps, RemovalAddsNone DEF HearMissing
  <2>4. ASSUME HearWrite(p) PROVE Elsewhere
    <3>1. /\ UNCHANGED charge /\ claim' = claim
          /\ \/ finish(p)
             \/ (\E place \in {"rread", "push", "change"} : goto(p, place)) /\ \E t : say(p, t)
      BY <2>4 DEF HearWrite
    <3>. QED  BY <3>1, GotoKeeps, RemovalAddsNone DEF AtEnsure
  <2>. QED  BY <2>1, <2>2, <2>3, <2>4
<1>3. Change(p) \/ Push(p) => Elsewhere
  <2>1. ASSUME Change(p) PROVE Elsewhere
    <3>1. /\ UNCHANGED charge /\ claim' = claim
          /\ finish(p) \/ (goto(p, "rread") /\ UNCHANGED talk)
      BY <2>1 DEF Change
    <3>. QED  BY <3>1, GotoKeeps, RemovalAddsNone DEF AtEnsure
  <2>2. Push(p) => Elsewhere
    BY GotoKeeps, RemovalAddsNone DEF Push, AtEnsure
  <2>. QED  BY <2>1, <2>2
<1>4. RelRead(p) \/ RelList(p) \/ RelSort(p) \/ RelFitting(p) \/ RelWrite(p) => Elsewhere
  <2>1. RelRead(p) => Elsewhere
    BY GotoKeeps, RemovalAddsNone DEF RelRead, AtEnsure
  <2>2. RelList(p) => Elsewhere
    BY GotoKeeps, RemovalAddsNone DEF RelList, AtEnsure
  <2>3. RelSort(p) => Elsewhere
    BY GotoKeeps, RemovalAddsNone DEF RelSort
  <2>4. RelFitting(p) => Elsewhere
    BY GotoKeeps, RemovalAddsNone DEF RelFitting
  <2>5. RelWrite(p) => Elsewhere
    BY GotoKeeps, RemovalAddsNone DEF RelWrite, AtEnsure
  <2>. QED  BY <2>1, <2>2, <2>3, <2>4, <2>5
<1>5. Hear(p) \/ Recheck(p) \/ Look(p) \/ Cancel(p) \/ AgreeFee(p) \/ CancelDue(p) => Elsewhere
  <2>1. ASSUME Hear(p) \/ Recheck(p) \/ Look(p) \/ Cancel(p) \/ AgreeFee(p) \/ CancelDue(p)
        PROVE  /\ UNCHANGED charge /\ claim' = claim
               /\ \E kind, place : place \in {"hread", "rread", "change"} /\ begin(p, kind, place, Open)
    BY <2>1 DEF Hear, Recheck, Look, Cancel, AgreeFee, CancelDue, hearOf
  <2>. QED  BY <2>1, GotoKeeps, RemovalAddsNone DEF AtEnsure
<1>6. CallFails(p) \/ RemovalUnheard(p) \/ Crash(p) => Elsewhere
  <2>1. ASSUME failed(p), pc[p] \in {"list", "sort", "create", "hlist", "hmiss", "rlist", "rsort"}
        PROVE  /\ Others
               /\ pc'[p] \notin {"sort", "giveup", "create"}
               /\ pc'[p] \in AtEnsure => pc[p] \in AtEnsure
    BY <2>1, GotoKeeps DEF failed, AtEnsure
  <2>2. CallFails(p) => Elsewhere
    BY <2>1, RemovalAddsNone DEF CallFails
  <2>3. RemovalUnheard(p) => Elsewhere
    BY <2>1, RemovalAddsNone DEF RemovalUnheard
  <2>4. Crash(p) => Elsewhere
    BY GotoKeeps, RemovalAddsNone DEF Crash, AtEnsure
  <2>. QED  BY <2>2, <2>3, <2>4
<1>. QED  BY <1>0, <1>1, <1>2, <1>3, <1>4, <1>5, <1>6

\* The claim is taken only when no charge is hidden from a listing.
LEMMA EnsureKeeps ==
  ASSUME ChargeInv, NEW p \in Procs, Ensure(p)
  PROVE  OneChargeParts'
<1>. TypeCharge /\ TypeTalk
  BY TypeParts DEF ChargeInv
<1>1. /\ UNCHANGED charge /\ ~claim.live /\ claim'.by = p /\ claim'.live
      /\ pc'[p] = "known" /\ \A q \in Procs \ {p} : pc'[q] = pc[q] /\ talk'[q] = talk[q]
  BY GotoKeeps DEF Ensure
<1>2. \A c \in Charges : present(c) => charge[c].shown
  BY <1>1 DEF ChargeInv, UnshownIsHeld
<1>3. HolderCreates'
  BY <1>1 DEF ChargeInv, HolderCreates
<1>4. UnshownIsHeld'
  BY <1>1, <1>2 DEF UnshownIsHeld, present
<1>5. SortHasAll'
  BY <1>1 DEF SortHasAll
<1>6. NoneLeft'
  BY <1>1 DEF ChargeInv, NoneLeft, present
<1>. QED  BY <1>3, <1>4, <1>5, <1>6 DEF OneChargeParts

\* A listing by the claim's holder shows every charge there is.
LEMMA ListKeeps ==
  ASSUME ChargeInv, NEW p \in Procs, List(p)
  PROVE  OneChargeParts'
<1>. TypeCharge /\ TypeTalk
  BY TypeParts DEF ChargeInv
<1>1. /\ UNCHANGED <<charge, claim>> /\ pc[p] = "list" /\ pc'[p] \in {"sort", "beside"}
      /\ \A q \in Procs \ {p} : pc'[q] = pc[q] /\ talk'[q] = talk[q]
  BY GotoKeeps DEF List
<1>2. CASE pc'[p] = "beside"
  BY <1>1, <1>2, ElsewhereKeeps, RemovalAddsNone DEF AtEnsure, OneChargeParts
<1>3. CASE pc'[p] = "sort"
  <2>0. ~goto(p, "beside")
    BY <1>3, GotoKeeps
  <2>1. PICK k \in oneOf(keepersOf(talk[p], listing)) :
          say(p, [talk[p] EXCEPT !.seen = listing, !.keep = k, !.todo = listedIn(listing) \ {k}])
    BY <2>0 DEF List
  <2>2. talk'[p].todo = listedIn(listing) \ {k} /\ talk'[p].keep = k
    <3>1. talk[p] \in Talk
      BY DEF TypeTalk
    <3>2. talk'[p] = [talk[p] EXCEPT !.seen = listing, !.keep = k, !.todo = listedIn(listing) \ {k}]
      BY <2>1, GotoKeeps
    <3>. QED  BY <3>1, <3>2 DEF Talk
  <2>3. HolderCreates' /\ NoneLeft'
    BY <1>1, <1>3 DEF ChargeInv, HolderCreates, NoneLeft, present
  <2>4. UnshownIsHeld'
    BY <1>1, <1>3 DEF ChargeInv, UnshownIsHeld, present, AtEnsure
  <2>5. ASSUME claim.by = p, NEW c \in Charges, present(c)
        PROVE  c \in talk'[p].todo \/ c = talk'[p].keep
    <3>1. charge[c].shown
      BY <1>1, <2>5 DEF ChargeInv, UnshownIsHeld, AtEnsure
    <3>2. c \in listedIn(listing)
      BY <2>5, <3>1 DEF listedIn, listing, present
    <3>. QED  BY <2>2, <3>2
  <2>6. SortHasAll'
    BY <1>1, <2>5 DEF ChargeInv, SortHasAll, present
  <2>. QED  BY <2>3, <2>4, <2>6 DEF OneChargeParts
<1>. QED  BY <1>1, <1>2, <1>3

\* A charge leaves the plans to do when it is no longer at Asaas.
LEMMA SortKeeps ==
  ASSUME ChargeInv, NEW p \in Procs, Sort(p)
  PROVE  OneChargeParts'
<1>. TypeCharge /\ TypeTalk
  BY TypeParts DEF ChargeInv
<1>1. PICK c \in talk[p].todo :
        LET t == afterRemoval(talk[p], c)
        IN  /\ removed(c)
            /\ \/ t.paids = {} /\ say(p, t) /\ goto(p, "sort")
               \/ /\ t.paids # {}
                  /\ say(p, [t EXCEPT !.todo = unpaidIn(t.seen)])
                  /\ goto(p, "beside")
  BY DEF Sort
<1>. DEFINE t == afterRemoval(talk[p], c)
<1>2. /\ claim' = claim /\ pc[p] = "sort" /\ pc'[p] \in {"sort", "beside"} /\ NoNewCharge
      /\ \A q \in Procs \ {p} : pc'[q] = pc[q] /\ talk'[q] = talk[q]
  <2>. HIDE DEF t
  <2>. QED  BY <1>1, GotoKeeps, RemovalAddsNone DEF Sort, t
<1>3. CASE pc'[p] = "beside"
  BY <1>2, <1>3, ElsewhereKeeps DEF AtEnsure, OneChargeParts
<1>4. CASE pc'[p] = "sort"
  <2>0. talk[p] \in Talk /\ c \in Charges
    BY TalkFields DEF TypeTalk
  <2>1. t.paids = {} /\ talk'[p] = t
    BY <1>1, <1>4, GotoKeeps
  <2>2. ~(present(c) /\ ~payable(c))
    BY <2>0, <2>1 DEF afterRemoval, Talk
  <2>3. talk'[p].todo = talk[p].todo \ {c} /\ talk'[p].keep = talk[p].keep
    BY <2>0, <2>1, <2>2 DEF afterRemoval, Talk
  <2>4. ~present(c)'
    BY <1>1, <2>0, <2>2 DEF removed, takenOut, payable, present, TypeCharge, Charge
  <2>5. HolderCreates' /\ NoneLeft'
    BY <1>2, <1>4 DEF ChargeInv, HolderCreates, NoneLeft, NoNewCharge
  <2>6. UnshownIsHeld'
    BY <1>2, <1>4 DEF ChargeInv, UnshownIsHeld, NoNewCharge, AtEnsure
  <2>7. ASSUME claim.by = p, NEW d \in Charges, present(d)'
        PROVE  d \in talk'[p].todo \/ d = talk'[p].keep
    <3>1. present(d) /\ d # c
      BY <1>2, <2>4, <2>7 DEF NoNewCharge
    <3>2. d \in talk[p].todo \/ d = talk[p].keep
      BY <1>2, <2>7, <3>1 DEF ChargeInv, SortHasAll
    <3>. QED  BY <2>3, <3>1, <3>2
  <2>8. SortHasAll'
    BY <1>2, <2>7 DEF ChargeInv, SortHasAll, NoNewCharge
  <2>. QED  BY <2>5, <2>6, <2>8 DEF OneChargeParts
<1>. QED  BY <1>2, <1>3, <1>4

\* With nothing left to do and nothing kept, the claim renewed finds Asaas empty.
LEMMA RenewKeeps ==
  ASSUME ChargeInv, NEW p \in Procs, Renew(p)
  PROVE  OneChargeParts'
<1>. TypeCharge /\ TypeTalk
  BY TypeParts DEF ChargeInv
<1>1. /\ UNCHANGED <<charge, talk>> /\ pc[p] = "sort"
      /\ talk[p].todo = {} /\ talk[p].keep = NoCharge
      /\ \A q \in Procs \ {p} : pc'[q] = pc[q]
  BY GotoKeeps DEF Renew
<1>2. CASE pc'[p] = "letgo"
  <2>1. claim' = claim
    BY <1>2, GotoKeeps DEF Renew
  <2>. QED  BY <1>1, <1>2, <2>1, ElsewhereKeeps, RemovalAddsNone DEF AtEnsure, OneChargeParts
<1>3. CASE pc'[p] # "letgo"
  <2>1. claim.by = p /\ claim'.by = p /\ claim'.live /\ pc'[p] = "giveup"
    BY <1>3, GotoKeeps DEF Renew, mayRenew
  <2>2. \A c \in Charges : ~present(c)
    BY <1>1, <2>1, Sets DEF ChargeInv, SortHasAll
  <2>3. HolderCreates'
    BY <1>1, <2>1 DEF ChargeInv, HolderCreates
  <2>4. UnshownIsHeld' /\ SortHasAll' /\ NoneLeft'
    BY <1>1, <2>2 DEF UnshownIsHeld, SortHasAll, NoneLeft, present
  <2>. QED  BY <2>3, <2>4 DEF OneChargeParts
<1>. QED  BY <1>2, <1>3

LEMMA GiveUpKeeps ==
  ASSUME ChargeInv, NEW p \in Procs, GiveUp(p)
  PROVE  OneChargeParts'
<1>. TypeCharge /\ TypeTalk
  BY TypeParts DEF ChargeInv
<1>1. /\ UNCHANGED <<charge, claim, talk>> /\ pc[p] = "giveup" /\ pc'[p] = "create"
      /\ \A q \in Procs \ {p} : pc'[q] = pc[q]
  BY GotoKeeps DEF GiveUp
<1>2. \A c \in Charges : ~present(c)
  BY <1>1 DEF ChargeInv, NoneLeft
<1>3. HolderCreates'
  BY <1>1 DEF ChargeInv, HolderCreates
<1>4. UnshownIsHeld' /\ SortHasAll' /\ NoneLeft'
  BY <1>1, <1>2 DEF UnshownIsHeld, SortHasAll, NoneLeft, present
<1>. QED  BY <1>3, <1>4 DEF OneChargeParts

\* The one that creates is the only one that could, and found nothing before it.
LEMMA CreateKeeps ==
  ASSUME ChargeInv, NEW p \in Procs, Create(p)
  PROVE  OneChargeParts'
<1>. TypeCharge /\ TypeTalk
  BY TypeParts DEF ChargeInv
<1>1. /\ claim' = claim /\ claim.by = p /\ claim.live
      /\ pc[p] = "create" /\ pc'[p] \in {"settle", "refused", "hold"}
      /\ \A q \in Procs \ {p} : pc'[q] = pc[q] /\ talk'[q] = talk[q]
  BY GotoKeeps DEF Create, ChargeInv, HolderCreates
<1>2. \A q \in Procs \ {p} : pc[q] \notin {"giveup", "create"}
  BY <1>1 DEF ChargeInv, HolderCreates
<1>3. HolderCreates' /\ NoneLeft'
  BY <1>1, <1>2 DEF HolderCreates, NoneLeft
<1>4. SortHasAll'
  BY <1>1 DEF SortHasAll
<1>5. \A c \in Charges : ~present(c)
  BY <1>1 DEF ChargeInv, NoneLeft
<1>6. UnshownIsHeld'
  <2>1. CASE pc'[p] = "hold"
    BY <1>1, <2>1 DEF UnshownIsHeld, AtEnsure
  <2>2. CASE pc'[p] = "refused"
    <3>1. ~goto(p, "settle") /\ ~goto(p, "hold")
      BY <2>2, GotoKeeps
    <3>2. UNCHANGED charge
      BY <3>1 DEF Create
    <3>. QED  BY <1>5, <3>2 DEF UnshownIsHeld, present
  <2>3. CASE pc'[p] = "settle"
    <3>1. ~goto(p, "refused") /\ ~goto(p, "hold")
      BY <2>3, GotoKeeps
    <3>2. PICK c \in Charges, w \in FirstWords : made(c, talk[p].want, w, TRUE)
      BY <3>1 DEF Create
    <3>3. charge'[c].shown /\ \A d \in Charges \ {c} : charge'[d] = charge[d]
      BY <3>2 DEF made, TypeCharge
    <3>. QED  BY <1>5, <3>3 DEF UnshownIsHeld, present
  <2>. QED  BY <1>1, <2>1, <2>2, <2>3
<1>. QED  BY <1>3, <1>4, <1>6 DEF OneChargeParts

\* The claim ends when it is let go by a request that hides nothing, or when its time is
\* up - which, when it is timely, is not while it covers a creation.
LEMMA ClaimFreed ==
  ASSUME ChargeInv, NEW p \in Procs, UNCHANGED charge,
         claim' \in {claim, [by |-> Nobody, live |-> FALSE]},
         claim' # claim => claim.by = p,
         pc[p] \in AtEnsure \ {"giveup", "create"},
         \A q \in Procs \ {p} : pc'[q] = pc[q] /\ talk'[q] = talk[q],
         pc'[p] \in {"idle", "letgo", "unwant"}
  PROVE  OneChargeParts'
<1>. TypeCharge /\ TypeTalk
  BY TypeParts DEF ChargeInv
<1>1. CASE claim' = claim
  BY <1>1, ElsewhereKeeps, RemovalAddsNone DEF AtEnsure, OneChargeParts
<1>2. CASE claim' # claim
  <2>1. claim.by = p /\ claim'.by = Nobody /\ ~claim'.live
    BY <1>2
  <2>2. \A c \in Charges : present(c) => charge[c].shown
    BY <2>1 DEF ChargeInv, UnshownIsHeld
  <2>3. \A q \in Procs : pc'[q] \notin {"giveup", "create"}
    BY <2>1 DEF ChargeInv, HolderCreates
  <2>4. HolderCreates' /\ NoneLeft'
    BY <2>3 DEF HolderCreates, NoneLeft
  <2>5. UnshownIsHeld' /\ SortHasAll'
    BY <2>1, <2>2, Sets DEF UnshownIsHeld, SortHasAll, present
  <2>. QED  BY <2>4, <2>5 DEF OneChargeParts
<1>. QED  BY <1>1, <1>2

LEMMA FreeingKeeps ==
  ASSUME ChargeInv, NEW p \in Procs, Settle(p) \/ LetGo(p)
  PROVE  OneChargeParts'
<1>. TypeCharge /\ TypeTalk
  BY TypeParts DEF ChargeInv
<1>1. CASE Settle(p)
  <2>1. /\ UNCHANGED charge
        /\ claim' \in {claim, [by |-> Nobody, live |-> FALSE]}
        /\ claim' # claim => claim.by = p
        /\ pc[p] \in AtEnsure \ {"giveup", "create"}
    BY <1>1 DEF Settle, AtEnsure
  <2>2. finish(p) \/ (UNCHANGED talk /\ \E place \in {"letgo", "unwant"} : goto(p, place))
    BY <1>1 DEF Settle
  <2>3. /\ \A q \in Procs \ {p} : pc'[q] = pc[q] /\ talk'[q] = talk[q]
        /\ pc'[p] \in {"idle", "letgo", "unwant"}
    BY <2>2, GotoKeeps
  <2>. QED  BY <2>1, <2>3, ClaimFreed
<1>2. CASE LetGo(p)
  <2>1. /\ UNCHANGED charge
        /\ claim' \in {claim, [by |-> Nobody, live |-> FALSE]}
        /\ claim' # claim => claim.by = p
        /\ pc[p] \in AtEnsure \ {"giveup", "create"}
    BY <1>2 DEF LetGo, AtEnsure
  <2>2. /\ \A q \in Procs \ {p} : pc'[q] = pc[q] /\ talk'[q] = talk[q]
        /\ pc'[p] = "idle"
    BY <1>2, GotoKeeps DEF LetGo
  <2>. QED  BY <2>1, <2>2, ClaimFreed
<1>. QED  BY <1>1, <1>2

LEMMA HoldKeeps ==
  ASSUME ChargeInv, NEW p \in Procs, HoldFor(p)
  PROVE  OneChargeParts'
<1>. TypeCharge /\ TypeTalk
  BY TypeParts DEF ChargeInv
<1>1. /\ UNCHANGED charge /\ pc[p] = "hold" /\ pc'[p] = "idle"
      /\ \A q \in Procs \ {p} : pc'[q] = pc[q] /\ talk'[q] = talk[q]
  BY GotoKeeps DEF HoldFor
<1>2. CASE claim.by # p
  BY <1>1, <1>2, ElsewhereKeeps, RemovalAddsNone DEF HoldFor, heldFor, AtEnsure, OneChargeParts
<1>3. CASE claim.by = p
  <2>1. claim'.by = Unanswered /\ claim'.live
    BY <1>3 DEF HoldFor, heldFor
  <2>2. HolderCreates' /\ NoneLeft'
    BY <1>1, <1>3 DEF ChargeInv, HolderCreates, NoneLeft, present
  <2>3. UnshownIsHeld' /\ SortHasAll'
    BY <2>1, Sets DEF UnshownIsHeld, SortHasAll
  <2>. QED  BY <2>2, <2>3 DEF OneChargeParts
<1>. QED  BY <1>2, <1>3

LEMMA WorldKeeps ==
  ASSUME ChargeInv, Timely, ~Restores
  PROVE  /\ \A c \in Charges : WordMoves(c) \/ Surface(c) \/ OfferEnds(c) \/ Restore(c) => OneChargeParts'
         /\ ClaimEnds \/ DeadlinePasses \/ ShopMovesOrder => OneChargeParts'
<1>. TypeCharge
  BY TypeParts DEF ChargeInv
<1>1. ASSUME NEW c \in Charges, WordMoves(c) \/ Surface(c) \/ OfferEnds(c) PROVE OneChargeParts'
  <2>1. NoNewCharge
    <3>1. CASE WordMoves(c)
      BY <3>1 DEF WordMoves, NoNewCharge, present, TypeCharge, Charge
    <3>2. CASE Surface(c)
      BY <3>2 DEF Surface, NoNewCharge, present, TypeCharge, Charge
    <3>3. CASE OfferEnds(c)
      BY <3>3 DEF OfferEnds, NoNewCharge, present, TypeCharge, Charge
    <3>. QED  BY <1>1, <3>1, <3>2, <3>3
  <2>2. UNCHANGED <<claim, pc, talk>>
    BY <1>1 DEF WordMoves, Surface, OfferEnds
  <2>. QED  BY <2>1, <2>2, NobodyKeeps DEF OneChargeParts
<1>2. ASSUME NEW c \in Charges, Restore(c) PROVE FALSE
  BY <1>2 DEF Restore
<1>3. ASSUME DeadlinePasses \/ ShopMovesOrder PROVE OneChargeParts'
  <2>1. NoNewCharge /\ UNCHANGED <<claim, pc, talk>>
    BY <1>3, RemovalAddsNone DEF DeadlinePasses, ShopMovesOrder
  <2>. QED  BY <2>1, NobodyKeeps DEF OneChargeParts
<1>4. ASSUME ClaimEnds PROVE OneChargeParts'
  <2>1. /\ UNCHANGED <<charge, pc, talk>>
        /\ claim' = [claim EXCEPT !.live = FALSE]
        /\ \A c \in Charges : present(c) => charge[c].shown
        /\ \A p \in Procs : claim.by = p => pc[p] \notin {"giveup", "create"}
    BY <1>4 DEF ClaimEnds
  <2>2. claim'.by = claim.by
    BY <2>1, TypeParts DEF ChargeInv, TypeClaim
  <2>3. \A p \in Procs : pc[p] \notin {"giveup", "create"}
    BY <2>1 DEF ChargeInv, HolderCreates
  <2>4. HolderCreates' /\ NoneLeft'
    BY <2>1, <2>3 DEF HolderCreates, NoneLeft
  <2>5. UnshownIsHeld'
    BY <2>1 DEF UnshownIsHeld, present
  <2>6. SortHasAll'
    BY <2>1, <2>2 DEF ChargeInv, SortHasAll, present
  <2>. QED  BY <2>4, <2>5, <2>6 DEF OneChargeParts
<1>. QED  BY <1>1, <1>2, <1>3, <1>4

LEMMA ChargeInvInit == Init => ChargeInv
<1>. SUFFICES ASSUME Init PROVE ChargeInv
  OBVIOUS
<1>1. TypeOK
  BY TypeInit
<1>2. \A c \in Charges : ~present(c)
  BY DEF Init, NoneMade, present
<1>3. HolderCreates /\ UnshownIsHeld /\ SortHasAll /\ NoneLeft
  BY <1>2 DEF Init, HolderCreates, UnshownIsHeld, SortHasAll, NoneLeft
<1>. QED  BY <1>1, <1>3 DEF ChargeInv

LEMMA ChargeInvNext ==
  ASSUME Timely, ~Restores
  PROVE  ChargeInv /\ [Next]_vars => ChargeInv'
<1>. SUFFICES ASSUME ChargeInv, [Next]_vars PROVE ChargeInv'
  OBVIOUS
<1>1. TypeOK'
  BY TypeNext DEF ChargeInv
<1>2. OneChargeParts'
  <2>1. ASSUME NEW p \in Procs, Start(p) PROVE OneChargeParts'
    BY <2>1, EnsureKeeps, ElsewhereSteps DEF Start
  <2>2. ASSUME NEW p \in Procs, Proceed(p) PROVE OneChargeParts'
    BY <2>2, ListKeeps, SortKeeps, RenewKeeps, GiveUpKeeps, CreateKeeps, FreeingKeeps, HoldKeeps,
       ElsewhereSteps DEF Proceed
  <2>3. ASSUME NEW p \in Procs, CallFails(p) \/ RemovalUnheard(p) \/ Crash(p) PROVE OneChargeParts'
    BY <2>3, ElsewhereSteps
  <2>4. ASSUME UNCHANGED vars PROVE OneChargeParts'
    <3>1. NoNewCharge /\ UNCHANGED <<claim, pc, talk>>
      BY <2>4 DEF vars, NoNewCharge, present
    <3>. QED  BY <3>1, NobodyKeeps DEF OneChargeParts
  <2>. QED  BY <2>1, <2>2, <2>3, <2>4, WorldKeeps DEF Next
<1>. QED  BY <1>1, <1>2 DEF ChargeInv, OneChargeParts

\* Only a creation gives a charge its first word, and it finds Asaas empty.
LEMMA CreatesAlone ==
  ASSUME ChargeInv, [Next]_vars, NEW c \in Charges,
         charge[c].word = NoStatus, charge'[c].word # NoStatus
  PROVE  \A d \in Charges : ~payable(d)
<1>. TypeCharge /\ TypeTalk
  BY TypeParts DEF ChargeInv
<1>1. CASE \E p \in Procs : Create(p)
  BY <1>1 DEF ChargeInv, NoneLeft, Create, payable
<1>2. CASE \E d : removed(d) \/ takenOut(d)
  BY <1>2 DEF removed, takenOut, TypeCharge, Charge
<1>3. CASE \E d \in Charges : WordMoves(d)
  BY <1>3 DEF WordMoves, present, TypeCharge, Charge
<1>4. CASE \E d \in Charges : Surface(d) \/ OfferEnds(d) \/ Restore(d)
  BY <1>4 DEF Surface, OfferEnds, Restore, TypeCharge, Charge
<1>5. CASE UNCHANGED charge
  BY <1>5
<1>6. ASSUME NEW p \in Procs, Start(p) \/ Proceed(p) \/ CallFails(p) \/ RemovalUnheard(p) \/ Crash(p)
      PROVE  Create(p) \/ (\E d : removed(d) \/ takenOut(d)) \/ UNCHANGED charge
  <2>1. CASE Start(p)
    BY <2>1 DEF Start, Ensure, Look, Cancel, AgreeFee, Hear, Recheck, CancelDue
  <2>2. CASE CallFails(p) \/ RemovalUnheard(p) \/ Crash(p)
    BY <2>2 DEF CallFails, RemovalUnheard, Crash
  <2>3. CASE Proceed(p)
    <3>1. Known(p) \/ List(p) \/ Renew(p) \/ GiveUp(p) \/ RecordRefusal(p) \/ Settle(p) \/ KeepIt(p)
            \/ HoldFor(p) \/ LetGo(p) => UNCHANGED charge
      BY DEF Known, List, Renew, GiveUp, RecordRefusal, Settle, KeepIt, HoldFor, LetGo
    <3>2. HearRows(p) \/ HearList(p) \/ HearMissing(p) \/ HearWrite(p) \/ Change(p) \/ Push(p)
            \/ RelRead(p) \/ RelList(p) \/ RelWrite(p) => UNCHANGED charge
      BY DEF HearRows, HearList, HearMissing, HearWrite, Change, Push, RelRead, RelList, RelWrite
    <3>3. Sort(p) \/ RelSort(p) \/ RelFitting(p) => \E d : removed(d)
      BY DEF Sort, RelSort, RelFitting
    <3>4. Beside(p) \/ Unwant(p) => (\E d : removed(d)) \/ UNCHANGED charge
      BY DEF Beside, Unwant
    <3>. QED  BY <2>3, <3>1, <3>2, <3>3, <3>4 DEF Proceed
  <2>. QED  BY <1>6, <2>1, <2>2, <2>3
<1>7. ClaimEnds \/ DeadlinePasses \/ ShopMovesOrder \/ UNCHANGED vars => UNCHANGED charge
  BY DEF ClaimEnds, DeadlinePasses, ShopMovesOrder, vars
<1>. QED  BY <1>1, <1>2, <1>3, <1>4, <1>5, <1>6, <1>7 DEF Next

\* order-payments.service.ts:53 - where a claim and a hold outlast the creation they cover
\* (CLAIM_MS, UNKNOWN_OUTCOME_HOLD_MS) and nobody restores removed charges at Asaas's
\* panel, no interleaving of requests, failed calls and dead processes makes a charge
\* while another of the order can be paid.
THEOREM OneChargeAtATime ==
  ASSUME Timely, ~Restores
  PROVE  Spec => NoSecondPayable
<1>1. ChargeInv /\ [Next]_vars
        => [\A c \in Charges : charge[c].word = NoStatus /\ charge'[c].word # NoStatus
              => \A d \in Charges : ~payable(d)]_vars
  BY CreatesAlone
<1>. QED  BY <1>1, ChargeInvInit, ChargeInvNext, PTL DEF Spec, NoSecondPayable
=============================================================================

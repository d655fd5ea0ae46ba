-------------------------- MODULE OrderRows_proofs --------------------------
(***************************************************************************)
(* What every request of OrderCharge keeps of the rows of order_payments:  *)
(* one of them living at a time, money that never goes back down, a        *)
(* payment that is always told, a second one kept apart, and an order      *)
(* cancelled for want of payment only on what a hearing just showed.       *)
(***************************************************************************)
EXTENDS OrderCharge_proofs

-----------------------------------------------------------------------------
(* One living row.                                                         *)

\* A hearing leaves one living row whatever it heard, with no guard on the outcome: the
\* rows it gives up on leave, what it writes on the living one keeps it so, and a paid
\* charge with another row or none comes in only once the living one is cancelled.
LEMMA HearingKeepsOneLive ==
  ASSUME TypeOK, NEW b \in Book, NEW t \in Talk, OneLive(b),
         NEW first \in oneOf(paidIn(t.seen))
  PROVE  OneLive(heardOf(b, t, first))
<1>. t.seen \in [Charges -> AsaasWords \cup {NoStatus}] /\ cancelled \in BOOLEAN
  BY TalkFields, ViewTypes
<1>. DEFINE given == cancelRows(b, t.gone)
            a == appliedTo(b, t)
            h == takenBy(a, t, first)
<1>1. given \in Book /\ a \in Book /\ h \in Book /\ heardOf(b, t, first) \in Book
  BY CancelRowsType, HeardOfType
<1>2. liveCharges(a) \subseteq liveCharges(b)
  <2>1. liveCharges(given) \subseteq liveCharges(b)
    BY CancelRowsLiving
  <2>2. liveCharges(a) = liveCharges(given)
    BY <1>1, ApplyToLiving DEF appliedTo
  <2>. QED  BY <2>1, <2>2
<1>3. OneLive(a)
  BY <1>1, <1>2, OneLiveIs
<1>. HIDE DEF given, a
<1>4. OneLive(h)
  <2>1. CASE paidCharges(a) # {}
    <3>1. h = noteStrays(a, paidIn(t.seen) \ paidCharges(a), "ORDER_ALREADY_PAID")
      BY <2>1 DEF takenBy
    <3>. QED  BY <1>1, <1>3, <3>1, NoteStraysRow DEF OneLive
  <2>2. CASE paidCharges(a) = {} /\ first = NoCharge
    BY <1>3, <2>2 DEF takenBy
  <2>3. CASE paidCharges(a) = {} /\ first # NoCharge
    <3>. DEFINE empty == cancelRows(a, liveCharges(a))
                w == applyCharge(empty, first, t.seen, cancelled)
    <3>1. empty \in Book /\ w \in Book
      BY <1>1, CancelRowsType, ApplyChargesType DEF applyCharge
    <3>2. liveCharges(empty) = {}
      BY <1>1, <2>3, CancelRowsLiving, LivingRows
    <3>. HIDE DEF empty
    <3>3. \A c \in Charges \ {first} : w.rows[c] = empty.rows[c]
      BY <3>1, ApplyChargesRow DEF applyCharge
    <3>. HIDE DEF w
    <3>4. liveCharges(w) \subseteq {first}
      BY <3>2, <3>3 DEF liveCharges
    <3>5. OneLive(w)
      BY <3>1, <3>4, OneLiveIs
    <3>6. h = noteStrays(w, paidIn(t.seen) \ {first}, "ORDER_ALREADY_PAID")
      BY <2>3 DEF takenBy, w, empty
    <3>. QED  BY <3>1, <3>5, <3>6, NoteStraysRow DEF OneLive
  <2>. QED  BY <2>1, <2>2, <2>3
<1>. HIDE DEF h
<1>5. heardOf(b, t, first).rows = h.rows
  BY <1>1, NoteStraysRow DEF heardOf, h, a
<1>. QED  BY <1>4, <1>5 DEF OneLive

LEMMA OneLiveNext == TypeOK /\ OneLiveRow /\ [Next]_vars => OneLiveRow'
<1>. SUFFICES ASSUME TypeOK, OneLiveRow, [Next]_vars PROVE OneLiveRow'
  OBVIOUS
<1>. book \in Book /\ OneLive(book) /\ TypeTalk
  BY TypeParts DEF OneLiveRow
<1>1. UNCHANGED book => OneLiveRow'
  BY DEF OneLiveRow
<1>2. ASSUME NEW p \in Procs, Start(p) \/ CallFails(p) \/ RemovalUnheard(p) \/ Crash(p)
      PROVE  UNCHANGED book
  BY <1>2 DEF Start, Ensure, Look, Cancel, AgreeFee, Hear, Recheck, CancelDue, CallFails, RemovalUnheard, Crash
<1>3. ASSUME NEW c \in Charges, WordMoves(c) \/ Surface(c) \/ OfferEnds(c) \/ Restore(c)
      PROVE  UNCHANGED book
  BY <1>3 DEF WordMoves, Surface, OfferEnds, Restore
<1>4. ClaimEnds \/ DeadlinePasses \/ ShopMovesOrder \/ UNCHANGED vars => UNCHANGED book
  BY DEF ClaimEnds, DeadlinePasses, ShopMovesOrder, vars
<1>5. ASSUME NEW p \in Procs, GiveUp(p) PROVE OneLiveRow'
  <2>1. liveCharges(book') \subseteq liveCharges(book) /\ book' \in Book
    BY <1>5, CancelRowsLiving, CancelRowsType DEF GiveUp
  <2>. QED  BY <2>1, OneLiveIs DEF OneLiveRow
<1>6. ASSUME NEW p \in Procs, RecordRefusal(p) PROVE OneLiveRow'
  <2>1. book'.rows = book.rows
    BY <1>6 DEF RecordRefusal, recordRefusal, Book
  <2>. QED  BY <2>1 DEF OneLiveRow, OneLive
<1>7. ASSUME NEW p \in Procs, Settle(p) PROVE OneLiveRow'
  <2>. DEFINE t == talk[p]
              c == target(t)
              b == applyCharge(cancelRows(book, rowsKnown(t) \ {c}), c, t.seen, cancelled)
  <2>. HIDE DEF b, c
  <2>1. book' \in {book, noteStrays(book, {c}, "ORDER_ALREADY_PAID")} \/ (book' = b /\ OneLive(b))
    BY <1>7 DEF Settle, b, c
  <2>2. noteStrays(book, {c}, "ORDER_ALREADY_PAID").rows = book.rows
    BY NoteStraysRow
  <2>. QED  BY <2>1, <2>2 DEF OneLiveRow, OneLive
<1>8. ASSUME NEW p \in Procs, KeepIt(p) PROVE OneLiveRow'
  BY <1>8 DEF KeepIt, OneLiveRow
<1>9. ASSUME NEW p \in Procs, HearWrite(p) PROVE OneLiveRow'
  <2>1. talk[p] \in Talk
    BY DEF TypeTalk
  <2>2. PICK first \in oneOf(paidIn(talk[p].seen)) : book' = heardOf(book, talk[p], first)
    BY <1>9 DEF HearWrite
  <2>. QED  BY <2>1, <2>2, HearingKeepsOneLive DEF OneLiveRow
<1>10. ASSUME NEW p \in Procs, RelWrite(p) PROVE OneLiveRow'
  <2>1. PICK paid \in paidOf(talk[p]) :
          LET b == releasedTo(book, talk[p], paid)
          IN  book' = IF OneLive(b) THEN releaseStrays(b, talk[p], paid) ELSE book
    BY <1>10 DEF RelWrite
  <2>. DEFINE b == releasedTo(book, talk[p], paid)
  <2>2. b \in Book /\ talk[p] \in Talk
    BY ReleasedType DEF TypeTalk
  <2>. HIDE DEF b
  <2>3. releaseStrays(b, talk[p], paid).rows = b.rows
    <3>1. \A S : noteStrays(b, S, "ORDER_CANCELLED") \in Book /\ noteStrays(b, S, "ORDER_CANCELLED").rows = b.rows
      BY <2>2, NoteStraysType, NoteStraysRow DEF StrayReasons
    <3>. QED  BY <3>1, NoteStraysRow DEF releaseStrays
  <2>4. OneLive(b) => OneLive(releaseStrays(b, talk[p], paid))
    BY <2>3 DEF OneLive
  <2>. QED  BY <2>1, <2>4 DEF OneLiveRow, b
<1>11. ASSUME NEW p \in Procs, Proceed(p) PROVE OneLiveRow'
  <2>1. Known(p) \/ List(p) \/ Sort(p) \/ Beside(p) \/ Renew(p) \/ Create(p) \/ Unwant(p) \/ HoldFor(p) \/ LetGo(p)
          => UNCHANGED book
    BY DEF Known, List, Sort, Beside, Renew, Create, Unwant, HoldFor, LetGo
  <2>2. HearRows(p) \/ HearList(p) \/ HearMissing(p) \/ Change(p) \/ Push(p)
          \/ RelRead(p) \/ RelList(p) \/ RelSort(p) \/ RelFitting(p) => UNCHANGED book
    BY DEF HearRows, HearList, HearMissing, Change, Push, RelRead, RelList, RelSort, RelFitting
  <2>. QED  BY <1>1, <1>5, <1>6, <1>7, <1>8, <1>9, <1>10, <1>11, <2>1, <2>2 DEF Proceed
<1>. QED  BY <1>1, <1>2, <1>3, <1>4, <1>11 DEF Next

\* payment-sync.service.ts:117-135 - no interleaving of requests ever leaves two living
\* rows, and the hearing, which has no path out of an aborted transaction, never makes
\* the database refuse one: true even where claims expire early and charges are restored.
THEOREM OneLiving == Spec => []OneLiveRow
<1>1. Init => OneLiveRow
  BY DEF Init, EmptyBook, NoRow, NoStatus, OneLiveRow, OneLive, isLive, RowStatuses
<1>. QED  BY <1>1, OneLiveNext, TypeCorrect, PTL DEF Spec

-----------------------------------------------------------------------------
(* Money never goes back down.                                             *)

\* How the status of a row may move in a transaction, but for a receipt in cash undone.
Up(was, now) ==
  \/ was = NoStatus
  \/ was \in DeadStatuses /\ (now = was \/ wasPaid(now))
  \/ isLive(was) /\ isLive(now) /\ RANK[now] >= RANK[was]
  \/ waits(was) /\ now = "CANCELLED"

CashUndone(row, word) ==
  row.status = "RECEIVED" /\ row.word = "RECEIVED_IN_CASH" /\ word \in {"PENDING", "OVERDUE"}

LEMMA StatusKinds ==
  ASSUME NEW s \in RowStatuses \cup {NoStatus}
  PROVE  /\ wasPaid(s) => isLive(s) /\ ~waits(s)
         /\ waits(s) => isLive(s) /\ ~wasPaid(s)
         /\ isLive(s) <=> s # NoStatus /\ s \notin DeadStatuses
         /\ isLive(s) => waits(s) \/ wasPaid(s)
         /\ NoStatus \notin DeadStatuses
BY DEF RowStatuses, NoStatus, DeadStatuses, wasPaid, holdsMoney, waits, isLive

LEMMA Ranks ==
  ASSUME NEW s \in RowStatuses
  PROVE  /\ RANK[s] \in Int
         /\ wasPaid(s) <=> RANK[s] >= 2
<1>1. /\ RANK["PENDING"] = 0 /\ RANK["OVERDUE"] = 1 /\ RANK["CONFIRMED"] = 2
      /\ RANK["RECEIVED"] = 3 /\ RANK["PARTIALLY_REFUNDED"] = 4 /\ RANK["REFUNDED"] = 5
      /\ RANK["CANCELLED"] = -1 /\ RANK["FAILED"] = -1
  BY DEF RANK, RowStatuses, DeadStatuses
<1>2. /\ wasPaid("CONFIRMED") /\ wasPaid("RECEIVED") /\ wasPaid("PARTIALLY_REFUNDED") /\ wasPaid("REFUNDED")
      /\ ~wasPaid("PENDING") /\ ~wasPaid("OVERDUE") /\ ~wasPaid("CANCELLED") /\ ~wasPaid("FAILED")
  BY DEF wasPaid, holdsMoney
<1>. QED  BY <1>1, <1>2 DEF RowStatuses

LEMMA UpTransitive ==
  ASSUME NEW r \in RowStatuses \cup {NoStatus}, NEW s \in RowStatuses \cup {NoStatus},
         NEW u \in RowStatuses \cup {NoStatus}, Up(r, s), Up(s, u)
  PROVE  Up(r, u)
<1>1. CASE r = NoStatus
  BY <1>1 DEF Up
<1>2. CASE r \in DeadStatuses
  <2>1. s = r \/ wasPaid(s)
    BY <1>2, StatusKinds DEF Up
  <2>2. CASE wasPaid(s)
    <3>1. isLive(u) /\ RANK[u] >= RANK[s]
      BY <2>2, StatusKinds DEF Up
    <3>2. RANK[s] >= 2 /\ RANK[s] \in Int /\ RANK[u] \in Int
      BY <2>2, <3>1, StatusKinds, Ranks DEF isLive
    <3>3. RANK[u] >= 2
      BY <3>1, <3>2
    <3>4. wasPaid(u)
      BY <3>1, <3>3, Ranks DEF isLive
    <3>. QED  BY <1>2, <3>4 DEF Up
  <2>. QED  BY <2>1, <2>2
<1>3. CASE isLive(r)
  <2>1. \/ isLive(s) /\ RANK[s] >= RANK[r]
        \/ waits(r) /\ s = "CANCELLED"
    BY <1>3, StatusKinds DEF Up
  <2>2. CASE waits(r) /\ s = "CANCELLED"
    <3>1. u = "CANCELLED" \/ wasPaid(u)
      BY <2>2, StatusKinds DEF Up, DeadStatuses
    <3>2. CASE wasPaid(u)
      <4>1. isLive(u) /\ RANK[u] >= 2 /\ ~(RANK[r] >= 2) /\ RANK[u] \in Int /\ RANK[r] \in Int
        BY <1>3, <2>2, <3>2, StatusKinds, Ranks DEF isLive
      <4>2. RANK[u] >= RANK[r]
        BY <4>1
      <4>. QED  BY <1>3, <4>1, <4>2 DEF Up
    <3>. QED  BY <2>2, <3>1, <3>2 DEF Up
  <2>3. CASE isLive(s) /\ RANK[s] >= RANK[r]
    <3>1. \/ isLive(u) /\ RANK[u] >= RANK[s]
          \/ waits(s) /\ u = "CANCELLED"
      BY <2>3, StatusKinds DEF Up
    <3>2. CASE isLive(u) /\ RANK[u] >= RANK[s]
      <4>1. RANK[r] \in Int /\ RANK[s] \in Int /\ RANK[u] \in Int
        BY <1>3, <2>3, <3>2, Ranks DEF isLive
      <4>2. RANK[u] >= RANK[r]
        BY <2>3, <3>2, <4>1
      <4>. QED  BY <1>3, <3>2, <4>2 DEF Up
    <3>3. CASE waits(s) /\ u = "CANCELLED"
      <4>1. ~(RANK[s] >= 2) /\ RANK[r] \in Int /\ RANK[s] \in Int
        BY <1>3, <2>3, <3>3, StatusKinds, Ranks DEF isLive
      <4>2. ~(RANK[r] >= 2)
        BY <2>3, <4>1
      <4>3. waits(r)
        BY <1>3, <4>2, StatusKinds, Ranks DEF isLive
      <4>. QED  BY <3>3, <4>3 DEF Up
    <3>. QED  BY <3>1, <3>2, <3>3
  <2>. QED  BY <2>1, <2>2, <2>3
<1>. QED  BY <1>1, <1>2, <1>3, StatusKinds

LEMMA UpReflexive ==
  ASSUME NEW s \in RowStatuses \cup {NoStatus}
  PROVE  Up(s, s)
<1>1. CASE isLive(s)
  <2>1. RANK[s] \in Int
    BY <1>1, Ranks DEF isLive
  <2>. QED  BY <1>1, <2>1 DEF Up
<1>. QED  BY <1>1, StatusKinds DEF Up

\* Every writer moves a row up, and remembers the word it wrote.
LEMMA CancelRowsUp ==
  ASSUME NEW b \in Book, NEW gone, NEW c \in Charges
  PROVE  /\ Up(b.rows[c].status, cancelRows(b, gone).rows[c].status)
         /\ cancelRows(b, gone).rows[c].word = b.rows[c].word
         /\ cancelRows(b, gone).rows[c].status \in {b.rows[c].status, "CANCELLED"}
<1>1. b.rows[c].status \in RowStatuses \cup {NoStatus}
  BY DEF Book, Row
<1>2. Up(b.rows[c].status, b.rows[c].status)
  BY <1>1, UpReflexive
<1>. QED  BY <1>2, CancelRowsRow DEF Up

LEMMA ApplyChargesUp ==
  ASSUME NEW b \in Book, NEW S, NEW words \in [Charges -> AsaasWords \cup {NoStatus}],
         NEW off \in BOOLEAN, NEW c \in Charges
  PROVE  LET row == applyCharges(b, S, words, off).rows[c]
         IN  /\ Up(b.rows[c].status, row.status) \/ (CashUndone(b.rows[c], words[c]) /\ c \in S)
             /\ row.word = IF c \in S THEN words[c] ELSE b.rows[c].word
<1>. DEFINE row == applyCharges(b, S, words, off).rows[c]
            was == b.rows[c]
<1>1. was.status \in RowStatuses \cup {NoStatus} /\ was.word \in AsaasWords \cup {NoStatus}
  BY DEF Book, Row
<1>2. CASE c \notin S
  <2>1. row = was
    BY <1>2, ApplyChargesRow
  <2>2. Up(was.status, was.status)
    BY <1>1, UpReflexive
  <2>. QED  BY <1>2, <2>1, <2>2
<1>3. CASE c \in S
  <2>1. row = written(b, c, words[c])
    BY <1>3, ApplyChargesRow
  <2>2. row.word = words[c] /\ row.status = statusWritten(was.status, was.word, words[c])
    BY <2>1 DEF written
  <2>. HIDE DEF row, was
  <2>3. CASE cashUndone(was.status, was.word, words[c])
    BY <1>3, <2>2, <2>3 DEF cashUndone, CashUndone, row, was
  <2>4. CASE was.status = NoStatus
    BY <1>3, <2>2, <2>4 DEF Up, row, was
  <2>5. CASE was.status \in RowStatuses /\ ~cashUndone(was.status, was.word, words[c])
    <3>1. Up(was.status, row.status)
      <4>1. /\ isLive(was.status) => isLive(row.status) /\ RANK[row.status] >= RANK[was.status]
            /\ was.status \in DeadStatuses => row.status = was.status \/ wasPaid(row.status)
        BY <1>1, <2>2, <2>5, StatusOnlyRises
      <4>. QED  BY <2>5, <4>1 DEF Up, isLive
    <3>. QED  BY <1>3, <2>2, <3>1 DEF row, was
  <2>. QED  BY <1>1, <2>3, <2>4, <2>5
<1>. QED  BY <1>2, <1>3

\* Rows given up on, then a charge written: the one word written is the last.
LEMMA CancelThenApplyUp ==
  ASSUME NEW b \in Book, NEW gone, NEW S, NEW words \in [Charges -> AsaasWords \cup {NoStatus}],
         NEW off \in BOOLEAN, NEW c \in Charges
  PROVE  LET row == applyCharges(cancelRows(b, gone), S, words, off).rows[c]
         IN  /\ Up(b.rows[c].status, row.status) \/ (CashUndone(b.rows[c], words[c]) /\ c \in S)
             /\ row.word = IF c \in S THEN words[c] ELSE b.rows[c].word
<1>. DEFINE g == cancelRows(b, gone)
            a == applyCharges(g, S, words, off)
<1>1. g \in Book /\ a \in Book
  BY CancelRowsType, ApplyChargesType
<1>2. /\ Up(b.rows[c].status, g.rows[c].status) /\ g.rows[c].word = b.rows[c].word
      /\ g.rows[c].status \in {b.rows[c].status, "CANCELLED"}
  BY CancelRowsUp
<1>. HIDE DEF g
<1>3. /\ Up(g.rows[c].status, a.rows[c].status) \/ (CashUndone(g.rows[c], words[c]) /\ c \in S)
      /\ a.rows[c].word = IF c \in S THEN words[c] ELSE g.rows[c].word
  BY <1>1, ApplyChargesUp
<1>. HIDE DEF a
<1>4. /\ b.rows[c].status \in RowStatuses \cup {NoStatus}
      /\ g.rows[c].status \in RowStatuses \cup {NoStatus}
      /\ a.rows[c].status \in RowStatuses \cup {NoStatus}
  BY <1>1 DEF Book, Row
<1>5. Up(b.rows[c].status, a.rows[c].status) \/ (CashUndone(b.rows[c], words[c]) /\ c \in S)
  <2>1. CASE Up(g.rows[c].status, a.rows[c].status)
    BY <1>2, <1>4, <2>1, UpTransitive
  <2>2. CASE CashUndone(g.rows[c], words[c]) /\ c \in S
    BY <1>2, <2>2 DEF CashUndone
  <2>. QED  BY <1>3, <2>1, <2>2
<1>. QED  BY <1>2, <1>3, <1>5 DEF g, a

\* A hearing writes a charge twice at most, and with the same word.
LEMMA HeardUp ==
  ASSUME TypeOK, NEW b \in Book, NEW t \in Talk, NEW first \in oneOf(paidIn(t.seen)), NEW c \in Charges
  PROVE  LET row == heardOf(b, t, first).rows[c]
         IN  Up(b.rows[c].status, row.status) \/ CashUndone(b.rows[c], row.word)
<1>. t.seen \in [Charges -> AsaasWords \cup {NoStatus}] /\ cancelled \in BOOLEAN
  BY TalkFields, ViewTypes
<1>. DEFINE S == listedIn(t.seen) \cap liveCharges(cancelRows(b, t.gone))
            a == appliedTo(b, t)
            h == takenBy(a, t, first)
<1>1. a \in Book /\ h \in Book /\ heardOf(b, t, first) \in Book
  BY HeardOfType
<1>2. /\ Up(b.rows[c].status, a.rows[c].status) \/ (CashUndone(b.rows[c], t.seen[c]) /\ c \in S)
      /\ a.rows[c].word = IF c \in S THEN t.seen[c] ELSE b.rows[c].word
  BY CancelThenApplyUp DEF appliedTo
<1>. HIDE DEF S, a
<1>3. heardOf(b, t, first).rows = h.rows
  BY <1>1, NoteStraysRow DEF heardOf, a
<1>4. CASE h.rows = a.rows
  BY <1>2, <1>3, <1>4 DEF CashUndone
<1>5. CASE h.rows # a.rows
  <2>1. paidCharges(a) = {} /\ first # NoCharge
    BY <1>1, <1>5, NoteStraysRow DEF takenBy
  <2>. DEFINE w == applyCharge(cancelRows(a, liveCharges(a)), first, t.seen, cancelled)
  <2>2. w \in Book
    BY <1>1, CancelRowsType, ApplyChargesType DEF applyCharge
  <2>3. /\ Up(a.rows[c].status, w.rows[c].status) \/ (CashUndone(a.rows[c], t.seen[c]) /\ c = first)
        /\ w.rows[c].word = IF c = first THEN t.seen[c] ELSE a.rows[c].word
    BY <1>1, CancelThenApplyUp DEF applyCharge
  <2>. HIDE DEF w
  <2>4. h.rows = w.rows
    BY <2>1, <2>2, NoteStraysRow DEF takenBy, w
  <2>5. /\ b.rows[c].status \in RowStatuses \cup {NoStatus}
        /\ a.rows[c].status \in RowStatuses \cup {NoStatus}
        /\ w.rows[c].status \in RowStatuses \cup {NoStatus}
    BY <1>1, <2>2 DEF Book, Row
  <2>6. c = first => t.seen[c] \notin {"PENDING", "OVERDUE"}
    <3>1. SUFFICES ASSUME c = first, t.seen[c] \in {"PENDING", "OVERDUE"} PROVE FALSE
      OBVIOUS
    <3>2. isPaidWord(t.seen[c])
      BY <2>1, <3>1 DEF oneOf, paidIn
    <3>3. /\ SAID["PENDING"] = "PENDING" /\ SAID["OVERDUE"] = "OVERDUE"
          /\ {"PENDING", "OVERDUE"} \subseteq SaidWords
      BY DEF SAID, SaidWords
    <3>4. statusSaidBy(t.seen[c], NoStatus) \in {"PENDING", "OVERDUE"}
      BY <3>1, <3>3 DEF statusSaidBy, PaidAndUnsettled
    <3>. QED  BY <3>2, <3>4 DEF isPaidWord, wasPaid, holdsMoney
  <2>7. Up(a.rows[c].status, w.rows[c].status)
    BY <2>3, <2>6 DEF CashUndone
  <2>8. CASE Up(b.rows[c].status, a.rows[c].status)
    BY <1>3, <2>4, <2>5, <2>7, <2>8, UpTransitive
  <2>9. CASE CashUndone(b.rows[c], t.seen[c]) /\ c \in S
    <3>1. w.rows[c].word = t.seen[c]
      BY <1>2, <2>3, <2>9
    <3>. QED  BY <1>3, <2>4, <2>9, <3>1
  <2>. QED  BY <1>2, <2>8, <2>9
<1>. QED  BY <1>4, <1>5

RowsRise ==
  \A c \in Charges : \/ Up(book.rows[c].status, book'.rows[c].status)
                     \/ CashUndone(book.rows[c], book'.rows[c].word)

LEMMA UnmovedRise == ASSUME TypeOK, book'.rows = book.rows PROVE RowsRise
<1>1. \A c \in Charges : book.rows[c].status \in RowStatuses \cup {NoStatus}
  BY DEF TypeOK, Book, Row
<1>. QED  BY <1>1, UpReflexive DEF RowsRise

LEMMA WritesRise == TypeOK /\ [Next]_vars => RowsRise
<1>. SUFFICES ASSUME TypeOK, [Next]_vars PROVE RowsRise
  OBVIOUS
<1>. book \in Book /\ TypeTalk /\ cancelled \in BOOLEAN
  BY TypeParts, ViewTypes
<1>1. UNCHANGED book => RowsRise
  BY UnmovedRise
<1>2. ASSUME NEW p \in Procs, Start(p) \/ CallFails(p) \/ RemovalUnheard(p) \/ Crash(p)
      PROVE  UNCHANGED book
  BY <1>2 DEF Start, Ensure, Look, Cancel, AgreeFee, Hear, Recheck, CancelDue, CallFails, RemovalUnheard, Crash
<1>3. ASSUME NEW c \in Charges, WordMoves(c) \/ Surface(c) \/ OfferEnds(c) \/ Restore(c)
      PROVE  UNCHANGED book
  BY <1>3 DEF WordMoves, Surface, OfferEnds, Restore
<1>4. ClaimEnds \/ DeadlinePasses \/ ShopMovesOrder \/ UNCHANGED vars => UNCHANGED book
  BY DEF ClaimEnds, DeadlinePasses, ShopMovesOrder, vars
<1>5. ASSUME NEW p \in Procs, GiveUp(p) PROVE RowsRise
  BY <1>5, CancelRowsUp DEF GiveUp, RowsRise
<1>6. ASSUME NEW p \in Procs, RecordRefusal(p) PROVE RowsRise
  <2>1. book'.rows = book.rows
    BY <1>6 DEF RecordRefusal, recordRefusal, Book
  <2>. QED  BY <2>1, UnmovedRise
<1>7. ASSUME NEW p \in Procs, Settle(p) PROVE RowsRise
  <2>. DEFINE t == talk[p]
              c == target(t)
              b == applyCharge(cancelRows(book, rowsKnown(t) \ {c}), c, t.seen, cancelled)
  <2>1. t.seen \in [Charges -> AsaasWords \cup {NoStatus}]
    BY TalkFields DEF TypeTalk
  <2>2. \A d \in Charges : \/ Up(book.rows[d].status, b.rows[d].status)
                           \/ CashUndone(book.rows[d], b.rows[d].word)
    <3>. TAKE d \in Charges
    <3>. HIDE DEF c
    <3>1. /\ Up(book.rows[d].status, b.rows[d].status) \/ (CashUndone(book.rows[d], t.seen[d]) /\ d \in {c})
          /\ b.rows[d].word = IF d \in {c} THEN t.seen[d] ELSE book.rows[d].word
      BY <2>1, CancelThenApplyUp DEF applyCharge
    <3>. QED  BY <3>1
  <2>. HIDE DEF b, c
  <2>3. book' \in {book, noteStrays(book, {c}, "ORDER_ALREADY_PAID"), b}
    BY <1>7 DEF Settle, b, c
  <2>4. noteStrays(book, {c}, "ORDER_ALREADY_PAID").rows = book.rows
    BY NoteStraysRow
  <2>5. CASE book'.rows = book.rows
    BY <2>5, UnmovedRise
  <2>6. CASE book' = b
    BY <2>2, <2>6 DEF RowsRise
  <2>. QED  BY <2>3, <2>4, <2>5, <2>6
<1>8. ASSUME NEW p \in Procs, KeepIt(p) PROVE RowsRise
  <2>. DEFINE c == target(talk[p])
              b == applyCharge(book, c, talk[p].seen, cancelled)
  <2>1. talk[p].seen \in [Charges -> AsaasWords \cup {NoStatus}]
    BY TalkFields DEF TypeTalk
  <2>. HIDE DEF c
  <2>2. ASSUME NEW d \in Charges
        PROVE  Up(book.rows[d].status, b.rows[d].status) \/ CashUndone(book.rows[d], b.rows[d].word)
    BY <2>1, ApplyChargesUp DEF applyCharge
  <2>. HIDE DEF b
  <2>3. book' = b \/ book' = book
    BY <1>8 DEF KeepIt, b, c
  <2>. QED  BY <2>2, <2>3, UnmovedRise DEF RowsRise
<1>9. ASSUME NEW p \in Procs, HearWrite(p) PROVE RowsRise
  <2>1. talk[p] \in Talk
    BY DEF TypeTalk
  <2>2. PICK first \in oneOf(paidIn(talk[p].seen)) : book' = heardOf(book, talk[p], first)
    BY <1>9 DEF HearWrite
  <2>. QED  BY <2>1, <2>2, HeardUp DEF RowsRise
<1>10. ASSUME NEW p \in Procs, RelWrite(p) PROVE RowsRise
  <2>1. PICK paid \in paidOf(talk[p]) :
          LET b == releasedTo(book, talk[p], paid)
          IN  book' = IF OneLive(b) THEN releaseStrays(b, talk[p], paid) ELSE book
    BY <1>10 DEF RelWrite
  <2>. DEFINE b == releasedTo(book, talk[p], paid)
  <2>2. b \in Book /\ talk[p].seen \in [Charges -> AsaasWords \cup {NoStatus}]
    BY ReleasedType, TalkFields DEF TypeTalk
  <2>3. ASSUME NEW d \in Charges
        PROVE  Up(book.rows[d].status, b.rows[d].status) \/ CashUndone(book.rows[d], b.rows[d].word)
    <3>. DEFINE kept == IF paid = NoCharge THEN talk[p].keep ELSE paid
                g == rowsKnown(talk[p]) \ {kept}
    <3>1. b \in {cancelRows(book, g), applyCharge(cancelRows(book, g), kept, talk[p].seen, cancelled)}
      BY DEF releasedTo
    <3>. HIDE DEF kept, g, b
    <3>2. CASE b = cancelRows(book, g)
      BY <3>2, CancelRowsUp
    <3>3. CASE b = applyCharge(cancelRows(book, g), kept, talk[p].seen, cancelled)
      <4>1. /\ Up(book.rows[d].status, b.rows[d].status)
               \/ (CashUndone(book.rows[d], talk[p].seen[d]) /\ d \in {kept})
            /\ b.rows[d].word = IF d \in {kept} THEN talk[p].seen[d] ELSE book.rows[d].word
        BY <2>2, <3>3, CancelThenApplyUp DEF applyCharge
      <4>. QED  BY <4>1
    <3>. QED  BY <3>1, <3>2, <3>3
  <2>. HIDE DEF b
  <2>4. releaseStrays(b, talk[p], paid).rows = b.rows
    <3>1. \A S : noteStrays(b, S, "ORDER_CANCELLED") \in Book /\ noteStrays(b, S, "ORDER_CANCELLED").rows = b.rows
      BY <2>2, NoteStraysType, NoteStraysRow DEF StrayReasons
    <3>. QED  BY <3>1, NoteStraysRow DEF releaseStrays
  <2>5. book'.rows \in {b.rows, book.rows}
    BY <2>1, <2>4 DEF b
  <2>. QED  BY <2>3, <2>5, UnmovedRise DEF RowsRise
<1>11. ASSUME NEW p \in Procs, Proceed(p) PROVE RowsRise
  <2>1. Known(p) \/ List(p) \/ Sort(p) \/ Beside(p) \/ Renew(p) \/ Create(p) \/ Unwant(p) \/ HoldFor(p) \/ LetGo(p)
          => UNCHANGED book
    BY DEF Known, List, Sort, Beside, Renew, Create, Unwant, HoldFor, LetGo
  <2>2. HearRows(p) \/ HearList(p) \/ HearMissing(p) \/ Change(p) \/ Push(p)
          \/ RelRead(p) \/ RelList(p) \/ RelSort(p) \/ RelFitting(p) => UNCHANGED book
    BY DEF HearRows, HearList, HearMissing, Change, Push, RelRead, RelList, RelSort, RelFitting
  <2>. QED  BY <1>1, <1>5, <1>6, <1>7, <1>8, <1>9, <1>10, <1>11, <2>1, <2>2 DEF Proceed
<1>. QED  BY <1>1, <1>2, <1>3, <1>4, <1>11 DEF Next

\* payment-facts.ts:28, payment-sync.service.ts:58 - whatever was read late, twice or out
\* of order, and whoever writes it, money a row holds is never taken back by a word of
\* Asaas's, nor is a paid row ever cancelled; a receipt in cash undone is the one way back.
THEOREM MoneyKept == Spec => MoneyNeverGoesBack
<1>1. TypeOK /\ [Next]_vars =>
        [\A c \in Charges :
           LET was == book.rows[c]
               now == book'.rows[c]
           IN  \/ was.status = NoStatus \/ was.status \in DeadStatuses
               \/ was.word = "RECEIVED_IN_CASH" /\ now.word \in {"PENDING", "OVERDUE"}
               \/ isLive(now.status) /\ RANK[now.status] >= RANK[was.status]
               \/ waits(was.status) /\ now.status = "CANCELLED"]_vars
  BY WritesRise DEF RowsRise, Up, CashUndone
<1>. QED  BY <1>1, TypeCorrect, PTL DEF Spec, MoneyNeverGoesBack

-----------------------------------------------------------------------------
(* What a step does to the book, and what requests read.                   *)

\* The steps that write the book.
LEMMA BookSteps ==
  ASSUME [Next]_vars
  PROVE  \/ UNCHANGED book
         \/ \E p \in Procs : RecordRefusal(p) \/ GiveUp(p) \/ Settle(p) \/ KeepIt(p) \/ HearWrite(p) \/ RelWrite(p)
<1>1. ASSUME NEW p \in Procs, Start(p) \/ CallFails(p) \/ RemovalUnheard(p) \/ Crash(p)
      PROVE  UNCHANGED book
  BY <1>1 DEF Start, Ensure, Look, Cancel, AgreeFee, Hear, Recheck, CancelDue, CallFails, RemovalUnheard, Crash
<1>2. ASSUME NEW c \in Charges, WordMoves(c) \/ Surface(c) \/ OfferEnds(c) \/ Restore(c)
      PROVE  UNCHANGED book
  BY <1>2 DEF WordMoves, Surface, OfferEnds, Restore
<1>3. ClaimEnds \/ DeadlinePasses \/ ShopMovesOrder \/ UNCHANGED vars => UNCHANGED book
  BY DEF ClaimEnds, DeadlinePasses, ShopMovesOrder, vars
<1>4. ASSUME NEW p \in Procs, Proceed(p)
      PROVE  \/ UNCHANGED book
             \/ RecordRefusal(p) \/ GiveUp(p) \/ Settle(p) \/ KeepIt(p) \/ HearWrite(p) \/ RelWrite(p)
  <2>1. Known(p) \/ List(p) \/ Sort(p) \/ Beside(p) \/ Renew(p) \/ Create(p) \/ Unwant(p) \/ HoldFor(p) \/ LetGo(p)
          => UNCHANGED book
    BY DEF Known, List, Sort, Beside, Renew, Create, Unwant, HoldFor, LetGo
  <2>2. HearRows(p) \/ HearList(p) \/ HearMissing(p) \/ Change(p) \/ Push(p)
          \/ RelRead(p) \/ RelList(p) \/ RelSort(p) \/ RelFitting(p) => UNCHANGED book
    BY DEF HearRows, HearList, HearMissing, Change, Push, RelRead, RelList, RelSort, RelFitting
  <2>. QED  BY <1>4, <2>1, <2>2 DEF Proceed
<1>. QED  BY <1>1, <1>2, <1>3, <1>4 DEF Next

\* A word read is one Asaas says, one it gave a charge it made, or what was read before.
SeenIs(p) ==
  \A c \in Charges :
    talk'[p].seen[c] \in {talk[p].seen[c], charge[c].word, NoStatus} \cup FirstWords

LEMMA BlankSees == \A c \in Charges : Blank.seen[c] = NoStatus
BY DEF Blank

LEMMA SameSeen ==
  ASSUME NEW p, talk'[p].seen \in {talk[p].seen, Blank.seen, listing}
  PROVE  SeenIs(p)
BY BlankSees DEF SeenIs, listing

\* What a request read of the charges it takes for paid says so; and it takes none for
\* paid before it has sorted what it listed.
Unsorted == {"known", "list", "sort", "giveup", "create", "hread", "hlist", "hmiss"}

SureOf(t, place) ==
  /\ \A c \in t.paids : isPaidWord(t.seen[c])
  /\ place \in Unsorted => t.paids = {}

PaidsSure == \A p \in Procs : SureOf(talk[p], pc[p])

Reads(p) == SeenIs(p) /\ SureOf(talk'[p], pc'[p])

LEMMA BlankReads ==
  ASSUME NEW p, talk'[p].seen = Blank.seen, talk'[p].paids = Blank.paids
  PROVE  Reads(p)
BY SameSeen DEF Reads, SureOf, Blank

LEMMA SameReads ==
  ASSUME PaidsSure, NEW p \in Procs, talk'[p].seen = talk[p].seen, talk'[p].paids = talk[p].paids,
         pc'[p] \in Unsorted => pc[p] \in Unsorted
  PROVE  Reads(p)
BY SameSeen DEF Reads, SureOf, PaidsSure

LEMMA FailedReads ==
  ASSUME TypeTalk, PaidsSure, NEW p \in Procs, failed(p)
  PROVE  Reads(p)
<1>. DEFINE t == [Blank EXCEPT !.kind = talk[p].kind]
<1>1. t.seen = Blank.seen /\ t.paids = Blank.paids
  BY DEF Blank
<1>. HIDE DEF t
<1>2. CASE UNCHANGED talk /\ pc'[p] = "letgo"
  BY <1>2, SameReads DEF Unsorted
<1>3. CASE talk'[p] \in {t, Blank}
  BY <1>1, <1>3, BlankReads
<1>4. \/ UNCHANGED talk /\ pc'[p] = "letgo"
      \/ talk'[p] \in {t, Blank}
  BY DEF failed, finish, say, goto, TypeTalk, t
<1>. QED  BY <1>2, <1>3, <1>4

LEMMA StartReads ==
  ASSUME TypeTalk, NEW p \in Procs, Start(p)
  PROVE  Reads(p)
<1>1. PICK kind, place, want : begin(p, kind, place, want)
  BY DEF Start, Ensure, Look, Cancel, AgreeFee, Hear, Recheck, CancelDue
<1>. DEFINE t == [Blank EXCEPT !.kind = kind, !.want = want]
<1>2. t.seen = Blank.seen /\ t.paids = Blank.paids
  BY DEF Blank
<1>3. talk'[p] = t
  BY <1>1 DEF begin, say, TypeTalk
<1>. HIDE DEF t
<1>. QED  BY <1>2, <1>3, BlankReads

\* afterRemoval: a charge found paid joins the paid ones, with the word it was found with.
LEMMA RemovalReads ==
  ASSUME TypeCharge, NEW t \in Talk, NEW c \in Charges, \A d \in t.paids : isPaidWord(t.seen[d])
  PROVE  LET u == afterRemoval(t, c)
         IN  /\ \A d \in u.paids : isPaidWord(u.seen[d])
             /\ \A d \in Charges : u.seen[d] \in {t.seen[d], charge[d].word}
             /\ t.paids \subseteq u.paids
<1>. DEFINE u == afterRemoval(t, c)
<1>1. CASE present(c) /\ ~payable(c)
  <2>1. u.paids = t.paids \cup {c} /\ u.seen = [t.seen EXCEPT ![c] = charge[c].word]
    BY <1>1 DEF afterRemoval, Talk
  <2>2. isPaidWord(charge[c].word)
    BY <1>1 DEF payable
  <2>3. t.seen \in [Charges -> AsaasWords \cup {NoStatus}]
    BY TalkFields
  <2>4. \A d \in Charges : u.seen[d] = IF d = c THEN charge[c].word ELSE t.seen[d]
    BY <2>1, <2>3
  <2>5. t.paids \subseteq Charges
    BY TalkFields
  <2>. HIDE DEF u
  <2>. QED  BY <2>1, <2>2, <2>4, <2>5 DEF u
<1>2. CASE ~(present(c) /\ ~payable(c))
  <2>1. u.paids = t.paids /\ u.seen = t.seen
    BY <1>2 DEF afterRemoval, Talk
  <2>. QED  BY <2>1
<1>. QED  BY <1>1, <1>2

LEMMA EnsureReads ==
  ASSUME TypeOK, PaidsSure, NEW p \in Procs
  PROVE  /\ Known(p) => Reads(p)
         /\ List(p) => Reads(p)
         /\ Sort(p) => Reads(p)
         /\ Beside(p) => Reads(p)
         /\ Renew(p) \/ GiveUp(p) => Reads(p)
         /\ Create(p) => Reads(p)
         /\ RecordRefusal(p) \/ Settle(p) \/ Unwant(p) \/ KeepIt(p) \/ HoldFor(p) \/ LetGo(p) => Reads(p)
<1>. TypeTalk /\ TypeCharge /\ talk[p] \in Talk
  BY TypeParts DEF TypeTalk
<1>. SureOf(talk[p], pc[p])
  BY DEF PaidsSure
<1>1. ASSUME Known(p) PROVE Reads(p)
  <2>1. talk'[p].seen = talk[p].seen /\ talk'[p].paids = talk[p].paids /\ pc[p] \in Unsorted
    BY <1>1 DEF Known, say, TypeTalk, Talk, Unsorted
  <2>. QED  BY <2>1, SameReads
<1>2. ASSUME List(p) PROVE Reads(p)
  <2>0. pc[p] = "list" /\ talk[p].paids = {}
    BY <1>2 DEF List, SureOf, Unsorted
  <2>1. /\ talk'[p].seen = listing
        /\ \/ \E c \in paidIn(listing) : talk'[p].paids = {c} /\ pc'[p] = "beside"
           \/ talk'[p].paids = {} /\ pc'[p] = "sort"
    <3>1. ASSUME NEW c \in paidIn(listing), goto(p, "beside"),
                 say(p, [talk[p] EXCEPT !.seen = listing, !.paids = {c}, !.todo = unpaidIn(listing)])
          PROVE  talk'[p].seen = listing /\ talk'[p].paids = {c} /\ pc'[p] = "beside"
      BY <3>1 DEF say, goto, TypeTalk, Talk
    <3>2. ASSUME NEW k, goto(p, "sort"),
                 say(p, [talk[p] EXCEPT !.seen = listing, !.keep = k, !.todo = listedIn(listing) \ {k}])
          PROVE  talk'[p].seen = listing /\ talk'[p].paids = {} /\ pc'[p] = "sort"
      BY <2>0, <3>2 DEF say, goto, TypeTalk, Talk
    <3>. QED  BY <1>2, <3>1, <3>2 DEF List
  <2>2. \/ \E c \in paidIn(listing) : talk'[p].paids = {c} /\ pc'[p] = "beside"
        \/ talk'[p].paids = {} /\ pc'[p] = "sort"
    BY <2>1
  <2>3. \A c \in talk'[p].paids : isPaidWord(listing[c])
    BY <2>2 DEF paidIn
  <2>. QED  BY <2>1, <2>2, <2>3, SameSeen DEF Reads, SureOf, Unsorted
<1>3. ASSUME Sort(p) PROVE Reads(p)
  <2>1. PICK c \in talk[p].todo :
          LET t == afterRemoval(talk[p], c)
          IN  \/ t.paids = {} /\ say(p, t) /\ goto(p, "sort")
              \/ say(p, [t EXCEPT !.todo = unpaidIn(t.seen)]) /\ goto(p, "beside")
    BY <1>3 DEF Sort
  <2>. DEFINE t == afterRemoval(talk[p], c)
  <2>2. c \in Charges
    BY TalkFields
  <2>3. /\ \A d \in t.paids : isPaidWord(t.seen[d])
        /\ \A d \in Charges : t.seen[d] \in {talk[p].seen[d], charge[d].word}
    BY <2>2, RemovalReads DEF SureOf
  <2>4. t \in Talk
    BY <2>2, AfterRemovalType
  <2>. HIDE DEF t
  <2>5. /\ talk'[p].seen = t.seen /\ talk'[p].paids = t.paids
        /\ t.paids = {} \/ pc'[p] = "beside"
    BY <2>1, <2>4 DEF say, goto, TypeTalk, Talk, t
  <2>. QED  BY <2>3, <2>5 DEF Reads, SureOf, SeenIs, Unsorted
<1>4. ASSUME Beside(p) PROVE Reads(p)
  <2>1. talk'[p].seen = talk[p].seen /\ talk'[p].paids = talk[p].paids /\ pc'[p] = pc[p]
    BY <1>4 DEF Beside, say, TypeTalk, Talk
  <2>. QED  BY <2>1, SameReads
<1>5. ASSUME Renew(p) \/ GiveUp(p) PROVE Reads(p)
  <2>1. talk' = talk /\ pc[p] \in Unsorted
    BY <1>5 DEF Renew, GiveUp, Unsorted
  <2>. QED  BY <2>1, SameReads
<1>6. ASSUME Create(p) PROVE Reads(p)
  <2>0. pc[p] = "create" /\ talk[p].paids = {}
    BY <1>6 DEF Create, SureOf, Unsorted
  <2>1. CASE UNCHANGED talk
    BY <2>0, <2>1, SameReads DEF Unsorted
  <2>2. CASE ~UNCHANGED talk
    <3>1. PICK c \in Charges, w \in FirstWords :
            say(p, [talk[p] EXCEPT !.keep = c, !.seen[c] = w, !.known = Blank.known])
      BY <1>6, <2>2 DEF Create
    <3>2. talk'[p].seen = [talk[p].seen EXCEPT ![c] = w] /\ talk'[p].paids = {}
      BY <2>0, <3>1 DEF say, TypeTalk, Talk
    <3>3. \A d \in Charges : talk'[p].seen[d] = IF d = c THEN w ELSE talk[p].seen[d]
      BY <3>2, TalkFields
    <3>. QED  BY <3>2, <3>3 DEF Reads, SureOf, SeenIs
  <2>. QED  BY <2>1, <2>2
<1>7. ASSUME RecordRefusal(p) \/ Settle(p) \/ Unwant(p) \/ KeepIt(p) \/ HoldFor(p) \/ LetGo(p) PROVE Reads(p)
  <2>1. \/ talk'[p] = talk[p] /\ pc'[p] \notin Unsorted
        \/ talk'[p] = Blank
    BY <1>7 DEF RecordRefusal, Settle, Unwant, KeepIt, HoldFor, LetGo, finish, say, goto, TypeTalk, Unsorted
  <2>. QED  BY <2>1, SameReads, BlankReads
<1>. QED  BY <1>1, <1>2, <1>3, <1>4, <1>5, <1>6, <1>7

LEMMA HearReads ==
  ASSUME TypeOK, PaidsSure, NEW p \in Procs
  PROVE  /\ HearRows(p) \/ HearList(p) => Reads(p)
         /\ HearMissing(p) => Reads(p)
         /\ HearWrite(p) => SeenIs(p) /\ talk'[p].paids = {}
         /\ Change(p) \/ Push(p) => Reads(p)
<1>. TypeTalk /\ TypeCharge /\ talk[p] \in Talk
  BY TypeParts DEF TypeTalk
<1>. SureOf(talk[p], pc[p])
  BY DEF PaidsSure
<1>1. ASSUME HearRows(p) \/ HearList(p) PROVE Reads(p)
  <2>1. talk[p].paids = {}
    BY <1>1 DEF HearRows, HearList, SureOf, Unsorted
  <2>2. talk'[p].seen \in {talk[p].seen, listing} /\ talk'[p].paids = {}
    <3>1. CASE HearRows(p)
      BY <2>1, <3>1 DEF HearRows, say, TypeTalk, Talk
    <3>2. CASE HearList(p)
      BY <2>1, <3>2 DEF HearList, say, TypeTalk, Talk
    <3>. QED  BY <1>1, <3>1, <3>2
  <2>. QED  BY <2>2, SameSeen DEF Reads, SureOf
<1>2. ASSUME HearMissing(p) PROVE Reads(p)
  <2>1. talk[p].paids = {}
    BY <1>2 DEF HearMissing, SureOf, Unsorted
  <2>2. PICK c \in talk[p].todo :
       say(p, IF present(c) THEN [talk[p] EXCEPT !.todo = @ \ {c}, !.seen[c] = charge[c].word]
                            ELSE [talk[p] EXCEPT !.todo = @ \ {c}, !.gone = @ \cup {c}])
    BY <1>2 DEF HearMissing
  <2>3. talk'[p].seen \in {talk[p].seen, [talk[p].seen EXCEPT ![c] = charge[c].word]} /\ talk'[p].paids = {}
    BY <2>1, <2>2 DEF say, TypeTalk, Talk
  <2>4. \A d \in Charges : talk'[p].seen[d] \in {talk[p].seen[d], charge[d].word}
    BY <2>3, TalkFields
  <2>. QED  BY <2>3, <2>4 DEF Reads, SureOf, SeenIs
<1>3. ASSUME HearWrite(p) PROVE SeenIs(p) /\ talk'[p].paids = {}
  <2>. DEFINE t == [Blank EXCEPT !.kind = talk[p].kind,
                      !.seen = IF talk[p].kind = "unpaid" THEN talk[p].seen ELSE Blank.seen]
  <2>1. t.seen \in {talk[p].seen, Blank.seen} /\ t.paids = {}
    BY DEF Blank
  <2>2. talk'[p] \in {t, Blank}
    BY <1>3 DEF HearWrite, finish, say, TypeTalk
  <2>. HIDE DEF t
  <2>. QED  BY <2>1, <2>2, SameSeen DEF Blank
<1>4. ASSUME Change(p) \/ Push(p) PROVE Reads(p)
  <2>1. \/ talk'[p] = talk[p] /\ pc'[p] \notin Unsorted
        \/ talk'[p] = Blank
    BY <1>4 DEF Change, Push, finish, say, goto, TypeTalk, Unsorted
  <2>. QED  BY <2>1, SameReads, BlankReads
<1>. QED  BY <1>1, <1>2, <1>3, <1>4

LEMMA ReleaseReads ==
  ASSUME TypeOK, PaidsSure, NEW p \in Procs
  PROVE  /\ RelRead(p) => Reads(p)
         /\ RelList(p) => Reads(p)
         /\ RelSort(p) => Reads(p)
         /\ RelFitting(p) \/ RelWrite(p) => Reads(p)
<1>. TypeTalk /\ TypeCharge /\ talk[p] \in Talk
  BY TypeParts DEF TypeTalk
<1>. SureOf(talk[p], pc[p])
  BY DEF PaidsSure
<1>1. ASSUME RelRead(p) PROVE Reads(p)
  <2>1. CASE finish(p)
    BY <2>1, BlankReads DEF finish, say, TypeTalk
  <2>2. CASE ~finish(p)
    <3>1. say(p, [talk[p] EXCEPT !.known = statuses, !.off = cancelled, !.want = wantedNow]) /\ pc'[p] = "rlist"
      BY <1>1, <2>2 DEF RelRead, goto, TypeTalk
    <3>2. talk'[p].seen = talk[p].seen /\ talk'[p].paids = talk[p].paids
      BY <3>1 DEF say, TypeTalk, Talk
    <3>. QED  BY <3>1, <3>2, SameReads DEF Unsorted
  <2>. QED  BY <2>1, <2>2
<1>2. ASSUME RelList(p) PROVE Reads(p)
  <2>1. talk'[p].seen = listing /\ talk'[p].paids = paidIn(listing) /\ pc'[p] = "rsort"
    BY <1>2 DEF RelList, say, goto, TypeTalk, Talk
  <2>. QED  BY <2>1, SameSeen DEF Reads, SureOf, Unsorted, paidIn
<1>3. ASSUME RelSort(p) PROVE Reads(p)
  <2>1. PICK c \in talk[p].todo : say(p, afterRemoval(talk[p], c))
    BY <1>3 DEF RelSort
  <2>2. c \in Charges
    BY TalkFields
  <2>3. talk'[p] = afterRemoval(talk[p], c) /\ pc'[p] \notin Unsorted
    BY <1>3, <2>1 DEF RelSort, say, TypeTalk, Unsorted
  <2>4. LET u == afterRemoval(talk[p], c)
        IN  /\ \A d \in u.paids : isPaidWord(u.seen[d])
            /\ \A d \in Charges : u.seen[d] \in {talk[p].seen[d], charge[d].word}
    BY <2>2, RemovalReads DEF SureOf
  <2>. QED  BY <2>3, <2>4 DEF Reads, SureOf, SeenIs
<1>4. ASSUME RelFitting(p) \/ RelWrite(p) PROVE Reads(p)
  <2>1. CASE RelFitting(p)
    <3>1. talk'[p].seen = talk[p].seen /\ talk'[p].paids = talk[p].paids /\ pc'[p] = pc[p]
      BY <2>1 DEF RelFitting, say, TypeTalk, Talk
    <3>. QED  BY <3>1, SameReads
  <2>2. CASE RelWrite(p)
    BY <2>2, BlankReads DEF RelWrite, finish, say, TypeTalk
  <2>. QED  BY <1>4, <2>1, <2>2
<1>. QED  BY <1>1, <1>2, <1>3, <1>4

\* A request's step leaves the other requests as they were.
OthersStay(p) == \A q \in Procs \ {p} : pc'[q] = pc[q] /\ talk'[q] = talk[q]

LEMMA OthersStayPut ==
  ASSUME TypeTalk, NEW p \in Procs
  PROVE  /\ Start(p) => OthersStay(p)
         /\ Proceed(p) => OthersStay(p)
         /\ CallFails(p) \/ RemovalUnheard(p) \/ Crash(p) => OthersStay(p)
<1>1. ASSUME Start(p) PROVE OthersStay(p)
  <2>1. \E kind, place, want : begin(p, kind, place, want)
    BY <1>1 DEF Start, Ensure, Look, Cancel, AgreeFee, Hear, Recheck, CancelDue
  <2>. QED  BY <2>1, GotoKeeps DEF OthersStay
<1>2. ASSUME failed(p) PROVE OthersStay(p)
  BY <1>2, GotoKeeps DEF failed, OthersStay
<1>3. ASSUME Known(p) \/ List(p) \/ Sort(p) \/ Beside(p) PROVE OthersStay(p)
  BY <1>3, GotoKeeps DEF Known, List, Sort, Beside, OthersStay
<1>4. ASSUME Renew(p) \/ GiveUp(p) \/ Create(p) \/ RecordRefusal(p) PROVE OthersStay(p)
  BY <1>4, GotoKeeps DEF Renew, GiveUp, Create, RecordRefusal, OthersStay
<1>5. ASSUME Settle(p) \/ Unwant(p) \/ KeepIt(p) \/ HoldFor(p) \/ LetGo(p) PROVE OthersStay(p)
  BY <1>5, GotoKeeps DEF Settle, Unwant, KeepIt, HoldFor, LetGo, OthersStay
<1>6. ASSUME HearRows(p) \/ HearList(p) \/ HearMissing(p) \/ HearWrite(p) PROVE OthersStay(p)
  BY <1>6, GotoKeeps DEF HearRows, HearList, HearMissing, HearWrite, OthersStay
<1>7. ASSUME Change(p) \/ Push(p) PROVE OthersStay(p)
  BY <1>7, GotoKeeps DEF Change, Push, OthersStay
<1>8. ASSUME RelRead(p) \/ RelList(p) \/ RelSort(p) \/ RelFitting(p) \/ RelWrite(p) PROVE OthersStay(p)
  BY <1>8, GotoKeeps DEF RelRead, RelList, RelSort, RelFitting, RelWrite, OthersStay
<1>9. ASSUME CallFails(p) \/ RemovalUnheard(p) \/ Crash(p) PROVE OthersStay(p)
  <2>1. failed(p) \/ finish(p)
    BY <1>9 DEF CallFails, RemovalUnheard, Crash
  <2>. QED  BY <1>2, <2>1, GotoKeeps DEF OthersStay
<1>. QED  BY <1>1, <1>3, <1>4, <1>5, <1>6, <1>7, <1>8, <1>9 DEF Proceed

LEMMA PaidsSureStep ==
  ASSUME TypeOK, PaidsSure, [Next]_vars
  PROVE  PaidsSure' /\ \A q \in Procs : SeenIs(q)
<1>. TypeTalk
  BY TypeParts
<1>1. UNCHANGED <<pc, talk>> => \A q \in Procs : Reads(q)
  BY SameReads
<1>2. ASSUME NEW p \in Procs, OthersStay(p), Reads(p)
      PROVE  \A q \in Procs : Reads(q)
  BY <1>2, SameReads DEF OthersStay
<1>3. ASSUME NEW p \in Procs, Start(p) PROVE \A q \in Procs : Reads(q)
  BY <1>2, <1>3, StartReads, OthersStayPut
<1>4. ASSUME NEW p \in Procs, Proceed(p) PROVE \A q \in Procs : Reads(q)
  <2>1. HearWrite(p) => Reads(p)
    BY HearReads DEF Reads, SureOf
  <2>2. Reads(p)
    BY <1>4, <2>1, EnsureReads, HearReads, ReleaseReads DEF Proceed
  <2>. QED  BY <1>2, <1>4, <2>2, OthersStayPut
<1>5. ASSUME NEW p \in Procs, CallFails(p) \/ RemovalUnheard(p) \/ Crash(p)
      PROVE  \A q \in Procs : Reads(q)
  <2>1. failed(p) \/ finish(p)
    BY <1>5 DEF CallFails, RemovalUnheard, Crash
  <2>2. finish(p) => Reads(p)
    BY BlankReads DEF finish, say, TypeTalk
  <2>. QED  BY <1>2, <1>5, <2>1, <2>2, FailedReads, OthersStayPut
<1>6. ASSUME NEW c \in Charges, WordMoves(c) \/ Surface(c) \/ OfferEnds(c) \/ Restore(c)
      PROVE  UNCHANGED <<pc, talk>>
  BY <1>6 DEF WordMoves, Surface, OfferEnds, Restore
<1>7. ClaimEnds \/ DeadlinePasses \/ ShopMovesOrder \/ UNCHANGED vars => UNCHANGED <<pc, talk>>
  BY DEF ClaimEnds, DeadlinePasses, ShopMovesOrder, vars
<1>8. \A q \in Procs : Reads(q)
  BY <1>1, <1>3, <1>4, <1>5, <1>6, <1>7 DEF Next
<1>. QED  BY <1>8 DEF Reads, PaidsSure

LEMMA PaidsSureInit == Init => PaidsSure
BY DEF Init, PaidsSure, SureOf, Blank

-----------------------------------------------------------------------------
(* UnpaidIsSure.                                                           *)

\* A charge found paid is written as paid, whatever its row said.
LEMMA PaidWordPays ==
  ASSUME NEW current \in RowStatuses \cup {NoStatus}, NEW lastWord,
         NEW word \in AsaasWords \cup {NoStatus}, isPaidWord(word)
  PROVE  wasPaid(statusWritten(current, lastWord, word))
<1>1. SAID["PENDING"] = "PENDING" /\ SAID["OVERDUE"] = "OVERDUE" /\ {"PENDING", "OVERDUE"} \subseteq SaidWords
  BY DEF SAID, SaidWords
<1>2. word \notin {"PENDING", "OVERDUE"}
  BY <1>1 DEF isPaidWord, statusSaidBy, wasPaid, holdsMoney, PaidAndUnsettled
<1>3. statusWritten(current, lastWord, word) = statusAfter(current, word, FALSE)
  BY <1>2 DEF statusWritten, cashUndone
<1>4. \A s : wasPaid(statusSaidBy(word, s))
  BY DEF isPaidWord, statusSaidBy, wasPaid, holdsMoney, NoStatus
<1>. DEFINE said == statusSaidBy(word, IF isLive(current) THEN current ELSE NoStatus)
<1>5. wasPaid(said)
  BY <1>4
<1>. HIDE DEF said
<1>6. CASE current = NoStatus
  BY <1>3, <1>5, <1>6, StatusKinds DEF statusAfter, said, isLive, NoStatus, RowStatuses, DeadStatuses
<1>7. CASE current \in DeadStatuses
  BY <1>3, <1>5, <1>7, StatusKinds DEF statusAfter, said
<1>8. CASE isLive(current)
  <2>1. statusAfter(current, word, FALSE) = IF RANK[said] >= RANK[current] THEN said ELSE current
    BY <1>8, StatusKinds DEF statusAfter, said
  <2>2. said \in RowStatuses
    BY <1>5 DEF wasPaid, holdsMoney, RowStatuses
  <2>3. RANK[said] >= 2 /\ RANK[said] \in Int /\ RANK[current] \in Int /\ current \in RowStatuses
    BY <1>5, <1>8, <2>2, Ranks DEF isLive
  <2>4. ~(RANK[said] >= RANK[current]) => RANK[current] >= 2
    BY <2>3
  <2>. QED  BY <1>3, <1>5, <2>1, <2>3, <2>4, Ranks
<1>. QED  BY <1>6, <1>7, <1>8, StatusKinds

\* A hearing that heard of a payment leaves a row that was paid.
LEMMA HeardPaid ==
  ASSUME TypeOK, NEW b \in Book, NEW t \in Talk, NEW first \in oneOf(paidIn(t.seen)), paidIn(t.seen) # {}
  PROVE  paidCharges(heardOf(b, t, first)) # {}
<1>. t.seen \in [Charges -> AsaasWords \cup {NoStatus}] /\ cancelled \in BOOLEAN
  BY TalkFields, ViewTypes
<1>. DEFINE a == appliedTo(b, t)
            h == takenBy(a, t, first)
<1>1. a \in Book /\ h \in Book /\ heardOf(b, t, first) \in Book
  BY HeardOfType
<1>. HIDE DEF a
<1>2. paidCharges(h) # {}
  <2>1. CASE paidCharges(a) # {}
    <3>1. h.rows = a.rows
      BY <1>1, <2>1, NoteStraysRow DEF takenBy
    <3>. QED  BY <2>1, <3>1 DEF paidCharges
  <2>2. CASE paidCharges(a) = {}
    <3>. DEFINE empty == cancelRows(a, liveCharges(a))
                w == applyCharge(empty, first, t.seen, cancelled)
    <3>1. first \in Charges /\ isPaidWord(t.seen[first])
      BY DEF oneOf, paidIn, listedIn
    <3>2. empty \in Book /\ w \in Book
      BY <1>1, CancelRowsType, ApplyChargesType DEF applyCharge
    <3>. HIDE DEF empty
    <3>3. w.rows[first].status = statusWritten(empty.rows[first].status, empty.rows[first].word, t.seen[first])
      <4>1. w.rows[first] = written(empty, first, t.seen[first])
        BY <3>1, <3>2, ApplyChargesRow DEF applyCharge
      <4>. QED  BY <4>1 DEF written
    <3>4. empty.rows[first].status \in RowStatuses \cup {NoStatus}
      BY <3>1, <3>2 DEF Book, Row
    <3>5. wasPaid(w.rows[first].status)
      BY <3>1, <3>3, <3>4, PaidWordPays
    <3>. HIDE DEF w
    <3>6. h = noteStrays(w, paidIn(t.seen) \ {first}, "ORDER_ALREADY_PAID")
      BY <2>2, <3>1, Sets DEF takenBy, w, empty
    <3>7. h.rows = w.rows
      BY <3>2, <3>6, NoteStraysRow
    <3>. QED  BY <3>1, <3>5, <3>7 DEF paidCharges
  <2>. QED  BY <2>1, <2>2
<1>. HIDE DEF h
<1>3. heardOf(b, t, first).rows = h.rows
  BY <1>1, NoteStraysRow DEF heardOf, h, a
<1>. QED  BY <1>2, <1>3 DEF paidCharges

\* A row refunded stays so.
LEMMA RefundedStays ==
  ASSUME TypeOK, [Next]_vars, NEW c \in Charges, book.rows[c].status = "REFUNDED"
  PROVE  book'.rows[c].status = "REFUNDED"
<1>1. book'.rows[c].status \in RowStatuses \cup {NoStatus}
  BY TypeNext DEF TypeOK, Book, Row
<1>2. Up(book.rows[c].status, book'.rows[c].status) \/ CashUndone(book.rows[c], book'.rows[c].word)
  BY WritesRise DEF RowsRise
<1>3. RANK["PENDING"] = 0 /\ RANK["OVERDUE"] = 1 /\ RANK["CONFIRMED"] = 2
      /\ RANK["RECEIVED"] = 3 /\ RANK["PARTIALLY_REFUNDED"] = 4 /\ RANK["REFUNDED"] = 5
  BY DEF RANK, RowStatuses, DeadStatuses
<1>4. isLive(book'.rows[c].status) /\ RANK[book'.rows[c].status] >= 5
  BY <1>2, <1>3 DEF Up, CashUndone, waits, NoStatus, DeadStatuses
<1>. QED  BY <1>1, <1>3, <1>4 DEF isLive, RowStatuses, DeadStatuses, NoStatus

\* A request comes to the change of an unpaid order only from what it heard.
LEMMA ToTheChange ==
  ASSUME TypeTalk, NEW p \in Procs, Start(p) \/ Proceed(p) \/ CallFails(p) \/ RemovalUnheard(p) \/ Crash(p),
         pc'[p] = "change", talk'[p].kind = "unpaid"
  PROVE  HearWrite(p)
<1>. SUFFICES ASSUME ~HearWrite(p) PROVE FALSE
  OBVIOUS
<1>0. ~finish(p)
  BY DEF finish, goto, TypeTalk
<1>1. CASE Start(p)
  <2>1. ASSUME NEW kind, NEW place, NEW want, begin(p, kind, place, want)
        PROVE  pc'[p] = place /\ talk'[p].kind = kind
    BY <2>1 DEF begin, goto, say, TypeTalk, Blank
  <2>. QED  BY <1>1, <2>1 DEF Start, Ensure, Look, Cancel, AgreeFee, Hear, Recheck, CancelDue
<1>2. CASE CallFails(p) \/ RemovalUnheard(p) \/ Crash(p)
  <2>1. failed(p)
    BY <1>0, <1>2 DEF CallFails, RemovalUnheard, Crash
  <2>2. goto(p, "change") /\ say(p, [Blank EXCEPT !.kind = talk[p].kind]) /\ talk[p].kind \in {"customer", "shop", "fee"}
    BY <1>0, <2>1 DEF failed, goto, TypeTalk
  <2>3. talk'[p].kind = talk[p].kind
    BY <2>2 DEF say, TypeTalk, Blank
  <2>. QED  BY <2>2, <2>3
<1>3. CASE Known(p) \/ List(p) \/ Sort(p) \/ Renew(p) \/ GiveUp(p) \/ Create(p) \/ RecordRefusal(p)
  BY <1>3 DEF Known, List, Sort, Renew, GiveUp, Create, RecordRefusal, goto, TypeTalk
<1>4. CASE Beside(p) \/ Settle(p) \/ Unwant(p) \/ KeepIt(p) \/ HoldFor(p) \/ LetGo(p)
  BY <1>0, <1>4 DEF Beside, Settle, Unwant, KeepIt, HoldFor, LetGo, goto, TypeTalk
<1>5. CASE HearRows(p) \/ HearList(p) \/ HearMissing(p) \/ Change(p) \/ Push(p)
  BY <1>0, <1>5 DEF HearRows, HearList, HearMissing, Change, Push, goto, TypeTalk
<1>6. CASE RelRead(p) \/ RelList(p) \/ RelSort(p) \/ RelFitting(p) \/ RelWrite(p)
  BY <1>0, <1>6 DEF RelRead, RelList, RelSort, RelFitting, RelWrite, goto, TypeTalk
<1>. QED  BY <1>1, <1>2, <1>3, <1>4, <1>5, <1>6 DEF Proceed

\* A hearing that showed a payment and leads to the change of an unpaid order found that
\* payment refunded: the change is then refused, for the order was paid.
UnpaidSure ==
  \A p \in Procs :
    pc[p] = "change" /\ talk[p].kind = "unpaid" /\ paidIn(talk[p].seen) # {}
      => \E c \in Charges : book.rows[c].status = "REFUNDED"

LEMMA UnpaidHeard ==
  ASSUME TypeOK, NEW p \in Procs, HearWrite(p),
         pc'[p] = "change", talk'[p].kind = "unpaid", paidIn(talk'[p].seen) # {}
  PROVE  \E c \in Charges : book'.rows[c].status = "REFUNDED"
<1>. TypeTalk /\ talk[p] \in Talk /\ book \in Book
  BY TypeParts DEF TypeTalk
<1>0. ~finish(p)
  BY DEF finish, goto, TypeTalk
<1>1. PICK first \in oneOf(paidIn(talk[p].seen)) :
        LET t == talk[p]
            b == heardOf(book, t, first)
        IN  /\ book' = b
            /\ t.kind = "unpaid" => heldCharges(b) = {}
            /\ say(p, [Blank EXCEPT !.kind = t.kind,
                              !.seen = IF t.kind = "unpaid" THEN t.seen ELSE Blank.seen])
  BY <1>0 DEF HearWrite
<1>2. talk'[p].kind = talk[p].kind
  BY <1>1 DEF say, TypeTalk, Blank
<1>3. talk'[p].seen = talk[p].seen
  BY <1>1, <1>2 DEF say, TypeTalk, Blank
<1>4. paidCharges(book') # {} /\ heldCharges(book') = {}
  BY <1>1, <1>2, <1>3, HeardPaid
<1>. QED  BY <1>4 DEF paidCharges, heldCharges, wasPaid

LEMMA UnpaidSureStep == TypeOK /\ UnpaidSure /\ [Next]_vars => UnpaidSure'
<1>. SUFFICES ASSUME TypeOK, UnpaidSure, [Next]_vars, NEW q \in Procs,
                     pc'[q] = "change", talk'[q].kind = "unpaid", paidIn(talk'[q].seen) # {}
              PROVE  \E c \in Charges : book'.rows[c].status = "REFUNDED"
  BY DEF UnpaidSure, paidIn, listedIn
<1>. TypeTalk
  BY TypeParts
<1>1. CASE pc'[q] = pc[q] /\ talk'[q] = talk[q]
  BY <1>1, RefundedStays DEF UnpaidSure
<1>2. ASSUME NEW p \in Procs, Start(p) \/ Proceed(p) \/ CallFails(p) \/ RemovalUnheard(p) \/ Crash(p)
      PROVE  \E c \in Charges : book'.rows[c].status = "REFUNDED"
  <2>1. CASE p = q
    BY <1>2, <2>1, ToTheChange, UnpaidHeard
  <2>2. CASE p # q
    BY <1>1, <1>2, <2>2, OthersStayPut DEF OthersStay
  <2>. QED  BY <2>1, <2>2
<1>3. ASSUME NEW c \in Charges, WordMoves(c) \/ Surface(c) \/ OfferEnds(c) \/ Restore(c)
      PROVE  UNCHANGED <<pc, talk>>
  BY <1>3 DEF WordMoves, Surface, OfferEnds, Restore
<1>4. ClaimEnds \/ DeadlinePasses \/ ShopMovesOrder \/ UNCHANGED vars => UNCHANGED <<pc, talk>>
  BY DEF ClaimEnds, DeadlinePasses, ShopMovesOrder, vars
<1>. QED  BY <1>1, <1>2, <1>3, <1>4 DEF Next

\* A step that ends an unpaid order is the change itself.
LEMMA UnpaidIsChanged ==
  ASSUME TypeOK, [Next]_vars, NEW p \in Procs, cancelsUnpaid(p)
  PROVE  Change(p)
<1>. TypeTalk /\ pc'[p] # pc[p]
  BY TypeParts DEF cancelsUnpaid
<1>1. PICK q \in Procs : Start(q) \/ Proceed(q) \/ CallFails(q) \/ RemovalUnheard(q) \/ Crash(q)
  <2>1. ASSUME NEW c \in Charges, WordMoves(c) \/ Surface(c) \/ OfferEnds(c) \/ Restore(c)
        PROVE  UNCHANGED <<pc, talk>>
    BY <2>1 DEF WordMoves, Surface, OfferEnds, Restore
  <2>2. ClaimEnds \/ DeadlinePasses \/ ShopMovesOrder \/ UNCHANGED vars => UNCHANGED <<pc, talk>>
    BY DEF ClaimEnds, DeadlinePasses, ShopMovesOrder, vars
  <2>. QED  BY <2>1, <2>2 DEF Next
<1>2. q = p
  BY <1>1, OthersStayPut DEF OthersStay
<1>3. pc[p] = "change" /\ pc'[p] = "rread"
  BY DEF cancelsUnpaid
<1>4. ~Start(p)
  BY <1>3 DEF Start, Ensure, Look, Cancel, AgreeFee, Hear, Recheck, CancelDue, begin
<1>5. ~(CallFails(p) \/ RemovalUnheard(p))
  BY <1>3 DEF CallFails, RemovalUnheard
<1>6. ~Crash(p)
  BY <1>3 DEF Crash, finish, goto, TypeTalk
<1>7. Proceed(p) => Change(p)
  <2>1. ~(Known(p) \/ List(p) \/ Sort(p) \/ Beside(p) \/ Renew(p) \/ GiveUp(p) \/ Create(p))
    BY <1>3 DEF Known, List, Sort, Beside, Renew, GiveUp, Create
  <2>2. ~(RecordRefusal(p) \/ Settle(p) \/ Unwant(p) \/ KeepIt(p) \/ HoldFor(p) \/ LetGo(p))
    BY <1>3 DEF RecordRefusal, Settle, Unwant, KeepIt, HoldFor, LetGo
  <2>3. ~(HearRows(p) \/ HearList(p) \/ HearMissing(p) \/ HearWrite(p) \/ Push(p))
    BY <1>3 DEF HearRows, HearList, HearMissing, HearWrite, Push
  <2>4. ~(RelRead(p) \/ RelList(p) \/ RelSort(p) \/ RelFitting(p) \/ RelWrite(p))
    BY <1>3 DEF RelRead, RelList, RelSort, RelFitting, RelWrite
  <2>. QED  BY <2>1, <2>2, <2>3, <2>4 DEF Proceed
<1>. QED  BY <1>1, <1>2, <1>4, <1>5, <1>6, <1>7

\* unpaid-orders.ts:21 - however long ago Asaas was heard, whatever was paid, agreed or moved
\* since, the routine ends an order as unpaid only while its time is up and on a hearing that
\* showed no payment.
THEOREM UnpaidForSure == Spec => UnpaidIsSure
<1>1. TypeOK /\ UnpaidSure /\ [Next]_vars =>
        [\A p \in Procs :
           cancelsUnpaid(p) => order.late /\ paidIn(talk[p].seen) = {} /\ paidCharges(book) = {}]_vars
  <2>. SUFFICES ASSUME TypeOK, UnpaidSure, [Next]_vars, NEW p \in Procs, cancelsUnpaid(p)
                PROVE  order.late /\ paidIn(talk[p].seen) = {} /\ paidCharges(book) = {}
    OBVIOUS
  <2>0. TypeTalk /\ pc[p] = "change" /\ pc'[p] = "rread" /\ talk[p].kind = "unpaid"
    BY TypeParts DEF cancelsUnpaid
  <2>1. Change(p) /\ ~finish(p)
    BY <2>0, UnpaidIsChanged DEF finish, goto, TypeTalk
  <2>2. mayCancel("unpaid")
    BY <2>0, <2>1 DEF Change
  <2>3. order.late /\ paidCharges(book) = {}
    BY <2>2 DEF mayCancel, systemMay
  <2>4. ~\E c \in Charges : book.rows[c].status = "REFUNDED"
    BY <2>3 DEF paidCharges, wasPaid
  <2>. QED  BY <2>0, <2>3, <2>4 DEF UnpaidSure
<1>2. Init => UnpaidSure
  BY DEF Init, UnpaidSure
<1>. QED  BY <1>1, <1>2, UnpaidSureStep, TypeCorrect, PTL DEF Spec, UnpaidIsSure

-----------------------------------------------------------------------------
(* Money held is told of, and money too many is kept apart.                *)

\* An order that stands and holds money has told its customer.
Told(b, off) == ~off /\ heldCharges(b) # {} => b.told

LEMMA RefundedWritten ==
  ASSUME NEW lastWord \in AsaasWords \cup {NoStatus}, NEW word \in AsaasWords \cup {NoStatus}
  PROVE  statusWritten("REFUNDED", lastWord, word) = "REFUNDED"
<1>. DEFINE now == statusWritten("REFUNDED", lastWord, word)
<1>0. "REFUNDED" \in RowStatuses /\ isLive("REFUNDED") /\ ~cashUndone("REFUNDED", lastWord, word)
  BY DEF RowStatuses, isLive, DeadStatuses, cashUndone
<1>1. isLive(now) /\ RANK[now] >= RANK["REFUNDED"]
  BY <1>0, StatusOnlyRises
<1>2. /\ RANK["PENDING"] = 0 /\ RANK["OVERDUE"] = 1 /\ RANK["CONFIRMED"] = 2
      /\ RANK["RECEIVED"] = 3 /\ RANK["PARTIALLY_REFUNDED"] = 4 /\ RANK["REFUNDED"] = 5
  BY DEF RANK, RowStatuses, DeadStatuses
<1>. HIDE DEF now
<1>. QED  BY <1>1, <1>2 DEF isLive, RowStatuses, DeadStatuses, now

\* Rows given up on were never paid.
LEMMA CancelRowsPaid ==
  ASSUME NEW b \in Book, NEW gone
  PROVE  /\ paidCharges(cancelRows(b, gone)) = paidCharges(b)
         /\ heldCharges(cancelRows(b, gone)) = heldCharges(b)
         /\ cancelRows(b, gone).told = b.told
         /\ cancelRows(b, gone).stray = b.stray
<1>1. ASSUME NEW c \in Charges
      PROVE  /\ wasPaid(cancelRows(b, gone).rows[c].status) <=> wasPaid(b.rows[c].status)
             /\ holdsMoney(cancelRows(b, gone).rows[c].status) <=> holdsMoney(b.rows[c].status)
  <2>1. cancelRows(b, gone).rows[c].status =
           IF c \in gone /\ waits(b.rows[c].status) THEN "CANCELLED" ELSE b.rows[c].status
    BY CancelRowsRow
  <2>. QED  BY <2>1 DEF wasPaid, holdsMoney, waits
<1>2. cancelRows(b, gone).told = b.told /\ cancelRows(b, gone).stray = b.stray
  BY DEF cancelRows, Book
<1>. QED  BY <1>1, <1>2 DEF paidCharges, heldCharges

LEMMA NoteStraysPaid ==
  ASSUME NEW b \in Book, NEW S, NEW reason
  PROVE  /\ paidCharges(noteStrays(b, S, reason)) = paidCharges(b)
         /\ heldCharges(noteStrays(b, S, reason)) = heldCharges(b)
         /\ noteStrays(b, S, reason).told = b.told
         /\ \A c \in Charges : noteStrays(b, S, reason).stray[c] =
                                 IF c \in S /\ b.stray[c] = NoStatus THEN reason ELSE b.stray[c]
<1>1. noteStrays(b, S, reason).told = b.told
  BY DEF noteStrays, Book
<1>2. \A c \in Charges : noteStrays(b, S, reason).stray[c] =
                           IF c \in S /\ b.stray[c] = NoStatus THEN reason ELSE b.stray[c]
  BY DEF noteStrays, Book
<1>. QED  BY <1>1, <1>2, NoteStraysRow DEF paidCharges, heldCharges

LEMMA ApplyChargesTold ==
  ASSUME NEW b \in Book, NEW S, NEW words, NEW off \in BOOLEAN
  PROVE  /\ applyCharges(b, S, words, off).told = (b.told \/ tellPaid(b, S, words, off))
         /\ applyCharges(b, S, words, off).stray = b.stray
BY DEF applyCharges, Book, tellPaid

\* Whatever row a charge is written on, money that comes to be held is told of: a row
\* paid before held it already, or was refunded and stays so.
LEMMA ApplyTells ==
  ASSUME NEW b \in Book, NEW S, NEW words \in [Charges -> AsaasWords \cup {NoStatus}],
         NEW off \in BOOLEAN, Told(b, off)
  PROVE  Told(applyCharges(b, S, words, off), off)
<1>. DEFINE a == applyCharges(b, S, words, off)
<1>. SUFFICES ASSUME ~off, NEW c \in Charges, holdsMoney(a.rows[c].status)
              PROVE  a.told
  BY DEF Told, heldCharges
<1>1. a.told = (b.told \/ tellPaid(b, S, words, off))
  BY ApplyChargesTold
<1>2. a.rows[c] = IF c \in S THEN written(b, c, words[c]) ELSE b.rows[c]
  BY ApplyChargesRow
<1>. HIDE DEF a
<1>3. holdsMoney(b.rows[c].status) => b.told
  BY DEF Told, heldCharges
<1>4. CASE c \in S /\ b.rows[c].status = "REFUNDED"
  <2>1. b.rows[c].word \in AsaasWords \cup {NoStatus}
    BY DEF Book, Row
  <2>2. a.rows[c].status = "REFUNDED"
    BY <1>2, <1>4, <2>1, RefundedWritten DEF written
  <2>. QED  BY <2>2 DEF holdsMoney
<1>5. CASE c \in S /\ ~wasPaid(b.rows[c].status)
  BY <1>1, <1>2, <1>5 DEF tellPaid
<1>. QED  BY <1>1, <1>2, <1>3, <1>4, <1>5 DEF wasPaid

LEMMA CancelTells ==
  ASSUME NEW b \in Book, NEW gone, NEW off, Told(b, off)
  PROVE  Told(cancelRows(b, gone), off)
BY CancelRowsPaid DEF Told

LEMMA NoteTells ==
  ASSUME NEW b \in Book, NEW S, NEW reason, NEW off, Told(b, off)
  PROVE  Told(noteStrays(b, S, reason), off)
BY NoteStraysPaid DEF Told

HeldTold == Told(book, cancelled)

\* The writes of an order's charge leave the order as it was.
LEMMA BookKeepsOrder ==
  ASSUME NEW p \in Procs,
         RecordRefusal(p) \/ GiveUp(p) \/ Settle(p) \/ KeepIt(p) \/ HearWrite(p) \/ RelWrite(p)
  PROVE  UNCHANGED <<charge, order>>
BY DEF RecordRefusal, GiveUp, Settle, KeepIt, HearWrite, RelWrite

\* A hearing tells of what it heard, on the living row or on the row that takes the order.
LEMMA HearingTells ==
  ASSUME TypeOK, NEW b \in Book, NEW t \in Talk, NEW first, Told(b, cancelled)
  PROVE  Told(heardOf(b, t, first), cancelled)
<1>. t.seen \in [Charges -> AsaasWords \cup {NoStatus}] /\ cancelled \in BOOLEAN
  BY TalkFields, ViewTypes
<1>. DEFINE a == appliedTo(b, t)
            h == takenBy(a, t, first)
            empty == cancelRows(a, liveCharges(a))
            w == applyCharge(empty, first, t.seen, cancelled)
<1>1. a \in Book /\ h \in Book
  BY HeardOfType
<1>2. Told(a, cancelled)
  BY CancelRowsType, CancelTells, ApplyTells DEF appliedTo
<1>. HIDE DEF a
<1>3. w \in Book /\ Told(w, cancelled)
  BY <1>1, <1>2, CancelRowsType, ApplyChargesType, CancelTells, ApplyTells DEF applyCharge
<1>4. Told(h, cancelled)
  <2>1. \/ h = a
        \/ \E S : h = noteStrays(a, S, "ORDER_ALREADY_PAID")
        \/ \E S : h = noteStrays(w, S, "ORDER_ALREADY_PAID")
    BY DEF takenBy
  <2>. HIDE DEF h, w
  <2>. QED  BY <1>1, <1>2, <1>3, <2>1, NoteTells
<1>. HIDE DEF h
<1>. QED  BY <1>1, <1>4, NoteTells DEF heardOf, h, a

\* A cancelled order stays cancelled.
LEMMA CancelledStays == ASSUME [Next]_vars PROVE cancelled => cancelled'
<1>1. ASSUME NEW p \in Procs, Start(p) \/ CallFails(p) \/ RemovalUnheard(p) \/ Crash(p)
      PROVE  UNCHANGED order
  BY <1>1 DEF Start, Ensure, Look, Cancel, AgreeFee, Hear, Recheck, CancelDue, CallFails, RemovalUnheard, Crash
<1>2. ASSUME NEW c \in Charges, WordMoves(c) \/ Surface(c) \/ OfferEnds(c) \/ Restore(c)
      PROVE  UNCHANGED order
  BY <1>2 DEF WordMoves, Surface, OfferEnds, Restore
<1>3. ClaimEnds \/ UNCHANGED vars => UNCHANGED order
  BY DEF ClaimEnds, vars
<1>4. ~cancelled \/ ~(DeadlinePasses \/ ShopMovesOrder)
  BY DEF DeadlinePasses, ShopMovesOrder
<1>5. ASSUME NEW p \in Procs, Proceed(p), cancelled PROVE cancelled'
  <2>1. Known(p) \/ List(p) \/ Sort(p) \/ Beside(p) \/ Renew(p) \/ GiveUp(p) \/ Create(p)
          \/ RecordRefusal(p) \/ Settle(p) \/ Unwant(p) \/ KeepIt(p) \/ HoldFor(p) \/ LetGo(p)
          => UNCHANGED order
    BY DEF Known, List, Sort, Beside, Renew, GiveUp, Create, RecordRefusal, Settle, Unwant, KeepIt, HoldFor, LetGo
  <2>2. HearRows(p) \/ HearList(p) \/ HearMissing(p) \/ HearWrite(p)
          \/ RelRead(p) \/ RelList(p) \/ RelSort(p) \/ RelFitting(p) \/ RelWrite(p) => UNCHANGED order
    BY DEF HearRows, HearList, HearMissing, HearWrite, RelRead, RelList, RelSort, RelFitting, RelWrite
  <2>3. Change(p) => UNCHANGED order
    BY <1>5 DEF Change, mayCancel, mayAgree
  <2>4. Push(p) => order'.status = order.status
    BY DEF Push
  <2>. QED  BY <1>5, <2>1, <2>2, <2>3, <2>4 DEF Proceed, cancelled
<1>. QED  BY <1>1, <1>2, <1>3, <1>4, <1>5 DEF Next, cancelled

LEMMA HeldToldStep == TypeOK /\ HeldTold /\ [Next]_vars => HeldTold'
<1>. SUFFICES ASSUME TypeOK, HeldTold, [Next]_vars PROVE HeldTold'
  OBVIOUS
<1>. book \in Book /\ TypeTalk /\ cancelled \in BOOLEAN /\ Told(book, cancelled)
  BY TypeParts, ViewTypes DEF HeldTold
<1>1. CASE UNCHANGED book
  <2>1. cancelled => cancelled'
    BY CancelledStays
  <2>. QED  BY <1>1, <2>1 DEF HeldTold, Told
<1>2. ASSUME NEW p \in Procs,
             RecordRefusal(p) \/ GiveUp(p) \/ Settle(p) \/ KeepIt(p) \/ HearWrite(p) \/ RelWrite(p)
      PROVE  Told(book', cancelled)
  <2>. DEFINE t == talk[p]
  <2>0. t \in Talk /\ t.seen \in [Charges -> AsaasWords \cup {NoStatus}]
    BY TalkFields DEF TypeTalk
  <2>. HIDE DEF t
  <2>1. CASE RecordRefusal(p)
    <3>1. book'.rows = book.rows /\ book'.told = book.told
      BY <2>1 DEF RecordRefusal, recordRefusal, Book
    <3>. QED  BY <3>1 DEF Told, heldCharges
  <2>2. CASE GiveUp(p)
    BY <2>2, CancelTells DEF GiveUp
  <2>3. CASE Settle(p)
    <3>. DEFINE c == target(t)
                g == cancelRows(book, rowsKnown(t) \ {c})
    <3>1. book' \in {book, noteStrays(book, {c}, "ORDER_ALREADY_PAID"), applyCharge(g, c, t.seen, cancelled)}
      BY <2>3 DEF Settle, t
    <3>2. g \in Book /\ Told(g, cancelled)
      BY CancelRowsType, CancelTells
    <3>. HIDE DEF g, c
    <3>3. Told(applyCharge(g, c, t.seen, cancelled), cancelled)
      BY <2>0, <3>2, ApplyTells DEF applyCharge
    <3>. QED  BY <3>1, <3>3, NoteTells
  <2>4. CASE KeepIt(p)
    <3>1. book' \in {book, applyCharge(book, target(t), t.seen, cancelled)}
      BY <2>4 DEF KeepIt, t
    <3>. QED  BY <2>0, <3>1, ApplyTells DEF applyCharge
  <2>5. CASE HearWrite(p)
    <3>1. PICK first : book' = heardOf(book, t, first)
      BY <2>5 DEF HearWrite, t
    <3>. QED  BY <2>0, <3>1, HearingTells
  <2>6. CASE RelWrite(p)
    <3>1. PICK paid : book' \in {book, releaseStrays(releasedTo(book, t, paid), t, paid)}
      BY <2>6 DEF RelWrite, t
    <3>. DEFINE kept == IF paid = NoCharge THEN t.keep ELSE paid
                g == cancelRows(book, rowsKnown(t) \ {kept})
                b == releasedTo(book, t, paid)
                S == {c \in {paid} \cap t.paids : t.off /\ holdsMoney(statusSaidBy(t.seen[c], NoStatus))}
                n == noteStrays(b, S, "ORDER_CANCELLED")
    <3>2. g \in Book /\ Told(g, cancelled)
      BY CancelRowsType, CancelTells
    <3>3. b \in {g, applyCharge(g, kept, t.seen, cancelled)}
      BY DEF releasedTo
    <3>. HIDE DEF g, kept
    <3>4. b \in Book /\ Told(b, cancelled)
      BY <2>0, <3>2, <3>3, ReleasedType, ApplyTells DEF applyCharge
    <3>5. releaseStrays(b, t, paid) = noteStrays(n, t.paids \ {paid}, "ORDER_ALREADY_PAID")
      BY DEF releaseStrays
    <3>. HIDE DEF b, S
    <3>6. n \in Book /\ Told(n, cancelled)
      BY <3>4, NoteStraysType, NoteTells DEF StrayReasons
    <3>. HIDE DEF n
    <3>. QED  BY <3>1, <3>5, <3>6, NoteTells DEF b
  <2>. QED  BY <1>2, <2>1, <2>2, <2>3, <2>4, <2>5, <2>6
<1>3. ASSUME NEW p \in Procs,
             RecordRefusal(p) \/ GiveUp(p) \/ Settle(p) \/ KeepIt(p) \/ HearWrite(p) \/ RelWrite(p)
      PROVE  HeldTold'
  <2>1. cancelled' <=> cancelled
    BY <1>3, BookKeepsOrder DEF cancelled
  <2>2. Told(book', cancelled)
    BY <1>2, <1>3
  <2>. QED  BY <2>1, <2>2 DEF HeldTold, Told
<1>. QED  BY <1>1, <1>3, BookSteps

\* payment-facts.ts:87 - an order that stands and holds money has told its customer of it,
\* whichever request heard of the payment and on whichever row it was written.
THEOREM HeldIsTold == Spec => [](~cancelled /\ heldCharges(book) # {} => book.told)
<1>1. Init => HeldTold
  BY DEF Init, HeldTold, Told, heldCharges, EmptyBook, NoRow, holdsMoney, NoStatus
<1>2. HeldTold => (~cancelled /\ heldCharges(book) # {} => book.told)
  BY DEF HeldTold, Told
<1>. QED  BY <1>1, <1>2, HeldToldStep, TypeCorrect, PTL DEF Spec

-----------------------------------------------------------------------------
(* Where no receipt in cash is declared, a payment stays one.              *)

\* The shop declares no receipt in cash at Asaas's panel: the one word that can be undone.
NoCash == "RECEIVED_IN_CASH" \notin FirstWords /\ \A m \in Moves : m[2] # "RECEIVED_IN_CASH"

Cashless(words) == \A c \in Charges : words[c] # "RECEIVED_IN_CASH"

\* The charges a book cannot have undone; what it told of and kept apart rests on payments.
Sound(b) ==
  /\ \A c \in Charges : b.rows[c].word # "RECEIVED_IN_CASH"
  /\ b.told => paidCharges(b) # {}
  /\ \A c \in Charges : b.stray[c] = "ORDER_ALREADY_PAID" => paidCharges(b) \ {c} # {}

LEMMA SoundCancel ==
  ASSUME NEW b \in Book, NEW gone, Sound(b)
  PROVE  Sound(cancelRows(b, gone))
BY CancelRowsPaid, CancelRowsRow DEF Sound

\* Money kept as one too many is another's than the order's payment.
LEMMA SoundNote ==
  ASSUME NEW b \in Book, NEW S, NEW reason \in StrayReasons, Sound(b),
         reason = "ORDER_ALREADY_PAID" => \A c \in S : paidCharges(b) \ {c} # {}
  PROVE  Sound(noteStrays(b, S, reason))
<1>. DEFINE n == noteStrays(b, S, reason)
<1>1. /\ paidCharges(n) = paidCharges(b) /\ n.told = b.told /\ n.rows = b.rows
      /\ \A c \in Charges : n.stray[c] = IF c \in S /\ b.stray[c] = NoStatus THEN reason ELSE b.stray[c]
  BY NoteStraysPaid, NoteStraysRow
<1>. HIDE DEF n
<1>2. \A c \in Charges : n.rows[c].word # "RECEIVED_IN_CASH"
  BY <1>1 DEF Sound
<1>3. ASSUME NEW c \in Charges, n.stray[c] = "ORDER_ALREADY_PAID"
      PROVE  paidCharges(n) \ {c} # {}
  <2>1. b.stray[c] = "ORDER_ALREADY_PAID" \/ (c \in S /\ reason = "ORDER_ALREADY_PAID")
    BY <1>1, <1>3
  <2>. QED  BY <1>1, <2>1 DEF Sound
<1>4. n.told => paidCharges(n) # {}
  BY <1>1 DEF Sound
<1>5. Sound(n)
  BY <1>2, <1>3, <1>4 DEF Sound
<1>. QED  BY <1>5 DEF n

LEMMA SoundApply ==
  ASSUME NEW b \in Book, NEW S \in SUBSET Charges, NEW words \in [Charges -> AsaasWords \cup {NoStatus}],
         Cashless(words), NEW off \in BOOLEAN, Sound(b)
  PROVE  Sound(applyCharges(b, S, words, off))
<1>. DEFINE a == applyCharges(b, S, words, off)
<1>1. a.told = (b.told \/ tellPaid(b, S, words, off)) /\ a.stray = b.stray
  BY ApplyChargesTold
<1>2. \A c \in Charges : a.rows[c] = IF c \in S THEN written(b, c, words[c]) ELSE b.rows[c]
  BY ApplyChargesRow
<1>3. a \in Book /\ \A c \in Charges : Up(b.rows[c].status, a.rows[c].status)
  BY ApplyChargesType, ApplyChargesUp DEF CashUndone, Sound
<1>. HIDE DEF a
<1>0. \A c \in Charges : a.rows[c].word # "RECEIVED_IN_CASH"
  <2>. TAKE c \in Charges
  <2>1. written(b, c, words[c]).word = words[c]
    BY DEF written
  <2>. QED  BY <1>2, <2>1 DEF Sound, Cashless
<1>4. paidCharges(b) \subseteq paidCharges(a)
  <2>. SUFFICES ASSUME NEW c \in Charges, wasPaid(b.rows[c].status) PROVE wasPaid(a.rows[c].status)
    BY DEF paidCharges
  <2>2. Up(b.rows[c].status, a.rows[c].status)
    BY <1>3
  <2>3. /\ b.rows[c].status \in RowStatuses \cup {NoStatus} /\ isLive(b.rows[c].status)
        /\ ~waits(b.rows[c].status) /\ a.rows[c].status \in RowStatuses \cup {NoStatus}
    BY <1>3, StatusKinds DEF Book, Row
  <2>4. isLive(a.rows[c].status) /\ RANK[a.rows[c].status] >= RANK[b.rows[c].status]
    BY <2>2, <2>3, StatusKinds DEF Up
  <2>5. RANK[b.rows[c].status] >= 2 /\ RANK[b.rows[c].status] \in Int /\ RANK[a.rows[c].status] \in Int
    BY <2>3, <2>4, Ranks DEF isLive
  <2>6. RANK[a.rows[c].status] >= 2
    BY <2>4, <2>5
  <2>. QED  BY <2>4, <2>6, Ranks DEF isLive
<1>5. tellPaid(b, S, words, off) => paidCharges(a) # {}
  BY <1>2 DEF tellPaid, paidCharges, wasPaid
<1>6. Sound(a)
  BY <1>1, <1>0, <1>4, <1>5 DEF Sound
<1>. QED  BY <1>6 DEF a

\* A paid charge written takes the order, whatever its row said.
LEMMA ApplyPays ==
  ASSUME NEW b \in Book, NEW c \in Charges, NEW words \in [Charges -> AsaasWords \cup {NoStatus}],
         NEW off \in BOOLEAN, isPaidWord(words[c])
  PROVE  c \in paidCharges(applyCharge(b, c, words, off))
<1>1. applyCharge(b, c, words, off).rows[c] = written(b, c, words[c])
  BY ApplyChargesRow DEF applyCharge
<1>2. b.rows[c].status \in RowStatuses \cup {NoStatus}
  BY DEF Book, Row
<1>. QED  BY <1>1, <1>2, PaidWordPays DEF written, paidCharges

\* No word of Asaas, nor one read of it, is a receipt in cash.
CashNever ==
  /\ \A c \in Charges : charge[c].word # "RECEIVED_IN_CASH"
  /\ \A p \in Procs : Cashless(talk[p].seen)

\* A word moves to one that may follow it, or is one a charge is made with.
LEMMA WordsFrom ==
  ASSUME TypeCharge, [Next]_vars
  PROVE  \A c \in Charges : \/ charge'[c].word \in {charge[c].word} \cup FirstWords
                            \/ <<charge[c].word, charge'[c].word>> \in Moves
<1>. DEFINE Same == \A c \in Charges : charge'[c].word = charge[c].word
            New == \A c \in Charges : charge'[c].word \in {charge[c].word} \cup FirstWords
            Moved == \A c \in Charges : \/ charge'[c].word = charge[c].word
                                        \/ <<charge[c].word, charge'[c].word>> \in Moves
<1>0. ASSUME NEW c, takenOut(c) \/ removed(c) PROVE Same
  BY <1>0 DEF takenOut, removed, TypeCharge, Charge
<1>1. ASSUME NEW p \in Procs, Start(p) \/ CallFails(p) \/ Crash(p) PROVE Same
  BY <1>1 DEF Start, Ensure, Look, Cancel, AgreeFee, Hear, Recheck, CancelDue, CallFails, Crash
<1>2. ASSUME NEW p \in Procs, RemovalUnheard(p) PROVE Same
  BY <1>0, <1>2 DEF RemovalUnheard
<1>3. ASSUME NEW c \in Charges, WordMoves(c) PROVE Moved
  BY <1>3 DEF WordMoves, TypeCharge, Charge
<1>4. ASSUME NEW c \in Charges, Surface(c) \/ OfferEnds(c) \/ Restore(c) PROVE Same
  BY <1>4 DEF Surface, OfferEnds, Restore, TypeCharge, Charge
<1>5. ClaimEnds \/ DeadlinePasses \/ ShopMovesOrder \/ UNCHANGED vars => Same
  BY DEF ClaimEnds, DeadlinePasses, ShopMovesOrder, vars
<1>6. ASSUME NEW p \in Procs, Create(p) PROVE New
  <2>1. ASSUME NEW c \in Charges, NEW w \in FirstWords, NEW shown, made(c, talk[p].want, w, shown)
        PROVE  New
    BY <2>1 DEF made, TypeCharge, Charge
  <2>2. UNCHANGED charge => New
    OBVIOUS
  <2>. HIDE DEF New
  <2>. QED  BY <1>6, <2>1, <2>2 DEF Create
<1>7. ASSUME NEW p \in Procs, Proceed(p), ~Create(p) PROVE Same
  <2>1. UNCHANGED charge => Same
    OBVIOUS
  <2>. HIDE DEF Same
  <2>2. Sort(p) \/ Beside(p) \/ Unwant(p) \/ RelSort(p) \/ RelFitting(p) => Same
    BY <1>0, <2>1 DEF Sort, Beside, Unwant, RelSort, RelFitting
  <2>3. Known(p) \/ List(p) \/ Renew(p) \/ GiveUp(p) \/ RecordRefusal(p) \/ Settle(p) \/ KeepIt(p)
          \/ HoldFor(p) \/ LetGo(p) => UNCHANGED charge
    BY DEF Known, List, Renew, GiveUp, RecordRefusal, Settle, KeepIt, HoldFor, LetGo
  <2>4. HearRows(p) \/ HearList(p) \/ HearMissing(p) \/ HearWrite(p) \/ Change(p) \/ Push(p)
          \/ RelRead(p) \/ RelList(p) \/ RelWrite(p) => UNCHANGED charge
    BY DEF HearRows, HearList, HearMissing, HearWrite, Change, Push, RelRead, RelList, RelWrite
  <2>. QED  BY <1>7, <2>1, <2>2, <2>3, <2>4 DEF Proceed
<1>8. Same => New /\ Moved
  OBVIOUS
<1>9. Same \/ New \/ Moved
  <2>. HIDE DEF Same, New, Moved
  <2>. QED  BY <1>1, <1>2, <1>3, <1>4, <1>5, <1>6, <1>7 DEF Next
<1>. QED  BY <1>8, <1>9

LEMMA CashNeverStep ==
  ASSUME NoCash, TypeOK, PaidsSure, CashNever, [Next]_vars
  PROVE  CashNever'
<1>1. ASSUME NEW c \in Charges PROVE charge'[c].word # "RECEIVED_IN_CASH"
  <2>1. \/ charge'[c].word \in {charge[c].word} \cup FirstWords
        \/ <<charge[c].word, charge'[c].word>> \in Moves
    BY WordsFrom, TypeParts
  <2>2. ASSUME <<charge[c].word, charge'[c].word>> \in Moves
        PROVE  charge'[c].word # "RECEIVED_IN_CASH"
    BY <2>2 DEF NoCash
  <2>. QED  BY <2>1, <2>2 DEF NoCash, CashNever
<1>2. ASSUME NEW p \in Procs, NEW c \in Charges PROVE talk'[p].seen[c] # "RECEIVED_IN_CASH"
  <2>1. talk'[p].seen[c] \in {talk[p].seen[c], charge[c].word, NoStatus} \cup FirstWords
    BY PaidsSureStep DEF SeenIs
  <2>. QED  BY <2>1 DEF NoCash, CashNever, Cashless, NoStatus
<1>. QED  BY <1>1, <1>2 DEF CashNever, Cashless

\* A charge nobody wants any more is one that was being settled.
Aimed == \A p \in Procs : pc[p] \in {"unwant", "keepit"} => target(talk[p]) # NoCharge

LEMMA AimedStep == ASSUME TypeTalk, Aimed, [Next]_vars PROVE Aimed'
<1>. SUFFICES ASSUME NEW q \in Procs, pc'[q] \in {"unwant", "keepit"}
              PROVE  target(talk'[q]) # NoCharge
  BY DEF Aimed, target
<1>1. CASE pc'[q] = pc[q] /\ talk'[q] = talk[q]
  BY <1>1 DEF Aimed
<1>2. ASSUME NEW p \in Procs, Start(p) \/ Proceed(p) \/ CallFails(p) \/ RemovalUnheard(p) \/ Crash(p)
      PROVE  target(talk'[q]) # NoCharge
  <2>1. CASE p # q
    BY <1>1, <1>2, <2>1, OthersStayPut DEF OthersStay
  <2>2. CASE p = q
    <3>1. Settle(q) \/ Unwant(q) => target(talk'[q]) # NoCharge
      BY DEF Settle, Unwant, Aimed, finish, goto, TypeTalk
    <3>2. ~finish(q)
      BY DEF finish, goto, TypeTalk
    <3>3. ~Start(q)
      <4>1. ASSUME NEW kind, NEW place, NEW want, begin(q, kind, place, want)
            PROVE  pc'[q] = place
        BY <4>1 DEF begin, goto, TypeTalk
      <4>. QED  BY <4>1 DEF Start, Ensure, Look, Cancel, AgreeFee, Hear, Recheck, CancelDue, hearOf
    <3>4. ~(CallFails(q) \/ RemovalUnheard(q) \/ Crash(q))
      BY <3>2 DEF CallFails, RemovalUnheard, Crash, failed, goto, TypeTalk
    <3>5. ~(Known(q) \/ List(q) \/ Sort(q) \/ Beside(q) \/ Renew(q) \/ GiveUp(q) \/ Create(q)
              \/ RecordRefusal(q) \/ KeepIt(q) \/ HoldFor(q) \/ LetGo(q))
      BY <3>2 DEF Known, List, Sort, Beside, Renew, GiveUp, Create, RecordRefusal, KeepIt, HoldFor, LetGo,
                  goto, TypeTalk
    <3>6. ~(HearRows(q) \/ HearList(q) \/ HearMissing(q) \/ HearWrite(q) \/ Change(q) \/ Push(q))
      BY <3>2 DEF HearRows, HearList, HearMissing, HearWrite, Change, Push, goto, TypeTalk
    <3>7. ~(RelRead(q) \/ RelList(q) \/ RelSort(q) \/ RelFitting(q) \/ RelWrite(q))
      BY <3>2 DEF RelRead, RelList, RelSort, RelFitting, RelWrite, goto, TypeTalk
    <3>. QED  BY <1>2, <2>2, <3>1, <3>3, <3>4, <3>5, <3>6, <3>7 DEF Proceed
  <2>. QED  BY <2>1, <2>2
<1>3. ASSUME NEW c \in Charges, WordMoves(c) \/ Surface(c) \/ OfferEnds(c) \/ Restore(c)
      PROVE  UNCHANGED <<pc, talk>>
  BY <1>3 DEF WordMoves, Surface, OfferEnds, Restore
<1>4. ClaimEnds \/ DeadlinePasses \/ ShopMovesOrder \/ UNCHANGED vars => UNCHANGED <<pc, talk>>
  BY DEF ClaimEnds, DeadlinePasses, ShopMovesOrder, vars
<1>. QED  BY <1>1, <1>2, <1>3, <1>4 DEF Next

LEMMA SoundHearing ==
  ASSUME TypeOK, NEW b \in Book, NEW t \in Talk, Cashless(t.seen), Sound(b),
         NEW first \in oneOf(paidIn(t.seen))
  PROVE  Sound(heardOf(b, t, first))
<1>. t.seen \in [Charges -> AsaasWords \cup {NoStatus}] /\ cancelled \in BOOLEAN
  BY TalkFields, ViewTypes
<1>. DEFINE given == cancelRows(b, t.gone)
            a == appliedTo(b, t)
            h == takenBy(a, t, first)
            P == paidIn(t.seen)
<1>1. a \in Book /\ h \in Book
  BY HeardOfType
<1>2. Sound(a)
  <2>1. given \in Book /\ Sound(given)
    BY CancelRowsType, SoundCancel
  <2>2. listedIn(t.seen) \cap liveCharges(given) \in SUBSET Charges
    BY DEF listedIn
  <2>3. a = applyCharges(given, listedIn(t.seen) \cap liveCharges(given), t.seen, cancelled)
    BY DEF appliedTo
  <2>. HIDE DEF given, a
  <2>. QED  BY <2>1, <2>2, <2>3, SoundApply
<1>. HIDE DEF a
<1>3. Sound(h)
  <2>1. CASE paidCharges(a) # {}
    <3>1. h = noteStrays(a, P \ paidCharges(a), "ORDER_ALREADY_PAID")
      BY <2>1 DEF takenBy
    <3>2. \A c \in P \ paidCharges(a) : paidCharges(a) \ {c} # {}
      BY <2>1
    <3>. QED  BY <1>1, <1>2, <3>1, <3>2, SoundNote DEF StrayReasons
  <2>2. CASE paidCharges(a) = {} /\ first = NoCharge
    BY <1>2, <2>2 DEF takenBy
  <2>3. CASE paidCharges(a) = {} /\ first # NoCharge
    <3>. DEFINE empty == cancelRows(a, liveCharges(a))
                w == applyCharge(empty, first, t.seen, cancelled)
    <3>1. first \in Charges /\ isPaidWord(t.seen[first])
      BY <2>3 DEF oneOf, paidIn, listedIn
    <3>2. empty \in Book /\ w \in Book /\ Sound(empty)
      BY <1>1, <1>2, CancelRowsType, ApplyChargesType, SoundCancel DEF applyCharge
    <3>3. h = noteStrays(w, P \ {first}, "ORDER_ALREADY_PAID")
      BY <2>3 DEF takenBy
    <3>. HIDE DEF empty
    <3>4. Sound(w) /\ first \in paidCharges(w)
      BY <3>1, <3>2, SoundApply, ApplyPays DEF applyCharge
    <3>. HIDE DEF w
    <3>5. \A c \in P \ {first} : paidCharges(w) \ {c} # {}
      BY <3>4
    <3>. QED  BY <3>2, <3>3, <3>4, <3>5, SoundNote DEF StrayReasons
  <2>. QED  BY <2>1, <2>2, <2>3
<1>. HIDE DEF h
<1>. QED  BY <1>1, <1>3, SoundNote DEF heardOf, h, a, StrayReasons

LEMMA SoundRelease ==
  ASSUME TypeOK, NEW b \in Book, NEW t \in Talk, Cashless(t.seen), Sound(b),
         \A c \in t.paids : isPaidWord(t.seen[c]), NEW paid \in paidOf(t)
  PROVE  Sound(releaseStrays(releasedTo(b, t, paid), t, paid))
<1>. t.seen \in [Charges -> AsaasWords \cup {NoStatus}] /\ cancelled \in BOOLEAN
  BY TalkFields, ViewTypes
<1>. DEFINE kept == IF paid = NoCharge THEN t.keep ELSE paid
            g == cancelRows(b, rowsKnown(t) \ {kept})
            r == releasedTo(b, t, paid)
            S == {c \in {paid} \cap t.paids : t.off /\ holdsMoney(statusSaidBy(t.seen[c], NoStatus))}
            n == noteStrays(r, S, "ORDER_CANCELLED")
<1>0. t.paids \subseteq Charges /\ t.keep \in Charges \cup {NoCharge}
  BY TalkFields
<1>1. IF t.paids = {} THEN paid = NoCharge ELSE paid \in t.paids
  BY DEF paidOf, oneOf
<1>2. kept \in Charges \cup {NoCharge} /\ (paid \in t.paids => kept = paid)
  BY <1>0, <1>1, Sets
<1>3. g \in Book /\ Sound(g)
  BY CancelRowsType, SoundCancel
<1>4. r = IF kept = NoCharge THEN g ELSE applyCharge(g, kept, t.seen, cancelled)
  BY DEF releasedTo
<1>5. r \in Book
  BY ReleasedType
<1>. HIDE DEF g, r, kept
<1>6. Sound(r)
  BY <1>2, <1>3, <1>4, SoundApply DEF applyCharge
<1>7. paid \in t.paids => paid \in paidCharges(r)
  <2>. SUFFICES ASSUME paid \in t.paids PROVE paid \in paidCharges(r)
    OBVIOUS
  <2>1. paid \in Charges /\ kept = paid /\ kept # NoCharge
    BY <1>0, <1>2, Sets
  <2>. QED  BY <1>3, <1>4, <2>1, ApplyPays
<1>8. n \in Book /\ Sound(n) /\ paidCharges(n) = paidCharges(r)
  <2>. HIDE DEF S
  <2>. QED  BY <1>5, <1>6, NoteStraysType, SoundNote, NoteStraysPaid DEF StrayReasons
<1>9. releaseStrays(r, t, paid) = noteStrays(n, t.paids \ {paid}, "ORDER_ALREADY_PAID")
  BY DEF releaseStrays
<1>10. \A c \in t.paids \ {paid} : paidCharges(n) \ {c} # {}
  BY <1>1, <1>7, <1>8
<1>. HIDE DEF n, S
<1>11. Sound(releaseStrays(r, t, paid))
  BY <1>8, <1>9, <1>10, SoundNote DEF StrayReasons
<1>. QED  BY <1>11 DEF r

BookSound == Sound(book)

LEMMA BookSoundStep ==
  ASSUME TypeOK, PaidsSure, CashNever, Aimed, BookSound, [Next]_vars
  PROVE  BookSound'
<1>. book \in Book /\ TypeTalk /\ cancelled \in BOOLEAN /\ Sound(book)
  BY TypeParts, ViewTypes DEF BookSound
<1>. SUFFICES Sound(book')
  BY DEF BookSound, Sound, paidCharges
<1>1. CASE UNCHANGED book
  BY <1>1
<1>2. ASSUME NEW p \in Procs,
             RecordRefusal(p) \/ GiveUp(p) \/ Settle(p) \/ KeepIt(p) \/ HearWrite(p) \/ RelWrite(p)
      PROVE  Sound(book')
  <2>. DEFINE t == talk[p]
  <2>0. /\ t \in Talk /\ t.seen \in [Charges -> AsaasWords \cup {NoStatus}]
        /\ Cashless(t.seen) /\ \A c \in t.paids : isPaidWord(t.seen[c])
        /\ target(t) \in Charges \cup {NoCharge}
    BY TalkFields DEF TypeTalk, CashNever, PaidsSure, SureOf, target
  <2>. HIDE DEF t
  <2>1. CASE RecordRefusal(p)
    <3>1. book'.rows = book.rows /\ book'.told = book.told /\ book'.stray = book.stray
      BY <2>1 DEF RecordRefusal, recordRefusal, Book
    <3>. QED  BY <3>1 DEF Sound, paidCharges
  <2>2. CASE GiveUp(p)
    BY <2>2, SoundCancel DEF GiveUp
  <2>3. CASE Settle(p)
    <3>. DEFINE c == target(t)
                g == cancelRows(book, rowsKnown(t) \ {c})
    <3>1. c # NoCharge
      BY <2>3 DEF Settle, t
    <3>2. \/ book' = book
          \/ book' = noteStrays(book, {c}, "ORDER_ALREADY_PAID") /\ paidCharges(book) \ {c} # {}
          \/ book' = applyCharge(g, c, t.seen, cancelled)
      BY <2>3 DEF Settle, t, paidByAnother
    <3>3. g \in Book /\ Sound(g)
      BY CancelRowsType, SoundCancel
    <3>4. c \in Charges
      BY <2>0, <3>1
    <3>. HIDE DEF g, c
    <3>5. Sound(applyCharge(g, c, t.seen, cancelled))
      BY <2>0, <3>3, <3>4, SoundApply DEF applyCharge
    <3>. QED  BY <3>2, <3>5, SoundNote DEF StrayReasons
  <2>4. CASE KeepIt(p)
    <3>1. book' \in {book, applyCharge(book, target(t), t.seen, cancelled)}
      BY <2>4 DEF KeepIt, t
    <3>2. target(t) \in Charges
      BY <2>0, <2>4 DEF KeepIt, Aimed, t
    <3>. QED  BY <2>0, <3>1, <3>2, SoundApply DEF applyCharge
  <2>5. CASE HearWrite(p)
    <3>1. PICK first \in oneOf(paidIn(t.seen)) : book' = heardOf(book, t, first)
      BY <2>5 DEF HearWrite, t
    <3>. QED  BY <2>0, <3>1, SoundHearing
  <2>6. CASE RelWrite(p)
    <3>1. PICK paid \in paidOf(t) : book' \in {book, releaseStrays(releasedTo(book, t, paid), t, paid)}
      BY <2>6 DEF RelWrite, t
    <3>. QED  BY <2>0, <3>1, SoundRelease
  <2>. QED  BY <1>2, <2>1, <2>2, <2>3, <2>4, <2>5, <2>6
<1>. QED  BY <1>1, <1>2, BookSteps

LEMMA CashInit ==
  ASSUME NoCash, Init
  PROVE  PaidsSure /\ CashNever /\ Aimed /\ BookSound
<1>1. CashNever
  BY DEF Init, CashNever, Cashless, NoneMade, Blank, NoStatus
<1>2. BookSound
  BY DEF Init, BookSound, Sound, EmptyBook, NoRow, NoStatus
<1>. QED  BY <1>1, <1>2, PaidsSureInit DEF Init, Aimed

\* payment-facts.ts:72 - an order that stands and holds money has told its customer; and
\* where no receipt in cash can be undone, no customer was told of money that never came.
THEOREM PaidToTold == ASSUME NoCash PROVE Spec => []PaidIsTold
<1>1. Init => HeldTold /\ PaidsSure /\ CashNever /\ Aimed /\ BookSound
  <2>1. Init => HeldTold
    BY DEF Init, HeldTold, Told, heldCharges, EmptyBook, NoRow, holdsMoney, NoStatus
  <2>. QED  BY <2>1, CashInit
<1>2. TypeOK /\ PaidsSure /\ CashNever /\ Aimed /\ BookSound /\ [Next]_vars
        => PaidsSure' /\ CashNever' /\ Aimed' /\ BookSound'
  BY TypeParts, PaidsSureStep, CashNeverStep, AimedStep, BookSoundStep
<1>3. HeldTold /\ BookSound => PaidIsTold
  BY DEF HeldTold, Told, BookSound, Sound, PaidIsTold
<1>. QED  BY <1>1, <1>2, <1>3, HeldToldStep, TypeCorrect, PTL DEF Spec

\* payment-sync.service.ts:139 - whatever the order the payments of an order were heard in,
\* and by whichever requests, one kept as one too many is never the order's own as well.
THEOREM StraysApart == ASSUME NoCash PROVE Spec => []StrayApart
<1>1. TypeOK /\ PaidsSure /\ CashNever /\ Aimed /\ BookSound /\ [Next]_vars
        => PaidsSure' /\ CashNever' /\ Aimed' /\ BookSound'
  BY TypeParts, PaidsSureStep, CashNeverStep, AimedStep, BookSoundStep
<1>2. TypeOK /\ OneLiveRow /\ BookSound => StrayApart
  <2>. SUFFICES ASSUME TypeOK, OneLiveRow, BookSound, NEW c \in Charges,
                       book.stray[c] = "ORDER_ALREADY_PAID", wasPaid(book.rows[c].status)
                PROVE  FALSE
    BY DEF StrayApart
  <2>1. PICK d \in paidCharges(book) : d # c
    BY DEF BookSound, Sound
  <2>2. d \in Charges /\ wasPaid(book.rows[d].status)
    BY DEF paidCharges
  <2>3. isLive(book.rows[c].status) /\ isLive(book.rows[d].status)
    BY <2>2, StatusKinds DEF TypeOK, Book, Row
  <2>. QED  BY <2>1, <2>2, <2>3 DEF OneLiveRow, OneLive
<1>. QED  BY <1>1, <1>2, CashInit, OneLiving, TypeCorrect, PTL DEF Spec
=============================================================================

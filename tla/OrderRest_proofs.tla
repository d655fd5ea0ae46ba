-------------------------- MODULE OrderRest_proofs --------------------------
(***************************************************************************)
(* Where claims outlast the calls they cover and a payment is final: a row *)
(* is given up on only on Asaas's word, and an order at rest agrees with   *)
(* what Asaas holds of it.                                                 *)
(***************************************************************************)
EXTENDS OrderRows_proofs

-----------------------------------------------------------------------------
(* A row is given up on only when its charge can no longer be paid.        *)
(*                                                                         *)
(* What a request read of Asaas may be old when it writes, but it ages     *)
(* well: a charge once listed is listed until it is removed, one removed   *)
(* stays so, and one found paid can neither be removed nor paid back       *)
(* (Onward).  So what it read is still worth something (Worth): the rows   *)
(* it knew and did not find again are gone, and beside a payment it found  *)
(* nothing of the order can be paid, since one charge stands at a time     *)
(* (OnePresent).                                                           *)

\* Asaas's words take no payment back: of them only the undoing of a receipt in cash would.
PaidStays == \A m \in Moves : isPaidWord(m[1]) => isPaidWord(m[2])

Made(c) == charge[c].word # NoStatus

\* The listing shows it, until it is removed.
Met(c) == Made(c) /\ charge[c].shown

\* A charge nobody made is not paid.
LEMMA NothingPaidYet == ~isPaidWord(NoStatus)
BY DEF isPaidWord, statusSaidBy, NoStatus, SaidWords, PaidAndUnsettled, wasPaid, holdsMoney

\* The steps that change what Asaas holds.
LEMMA ChargeSteps ==
  ASSUME [Next]_vars
  PROVE  \/ UNCHANGED charge
         \/ \E c : payable(c) /\ takenOut(c)
         \/ \E c \in Charges : WordMoves(c) \/ Surface(c) \/ OfferEnds(c) \/ Restore(c)
         \/ \E p \in Procs : Create(p)
<1>. DEFINE Out == \E c : payable(c) /\ takenOut(c)
<1>1. ASSUME NEW p \in Procs, Start(p) \/ CallFails(p) \/ Crash(p) PROVE UNCHANGED charge
  BY <1>1 DEF Start, Ensure, Look, Cancel, AgreeFee, Hear, Recheck, CancelDue, CallFails, Crash
<1>2. ASSUME NEW p \in Procs, RemovalUnheard(p) PROVE Out
  BY <1>2 DEF RemovalUnheard
<1>3. ASSUME NEW c, removed(c) PROVE UNCHANGED charge \/ Out
  BY <1>3 DEF removed
<1>4. ASSUME NEW p \in Procs, Sort(p) \/ RelSort(p) \/ RelFitting(p) \/ Beside(p) \/ Unwant(p)
      PROVE  UNCHANGED charge \/ Out
  <2>. HIDE DEF Out
  <2>1. UNCHANGED charge \/ \E c : removed(c)
    BY <1>4 DEF Sort, RelSort, RelFitting, Beside, Unwant
  <2>. QED  BY <1>3, <2>1
<1>5. ASSUME NEW p \in Procs, Proceed(p) PROVE UNCHANGED charge \/ Out \/ Create(p)
  <2>. HIDE DEF Out
  <2>1. Known(p) \/ List(p) \/ Renew(p) \/ GiveUp(p) \/ RecordRefusal(p) \/ Settle(p) \/ KeepIt(p)
          \/ HoldFor(p) \/ LetGo(p) => UNCHANGED charge
    BY DEF Known, List, Renew, GiveUp, RecordRefusal, Settle, KeepIt, HoldFor, LetGo
  <2>2. HearRows(p) \/ HearList(p) \/ HearMissing(p) \/ HearWrite(p) \/ Change(p) \/ Push(p)
          \/ RelRead(p) \/ RelList(p) \/ RelWrite(p) => UNCHANGED charge
    BY DEF HearRows, HearList, HearMissing, HearWrite, Change, Push, RelRead, RelList, RelWrite
  <2>. QED  BY <1>4, <1>5, <2>1, <2>2 DEF Proceed
<1>6. ClaimEnds \/ DeadlinePasses \/ ShopMovesOrder \/ UNCHANGED vars => UNCHANGED charge
  BY DEF ClaimEnds, DeadlinePasses, ShopMovesOrder, vars
<1>. QED  BY <1>1, <1>2, <1>5, <1>6 DEF Next

\* How a charge already made may move.
Onward ==
  \A c \in Charges : Made(c) =>
    /\ charge'[c].word # NoStatus
    /\ charge[c].shown => charge'[c].shown
    /\ ~present(c) => ~present(c)'
    /\ payable(c)' => payable(c)
    /\ present(c) /\ ~payable(c) => present(c)' /\ ~payable(c)'

\* Where no payment is taken back, no step undoes what a listing showed of a charge.
LEMMA MovesOnward ==
  ASSUME TypeCharge, PaidStays, ~Restores, [Next]_vars
  PROVE  Onward
<1>1. CASE UNCHANGED charge
  BY <1>1 DEF Onward, Made, present, payable
<1>2. ASSUME NEW c, payable(c), takenOut(c) PROVE Onward
  BY <1>2 DEF takenOut, TypeCharge, Charge, Onward, Made, present, payable
<1>3. ASSUME NEW c \in Charges, WordMoves(c) PROVE Onward
  <2>1. PICK w \in AsaasWords : <<charge[c].word, w>> \in Moves /\ charge' = [charge EXCEPT ![c].word = w]
    BY <1>3 DEF WordMoves
  <2>2. isPaidWord(charge[c].word) => isPaidWord(w)
    BY <2>1 DEF PaidStays
  <2>3. w # NoStatus
    BY DEF AsaasWords, SaidWords, PaidAndUnsettled, UnknownWord, NoStatus
  <2>4. /\ \A d \in Charges : charge'[d].deleted = charge[d].deleted /\ charge'[d].shown = charge[d].shown
        /\ \A d \in Charges \ {c} : charge'[d] = charge[d]
        /\ charge'[c].word = w
    BY <2>1 DEF TypeCharge, Charge
  <2>. QED  BY <2>2, <2>3, <2>4 DEF Onward, Made, present, payable
<1>4. ASSUME NEW c \in Charges, Surface(c) \/ OfferEnds(c) PROVE Onward
  BY <1>4 DEF Surface, OfferEnds, TypeCharge, Charge, Onward, Made, present, payable
<1>5. ASSUME NEW c \in Charges, Restore(c) PROVE FALSE
  BY <1>5 DEF Restore
<1>6. ASSUME NEW p \in Procs, Create(p) PROVE Onward
  <2>1. ASSUME NEW c \in Charges, NEW w, NEW shown, charge[c].word = NoStatus, made(c, talk[p].want, w, shown)
        PROVE  \A d \in Charges : Made(d) => charge'[d] = charge[d]
    BY <2>1 DEF made, TypeCharge, Made
  <2>2. \A d \in Charges : Made(d) => charge'[d] = charge[d]
    BY <1>6, <2>1 DEF Create
  <2>. QED  BY <2>2 DEF Onward, Made, present, payable
<1>. QED  BY <1>1, <1>2, <1>3, <1>4, <1>5, <1>6, ChargeSteps

\* A charge made finds the order with none, and is made alone, by the claim's holder.
LEMMA MadeAlone ==
  ASSUME ChargeInv, [Next]_vars, NEW c \in Charges, ~Made(c), Made(c)'
  PROVE  /\ \A d \in Charges : ~present(d)
         /\ \A d \in Charges \ {c} : charge'[d] = charge[d]
         /\ \E p \in Procs : Create(p) /\ claim.by = p
<1>. TypeCharge
  BY TypeParts DEF ChargeInv
<1>1. CASE UNCHANGED charge
  BY <1>1 DEF Made
<1>2. ASSUME NEW d, takenOut(d) PROVE FALSE
  BY <1>2 DEF takenOut, TypeCharge, Charge, Made
<1>3. ASSUME NEW d \in Charges, WordMoves(d) \/ Surface(d) \/ OfferEnds(d) \/ Restore(d) PROVE FALSE
  <2>1. ~WordMoves(d)
    BY DEF WordMoves, TypeCharge, Charge, Made, present
  <2>2. ~(Surface(d) \/ OfferEnds(d) \/ Restore(d))
    BY DEF Surface, OfferEnds, Restore, TypeCharge, Charge, Made
  <2>. QED  BY <1>3, <2>1, <2>2
<1>4. ASSUME NEW p \in Procs, Create(p)
      PROVE  /\ \A d \in Charges : ~present(d)
             /\ \A d \in Charges \ {c} : charge'[d] = charge[d]
             /\ claim.by = p
  <2>1. (\A d \in Charges : ~present(d)) /\ claim.by = p
    BY <1>4 DEF Create, ChargeInv, NoneLeft, HolderCreates
  <2>2. ~UNCHANGED charge
    BY DEF Made
  <2>3. PICK d \in Charges : \E w, shown : made(d, talk[p].want, w, shown)
    <3>1. \/ \E d \in Charges, w \in FirstWords : made(d, talk[p].want, w, TRUE)
          \/ \E d \in Charges, w \in FirstWords : made(d, talk[p].want, w, FALSE)
      BY <1>4, <2>2 DEF Create
    <3>. QED  BY <3>1
  <2>4. \A e \in Charges \ {d} : charge'[e] = charge[e]
    BY <2>3 DEF made, TypeCharge
  <2>5. c = d
    BY <2>4 DEF Made
  <2>. QED  BY <2>1, <2>4, <2>5
<1>. QED  BY <1>1, <1>2, <1>3, <1>4, ChargeSteps

\* One charge of the order stands at Asaas at a time.
OnePresent == \A c, d \in Charges : present(c) /\ present(d) => c = d

\* A charge is made only where the order has none, so it stands alone.
LEMMA OnePresentStep ==
  ASSUME ChargeInv, PaidStays, ~Restores, OnePresent, [Next]_vars
  PROVE  OnePresent'
<1>. SUFFICES ASSUME NEW c \in Charges, NEW d \in Charges, present(c)', present(d)', c # d
              PROVE  FALSE
  BY DEF OnePresent
<1>. Onward
  BY TypeParts, MovesOnward DEF ChargeInv
<1>1. ASSUME NEW e \in Charges, NEW f \in Charges, e # f, present(e)', present(f)'
      PROVE  Made(e)
  <2>. SUFFICES ASSUME ~Made(e) PROVE FALSE
    OBVIOUS
  <2>1. Made(e)'
    BY <1>1 DEF Made, present
  <2>2. ~present(f) /\ charge'[f] = charge[f]
    BY <1>1, <2>1, MadeAlone
  <2>. QED  BY <1>1, <2>2 DEF present
<1>2. Made(c) /\ Made(d)
  BY <1>1
<1>3. present(c) /\ present(d)
  BY <1>2 DEF Onward
<1>. QED  BY <1>3 DEF OnePresent

\* The charges a request has anything to say of.
Spoken(t) ==
  {c \in Charges : t.known[c] # NoStatus \/ t.seen[c] # NoStatus}
    \cup t.todo \cup t.paids \cup t.gone \cup ({t.keep} \ {NoCharge})

RowsMet == \A c \in Charges : book.rows[c].status # NoStatus => Met(c)

SpokenMet(p) == \A c \in Spoken(talk[p]) : Met(c)

GoneStay(p) == \A c \in talk[p].gone : ~present(c)

PaidStay(p) == \A c \in Charges : isPaidWord(talk[p].seen[c]) => present(c) /\ ~payable(c)

\* release: of the rows it knew, only what it still has to remove or keeps can be paid.
AllSorted(p) ==
  pc[p] = "rsort" =>
    \A c \in Charges : payable(c) /\ talk[p].known[c] # NoStatus => c \in talk[p].todo \/ c = talk[p].keep

\* ensure: what it found paid is all there is, while the claim is its own.
PaidAlone(p) ==
  pc[p] = "beside" /\ claim.by = p => \A c \in Charges : present(c) => talk[p].paids = {c}

MadeKnowsNone(p) == pc[p] = "settle" => \A c \in Charges : talk[p].known[c] = NoStatus

Worth(p) ==
  SpokenMet(p) /\ GoneStay(p) /\ PaidStay(p) /\ AllSorted(p) /\ PaidAlone(p) /\ MadeKnowsNone(p)

\* A charge a request speaks of, part by part.
LEMMA SpokenIs ==
  ASSUME NEW t \in Talk
  PROVE  /\ Spoken(t) \subseteq Charges
         /\ \A c \in Charges : c \in Spoken(t) <=> \/ t.known[c] # NoStatus \/ t.seen[c] # NoStatus
                                                  \/ c \in t.todo \/ c \in t.paids \/ c \in t.gone \/ c = t.keep
BY TalkFields, Sets DEF Spoken

\* What is worth something after a step: what was read of what stood before it and moved on.
LEMMA WorthAfter ==
  ASSUME TypeOK', Onward, NEW p \in Procs,
         \A c \in Spoken(talk'[p]) : Met(c) \/ Met(c)',
         \A c \in talk'[p].gone : Made(c) /\ ~present(c),
         \A c \in Charges : isPaidWord(talk'[p].seen[c])
             => (present(c) /\ ~payable(c)) \/ (present(c)' /\ ~payable(c)'),
         pc'[p] = "rsort" =>
           \A c \in Charges : payable(c)' /\ talk'[p].known[c] # NoStatus
             => c \in talk'[p].todo \/ c = talk'[p].keep,
         pc'[p] = "beside" => \A c \in Charges : present(c)' => talk'[p].paids = {c},
         pc'[p] = "settle" => \A c \in Charges : talk'[p].known[c] = NoStatus
  PROVE  Worth(p)'
<1>0. talk'[p] \in Talk
  BY DEF TypeOK
<1>1. Spoken(talk'[p]) \subseteq Charges /\ talk'[p].gone \subseteq Charges
  BY <1>0, SpokenIs, TalkFields
<1>2. \A c \in Charges : Met(c) => Met(c)'
  BY DEF Onward, Met, Made
<1>3. SpokenMet(p)'
  BY <1>1, <1>2 DEF SpokenMet, Spoken
<1>4. GoneStay(p)'
  BY <1>1 DEF GoneStay, Onward
<1>5. \A c \in Charges : present(c) => Made(c)
  BY DEF present, Made
<1>6. PaidStay(p)'
  BY <1>5 DEF PaidStay, Onward
<1>7. AllSorted(p)' /\ PaidAlone(p)' /\ MadeKnowsNone(p)'
  BY DEF AllSorted, PaidAlone, MadeKnowsNone
<1>. QED  BY <1>3, <1>4, <1>6, <1>7 DEF Worth

\* A request that reads nothing more, and goes where nothing more is asked of it.
LEMMA WorthLess ==
  ASSUME TypeOK, TypeOK', Onward, NEW p \in Procs, Worth(p),
         talk'[p].known \in {talk[p].known, Blank.known},
         talk'[p].seen \in {talk[p].seen, Blank.seen},
         talk'[p].todo \subseteq talk[p].todo, talk'[p].paids \subseteq talk[p].paids,
         talk'[p].gone \subseteq talk[p].gone, talk'[p].keep \in {talk[p].keep, NoCharge},
         pc'[p] \notin {"rsort", "beside", "settle"}
  PROVE  Worth(p)'
<1>1. talk[p] \in Talk /\ talk'[p] \in Talk
  BY DEF TypeOK
<1>2. \A c \in Charges : Blank.known[c] = NoStatus /\ Blank.seen[c] = NoStatus
  BY DEF Blank
<1>3. Spoken(talk'[p]) \subseteq Spoken(talk[p])
  BY <1>1, <1>2, SpokenIs, Sets
<1>4. \A c \in Spoken(talk'[p]) : Met(c)
  BY <1>3 DEF Worth, SpokenMet
<1>5. talk[p].gone \subseteq Spoken(talk[p])
  BY DEF Spoken
<1>6. \A c \in talk'[p].gone : Made(c) /\ ~present(c)
  BY <1>5 DEF Worth, SpokenMet, GoneStay, Met
<1>7. \A c \in Charges : isPaidWord(talk'[p].seen[c]) => present(c) /\ ~payable(c)
  BY <1>2, NothingPaidYet DEF Worth, PaidStay
<1>. QED  BY <1>4, <1>6, <1>7, WorthAfter

\* A request whose turn it is not keeps what it read.
LEMMA WorthUnmoved ==
  ASSUME ChargeInv, TypeOK', Onward, [Next]_vars, NEW q \in Procs, Worth(q),
         talk'[q] = talk[q], pc'[q] = pc[q], claim'.by = q => claim.by = q
  PROVE  Worth(q)'
<1>0. talk[q] \in Talk
  BY DEF ChargeInv, TypeOK
<1>1. \A c \in Charges : Met(c) => Met(c)'
  BY DEF Onward, Met, Made
<1>2. Spoken(talk[q]) \subseteq Charges /\ talk[q].gone \subseteq Spoken(talk[q])
  BY <1>0, SpokenIs DEF Spoken
<1>3. SpokenMet(q)'
  BY <1>1, <1>2 DEF Worth, SpokenMet, Spoken
<1>4. \A c \in Spoken(talk[q]) : Made(c)
  BY DEF Worth, SpokenMet, Met
<1>5. GoneStay(q)'
  BY <1>2, <1>4 DEF Worth, GoneStay, Onward
<1>6. PaidStay(q)'
  BY DEF Worth, PaidStay, Onward, present, Made
<1>7. AllSorted(q)'
  <2>. SUFFICES ASSUME pc[q] = "rsort", NEW c \in Charges, payable(c)', talk[q].known[c] # NoStatus
                PROVE  c \in talk[q].todo \/ c = talk[q].keep
    BY DEF AllSorted
  <2>1. c \in Spoken(talk[q])
    BY DEF Spoken
  <2>2. payable(c)
    BY <1>4, <2>1 DEF Onward
  <2>. QED  BY <2>2 DEF Worth, AllSorted
<1>8. PaidAlone(q)'
  <2>. SUFFICES ASSUME pc[q] = "beside", claim.by = q, NEW c \in Charges, present(c)'
                PROVE  talk[q].paids = {c}
    BY DEF PaidAlone
  <2>1. Made(c)
    <3>. SUFFICES ASSUME ~Made(c) PROVE FALSE
      OBVIOUS
    <3>1. Made(c)'
      BY DEF Made, present
    <3>2. \E p \in Procs : Create(p) /\ claim.by = p
      BY <3>1, MadeAlone
    <3>. QED  BY <3>2 DEF Create
  <2>2. present(c)
    BY <2>1 DEF Onward
  <2>. QED  BY <2>2 DEF Worth, PaidAlone
<1>9. MadeKnowsNone(q)'
  BY DEF Worth, MadeKnowsNone
<1>. QED  BY <1>3, <1>5, <1>6, <1>7, <1>8, <1>9 DEF Worth

\* A claim is taken by the request that steps, or let go.
LEMMA ClaimMoves ==
  ASSUME TypeOK, NEW p \in Procs, Start(p) \/ Proceed(p) \/ CallFails(p) \/ RemovalUnheard(p) \/ Crash(p)
  PROVE  claim'.by \in {claim.by, p, Nobody, Unanswered}
<1>1. Start(p) => claim' = claim \/ claim' = [by |-> p, live |-> TRUE]
  BY DEF Start, Ensure, Look, Cancel, AgreeFee, Hear, Recheck, CancelDue
<1>2. CallFails(p) \/ RemovalUnheard(p) \/ Crash(p) => claim' = claim
  BY DEF CallFails, RemovalUnheard, Crash
<1>3. Known(p) \/ List(p) \/ Sort(p) \/ Beside(p) \/ GiveUp(p) \/ Create(p) \/ RecordRefusal(p)
        \/ Unwant(p) \/ KeepIt(p) => claim' = claim
  BY DEF Known, List, Sort, Beside, GiveUp, Create, RecordRefusal, Unwant, KeepIt
<1>4. HearRows(p) \/ HearList(p) \/ HearMissing(p) \/ HearWrite(p) \/ Change(p) \/ Push(p)
        \/ RelRead(p) \/ RelList(p) \/ RelSort(p) \/ RelFitting(p) \/ RelWrite(p) => claim' = claim
  BY DEF HearRows, HearList, HearMissing, HearWrite, Change, Push, RelRead, RelList, RelSort, RelFitting, RelWrite
<1>5. Renew(p) => claim' = claim \/ claim' = [by |-> p, live |-> TRUE]
  BY DEF Renew
<1>6. Settle(p) \/ HoldFor(p) \/ LetGo(p)
        => \/ claim' = claim \/ claim' = [by |-> Nobody, live |-> FALSE]
           \/ claim' = [by |-> Unanswered, live |-> TRUE]
  BY DEF Settle, HoldFor, LetGo, heldFor
<1>. QED  BY <1>1, <1>2, <1>3, <1>4, <1>5, <1>6 DEF Proceed

\* What a request finds when it lists the account, or reads the rows.
LEMMA ListingWorth ==
  ASSUME TypeOK
  PROVE  /\ \A c \in Charges : listing[c] # NoStatus => Met(c) /\ present(c) /\ listing[c] = charge[c].word
         /\ \A c \in Charges : present(c) /\ charge[c].shown => listing[c] = charge[c].word /\ listing[c] # NoStatus
         /\ RowsMet => \A c \in Charges : statuses[c] # NoStatus => Met(c)
         /\ \A c \in Charges : isPaidWord(listing[c]) => present(c) /\ ~payable(c)
<1>1. /\ \A c \in Charges : listing[c] # NoStatus => Met(c) /\ present(c) /\ listing[c] = charge[c].word
      /\ \A c \in Charges : present(c) /\ charge[c].shown => listing[c] = charge[c].word /\ listing[c] # NoStatus
  BY DEF listing, present, Met, Made
<1>2. RowsMet => \A c \in Charges : statuses[c] # NoStatus => Met(c)
  BY DEF RowsMet, statuses
<1>3. \A c \in Charges : isPaidWord(listing[c]) => present(c) /\ ~payable(c)
  BY <1>1, NothingPaidYet DEF payable
<1>. QED  BY <1>1, <1>2, <1>3

\* A removal adds to what is gone what was removed, and to the paid what it found paid.
LEMMA RemovalWorth ==
  ASSUME TypeOK, NEW t \in Talk, NEW c \in Charges, Met(c),
         \A d \in Spoken(t) : Met(d),
         \A d \in Charges : isPaidWord(t.seen[d]) => present(d) /\ ~payable(d)
  PROVE  LET u == afterRemoval(t, c)
         IN  /\ u \in Talk
             /\ u.known = t.known /\ u.keep = t.keep /\ u.gone = t.gone /\ u.todo = t.todo \ {c}
             /\ \A d \in Spoken(u) : Met(d)
             /\ \A d \in Charges : isPaidWord(u.seen[d]) => present(d) /\ ~payable(d)
             /\ u.paids = t.paids \/ (u.paids = t.paids \cup {c} /\ present(c) /\ ~payable(c))
<1>. DEFINE u == afterRemoval(t, c)
<1>0. TypeCharge /\ t.seen \in [Charges -> AsaasWords \cup {NoStatus}]
  BY TypeParts, TalkFields
<1>1. u \in Talk
  BY <1>0, AfterRemovalType
<1>2. u.known = t.known /\ u.keep = t.keep /\ u.gone = t.gone /\ u.todo = t.todo \ {c}
  BY DEF afterRemoval, Talk
<1>3. \/ u.paids = t.paids /\ u.seen = t.seen
      \/ /\ u.paids = t.paids \cup {c} /\ u.seen = [t.seen EXCEPT ![c] = charge[c].word]
         /\ present(c) /\ ~payable(c)
  BY DEF afterRemoval, Talk
<1>. HIDE DEF u
<1>4. \A d \in Charges : d # c => u.seen[d] = t.seen[d]
  BY <1>0, <1>3
<1>5. \A d \in Spoken(u) : Met(d)
  <2>. SUFFICES ASSUME NEW d \in Spoken(u), d # c PROVE Met(d)
    OBVIOUS
  <2>1. d \in Charges
    BY <1>1, SpokenIs
  <2>2. d \in Spoken(t)
    BY <1>1, <1>2, <1>3, <1>4, <2>1, SpokenIs
  <2>. QED  BY <2>2
<1>6. \A d \in Charges : isPaidWord(u.seen[d]) => present(d) /\ ~payable(d)
  <2>. TAKE d \in Charges
  <2>1. CASE d # c
    BY <1>4, <2>1
  <2>2. CASE d = c
    BY <1>3, <2>2
  <2>. QED  BY <2>1, <2>2
<1>. QED  BY <1>1, <1>2, <1>3, <1>5, <1>6 DEF u

\* ensure: known, list, sort, beside, create.
LEMMA EnsureWorth ==
  ASSUME ChargeInv, TypeOK', PaidsSure, Onward, RowsMet, OnePresent, NEW p \in Procs, Worth(p)
  PROVE  /\ Known(p) => Worth(p)'
         /\ List(p) => Worth(p)'
         /\ Sort(p) => Worth(p)'
         /\ Beside(p) => Worth(p)'
         /\ Create(p) => Worth(p)'
<1>. TypeOK /\ TypeTalk /\ TypeCharge /\ talk[p] \in Talk /\ talk'[p] \in Talk
  BY TypeParts DEF ChargeInv, TypeTalk, TypeOK
<1>. DEFINE t == talk[p]
<1>0. /\ \A c \in Spoken(talk[p]) : Met(c)
      /\ \A c \in talk[p].gone : Made(c) /\ ~present(c)
      /\ \A c \in Charges : isPaidWord(talk[p].seen[c]) => present(c) /\ ~payable(c)
  BY DEF Worth, SpokenMet, GoneStay, PaidStay, Spoken, Met
<1>1. ASSUME Known(p) PROVE Worth(p)'
  <2>. DEFINE u == [talk[p] EXCEPT !.known = statuses]
  <2>1. UNCHANGED charge /\ talk'[p] = u /\ pc'[p] = "list"
    BY <1>1, GotoKeeps DEF Known
  <2>2. u.seen = talk[p].seen /\ u.gone = talk[p].gone /\ u.todo = talk[p].todo /\ u.paids = talk[p].paids
        /\ u.keep = talk[p].keep /\ u.known = statuses
    BY DEF Talk
  <2>. HIDE DEF u
  <2>3. \A c \in Spoken(u) : Met(c)
    BY <1>0, <2>1, <2>2, ListingWorth, SpokenIs
  <2>. QED  BY <1>0, <2>1, <2>2, <2>3, WorthAfter
<1>2. ASSUME List(p) PROVE Worth(p)'
  <2>0. UNCHANGED charge /\ talk[p].paids = {}
    BY <1>2 DEF List, PaidsSure, SureOf, Unsorted
  <2>1. /\ talk'[p].known = talk[p].known /\ talk'[p].seen = listing /\ talk'[p].gone = talk[p].gone
        /\ talk'[p].keep \in {talk[p].keep, NoCharge} \cup listedIn(listing)
        /\ talk'[p].todo \subseteq listedIn(listing) /\ talk'[p].paids \subseteq paidIn(listing)
        /\ pc'[p] \in {"beside", "sort"}
        /\ pc'[p] = "beside" => \E c \in paidIn(listing) : talk'[p].paids = {c}
    <3>1. ASSUME NEW c \in paidIn(listing),
                 say(p, [talk[p] EXCEPT !.seen = listing, !.paids = {c}, !.todo = unpaidIn(listing)])
          PROVE  /\ talk'[p].known = talk[p].known /\ talk'[p].seen = listing /\ talk'[p].gone = talk[p].gone
                 /\ talk'[p].keep = talk[p].keep
                 /\ talk'[p].todo = unpaidIn(listing) /\ talk'[p].paids = {c}
      BY <3>1 DEF say, TypeTalk, Talk
    <3>2. ASSUME NEW k \in oneOf(keepersOf(talk[p], listing)),
                 say(p, [talk[p] EXCEPT !.seen = listing, !.keep = k, !.todo = listedIn(listing) \ {k}])
          PROVE  /\ talk'[p].known = talk[p].known /\ talk'[p].seen = listing /\ talk'[p].gone = talk[p].gone
                 /\ talk'[p].keep = k /\ k \in {NoCharge} \cup listedIn(listing)
                 /\ talk'[p].todo = listedIn(listing) \ {k} /\ talk'[p].paids = {}
      <4>1. talk'[p] = [talk[p] EXCEPT !.seen = listing, !.keep = k, !.todo = listedIn(listing) \ {k}]
        BY <3>2, GotoKeeps
      <4>2. k \in {NoCharge} \cup listedIn(listing)
        BY DEF oneOf, keepersOf
      <4>. QED  BY <2>0, <4>1, <4>2 DEF Talk
    <3>3. unpaidIn(listing) \subseteq listedIn(listing) /\ \A k : listedIn(listing) \ {k} \subseteq listedIn(listing)
      BY DEF unpaidIn
    <3>4. \/ \E c \in paidIn(listing) :
               /\ say(p, [talk[p] EXCEPT !.seen = listing, !.paids = {c}, !.todo = unpaidIn(listing)])
               /\ goto(p, "beside")
          \/ /\ \E k \in oneOf(keepersOf(talk[p], listing)) :
                  say(p, [talk[p] EXCEPT !.seen = listing, !.keep = k, !.todo = listedIn(listing) \ {k}])
             /\ goto(p, "sort")
      BY <1>2 DEF List
    <3>5. CASE \E c \in paidIn(listing) :
               /\ say(p, [talk[p] EXCEPT !.seen = listing, !.paids = {c}, !.todo = unpaidIn(listing)])
               /\ goto(p, "beside")
      <4>1. PICK c \in paidIn(listing) :
               say(p, [talk[p] EXCEPT !.seen = listing, !.paids = {c}, !.todo = unpaidIn(listing)])
        BY <3>5
      <4>2. pc'[p] = "beside"
        BY <3>5, GotoKeeps
      <4>3. {c} \subseteq paidIn(listing)
        OBVIOUS
      <4>. QED  BY <3>1, <3>3, <4>1, <4>2, <4>3
    <3>6. CASE /\ \E k \in oneOf(keepersOf(talk[p], listing)) :
                  say(p, [talk[p] EXCEPT !.seen = listing, !.keep = k, !.todo = listedIn(listing) \ {k}])
               /\ goto(p, "sort")
      <4>1. PICK k \in oneOf(keepersOf(talk[p], listing)) :
               say(p, [talk[p] EXCEPT !.seen = listing, !.keep = k, !.todo = listedIn(listing) \ {k}])
        BY <3>6
      <4>2. pc'[p] = "sort"
        BY <3>6, GotoKeeps
      <4>3. /\ talk'[p].known = talk[p].known /\ talk'[p].seen = listing /\ talk'[p].gone = talk[p].gone
            /\ talk'[p].keep = k /\ k \in {NoCharge} \cup listedIn(listing)
            /\ talk'[p].todo = listedIn(listing) \ {k} /\ talk'[p].paids = {}
        BY <3>2, <4>1
      <4>. QED  BY <4>2, <4>3
    <3>. QED  BY <3>4, <3>5, <3>6
  <2>2. \A c \in listedIn(listing) : Met(c) /\ c \in Charges
    BY ListingWorth DEF listedIn
  <2>3. paidIn(listing) \subseteq listedIn(listing)
    BY DEF paidIn
  <2>4. ASSUME NEW c \in Spoken(talk'[p]) PROVE Met(c)
    <3>1. c \in Charges
      BY SpokenIs
    <3>2. c \in Spoken(talk[p]) \/ c \in listedIn(listing)
      BY <2>1, <2>3, <3>1, SpokenIs, Sets DEF listedIn
    <3>. QED  BY <1>0, <2>2, <3>2
  <2>5. pc'[p] = "beside" => \A c \in Charges : present(c)' => talk'[p].paids = {c}
    <3>. SUFFICES ASSUME NEW c \in paidIn(listing), talk'[p].paids = {c}, NEW d \in Charges, present(d)'
                  PROVE  d = c
      BY <2>1
    <3>1. present(c) /\ present(d) /\ c \in Charges
      BY <2>0, ListingWorth DEF present, paidIn, listedIn
    <3>. QED  BY <3>1 DEF OnePresent
  <2>. QED  BY <1>0, <2>1, <2>4, <2>5, ListingWorth, WorthAfter
<1>3. ASSUME Sort(p) PROVE Worth(p)'
  <2>0. pc[p] = "sort" /\ talk[p].paids = {}
    BY <1>3 DEF Sort, PaidsSure, SureOf, Unsorted
  <2>1. PICK c \in talk[p].todo :
          LET u == afterRemoval(talk[p], c)
          IN  /\ removed(c)
              /\ \/ u.paids = {} /\ say(p, u) /\ goto(p, "sort")
                 \/ /\ u.paids # {}
                    /\ say(p, [u EXCEPT !.todo = unpaidIn(u.seen)])
                    /\ goto(p, "beside")
    BY <1>3 DEF Sort
  <2>. DEFINE u == afterRemoval(talk[p], c)
  <2>2. c \in Charges /\ Met(c)
    BY <1>0, SpokenIs, TalkFields DEF Spoken
  <2>3. /\ u \in Talk
        /\ u.known = talk[p].known /\ u.gone = talk[p].gone
        /\ \A d \in Spoken(u) : Met(d)
        /\ \A d \in Charges : isPaidWord(u.seen[d]) => present(d) /\ ~payable(d)
        /\ u.paids = {} \/ (u.paids = {c} /\ present(c))
    BY <1>0, <2>0, <2>2, RemovalWorth
  <2>4. /\ talk'[p] \in {u, [u EXCEPT !.todo = unpaidIn(u.seen)]}
        /\ pc'[p] \in {"sort", "beside"}
        /\ pc'[p] = "beside" => u.paids # {}
    BY <2>1, GotoKeeps
  <2>. HIDE DEF u
  <2>5. /\ talk'[p].known = u.known /\ talk'[p].seen = u.seen /\ talk'[p].gone = u.gone
        /\ talk'[p].paids = u.paids /\ talk'[p].keep = u.keep
        /\ talk'[p].todo = u.todo \/ talk'[p].todo = unpaidIn(u.seen)
    BY <2>3, <2>4 DEF Talk
  <2>6. unpaidIn(u.seen) \subseteq Spoken(u)
    BY DEF unpaidIn, listedIn, Spoken
  <2>7. Spoken(talk'[p]) \subseteq Spoken(u)
    BY <2>3, <2>5, <2>6, SpokenIs
  <2>8. pc'[p] = "beside" => \A d \in Charges : present(d)' => talk'[p].paids = {d}
    <3>. SUFFICES ASSUME pc'[p] = "beside", NEW d \in Charges, present(d)' PROVE d = c
      BY <2>3, <2>4, <2>5
    <3>1. present(c)
      BY <2>3, <2>4
    <3>2. present(d)
      BY <2>1, <2>2 DEF removed, takenOut, present, TypeCharge, Charge
    <3>. QED  BY <2>2, <3>1, <3>2 DEF OnePresent
  <2>. QED  BY <1>0, <2>3, <2>4, <2>5, <2>7, <2>8, WorthAfter
<1>4. ASSUME Beside(p) PROVE Worth(p)'
  <2>1. PICK c \in talk[p].todo :
       /\ say(p, [talk[p] EXCEPT !.todo = @ \ {c}])
       /\ removed(c) \/ UNCHANGED charge
    BY <1>4 DEF Beside
  <2>2. /\ pc'[p] = "beside" /\ pc[p] = "beside" /\ claim' = claim
        /\ talk'[p].known = talk[p].known /\ talk'[p].seen = talk[p].seen
        /\ talk'[p].todo \subseteq talk[p].todo /\ talk'[p].gone = talk[p].gone
        /\ talk'[p].paids = talk[p].paids /\ talk'[p].keep = talk[p].keep
    BY <1>4, <2>1 DEF Beside, say, TypeTalk, Talk
  <2>3. c \in Charges
    BY TalkFields
  <2>4. \A d \in Charges : present(d)' => present(d)
    BY <2>1, <2>3 DEF removed, takenOut, present, TypeCharge, Charge
  <2>5. Spoken(talk'[p]) \subseteq Spoken(talk[p])
    BY <2>2, SpokenIs
  <2>6. SpokenMet(p)' /\ GoneStay(p)' /\ PaidStay(p)'
    <3>1. \A d \in Charges : Met(d) => Met(d)'
      BY DEF Onward, Met, Made
    <3>2. \A d \in Spoken(talk'[p]) : Met(d) /\ d \in Charges
      BY <1>0, <2>5, SpokenIs
    <3>3. SpokenMet(p)'
      BY <3>1, <3>2 DEF SpokenMet, Spoken
    <3>4. \A d \in talk'[p].gone : d \in Charges /\ Made(d) /\ ~present(d)
      BY <1>0, <2>2, TalkFields
    <3>5. GoneStay(p)'
      BY <3>4 DEF GoneStay, Onward
    <3>. QED  BY <1>0, <2>2, <3>3, <3>5 DEF PaidStay, Onward, present, Made
  <2>7. AllSorted(p)' /\ MadeKnowsNone(p)'
    BY <2>2 DEF AllSorted, MadeKnowsNone
  <2>8. PaidAlone(p)'
    BY <2>2, <2>4 DEF Worth, PaidAlone
  <2>. QED  BY <2>6, <2>7, <2>8 DEF Worth
<1>5. ASSUME Create(p) PROVE Worth(p)'
  <2>1. CASE UNCHANGED talk /\ pc'[p] \in {"refused", "hold"}
    BY <1>0, <2>1, WorthAfter
  <2>2. CASE ~(UNCHANGED talk /\ pc'[p] \in {"refused", "hold"})
    <3>1. PICK c \in Charges, w \in FirstWords :
            /\ made(c, talk[p].want, w, TRUE)
            /\ say(p, [talk[p] EXCEPT !.keep = c, !.seen[c] = w, !.known = Blank.known])
            /\ goto(p, "settle")
      BY <1>5, <2>2, GotoKeeps DEF Create
    <3>2. /\ talk'[p] = [talk[p] EXCEPT !.keep = c, !.seen[c] = w, !.known = Blank.known]
          /\ pc'[p] = "settle"
      BY <3>1, GotoKeeps
    <3>3. /\ talk'[p].known = Blank.known /\ talk'[p].keep = c /\ talk'[p].seen = [talk[p].seen EXCEPT ![c] = w]
          /\ talk'[p].todo = talk[p].todo /\ talk'[p].paids = talk[p].paids /\ talk'[p].gone = talk[p].gone
      BY <3>2 DEF Talk
    <3>4. /\ \A d \in Charges : talk'[p].known[d] = NoStatus
          /\ \A d \in Charges : talk'[p].seen[d] = IF d = c THEN w ELSE talk[p].seen[d]
      BY <3>3, TalkFields DEF Blank
    <3>5. charge'[c].word = w /\ charge'[c].shown /\ ~charge'[c].deleted /\ w # NoStatus
      <4>1. w # NoStatus
        BY Words DEF AsaasWords, SaidWords, PaidAndUnsettled, UnknownWord, NoStatus
      <4>. QED  BY <3>1, <4>1 DEF made, TypeCharge
    <3>6. Met(c)' /\ present(c)' /\ (isPaidWord(w) => ~payable(c)')
      BY <3>5 DEF Met, Made, present, payable
    <3>7. ASSUME NEW d \in Spoken(talk'[p]) PROVE Met(d) \/ Met(d)'
      <4>1. d \in Charges
        BY SpokenIs
      <4>2. d = c \/ d \in Spoken(talk[p])
        BY <3>3, <3>4, <4>1, SpokenIs
      <4>. QED  BY <1>0, <3>6, <4>2
    <3>8. ASSUME NEW d \in Charges, isPaidWord(talk'[p].seen[d])
          PROVE  (present(d) /\ ~payable(d)) \/ (present(d)' /\ ~payable(d)')
      BY <1>0, <3>4, <3>6, <3>8
    <3>9. pc'[p] \notin {"rsort", "beside"} /\ \A d \in talk'[p].gone : Made(d) /\ ~present(d)
      BY <1>0, <3>2, <3>3
    <3>. QED  BY <3>4, <3>7, <3>8, <3>9, WorthAfter
  <2>. QED  BY <2>1, <2>2
<1>. QED  BY <1>1, <1>2, <1>3, <1>4, <1>5

\* PaymentSync.sync: hread, hlist, hmiss.
LEMMA HearWorth ==
  ASSUME ChargeInv, TypeOK', Onward, RowsMet, NEW p \in Procs, Worth(p)
  PROVE  /\ HearRows(p) => Worth(p)'
         /\ HearList(p) => Worth(p)'
         /\ HearMissing(p) => Worth(p)'
<1>. TypeOK /\ TypeTalk /\ talk[p] \in Talk /\ talk'[p] \in Talk
  BY TypeParts DEF ChargeInv, TypeTalk, TypeOK
<1>0. /\ \A c \in Spoken(talk[p]) : Met(c)
      /\ \A c \in talk[p].gone : Made(c) /\ ~present(c)
      /\ \A c \in Charges : isPaidWord(talk[p].seen[c]) => present(c) /\ ~payable(c)
  BY DEF Worth, SpokenMet, GoneStay, PaidStay, Spoken, Met
<1>1. ASSUME HearRows(p) PROVE Worth(p)'
  <2>. DEFINE u == [talk[p] EXCEPT !.known = statuses]
  <2>1. UNCHANGED charge /\ talk'[p] = u /\ pc'[p] = "hlist"
    BY <1>1, GotoKeeps DEF HearRows
  <2>2. u.seen = talk[p].seen /\ u.gone = talk[p].gone /\ u.todo = talk[p].todo /\ u.paids = talk[p].paids
        /\ u.keep = talk[p].keep /\ u.known = statuses
    BY DEF Talk
  <2>. HIDE DEF u
  <2>3. \A c \in Spoken(u) : Met(c)
    BY <1>0, <2>1, <2>2, ListingWorth, SpokenIs
  <2>. QED  BY <1>0, <2>1, <2>2, <2>3, WorthAfter
<1>2. ASSUME HearList(p) PROVE Worth(p)'
  <2>. DEFINE S == {c \in Charges : waits(talk[p].known[c]) /\ listing[c] = NoStatus}
              u == [talk[p] EXCEPT !.seen = listing, !.todo = S]
  <2>1. UNCHANGED charge /\ talk'[p] = u /\ pc'[p] = "hmiss"
    BY <1>2, GotoKeeps DEF HearList
  <2>2. \A c \in S : talk[p].known[c] # NoStatus
    BY DEF waits, NoStatus
  <2>. HIDE DEF S
  <2>3. u.seen = listing /\ u.gone = talk[p].gone /\ u.todo = S /\ u.paids = talk[p].paids
        /\ u.keep = talk[p].keep /\ u.known = talk[p].known
    BY DEF Talk
  <2>. HIDE DEF u
  <2>4. \A c \in Spoken(u) : Met(c)
    <3>. SUFFICES ASSUME NEW c \in Spoken(u) PROVE Met(c)
      OBVIOUS
    <3>1. c \in Spoken(talk[p]) \/ listing[c] # NoStatus
      BY <2>1, <2>2, <2>3, SpokenIs
    <3>2. c \in Charges
      BY <2>1, SpokenIs
    <3>. QED  BY <1>0, <3>1, <3>2, ListingWorth
  <2>. QED  BY <1>0, <2>1, <2>3, <2>4, ListingWorth, WorthAfter
<1>3. ASSUME HearMissing(p) PROVE Worth(p)'
  <2>1. PICK c \in talk[p].todo :
       say(p, IF present(c) THEN [talk[p] EXCEPT !.todo = @ \ {c}, !.seen[c] = charge[c].word]
                            ELSE [talk[p] EXCEPT !.todo = @ \ {c}, !.gone = @ \cup {c}])
    BY <1>3 DEF HearMissing
  <2>2. c \in Charges /\ Met(c)
    BY <1>0, TalkFields DEF Spoken
  <2>3. UNCHANGED <<charge, pc>> /\ pc[p] = "hmiss"
    BY <1>3 DEF HearMissing
  <2>4. CASE present(c)
    <3>. DEFINE u == [talk[p] EXCEPT !.todo = @ \ {c}, !.seen[c] = charge[c].word]
    <3>1. talk'[p] = u
      BY <2>1, <2>4, GotoKeeps
    <3>2. u.seen = [talk[p].seen EXCEPT ![c] = charge[c].word] /\ u.gone = talk[p].gone
          /\ u.todo = talk[p].todo \ {c} /\ u.paids = talk[p].paids
          /\ u.keep = talk[p].keep /\ u.known = talk[p].known
      BY DEF Talk
    <3>. HIDE DEF u
    <3>3. \A d \in Charges : u.seen[d] = IF d = c THEN charge[c].word ELSE talk[p].seen[d]
      BY <3>2, TalkFields
    <3>4. \A d \in Spoken(u) : Met(d)
      <4>. SUFFICES ASSUME NEW d \in Spoken(u), d # c PROVE Met(d)
        BY <2>2
      <4>1. d \in Charges
        BY <3>1, SpokenIs
      <4>2. u \in Talk /\ u.seen[d] = talk[p].seen[d]
        BY <3>1, <3>3, <4>1
      <4>3. \/ u.known[d] # NoStatus \/ u.seen[d] # NoStatus \/ d \in u.todo \/ d \in u.paids
            \/ d \in u.gone \/ d = u.keep
        BY <4>1, <4>2, SpokenIs
      <4>4. d \in Spoken(talk[p])
        BY <3>2, <4>1, <4>2, <4>3, SpokenIs
      <4>. QED  BY <1>0, <4>4
    <3>5. ASSUME NEW d \in Charges, isPaidWord(u.seen[d]) PROVE present(d) /\ ~payable(d)
      BY <1>0, <2>4, <3>3, <3>5 DEF payable
    <3>. QED  BY <1>0, <2>3, <3>1, <3>2, <3>4, <3>5, WorthAfter
  <2>5. CASE ~present(c)
    <3>. DEFINE u == [talk[p] EXCEPT !.todo = @ \ {c}, !.gone = @ \cup {c}]
    <3>1. talk'[p] = u
      BY <2>1, <2>5, GotoKeeps
    <3>2. u.seen = talk[p].seen /\ u.gone = talk[p].gone \cup {c}
          /\ u.todo = talk[p].todo \ {c} /\ u.paids = talk[p].paids
          /\ u.keep = talk[p].keep /\ u.known = talk[p].known
      BY DEF Talk
    <3>. HIDE DEF u
    <3>3. \A d \in Spoken(u) : Met(d)
      <4>. SUFFICES ASSUME NEW d \in Spoken(u), d # c PROVE Met(d)
        BY <2>2
      <4>1. d \in Spoken(talk[p])
        BY <3>1, <3>2, SpokenIs
      <4>. QED  BY <1>0, <4>1
    <3>4. \A d \in u.gone : Made(d) /\ ~present(d)
      BY <1>0, <2>2, <2>5, <3>2 DEF Met
    <3>. QED  BY <1>0, <2>3, <3>1, <3>2, <3>3, <3>4, WorthAfter
  <2>. QED  BY <2>4, <2>5
<1>. QED  BY <1>1, <1>2, <1>3

\* release: rread, rlist, rsort.
LEMMA ReleaseWorth ==
  ASSUME ChargeInv, TypeOK', Onward, RowsMet, NEW p \in Procs, Worth(p)
  PROVE  /\ RelRead(p) => Worth(p)'
         /\ RelList(p) => Worth(p)'
         /\ RelSort(p) => Worth(p)'
         /\ RelFitting(p) => Worth(p)'
<1>. TypeOK /\ TypeTalk /\ TypeCharge /\ talk[p] \in Talk /\ talk'[p] \in Talk
  BY TypeParts DEF ChargeInv, TypeTalk, TypeOK
<1>0. /\ \A c \in Spoken(talk[p]) : Met(c)
      /\ \A c \in talk[p].gone : Made(c) /\ ~present(c)
      /\ \A c \in Charges : isPaidWord(talk[p].seen[c]) => present(c) /\ ~payable(c)
  BY DEF Worth, SpokenMet, GoneStay, PaidStay, Spoken, Met
<1>1. ASSUME RelRead(p) PROVE Worth(p)'
  <2>1. CASE finish(p)
    <3>1. talk'[p] = Blank /\ pc'[p] = "idle"
      BY <2>1 DEF finish, goto, say, TypeTalk
    <3>. QED  BY <3>1, WorthLess DEF Blank
  <2>2. CASE ~finish(p)
    <3>. DEFINE u == [talk[p] EXCEPT !.known = statuses, !.off = cancelled, !.want = wantedNow]
    <3>1. UNCHANGED charge /\ talk'[p] = u /\ pc'[p] = "rlist"
      BY <1>1, <2>2, GotoKeeps DEF RelRead
    <3>2. u.seen = talk[p].seen /\ u.gone = talk[p].gone /\ u.todo = talk[p].todo /\ u.paids = talk[p].paids
          /\ u.keep = talk[p].keep /\ u.known = statuses
      BY DEF Talk
    <3>. HIDE DEF u
    <3>3. \A c \in Spoken(u) : Met(c)
      BY <1>0, <3>1, <3>2, ListingWorth, SpokenIs
    <3>. QED  BY <1>0, <3>1, <3>2, <3>3, WorthAfter
  <2>. QED  BY <2>1, <2>2
<1>2. ASSUME RelList(p) PROVE Worth(p)'
  <2>1. PICK k \in oneOf(fittingOf(talk[p], listing)) :
          say(p, [talk[p] EXCEPT !.seen = listing, !.keep = k, !.paids = paidIn(listing),
                              !.todo = unpaidIn(listing) \ {k}])
    BY <1>2 DEF RelList
  <2>2. /\ UNCHANGED charge /\ pc'[p] = "rsort"
        /\ talk'[p] = [talk[p] EXCEPT !.seen = listing, !.keep = k, !.paids = paidIn(listing),
                              !.todo = unpaidIn(listing) \ {k}]
    BY <1>2, <2>1, GotoKeeps DEF RelList
  <2>3. talk'[p].seen = listing /\ talk'[p].gone = talk[p].gone /\ talk'[p].todo = unpaidIn(listing) \ {k}
        /\ talk'[p].paids = paidIn(listing) /\ talk'[p].keep = k /\ talk'[p].known = talk[p].known
    BY <2>2 DEF Talk
  <2>4. k \in {NoCharge} \cup listedIn(listing)
    BY DEF oneOf, fittingOf, unpaidIn
  <2>5. paidIn(listing) \subseteq listedIn(listing) /\ unpaidIn(listing) \subseteq listedIn(listing)
    BY DEF paidIn, unpaidIn
  <2>6. ASSUME NEW c \in Spoken(talk'[p]) PROVE Met(c)
    <3>1. c \in Charges
      BY SpokenIs
    <3>2. c \in Spoken(talk[p]) \/ c \in listedIn(listing)
      BY <2>3, <2>4, <2>5, <3>1, SpokenIs, Sets DEF listedIn
    <3>. QED  BY <1>0, <3>1, <3>2, ListingWorth DEF listedIn
  <2>7. ASSUME NEW c \in Charges, payable(c)', talk'[p].known[c] # NoStatus
        PROVE  c \in talk'[p].todo \/ c = talk'[p].keep
    <3>1. payable(c) /\ present(c)
      BY <2>2, <2>7 DEF payable, present
    <3>2. charge[c].shown
      BY <1>0, <2>3, <2>7 DEF Spoken, Met
    <3>3. listing[c] # NoStatus /\ ~isPaidWord(listing[c])
      BY <3>1, <3>2, ListingWorth DEF payable
    <3>4. c \in unpaidIn(listing)
      BY <3>3 DEF unpaidIn, paidIn, listedIn
    <3>. QED  BY <2>3, <3>4
  <2>. QED  BY <1>0, <2>2, <2>3, <2>6, <2>7, ListingWorth, WorthAfter
<1>3. ASSUME RelSort(p) PROVE Worth(p)'
  <2>1. PICK c \in talk[p].todo : removed(c) /\ say(p, afterRemoval(talk[p], c))
    BY <1>3 DEF RelSort
  <2>. DEFINE u == afterRemoval(talk[p], c)
  <2>2. c \in Charges /\ Met(c)
    BY <1>0, TalkFields DEF Spoken
  <2>3. /\ u \in Talk
        /\ u.known = talk[p].known /\ u.keep = talk[p].keep /\ u.gone = talk[p].gone
        /\ u.todo = talk[p].todo \ {c}
        /\ \A d \in Spoken(u) : Met(d)
        /\ \A d \in Charges : isPaidWord(u.seen[d]) => present(d) /\ ~payable(d)
    BY <1>0, <2>2, RemovalWorth
  <2>4. talk'[p] = u /\ pc'[p] = pc[p] /\ pc[p] = "rsort"
    BY <1>3, <2>1, GotoKeeps DEF RelSort
  <2>. HIDE DEF u
  <2>5. ~payable(c)' /\ \A d \in Charges : payable(d)' => payable(d)
    BY <2>1, <2>2 DEF removed, takenOut, payable, present, TypeCharge, Charge
  <2>6. ASSUME NEW d \in Charges, payable(d)', talk'[p].known[d] # NoStatus
        PROVE  d \in talk'[p].todo \/ d = talk'[p].keep
    <3>1. d # c /\ payable(d)
      BY <2>5, <2>6
    <3>. QED  BY <2>3, <2>4, <2>6, <3>1 DEF Worth, AllSorted
  <2>. QED  BY <1>0, <2>3, <2>4, <2>6, WorthAfter
<1>4. ASSUME RelFitting(p) PROVE Worth(p)'
  <2>0. talk[p].keep \in Charges /\ talk[p].todo = {}
    BY <1>4, TalkFields DEF RelFitting, besidePaid
  <2>2. PICK c \in Charges : c = talk[p].keep
    BY <2>0
  <2>1. /\ removed(c) /\ pc'[p] = pc[p] /\ pc[p] = "rsort"
        /\ talk'[p] = [talk[p] EXCEPT !.keep = NoCharge]
    BY <1>4, <2>2, GotoKeeps DEF RelFitting
  <2>3. talk'[p].seen = talk[p].seen /\ talk'[p].gone = talk[p].gone /\ talk'[p].todo = talk[p].todo
        /\ talk'[p].paids = talk[p].paids /\ talk'[p].keep = NoCharge /\ talk'[p].known = talk[p].known
    BY <2>1 DEF Talk
  <2>4. \A d \in Spoken(talk'[p]) : Met(d)
    BY <1>0, <2>3, SpokenIs, Sets
  <2>5. ~payable(c)' /\ \A d \in Charges : payable(d)' => payable(d)
    BY <2>1, <2>2 DEF removed, takenOut, payable, present, TypeCharge, Charge
  <2>6. ASSUME NEW d \in Charges, payable(d)', talk'[p].known[d] # NoStatus PROVE FALSE
    <3>1. d # c /\ payable(d)
      BY <2>5, <2>6
    <3>. QED  BY <2>0, <2>1, <2>2, <2>3, <2>6, <3>1 DEF Worth, AllSorted
  <2>. QED  BY <1>0, <2>1, <2>3, <2>4, <2>6, WorthAfter
<1>. QED  BY <1>1, <1>2, <1>3, <1>4

\* Every other step of a request reads nothing more of Asaas.
LEMMA RestWorth ==
  ASSUME ChargeInv, TypeOK', Onward, NEW p \in Procs, Worth(p)
  PROVE  /\ Start(p) => Worth(p)'
         /\ Renew(p) \/ GiveUp(p) \/ RecordRefusal(p) \/ Settle(p) \/ Unwant(p) \/ KeepIt(p)
              \/ HoldFor(p) \/ LetGo(p) => Worth(p)'
         /\ HearWrite(p) \/ Change(p) \/ Push(p) \/ RelWrite(p) => Worth(p)'
         /\ CallFails(p) \/ RemovalUnheard(p) \/ Crash(p) => Worth(p)'
<1>. TypeOK /\ TypeTalk
  BY TypeParts DEF ChargeInv
<1>. DEFINE Away == pc'[p] \notin {"rsort", "beside", "settle"}
            left == [Blank EXCEPT !.kind = talk[p].kind,
                       !.seen = IF talk[p].kind = "unpaid" THEN talk[p].seen ELSE Blank.seen]
            Less == \/ talk'[p] \in {talk[p], left, Blank} \/ \E kind : talk'[p] = [Blank EXCEPT !.kind = kind]
                    \/ \E kind, want : talk'[p] = [Blank EXCEPT !.kind = kind, !.want = want]
<1>0. Less /\ Away => Worth(p)'
  <2>1. CASE talk'[p] = talk[p] /\ Away
    BY <2>1, WorthLess
  <2>2. CASE talk'[p] = left /\ Away
    BY <2>2, WorthLess DEF Blank
  <2>3. ASSUME NEW kind, NEW want, talk'[p] = [Blank EXCEPT !.kind = kind, !.want = want], Away
        PROVE  Worth(p)'
    BY <2>3, WorthLess DEF Blank
  <2>4. ASSUME NEW kind, talk'[p] = [Blank EXCEPT !.kind = kind], Away
        PROVE  Worth(p)'
    BY <2>4, WorthLess DEF Blank
  <2>5. CASE talk'[p] = Blank /\ Away
    BY <2>5, WorthLess DEF Blank
  <2>. QED  BY <2>1, <2>2, <2>3, <2>4, <2>5
<1>1. finish(p) => Less /\ Away
  BY DEF finish, goto, say, TypeTalk
<1>2. ASSUME NEW kind, say(p, [Blank EXCEPT !.kind = kind]) PROVE Less
  BY <1>2 DEF say, TypeTalk
<1>3. failed(p) => Less /\ Away
  <2>. HIDE DEF Less
  <2>1. UNCHANGED talk => Less
    BY DEF Less
  <2>2. \A place : goto(p, place) => pc'[p] = place
    BY GotoKeeps
  <2>. QED  BY <1>1, <1>2, <2>1, <2>2 DEF failed
<1>4. ASSUME NEW kind, NEW place \in Places \ {"rsort", "beside", "settle"}, NEW want, begin(p, kind, place, want)
      PROVE  Less /\ Away
  BY <1>4 DEF begin, goto, say, TypeTalk
<1>5. Start(p) => Less /\ Away
  <2>. HIDE DEF Less
  <2>1. {"known", "hread", "rread", "change"} \subseteq Places \ {"rsort", "beside", "settle"}
    BY DEF Places
  <2>2. Start(p) => \E kind, want : \E place \in {"known", "hread", "rread", "change"} : begin(p, kind, place, want)
    BY DEF Start, Ensure, Look, Cancel, AgreeFee, Hear, Recheck, CancelDue, hearOf
  <2>. QED  BY <1>4, <2>1, <2>2
<1>6. Renew(p) \/ GiveUp(p) \/ RecordRefusal(p) \/ Settle(p) \/ Unwant(p) \/ KeepIt(p)
              \/ HoldFor(p) \/ LetGo(p) => Less /\ Away
  <2>1. Renew(p) \/ GiveUp(p) \/ RecordRefusal(p) \/ Unwant(p) \/ KeepIt(p) => talk' = talk /\ Away
    BY GotoKeeps DEF Renew, GiveUp, RecordRefusal, Unwant, KeepIt
  <2>2. Settle(p) \/ HoldFor(p) \/ LetGo(p) => finish(p) \/ (talk' = talk /\ Away)
    BY GotoKeeps DEF Settle, HoldFor, LetGo
  <2>. HIDE DEF Away
  <2>. QED  BY <1>1, <2>1, <2>2
<1>7. HearWrite(p) \/ Change(p) \/ Push(p) \/ RelWrite(p) => Less /\ Away
  <2>1. Push(p) \/ RelWrite(p) => finish(p)
    BY DEF Push, RelWrite
  <2>2. Change(p) => finish(p) \/ (talk' = talk /\ Away)
    BY GotoKeeps DEF Change
  <2>3. HearWrite(p) => finish(p) \/ (say(p, left) /\ \E place \in {"rread", "push", "change"} : goto(p, place))
    BY DEF HearWrite
  <2>4. say(p, left) /\ (\E place \in {"rread", "push", "change"} : goto(p, place)) => Less /\ Away
    BY GotoKeeps
  <2>. HIDE DEF left, Less, Away
  <2>5. talk' = talk => Less
    BY DEF Less
  <2>. QED  BY <1>1, <2>1, <2>2, <2>3, <2>4, <2>5
<1>8. CallFails(p) \/ RemovalUnheard(p) \/ Crash(p) => Less /\ Away
  <2>. HIDE DEF Less, Away
  <2>1. CallFails(p) \/ RemovalUnheard(p) \/ Crash(p) => failed(p) \/ finish(p)
    BY DEF CallFails, RemovalUnheard, Crash
  <2>. QED  BY <1>1, <1>3, <2>1
<1>. HIDE DEF Less, Away
<1>. QED  BY <1>0, <1>5, <1>6, <1>7, <1>8

\* What a request read is worth as much after any step, its own or another's.
LEMMA WorthStep ==
  ASSUME ChargeInv, PaidsSure, TypeOK', Onward, RowsMet, OnePresent,
         \A p \in Procs : Worth(p), [Next]_vars
  PROVE  \A q \in Procs : Worth(q)'
<1>. TypeOK /\ TypeTalk
  BY TypeParts DEF ChargeInv
<1>1. ASSUME UNCHANGED <<pc, talk>>, claim'.by = claim.by PROVE \A q \in Procs : Worth(q)'
  BY <1>1, WorthUnmoved
<1>2. ASSUME NEW p \in Procs, Start(p) \/ Proceed(p) \/ CallFails(p) \/ RemovalUnheard(p) \/ Crash(p)
      PROVE  \A q \in Procs : Worth(q)'
  <2>1. Worth(p)'
    BY <1>2, EnsureWorth, HearWorth, ReleaseWorth, RestWorth DEF Proceed
  <2>2. ASSUME NEW q \in Procs \ {p} PROVE Worth(q)'
    <3>1. pc'[q] = pc[q] /\ talk'[q] = talk[q]
      BY <1>2, OthersStayPut DEF OthersStay
    <3>2. claim'.by = q => claim.by = q
      BY <1>2, ClaimMoves, Sets
    <3>. QED  BY <3>1, <3>2, WorthUnmoved
  <2>. QED  BY <2>1, <2>2
<1>3. ASSUME NEW c \in Charges, WordMoves(c) \/ Surface(c) \/ OfferEnds(c) \/ Restore(c)
      PROVE  UNCHANGED <<pc, talk, claim>>
  BY <1>3 DEF WordMoves, Surface, OfferEnds, Restore
<1>4. ClaimEnds \/ DeadlinePasses \/ ShopMovesOrder \/ UNCHANGED vars
        => UNCHANGED <<pc, talk>> /\ claim'.by = claim.by
  BY DEF ClaimEnds, DeadlinePasses, ShopMovesOrder, vars, TypeOK
<1>. QED  BY <1>1, <1>2, <1>3, <1>4 DEF Next

\* Which rows a writer gives a status to.
LEMMA CancelRowsNew ==
  ASSUME NEW b \in Book, NEW gone, NEW c \in Charges
  PROVE  cancelRows(b, gone).rows[c].status # NoStatus <=> b.rows[c].status # NoStatus
BY CancelRowsRow DEF waits, NoStatus

\* Applying charges to a book leaves the rows of other charges alone.
LEMMA ApplyChargesNew ==
  ASSUME NEW b \in Book, NEW S, NEW words, NEW off, NEW c \in Charges, c \notin S
  PROVE  applyCharges(b, S, words, off).rows[c] = b.rows[c]
BY ApplyChargesRow

\* A request writes rows only of charges it read of.
LEMMA RowsFrom ==
  ASSUME TypeOK, [Next]_vars, NEW c \in Charges,
         book.rows[c].status = NoStatus, book'.rows[c].status # NoStatus
  PROVE  \E p \in Procs : c \in Spoken(talk[p])
<1>. book \in Book /\ TypeTalk /\ cancelled \in BOOLEAN
  BY TypeParts, ViewTypes
<1>1. ASSUME NEW p \in Procs,
             RecordRefusal(p) \/ GiveUp(p) \/ Settle(p) \/ KeepIt(p) \/ HearWrite(p) \/ RelWrite(p),
             c \notin Spoken(talk[p])
      PROVE  book'.rows[c].status = NoStatus
  <2>. DEFINE t == talk[p]
  <2>0. t \in Talk /\ t.seen \in [Charges -> AsaasWords \cup {NoStatus}]
        /\ t.seen[c] = NoStatus /\ c \notin t.paids /\ c # t.keep
        /\ target(t) \in t.paids \cup {t.keep}
    BY <1>1, TalkFields, SpokenIs DEF TypeTalk, target
  <2>. HIDE DEF t
  <2>1. CASE RecordRefusal(p)
    BY <2>1 DEF RecordRefusal, recordRefusal, Book
  <2>2. CASE GiveUp(p)
    BY <2>2, CancelRowsNew DEF GiveUp
  <2>3. CASE Settle(p)
    <3>. DEFINE d == target(t)
                g == cancelRows(book, rowsKnown(t) \ {d})
    <3>1. book' \in {book, noteStrays(book, {d}, "ORDER_ALREADY_PAID"), applyCharge(g, d, t.seen, cancelled)}
      BY <2>3 DEF Settle, t
    <3>2. g \in Book /\ g.rows[c].status = NoStatus /\ c # d
      BY <2>0, CancelRowsType, CancelRowsNew
    <3>. HIDE DEF g, d
    <3>3. applyCharge(g, d, t.seen, cancelled).rows[c] = g.rows[c]
      BY <3>2, ApplyChargesNew DEF applyCharge
    <3>. QED  BY <3>1, <3>2, <3>3, NoteStraysRow
  <2>4. CASE KeepIt(p)
    <3>1. book' \in {book, applyCharge(book, target(t), t.seen, cancelled)}
      BY <2>4 DEF KeepIt, t
    <3>2. c \notin {target(t)}
      BY <2>0
    <3>. QED  BY <3>1, <3>2, ApplyChargesNew DEF applyCharge
  <2>5. CASE HearWrite(p)
    <3>1. PICK first \in oneOf(paidIn(t.seen)) : book' = heardOf(book, t, first)
      BY <2>5 DEF HearWrite, t
    <3>. DEFINE given == cancelRows(book, t.gone)
                S == listedIn(t.seen) \cap liveCharges(given)
                a == appliedTo(book, t)
                h == takenBy(a, t, first)
                empty == cancelRows(a, liveCharges(a))
                w == applyCharge(empty, first, t.seen, cancelled)
    <3>2. a \in Book /\ h \in Book /\ given \in Book
      BY <2>0, HeardOfType, CancelRowsType
    <3>3. a.rows[c].status = NoStatus
      <4>1. c \notin S
        BY <2>0 DEF listedIn
      <4>2. given.rows[c].status = NoStatus
        BY CancelRowsNew
      <4>. HIDE DEF given, S
      <4>3. applyCharges(given, S, t.seen, cancelled).rows[c] = given.rows[c]
        BY <3>2, <4>1, ApplyChargesNew
      <4>. QED  BY <4>2, <4>3 DEF appliedTo, given, S
    <3>4. c # first
      BY <2>0, Sets, NothingPaidYet DEF oneOf, paidIn
    <3>. HIDE DEF a
    <3>5. empty \in Book /\ empty.rows[c].status = NoStatus
      BY <3>2, <3>3, CancelRowsNew, CancelRowsType
    <3>. HIDE DEF empty
    <3>6. w \in Book /\ w.rows[c].status = NoStatus
      BY <2>0, <3>4, <3>5, ApplyChargesNew, ApplyChargesType DEF applyCharge
    <3>7. \/ h = a
          \/ \E R : h = noteStrays(a, R, "ORDER_ALREADY_PAID")
          \/ \E R : h = noteStrays(w, R, "ORDER_ALREADY_PAID")
      BY DEF takenBy, empty
    <3>. HIDE DEF h, w
    <3>8. h.rows[c].status = NoStatus
      BY <3>2, <3>3, <3>6, <3>7, NoteStraysRow
    <3>9. heardOf(book, t, first).rows = h.rows
      BY <3>2, NoteStraysRow DEF heardOf, h, a
    <3>. QED  BY <3>1, <3>8, <3>9
  <2>6. CASE RelWrite(p)
    <3>1. PICK paid \in paidOf(t) : book' \in {book, releaseStrays(releasedTo(book, t, paid), t, paid)}
      BY <2>6 DEF RelWrite, t
    <3>. DEFINE kept == IF paid = NoCharge THEN t.keep ELSE paid
                g == cancelRows(book, rowsKnown(t) \ {kept})
                b == releasedTo(book, t, paid)
    <3>2. c # kept
      BY <2>0, Sets DEF paidOf, oneOf
    <3>3. g \in Book /\ g.rows[c].status = NoStatus
      BY CancelRowsType, CancelRowsNew
    <3>4. b \in {g, applyCharge(g, kept, t.seen, cancelled)}
      BY DEF releasedTo
    <3>5. b \in Book
      BY <2>0, ReleasedType
    <3>. HIDE DEF g, kept, b
    <3>6. b.rows[c].status = NoStatus
      BY <3>2, <3>3, <3>4, ApplyChargesNew DEF applyCharge
    <3>7. releaseStrays(b, t, paid).rows = b.rows
      <4>1. \A S : noteStrays(b, S, "ORDER_CANCELLED") \in Book /\ noteStrays(b, S, "ORDER_CANCELLED").rows = b.rows
        BY <3>5, NoteStraysType, NoteStraysRow DEF StrayReasons
      <4>. QED  BY <4>1, NoteStraysRow DEF releaseStrays
    <3>. QED  BY <3>1, <3>6, <3>7 DEF b
  <2>. QED  BY <1>1, <2>1, <2>2, <2>3, <2>4, <2>5, <2>6
<1>. QED  BY <1>1, BookSteps

\* Inductive: one living charge, what was read of it worth as much, rows only of charges shown.
RowsInv == ChargeInv /\ PaidsSure /\ RowsMet /\ OnePresent /\ \A p \in Procs : Worth(p)

\* Before the first request nothing is made, read or written.
LEMMA RowsInvInit == Init => RowsInv
<1>. SUFFICES ASSUME Init PROVE RowsInv
  OBVIOUS
<1>1. RowsMet
  BY DEF Init, RowsMet, EmptyBook, NoRow
<1>2. OnePresent /\ \A c \in Charges : ~present(c)
  BY DEF Init, OnePresent, present, NoneMade
<1>3. \A p \in Procs : Worth(p)
  <2>. TAKE p \in Procs
  <2>1. talk[p] = Blank /\ pc[p] = "idle"
    BY DEF Init
  <2>2. Spoken(Blank) = {} /\ Blank.gone = {} /\ \A c \in Charges : Blank.seen[c] = NoStatus
    BY DEF Spoken, Blank
  <2>. QED  BY <2>1, <2>2, NothingPaidYet DEF Worth, SpokenMet, GoneStay, PaidStay, AllSorted, PaidAlone, MadeKnowsNone
<1>. QED  BY <1>1, <1>2, <1>3, ChargeInvInit, PaidsSureInit DEF RowsInv

\* No step breaks any part of it.
LEMMA RowsInvNext ==
  ASSUME Timely, ~Restores, PaidStays
  PROVE  RowsInv /\ [Next]_vars => RowsInv'
<1>. SUFFICES ASSUME RowsInv, [Next]_vars PROVE RowsInv'
  OBVIOUS
<1>. /\ ChargeInv /\ TypeOK /\ TypeCharge /\ PaidsSure /\ RowsMet /\ OnePresent
     /\ \A p \in Procs : Worth(p)
  BY TypeParts DEF RowsInv, ChargeInv
<1>1. ChargeInv' /\ TypeOK' /\ PaidsSure' /\ Onward /\ OnePresent'
  BY ChargeInvNext, PaidsSureStep, MovesOnward, OnePresentStep DEF ChargeInv
<1>2. RowsMet'
  <2>. SUFFICES ASSUME NEW c \in Charges, book'.rows[c].status # NoStatus PROVE Met(c)'
    BY DEF RowsMet
  <2>1. Met(c)
    <3>1. CASE book.rows[c].status # NoStatus
      BY <3>1 DEF RowsMet
    <3>2. CASE book.rows[c].status = NoStatus
      BY <3>2, RowsFrom DEF Worth, SpokenMet
    <3>. QED  BY <3>1, <3>2
  <2>. QED  BY <1>1, <2>1 DEF Onward, Met, Made
<1>3. \A q \in Procs : Worth(q)'
  BY <1>1, WorthStep
<1>. QED  BY <1>1, <1>2, <1>3 DEF RowsInv

\* Writing what Asaas says cancels no row that waits.
LEMMA ApplyCancelsNone ==
  ASSUME NEW b \in Book, NEW S, NEW words \in [Charges -> AsaasWords \cup {NoStatus}], NEW off,
         NEW c \in Charges, isLive(b.rows[c].status)
  PROVE  isLive(applyCharges(b, S, words, off).rows[c].status)
<1>1. CASE c \in S
  <2>1. b.rows[c].status \in RowStatuses /\ b.rows[c].word \in AsaasWords \cup {NoStatus}
    BY DEF isLive, Book, Row
  <2>2. applyCharges(b, S, words, off).rows[c] = written(b, c, words[c])
    BY <1>1, ApplyChargesRow
  <2>. QED  BY <2>1, <2>2, LivingStaysLiving DEF written
<1>2. CASE c \notin S
  BY <1>2, ApplyChargesRow
<1>. QED  BY <1>1, <1>2

\* A row that waits for its payment is alive, and one given up on is not.
LEMMA CancelledIsDead == \A s : (waits(s) => isLive(s)) /\ ~isLive("CANCELLED")
BY DEF waits, isLive, RowStatuses, DeadStatuses

\* What a settling gives up on: rows known of charges other than the one it writes.
LEMMA SettleLeaves ==
  ASSUME RowsInv, NEW p \in Procs, Settle(p), NEW c \in Charges,
         waits(book.rows[c].status), book'.rows[c].status = "CANCELLED"
  PROVE  ~payable(c)
<1>. /\ TypeOK /\ TypeTalk /\ book \in Book /\ cancelled \in BOOLEAN /\ talk[p] \in Talk /\ Worth(p)
     /\ PaidsSure /\ SortHasAll
  BY TypeParts, ViewTypes DEF RowsInv, ChargeInv, TypeTalk
<1>. DEFINE t == talk[p]
            d == target(t)
            g == cancelRows(book, rowsKnown(t) \ {d})
<1>0. t.seen \in [Charges -> AsaasWords \cup {NoStatus}] /\ d \in t.paids \cup {t.keep} /\ d # NoCharge
      /\ (t.paids = {} => d = t.keep) /\ (t.paids # {} => d \in t.paids) /\ t.todo = {}
      /\ pc[p] \in {"sort", "beside", "settle"}
  BY TalkFields DEF target, Settle
<1>1. /\ claim.by = p
      /\ book' = applyCharge(g, d, t.seen, cancelled)
  <2>1. \A S : noteStrays(book, S, "ORDER_ALREADY_PAID").rows = book.rows
    BY NoteStraysRow
  <2>2. book'.rows # book.rows
    BY CancelledIsDead
  <2>. QED  BY <2>1, <2>2 DEF Settle
<1>. HIDE DEF t, d
<1>2. c \in rowsKnown(t) \ {d}
  <2>. SUFFICES ASSUME c \notin rowsKnown(t) \ {d} PROVE FALSE
    OBVIOUS
  <2>1. g \in Book /\ g.rows[c].status = book.rows[c].status
    BY CancelRowsType, CancelRowsRow
  <2>. HIDE DEF g
  <2>. QED  BY <1>0, <1>1, <2>1, ApplyCancelsNone, CancelledIsDead DEF applyCharge
<1>3. CASE pc[p] = "settle"
  BY <1>2, <1>3 DEF Worth, MadeKnowsNone, rowsKnown, t
<1>4. CASE pc[p] = "sort"
  <2>1. t.paids = {}
    BY <1>4 DEF PaidsSure, SureOf, Unsorted, t
  <2>. QED  BY <1>0, <1>1, <1>2, <1>4, <2>1 DEF SortHasAll, payable, t
<1>5. CASE pc[p] = "beside"
  <2>1. present(c) => t.paids = {c}
    BY <1>1, <1>5 DEF Worth, PaidAlone, t
  <2>. QED  BY <1>0, <1>2, <2>1 DEF payable
<1>. QED  BY <1>0, <1>3, <1>4, <1>5

\* What a hearing gives up on: what Asaas denied, and what stands beside a payment.
LEMMA HearLeaves ==
  ASSUME RowsInv, NEW p \in Procs, HearWrite(p), NEW c \in Charges,
         waits(book.rows[c].status), book'.rows[c].status = "CANCELLED"
  PROVE  ~payable(c)
<1>. /\ TypeOK /\ TypeTalk /\ book \in Book /\ cancelled \in BOOLEAN /\ talk[p] \in Talk /\ Worth(p) /\ OnePresent
  BY TypeParts, ViewTypes DEF RowsInv, ChargeInv, TypeTalk
<1>. DEFINE t == talk[p]
            given == cancelRows(book, t.gone)
            S == listedIn(t.seen) \cap liveCharges(given)
            a == appliedTo(book, t)
<1>0. t.seen \in [Charges -> AsaasWords \cup {NoStatus}]
  BY TalkFields
<1>1. PICK first \in oneOf(paidIn(t.seen)) : book' = heardOf(book, t, first)
  BY DEF HearWrite
<1>. HIDE DEF t
<1>. DEFINE h == takenBy(a, t, first)
            empty == cancelRows(a, liveCharges(a))
            w == applyCharge(empty, first, t.seen, cancelled)
<1>2. a \in Book /\ h \in Book /\ given \in Book
  BY <1>0, HeardOfType, CancelRowsType DEF t
<1>3. CASE c \in t.gone
  BY <1>3 DEF Worth, GoneStay, payable, t
<1>4. CASE c \notin t.gone
  <2>1. isLive(a.rows[c].status)
    <3>1. isLive(given.rows[c].status)
      BY <1>4, CancelRowsRow, CancelledIsDead
    <3>. HIDE DEF given, S
    <3>2. isLive(applyCharges(given, S, t.seen, cancelled).rows[c].status)
      BY <1>0, <1>2, <3>1, ApplyCancelsNone
    <3>. QED  BY <3>2 DEF appliedTo, given, S
  <2>. HIDE DEF a
  <2>2. empty \in Book /\ w \in Book
    BY <1>0, <1>2, CancelRowsType, ApplyChargesType, <1>1 DEF applyCharge
  <2>3. book'.rows = h.rows
    BY <1>1, <1>2, NoteStraysRow DEF heardOf, h, a
  <2>4. ~isLive(h.rows[c].status)
    BY <2>3, CancelledIsDead
  <2>5. first # NoCharge /\ h.rows = w.rows
    <3>1. \A Q : noteStrays(a, Q, "ORDER_ALREADY_PAID").rows = a.rows
      BY <1>2, NoteStraysRow
    <3>2. h # a /\ h.rows # a.rows
      BY <2>1, <2>4
    <3>3. paidCharges(a) = {} /\ first # NoCharge
      BY <3>1, <3>2 DEF takenBy
    <3>4. h = noteStrays(w, paidIn(t.seen) \ {first}, "ORDER_ALREADY_PAID")
      BY <3>3 DEF takenBy
    <3>. HIDE DEF w
    <3>. QED  BY <2>2, <3>3, <3>4, NoteStraysRow
  <2>6. first \in paidIn(t.seen) /\ first \in Charges
    BY <1>1, <2>5 DEF oneOf, paidIn, listedIn
  <2>7. present(first) /\ ~payable(first)
    BY <2>6 DEF Worth, PaidStay, paidIn, t
  <2>. QED  BY <2>6, <2>7 DEF OnePresent, payable
<1>. QED  BY <1>3, <1>4

\* What a release gives up on: rows known of charges it removed or found no more.
LEMMA ReleaseLeaves ==
  ASSUME RowsInv, NEW p \in Procs, RelWrite(p), NEW c \in Charges,
         waits(book.rows[c].status), book'.rows[c].status = "CANCELLED"
  PROVE  ~payable(c)
<1>. /\ TypeOK /\ TypeTalk /\ book \in Book /\ cancelled \in BOOLEAN /\ talk[p] \in Talk /\ Worth(p)
  BY TypeParts, ViewTypes DEF RowsInv, ChargeInv, TypeTalk
<1>. DEFINE t == talk[p]
<1>0. t.seen \in [Charges -> AsaasWords \cup {NoStatus}] /\ t.todo = {} /\ ~besidePaid(t) /\ pc[p] = "rsort"
  BY TalkFields DEF RelWrite
<1>1. PICK paid \in paidOf(t) : book' \in {book, releaseStrays(releasedTo(book, t, paid), t, paid)}
  BY DEF RelWrite
<1>. DEFINE kept == IF paid = NoCharge THEN t.keep ELSE paid
            g == cancelRows(book, rowsKnown(t) \ {kept})
            b == releasedTo(book, t, paid)
<1>2. b \in {g, applyCharge(g, kept, t.seen, cancelled)} /\ b \in Book /\ g \in Book
  BY <1>0, ReleasedType, CancelRowsType DEF releasedTo
<1>. HIDE DEF t
<1>3. book' # book
  BY CancelledIsDead
<1>. HIDE DEF b
<1>4. releaseStrays(b, t, paid).rows = b.rows
  <2>1. \A Q : noteStrays(b, Q, "ORDER_CANCELLED") \in Book /\ noteStrays(b, Q, "ORDER_CANCELLED").rows = b.rows
    BY <1>2, NoteStraysType, NoteStraysRow DEF StrayReasons
  <2>. QED  BY <2>1, NoteStraysRow DEF releaseStrays
<1>5. b.rows[c].status = "CANCELLED"
  BY <1>1, <1>3, <1>4 DEF b
<1>6. c \in rowsKnown(t) \ {kept}
  <2>. SUFFICES ASSUME c \notin rowsKnown(t) \ {kept} PROVE FALSE
    OBVIOUS
  <2>1. g.rows[c].status = book.rows[c].status
    BY CancelRowsRow
  <2>. HIDE DEF g, kept
  <2>. QED  BY <1>0, <1>2, <1>5, <2>1, ApplyCancelsNone, CancelledIsDead DEF applyCharge
<1>7. payable(c) => c = t.keep
  BY <1>0, <1>6 DEF Worth, AllSorted, rowsKnown, t
<1>8. t.paids = {} \/ t.keep = NoCharge
  BY <1>0 DEF besidePaid
<1>9. t.paids = {} => paid = NoCharge
  BY DEF paidOf, oneOf
<1>. QED  BY <1>6, <1>7, <1>8, <1>9, Sets

\* A step that gives up on a waiting row does so on a charge that cannot be paid.
LEMMA RowLeavesStep ==
  ASSUME RowsInv, [Next]_vars, NEW c \in Charges,
         waits(book.rows[c].status), book'.rows[c].status = "CANCELLED"
  PROVE  ~payable(c)
<1>. TypeOK /\ TypeTalk /\ book \in Book /\ cancelled \in BOOLEAN /\ NoneLeft
  BY TypeParts, ViewTypes DEF RowsInv, ChargeInv
<1>0. book' # book
  BY CancelledIsDead
<1>1. ASSUME NEW p \in Procs, RecordRefusal(p) PROVE FALSE
  BY <1>1, CancelledIsDead DEF RecordRefusal, recordRefusal, Book
<1>2. ASSUME NEW p \in Procs, GiveUp(p) PROVE ~payable(c)
  BY <1>2 DEF GiveUp, NoneLeft, payable
<1>3. ASSUME NEW p \in Procs, KeepIt(p) PROVE FALSE
  <2>1. talk[p].seen \in [Charges -> AsaasWords \cup {NoStatus}]
    BY TalkFields DEF TypeTalk
  <2>2. book' = applyCharges(book, {target(talk[p])}, talk[p].seen, cancelled)
    BY <1>0, <1>3 DEF KeepIt, applyCharge
  <2>. QED  BY <2>1, <2>2, ApplyCancelsNone, CancelledIsDead
<1>. QED  BY <1>0, <1>1, <1>2, <1>3, BookSteps, SettleLeaves, HearLeaves, ReleaseLeaves

\* payment-facts.ts:155 - a waiting row is given up on only when Asaas no longer holds
\* its charge to be paid, however long ago the rows and the listing were read.
THEOREM RowsLeaveOnAsaasWord ==
  ASSUME Timely, ~Restores, PaidStays
  PROVE  Spec => RowLeavesOnAsaasWord
<1>1. RowsInv /\ [Next]_vars =>
        [\A c \in Charges : waits(book.rows[c].status) /\ book'.rows[c].status = "CANCELLED" => ~payable(c)]_vars
  BY RowLeavesStep
<1>. QED  BY <1>1, RowsInvInit, RowsInvNext, PTL DEF Spec, RowLeavesOnAsaasWord

-----------------------------------------------------------------------------
(* An order at rest agrees with Asaas.                                     *)
(*                                                                         *)
(* QuietAgrees speaks of the order at rest; that its two claims hold then  *)
(* rests on who is at work until then.  A charge that can be paid has      *)
(* somebody at work on it as long as no row names it, and once the order   *)
(* is cancelled, whoever made it or whoever releases it (Answered); money  *)
(* that arrived is kept, or an event of it waits or is being heard         *)
(* (MoneyHeard).  Both hold while no call failed, none died: after that    *)
(* the reconciliation is what brings them back, and it takes its time.     *)

\* A creation carries no card, so no charge is born paid (order-payments.service.ts:303).
BornUnpaid == \A w \in FirstWords : ~isPaidWord(w)

\* No call failed and no process died so far.
NothingFailed == budget.faults = MaxFaults

FaultsLeft == budget.faults <= MaxFaults

\* Only a request asked for and a failure spend the budget.
LEMMA Spends ==
  ASSUME [Next]_vars
  PROVE  UNCHANGED budget \/ ask \/ fault
<1>1. ASSUME NEW p \in Procs, Start(p) \/ CallFails(p) \/ RemovalUnheard(p) \/ Crash(p)
      PROVE  UNCHANGED budget \/ ask \/ fault
  BY <1>1 DEF Start, Ensure, Look, Cancel, AgreeFee, Hear, Recheck, CancelDue, CallFails, RemovalUnheard, Crash
<1>2. ASSUME NEW c \in Charges, WordMoves(c) \/ Surface(c) \/ OfferEnds(c) \/ Restore(c)
      PROVE  UNCHANGED budget \/ fault
  BY <1>2 DEF WordMoves, Surface, OfferEnds, Restore
<1>3. ClaimEnds \/ DeadlinePasses \/ ShopMovesOrder \/ UNCHANGED vars => UNCHANGED budget
  BY DEF ClaimEnds, DeadlinePasses, ShopMovesOrder, vars
<1>4. ASSUME NEW p \in Procs, Proceed(p) PROVE UNCHANGED budget \/ fault
  <2>1. Known(p) \/ List(p) \/ Sort(p) \/ Renew(p) \/ GiveUp(p) \/ RecordRefusal(p)
          \/ Settle(p) \/ KeepIt(p) \/ HoldFor(p) \/ LetGo(p) => UNCHANGED budget
    BY DEF Known, List, Sort, Renew, GiveUp, RecordRefusal, Settle, KeepIt, HoldFor, LetGo
  <2>2. Beside(p) \/ Create(p) \/ Unwant(p) => UNCHANGED budget \/ fault
    BY DEF Beside, Create, Unwant
  <2>3. HearRows(p) \/ HearList(p) \/ HearMissing(p) \/ HearWrite(p) \/ Change(p) \/ Push(p)
          \/ RelRead(p) \/ RelList(p) \/ RelSort(p) \/ RelFitting(p) \/ RelWrite(p) => UNCHANGED budget
    BY DEF HearRows, HearList, HearMissing, HearWrite, Change, Push, RelRead, RelList, RelSort, RelFitting, RelWrite
  <2>. QED  BY <1>4, <2>1, <2>2, <2>3 DEF Proceed
<1>. QED  BY <1>1, <1>2, <1>3, <1>4 DEF Next

\* A run without a failure had none before.
LEMMA FaultsStep ==
  ASSUME TypeOK, FaultsLeft, [Next]_vars
  PROVE  /\ FaultsLeft'
         /\ NothingFailed' => NothingFailed /\ ~fault
<1>1. budget \in [asks : Nat, faults : Nat]
  BY DEF TypeOK
<1>2. ask => budget'.faults = budget.faults
  BY <1>1 DEF ask
<1>3. fault => budget'.faults = budget.faults - 1
  BY <1>1 DEF fault
<1>4. budget'.faults \in {budget.faults, budget.faults - 1} /\ budget.faults \in Nat /\ MaxFaults \in Nat
  BY <1>1, <1>2, <1>3, Spends, Bounds
<1>5. FaultsLeft'
  BY <1>4 DEF FaultsLeft
<1>6. NothingFailed' => NothingFailed
  BY <1>4 DEF FaultsLeft, NothingFailed
<1>7. NothingFailed' => ~fault
  BY <1>3, <1>4 DEF FaultsLeft, NothingFailed
<1>. QED  BY <1>5, <1>6, <1>7

\* The steps taken while nothing fails.
CleanNext ==
  \/ \E p \in Procs : Start(p) \/ Proceed(p)
  \/ UNCHANGED <<pc, talk>> /\ claim'.by = claim.by

\* Where nothing fails, a request starts or proceeds, or no request moves.
LEMMA CleanSteps ==
  ASSUME TypeOK, [Next]_vars, ~fault
  PROVE  CleanNext
<1>1. ASSUME NEW p \in Procs PROVE ~(CallFails(p) \/ RemovalUnheard(p) \/ Crash(p))
  BY DEF CallFails, RemovalUnheard, Crash
<1>2. ASSUME NEW c \in Charges, WordMoves(c) \/ Surface(c) \/ OfferEnds(c) \/ Restore(c)
      PROVE  UNCHANGED <<pc, talk, claim>>
  BY <1>2 DEF WordMoves, Surface, OfferEnds, Restore
<1>3. ClaimEnds \/ DeadlinePasses \/ ShopMovesOrder \/ UNCHANGED vars
        => UNCHANGED <<pc, talk>> /\ claim'.by = claim.by
  BY DEF ClaimEnds, DeadlinePasses, ShopMovesOrder, vars, TypeOK
<1>. QED  BY <1>1, <1>2, <1>3 DEF Next, CleanNext

\* The listing shows what stands, as long as no creation went unanswered.
AllShown == NothingFailed => \A c \in Charges : present(c) => charge[c].shown

\* What the holder of the claim is about to settle, or removes again, is all there is.
Aims ==
  \A q \in Procs : pc[q] \in {"settle", "unwant"} /\ claim.by = q =>
    \A c \in Charges : present(c) => target(talk[q]) = c

\* Where nothing fails, the charge made is listed at once, and its maker goes on to settle it.
LEMMA MadeInOrder ==
  ASSUME ChargeInv, [Next]_vars, ~fault, NEW c \in Charges, ~Made(c), Made(c)'
  PROVE  \E p \in Procs :
           /\ Create(p) /\ claim.by = p /\ claim' = claim
           /\ pc'[p] = "settle" /\ talk'[p].keep = c /\ talk'[p].paids = talk[p].paids
           /\ charge'[c].shown /\ charge'[c].word \in FirstWords
<1>. TypeCharge /\ TypeTalk
  BY TypeParts DEF ChargeInv
<1>1. PICK p \in Procs : Create(p) /\ claim.by = p
  BY MadeAlone
<1>2. ~UNCHANGED charge
  BY DEF Made
<1>3. PICK d \in Charges, w \in FirstWords :
         /\ charge[d].word = NoStatus
         /\ made(d, talk[p].want, w, TRUE)
         /\ say(p, [talk[p] EXCEPT !.keep = d, !.seen[d] = w, !.known = Blank.known])
         /\ goto(p, "settle")
  BY <1>1, <1>2 DEF Create
<1>4. d = c /\ charge'[c].shown /\ charge'[c].word = w
  BY <1>3 DEF made, TypeCharge, Made
<1>5. talk'[p].keep = d /\ talk'[p].paids = talk[p].paids
  BY <1>3 DEF say, TypeTalk, Talk
<1>6. claim' = claim
  BY <1>1 DEF Create
<1>. QED  BY <1>1, <1>3, <1>4, <1>5, <1>6, GotoKeeps

\* Where nothing fails, what stands at Asaas is what a listing shows.
LEMMA AllShownStep ==
  ASSUME ChargeInv, FaultsLeft, Onward, AllShown, [Next]_vars
  PROVE  AllShown'
<1>. SUFFICES ASSUME NothingFailed', NEW c \in Charges, present(c)' PROVE charge'[c].shown
  BY DEF AllShown
<1>0. NothingFailed /\ ~fault
  BY FaultsStep DEF ChargeInv
<1>1. CASE Made(c)
  BY <1>0, <1>1 DEF Onward, AllShown
<1>2. CASE ~Made(c)
  BY <1>0, <1>2, MadeInOrder DEF Made, present
<1>. QED  BY <1>1, <1>2

\* Only the holder of the claim makes a charge, and it settles the one it made or found.
LEMMA AimsStep ==
  ASSUME ChargeInv, PaidsSure, Onward, Aims, \A p \in Procs : Worth(p), [Next]_vars
  PROVE  Aims'
<1>. TypeOK /\ TypeTalk
  BY TypeParts DEF ChargeInv
<1>. SUFFICES ASSUME NEW q \in Procs, pc'[q] \in {"settle", "unwant"}, claim'.by = q,
                     NEW c \in Charges, present(c)'
              PROVE  target(talk'[q]) = c
  BY DEF Aims, target
<1>1. ASSUME ~Made(c), ~Create(q) PROVE FALSE
  <2>1. PICK p \in Procs : Create(p) /\ claim.by = p
    BY <1>1, MadeAlone DEF Made, present
  <2>2. claim' = claim
    BY <2>1 DEF Create
  <2>. QED  BY <1>1, <2>1, <2>2
<1>2. ASSUME Made(c) PROVE present(c)
  BY <1>2 DEF Onward
<1>3. CASE pc'[q] = pc[q] /\ talk'[q] = talk[q] /\ (claim'.by = q => claim.by = q)
  <2>1. ~Create(q)
    BY <1>3 DEF Create
  <2>. QED  BY <1>1, <1>2, <1>3, <2>1 DEF Aims
<1>4. ASSUME Start(q) \/ Proceed(q) \/ CallFails(q) \/ RemovalUnheard(q) \/ Crash(q)
      PROVE  target(talk'[q]) = c
  <2>. DEFINE t == talk[q]
  <2>1. Create(q) \/ Settle(q)
    <3>. DEFINE Off == pc'[q] \notin {"settle", "unwant"}
    <3>0. (\A place : goto(q, place) => Off \/ place \in {"settle", "unwant"}) /\ (finish(q) => Off)
      BY GotoKeeps
    <3>00. UNCHANGED pc /\ pc[q] \notin {"settle", "unwant"} => Off
      OBVIOUS
    <3>. HIDE DEF Off
    <3>1. Start(q) => Off
      <4>1. Start(q) => \E kind, want : \E place \in {"known", "hread", "rread", "change"} : begin(q, kind, place, want)
        BY DEF Start, Ensure, Look, Cancel, AgreeFee, Hear, Recheck, CancelDue, hearOf
      <4>. QED  BY <3>0, <4>1 DEF begin
    <3>2. CallFails(q) \/ RemovalUnheard(q) \/ Crash(q) => Off
      <4>1. failed(q) => Off
        BY <3>0 DEF failed
      <4>2. CallFails(q) \/ RemovalUnheard(q) \/ Crash(q) => failed(q) \/ finish(q)
        BY DEF CallFails, RemovalUnheard, Crash
      <4>. QED  BY <3>0, <4>1, <4>2
    <3>3. Known(q) \/ List(q) \/ Sort(q) \/ Renew(q) \/ GiveUp(q) \/ RecordRefusal(q) \/ KeepIt(q) => Off
      <4>1. List(q) \/ Sort(q) => goto(q, "beside") \/ goto(q, "sort")
        BY DEF List, Sort
      <4>2. Renew(q) => goto(q, "giveup") \/ goto(q, "letgo")
        BY DEF Renew
      <4>3. Known(q) \/ GiveUp(q) \/ RecordRefusal(q) \/ KeepIt(q)
              => goto(q, "list") \/ goto(q, "create") \/ goto(q, "letgo")
        BY DEF Known, GiveUp, RecordRefusal, KeepIt
      <4>. QED  BY <3>0, <4>1, <4>2, <4>3
    <3>4. Unwant(q) => Off
      BY <3>0 DEF Unwant
    <3>5. HoldFor(q) \/ LetGo(q) \/ HearRows(q) \/ HearList(q) \/ Change(q) \/ Push(q) => Off
      BY <3>0 DEF HoldFor, LetGo, HearRows, HearList, Change, Push
    <3>6. RelRead(q) \/ RelList(q) \/ RelWrite(q) => Off
      <4>1. RelRead(q) \/ RelList(q) \/ RelWrite(q) => goto(q, "rlist") \/ goto(q, "rsort") \/ finish(q)
        BY DEF RelRead, RelList, RelWrite
      <4>. QED  BY <3>0, <4>1
    <3>7. Beside(q) \/ HearMissing(q) \/ RelSort(q) \/ RelFitting(q) => Off
      BY <3>00 DEF Beside, HearMissing, RelSort, RelFitting
    <3>8. HearWrite(q) => Off
      <4>1. HearWrite(q) => finish(q) \/ \E place \in {"rread", "push", "change"} : goto(q, place)
        BY DEF HearWrite
      <4>. QED  BY <3>0, <4>1
    <3>9. ~Off
      BY DEF Off
    <3>. QED  BY <1>4, <3>1, <3>2, <3>3, <3>4, <3>5, <3>6, <3>7, <3>8, <3>9 DEF Proceed
  <2>2. CASE Create(q)
    <3>1. ~present(c) /\ t.paids = {} /\ ~Made(c)
      <4>1. ~present(c)
        BY <2>2 DEF ChargeInv, NoneLeft, Create
      <4>. QED  BY <1>2, <2>2, <4>1 DEF PaidsSure, SureOf, Unsorted, Create
    <3>2. PICK d \in Charges, w \in FirstWords :
            /\ made(d, t.want, w, TRUE)
            /\ say(q, [t EXCEPT !.keep = d, !.seen[d] = w, !.known = Blank.known])
      <4>1. pc'[q] # "refused" /\ pc'[q] # "hold"
        OBVIOUS
      <4>. QED  BY <2>2, <4>1, GotoKeeps DEF Create
    <3>3. d = c
      BY <3>1, <3>2 DEF made, Made, present, ChargeInv, TypeOK
    <3>4. talk'[q].keep = d /\ talk'[q].paids = {}
      BY <3>1, <3>2 DEF say, TypeTalk, Talk
    <3>. QED  BY <3>3, <3>4 DEF target
  <2>3. CASE Settle(q)
    <3>1. talk'[q] = t /\ claim.by = q /\ UNCHANGED charge
      BY <2>3, GotoKeeps DEF Settle
    <3>2. present(c) /\ t.todo = {} /\ pc[q] \in {"sort", "beside", "settle"}
      BY <2>3, <3>1 DEF Settle, present
    <3>3. CASE pc[q] = "settle"
      BY <3>1, <3>2, <3>3 DEF Aims
    <3>4. CASE pc[q] = "sort"
      <4>1. t.paids = {}
        BY <3>4 DEF PaidsSure, SureOf, Unsorted
      <4>2. c = t.keep
        BY <3>1, <3>2, <3>4 DEF ChargeInv, SortHasAll
      <4>. QED  BY <3>1, <4>1, <4>2 DEF target
    <3>5. CASE pc[q] = "beside"
      <4>1. t.paids = {c}
        BY <3>1, <3>2, <3>5 DEF Worth, PaidAlone
      <4>. QED  BY <3>1, <4>1 DEF target
    <3>. QED  BY <3>2, <3>3, <3>4, <3>5
  <2>. QED  BY <2>1, <2>2, <2>3
<1>5. ASSUME NEW p \in Procs \ {q}, Start(p) \/ Proceed(p) \/ CallFails(p) \/ RemovalUnheard(p) \/ Crash(p)
      PROVE  pc'[q] = pc[q] /\ talk'[q] = talk[q] /\ (claim'.by = q => claim.by = q)
  <2>1. claim'.by \in {claim.by, p, Nobody, Unanswered}
    BY <1>5, ClaimMoves
  <2>. QED  BY <1>5, <2>1, OthersStayPut, Sets DEF OthersStay
<1>6. ASSUME NEW d \in Charges, WordMoves(d) \/ Surface(d) \/ OfferEnds(d) \/ Restore(d)
      PROVE  pc'[q] = pc[q] /\ talk'[q] = talk[q] /\ claim'.by = claim.by
  BY <1>6 DEF WordMoves, Surface, OfferEnds, Restore
<1>7. ClaimEnds \/ DeadlinePasses \/ ShopMovesOrder \/ UNCHANGED vars
        => pc'[q] = pc[q] /\ talk'[q] = talk[q] /\ claim'.by = claim.by
  BY DEF ClaimEnds, DeadlinePasses, ShopMovesOrder, vars, TypeOK
<1>. QED  BY <1>3, <1>4, <1>5, <1>6, <1>7 DEF Next

\* No row names a charge.
Unnamed == \A c \in Charges : book.rows[c].status = NoStatus

\* The holder of the claim has yet to list the account, or to write or take out what it found or made.
Led == \E q \in Procs : claim.by = q /\ pc[q] \in {"known", "list", "sort", "settle", "unwant"}

\* A release has yet to read what the order wants, or to take the charge out.
Outing(p, c) ==
  \/ pc[p] = "rread"
  \/ pc[p] = "rlist" /\ talk[p].want = Open
  \/ pc[p] = "rsort" /\ c \in talk[p].todo

\* A charge that can be paid is answered for: before it has a row, and once the order is cancelled.
NewIsLed == NothingFailed /\ Unnamed => \A c \in Charges : payable(c) => Led

OffIsLed ==
  NothingFailed /\ cancelled => \A c \in Charges : payable(c) => Led \/ \E p \in Procs : Outing(p, c)

Answered == FaultsLeft /\ AllShown /\ Aims /\ NewIsLed /\ OffIsLed

\* A request gets the claim free, from its own hands, or as it begins to ensure.
LEMMA ClaimTaken ==
  ASSUME NEW p \in Procs, Start(p) \/ Proceed(p), claim'.by # claim.by
  PROVE  claim.by = p \/ (claim'.by = p /\ goto(p, "known"))
<1>1. Start(p) => claim' = claim \/ (claim' = [by |-> p, live |-> TRUE] /\ goto(p, "known"))
  BY DEF Start, Ensure, Look, Cancel, AgreeFee, Hear, Recheck, CancelDue, begin
<1>2. Known(p) \/ List(p) \/ Sort(p) \/ Beside(p) \/ GiveUp(p) \/ Create(p) \/ RecordRefusal(p)
        \/ Unwant(p) \/ KeepIt(p) => claim' = claim
  BY DEF Known, List, Sort, Beside, GiveUp, Create, RecordRefusal, Unwant, KeepIt
<1>3. HearRows(p) \/ HearList(p) \/ HearMissing(p) \/ HearWrite(p) \/ Change(p) \/ Push(p)
        \/ RelRead(p) \/ RelList(p) \/ RelSort(p) \/ RelFitting(p) \/ RelWrite(p) => claim' = claim
  BY DEF HearRows, HearList, HearMissing, HearWrite, Change, Push, RelRead, RelList, RelSort, RelFitting, RelWrite
<1>4. Renew(p) => claim' = claim \/ claim.by = p
  BY DEF Renew, mayRenew
<1>5. Settle(p) \/ HoldFor(p) \/ LetGo(p) => claim' = claim \/ claim.by = p
  BY DEF Settle, HoldFor, LetGo, heldFor
<1>. QED  BY <1>1, <1>2, <1>3, <1>4, <1>5 DEF Proceed

\* While a charge can be paid its holder goes on to write it, or to take it out.
LEMMA LedMoves ==
  ASSUME ChargeInv, PaidsSure, OnePresent, Aims, \A p \in Procs : Worth(p), [Next]_vars, ~fault,
         Led, NEW c \in Charges, payable(c), payable(c)'
  PROVE  \/ Led'
         \/ \E p \in Procs :
              /\ Settle(p) /\ pc'[p] \notin {"settle", "unwant"} /\ claim.by = p /\ target(talk[p]) = c
              /\ ~isPaidWord(talk[p].seen[c])
<1>. TypeOK /\ TypeTalk /\ TypeCharge
  BY TypeParts DEF ChargeInv
<1>1. PICK q \in Procs : claim.by = q /\ pc[q] \in {"known", "list", "sort", "settle", "unwant"}
  BY DEF Led
<1>2. pc'[q] = pc[q] /\ claim'.by = q => Led'
  BY <1>1 DEF Led
<1>3. ASSUME NEW p \in Procs \ {q}, Start(p) \/ Proceed(p) PROVE Led'
  <2>1. pc'[q] = pc[q]
    BY <1>3, OthersStayPut DEF OthersStay
  <2>2. CASE claim'.by # q
    <3>1. claim'.by = p /\ pc'[p] = "known"
      BY <1>1, <1>3, <2>2, ClaimTaken, GotoKeeps
    <3>. QED  BY <3>1 DEF Led
  <2>. QED  BY <1>2, <2>1, <2>2
<1>. DEFINE t == talk[q]
<1>4. ASSUME NEW place \in {"known", "list", "sort", "settle", "unwant"}, goto(q, place), claim'.by = q
      PROVE  Led'
  BY <1>4, GotoKeeps DEF Led
<1>5. ASSUME pc[q] \in {"sort", "beside", "settle"}, t.todo = {}, pc[q] # "beside"
      PROVE  target(t) = c
  <2>1. CASE pc[q] = "settle"
    BY <1>1, <2>1 DEF Aims, payable
  <2>2. CASE pc[q] = "sort"
    <3>1. t.paids = {} /\ c = t.keep
      BY <1>1, <1>5, <2>2 DEF PaidsSure, SureOf, Unsorted, ChargeInv, SortHasAll, payable
    <3>. QED  BY <3>1 DEF target
  <2>. QED  BY <1>5, <2>1, <2>2
<1>6. ASSUME Known(q) PROVE Led'
  <2>1. goto(q, "list") /\ claim'.by = q
    BY <1>1, <1>6 DEF Known
  <2>. QED  BY <1>4, <2>1
<1>7. ASSUME List(q) PROVE Led'
  <2>1. paidIn(listing) = {}
    <3>. SUFFICES ASSUME NEW d \in paidIn(listing) PROVE FALSE
      OBVIOUS
    <3>1. d \in Charges /\ present(d) /\ ~payable(d)
      BY ListingWorth DEF paidIn, listedIn
    <3>. QED  BY <3>1 DEF OnePresent, payable
  <2>2. goto(q, "sort") /\ claim'.by = q
    BY <1>1, <1>7, <2>1 DEF List
  <2>. QED  BY <1>4, <2>2
<1>8. ASSUME Sort(q) PROVE Led'
  <2>1. PICK d \in t.todo :
          LET u == afterRemoval(t, d)
          IN  \/ u.paids = {} /\ goto(q, "sort")
              \/ u.paids # {}
    BY <1>8 DEF Sort
  <2>2. d \in Charges /\ t.paids = {} /\ t \in Talk
    BY <1>8, TalkFields DEF Sort, PaidsSure, SureOf, Unsorted, TypeTalk
  <2>3. ~(present(d) /\ ~payable(d))
    BY <2>2 DEF OnePresent, payable
  <2>4. afterRemoval(t, d).paids = {}
    BY <2>2, <2>3 DEF afterRemoval, Talk
  <2>5. goto(q, "sort") /\ claim'.by = q
    BY <1>1, <1>8, <2>1, <2>4 DEF Sort
  <2>. QED  BY <1>4, <2>5
<1>9. ASSUME Renew(q) PROVE FALSE
  BY <1>1, <1>9, Sets DEF Renew, ChargeInv, SortHasAll, payable
<1>10. ASSUME Unwant(q) PROVE FALSE
  <2>1. target(t) = c /\ present(c)
    BY <1>1, <1>10 DEF Aims, Unwant, payable
  <2>2. removed(c)
    BY <1>10, <2>1 DEF Unwant
  <2>. QED  BY <2>2 DEF removed, takenOut, payable, present, TypeCharge, Charge
<1>11. ASSUME Settle(q)
       PROVE  \/ Led'
              \/ /\ pc'[q] \notin {"settle", "unwant"} /\ claim.by = q /\ target(t) = c
                 /\ ~isPaidWord(t.seen[c])
  <2>1. target(t) = c
    BY <1>1, <1>5, <1>11 DEF Settle
  <2>2. ~isPaidWord(t.seen[c])
    BY DEF Worth, PaidStay
  <2>3. \/ goto(q, "unwant") /\ claim' = claim
        \/ finish(q)
        \/ goto(q, "letgo")
    BY <1>11 DEF Settle
  <2>4. finish(q) \/ goto(q, "letgo") => pc'[q] \notin {"settle", "unwant"}
    BY GotoKeeps
  <2>. QED  BY <1>1, <1>4, <2>1, <2>2, <2>3, <2>4
<1>12. Start(q) => FALSE
  BY <1>1 DEF Start, Ensure, Look, Cancel, AgreeFee, Hear, Recheck, CancelDue, begin
<1>13. Proceed(q) => Known(q) \/ List(q) \/ Sort(q) \/ Renew(q) \/ Settle(q) \/ Unwant(q)
  <2>1. ~(Beside(q) \/ GiveUp(q) \/ Create(q) \/ RecordRefusal(q) \/ KeepIt(q) \/ HoldFor(q) \/ LetGo(q))
    BY <1>1 DEF Beside, GiveUp, Create, RecordRefusal, KeepIt, HoldFor, LetGo
  <2>2. ~(HearRows(q) \/ HearList(q) \/ HearMissing(q) \/ HearWrite(q) \/ Change(q) \/ Push(q)
          \/ RelRead(q) \/ RelList(q) \/ RelSort(q) \/ RelFitting(q) \/ RelWrite(q))
    BY <1>1 DEF HearRows, HearList, HearMissing, HearWrite, Change, Push, RelRead, RelList, RelSort, RelFitting, RelWrite
  <2>. QED  BY <2>1, <2>2 DEF Proceed
<1>14. UNCHANGED <<pc, talk>> /\ claim'.by = claim.by => Led'
  BY <1>1, <1>2
<1>. QED  BY <1>3, <1>6, <1>7, <1>8, <1>9, <1>10, <1>11, <1>12, <1>13, <1>14, CleanSteps DEF CleanNext

\* A row that names a charge goes on naming it, and one that was paid stays paid.
LEMMA NamesStay ==
  ASSUME TypeOK, TypeOK', BookSound, NEW c \in Charges, [Next]_vars
  PROVE  /\ book.rows[c].status # NoStatus => book'.rows[c].status # NoStatus
         /\ wasPaid(book.rows[c].status) => wasPaid(book'.rows[c].status)
<1>. DEFINE was == book.rows[c].status
            now == book'.rows[c].status
<1>1. Up(was, now)
  BY WritesRise DEF RowsRise, CashUndone, BookSound, Sound
<1>2. was \in RowStatuses \cup {NoStatus} /\ now \in RowStatuses \cup {NoStatus}
  BY DEF TypeOK, Book, Row
<1>. HIDE DEF was, now
<1>3. was # NoStatus => now # NoStatus
  BY <1>1, <1>2, StatusKinds DEF Up, NoStatus
<1>4. ASSUME wasPaid(was) PROVE wasPaid(now)
  <2>1. isLive(was) /\ ~waits(was) /\ was \notin DeadStatuses /\ was # NoStatus
    BY <1>2, <1>4, StatusKinds
  <2>2. isLive(now) /\ RANK[now] >= RANK[was] /\ was \in RowStatuses /\ now \in RowStatuses
    BY <1>1, <1>2, <2>1 DEF Up, isLive
  <2>3. RANK[was] >= 2 /\ RANK[was] \in Int /\ RANK[now] \in Int
    BY <1>4, <2>2, Ranks
  <2>4. RANK[now] >= 2
    BY <2>2, <2>3
  <2>. QED  BY <2>2, <2>4, Ranks
<1>. QED  BY <1>3, <1>4 DEF was, now

\* The first row of an order is written: nothing stands in its way.
LEMMA FirstSettled ==
  ASSUME TypeOK, Unnamed, NEW p \in Procs, Settle(p), claim.by = p, pc'[p] # "unwant",
         NEW c \in Charges, target(talk[p]) = c
  PROVE  book'.rows[c].status # NoStatus
<1>. TypeTalk /\ book \in Book /\ cancelled \in BOOLEAN /\ talk[p] \in Talk
  BY TypeParts, ViewTypes DEF TypeTalk
<1>. DEFINE t == talk[p]
            g == cancelRows(book, rowsKnown(t) \ {c})
            b == applyCharge(g, c, t.seen, cancelled)
<1>0. t.seen \in [Charges -> AsaasWords \cup {NoStatus}]
  BY TalkFields
<1>1. g \in Book /\ \A d \in Charges : g.rows[d].status = NoStatus
  BY CancelRowsType, CancelRowsNew DEF Unnamed
<1>2. ~paidByAnother(c)
  BY DEF paidByAnother, paidCharges, Unnamed, wasPaid, holdsMoney, NoStatus
<1>3. book' = b \/ ~OneLive(b)
  <2>1. ~goto(p, "unwant")
    BY GotoKeeps
  <2>. QED  BY <1>2, <2>1 DEF Settle
<1>. HIDE DEF g
<1>4. b.rows[c].status \in RowStatuses
  <2>1. applyCharges(g, {c}, t.seen, cancelled).rows[c] = written(g, c, t.seen[c])
    BY <1>1, ApplyChargesRow
  <2>2. g.rows[c].status \in RowStatuses \cup {NoStatus} /\ g.rows[c].word \in AsaasWords \cup {NoStatus}
    BY <1>1 DEF Book, Row
  <2>. QED  BY <1>0, <2>1, <2>2, StatusWrittenType DEF applyCharge, written
<1>5. OneLive(b)
  <2>1. \A d \in Charges : d # c => b.rows[d].status = NoStatus
    BY <1>1, ApplyChargesNew DEF applyCharge
  <2>. HIDE DEF b
  <2>. QED  BY <2>1 DEF OneLive, isLive, RowStatuses, NoStatus
<1>. QED  BY <1>3, <1>4, <1>5 DEF RowStatuses, NoStatus

\* Whoever leaves a charge that can be paid has written a row of it, or found nothing to pay.
LEMMA NewIsLedStep ==
  ASSUME RowsInv, TypeOK', Onward, BookSound, Answered, [Next]_vars
  PROVE  NewIsLed'
<1>. /\ ChargeInv /\ TypeOK /\ TypeTalk /\ PaidsSure /\ OnePresent /\ (\A p \in Procs : Worth(p))
     /\ FaultsLeft /\ Aims /\ NewIsLed
  BY TypeParts DEF RowsInv, ChargeInv, Answered
<1>. SUFFICES ASSUME NothingFailed', Unnamed', NEW c \in Charges, payable(c)' PROVE Led'
  BY DEF NewIsLed, Led
<1>0. NothingFailed /\ ~fault
  BY FaultsStep
<1>1. Unnamed
  BY NamesStay DEF Unnamed
<1>2. CASE ~Made(c)
  BY <1>0, <1>2, MadeInOrder DEF Made, payable, present, Led
<1>3. CASE Made(c)
  <2>1. payable(c) /\ Led
    BY <1>0, <1>1, <1>3 DEF Onward, NewIsLed
  <2>2. \/ Led'
        \/ \E p \in Procs : Settle(p) /\ pc'[p] # "unwant" /\ claim.by = p /\ target(talk[p]) = c
    BY <1>0, <2>1, LedMoves
  <2>. QED  BY <1>1, <2>2, FirstSettled DEF Unnamed
<1>. QED  BY <1>2, <1>3

\* An order is cancelled by a request that releases next.
LEMMA CancelsToRelease ==
  ASSUME TypeOK, [Next]_vars, ~cancelled, cancelled'
  PROVE  \E p \in Procs : pc'[p] = "rread"
<1>. TypeTalk
  BY TypeParts
<1>1. ASSUME NEW p \in Procs, Start(p) \/ CallFails(p) \/ RemovalUnheard(p) \/ Crash(p)
      PROVE  UNCHANGED order
  BY <1>1 DEF Start, Ensure, Look, Cancel, AgreeFee, Hear, Recheck, CancelDue, CallFails, RemovalUnheard, Crash
<1>2. ASSUME NEW c \in Charges, WordMoves(c) \/ Surface(c) \/ OfferEnds(c) \/ Restore(c)
      PROVE  UNCHANGED order
  BY <1>2 DEF WordMoves, Surface, OfferEnds, Restore
<1>3. ClaimEnds \/ UNCHANGED vars => UNCHANGED order
  BY DEF ClaimEnds, vars
<1>4. ~DeadlinePasses
  BY DEF DeadlinePasses, TypeOK, cancelled
<1>5. ~ShopMovesOrder
  BY ShopMoves DEF ShopMovesOrder, TypeOK, cancelled
<1>6. ASSUME NEW p \in Procs, Proceed(p) PROVE pc'[p] = "rread"
  <2>1. Known(p) \/ List(p) \/ Sort(p) \/ Beside(p) \/ Renew(p) \/ GiveUp(p) \/ Create(p)
          \/ RecordRefusal(p) \/ Settle(p) \/ Unwant(p) \/ KeepIt(p) \/ HoldFor(p) \/ LetGo(p)
          => UNCHANGED order
    BY DEF Known, List, Sort, Beside, Renew, GiveUp, Create, RecordRefusal, Settle, Unwant, KeepIt, HoldFor, LetGo
  <2>2. HearRows(p) \/ HearList(p) \/ HearMissing(p) \/ HearWrite(p)
          \/ RelRead(p) \/ RelList(p) \/ RelSort(p) \/ RelFitting(p) \/ RelWrite(p) => UNCHANGED order
    BY DEF HearRows, HearList, HearMissing, HearWrite, RelRead, RelList, RelSort, RelFitting, RelWrite
  <2>3. ~Push(p)
    BY DEF Push, TypeOK, cancelled
  <2>4. Change(p) => goto(p, "rread") \/ UNCHANGED order
    BY DEF Change
  <2>. QED  BY <1>6, <2>1, <2>2, <2>3, <2>4, GotoKeeps DEF Proceed, cancelled
<1>. QED  BY <1>1, <1>2, <1>3, <1>4, <1>5, <1>6 DEF Next, cancelled

\* A release of an order that is cancelled goes on to take out what can be paid.
LEMMA OutingMoves ==
  ASSUME ChargeInv, AllShown, NewIsLed, NothingFailed, cancelled, ~fault, [Next]_vars, ~Led,
         NEW p \in Procs, NEW c \in Charges, Outing(p, c), payable(c), payable(c)'
  PROVE  Outing(p, c)'
<1>. TypeOK /\ TypeTalk /\ TypeCharge /\ talk[p] \in Talk
  BY TypeParts DEF ChargeInv, TypeTalk
<1>1. pc'[p] = pc[p] /\ talk'[p] = talk[p] => Outing(p, c)'
  BY DEF Outing
<1>2. ASSUME NEW q \in Procs \ {p}, Start(q) \/ Proceed(q) PROVE Outing(p, c)'
  BY <1>1, <1>2, OthersStayPut DEF OthersStay
<1>3. ASSUME RelRead(p) PROVE Outing(p, c)'
  <2>1. ~untouched
    <3>. SUFFICES ASSUME untouched PROVE FALSE
      OBVIOUS
    <3>1. Unnamed
      BY DEF untouched, EmptyBook, NoRow, Unnamed
    <3>. QED  BY <3>1 DEF NewIsLed
  <2>2. /\ say(p, [talk[p] EXCEPT !.known = statuses, !.off = cancelled, !.want = wantedNow])
        /\ goto(p, "rlist")
    BY <1>3, <2>1 DEF RelRead
  <2>3. wantedNow = Open
    BY DEF wantedNow
  <2>4. talk'[p] = [talk[p] EXCEPT !.known = statuses, !.off = cancelled, !.want = wantedNow] /\ pc'[p] = "rlist"
    BY <2>2, GotoKeeps
  <2>. HIDE DEF statuses, cancelled, wantedNow
  <2>5. talk'[p].want = wantedNow
    BY <2>4 DEF Talk
  <2>. QED  BY <2>3, <2>4, <2>5 DEF Outing
<1>4. ASSUME RelList(p) PROVE Outing(p, c)'
  <2>1. talk[p].want = Open
    BY <1>4 DEF Outing, RelList
  <2>2. fittingOf(talk[p], listing) = {}
    BY <2>1 DEF fittingOf
  <2>3. say(p, [talk[p] EXCEPT !.seen = listing, !.keep = NoCharge, !.paids = paidIn(listing),
                               !.todo = unpaidIn(listing) \ {NoCharge}]) /\ goto(p, "rsort")
    BY <1>4, <2>2 DEF RelList, oneOf
  <2>4. c \in unpaidIn(listing) \ {NoCharge}
    <3>1. listing[c] # NoStatus /\ ~isPaidWord(listing[c])
      BY ListingWorth DEF AllShown, payable
    <3>. QED  BY <3>1, Sets DEF unpaidIn, listedIn, paidIn
  <2>5. pc'[p] = "rsort" /\ talk'[p].todo = unpaidIn(listing) \ {NoCharge}
    <3>1. talk'[p] = [talk[p] EXCEPT !.seen = listing, !.keep = NoCharge, !.paids = paidIn(listing),
                               !.todo = unpaidIn(listing) \ {NoCharge}] /\ pc'[p] = "rsort"
      BY <2>3, GotoKeeps
    <3>. QED  BY <3>1 DEF Talk
  <2>. QED  BY <2>4, <2>5 DEF Outing
<1>5. ASSUME RelSort(p) PROVE Outing(p, c)'
  <2>1. PICK d \in talk[p].todo : removed(d) /\ say(p, afterRemoval(talk[p], d))
    BY <1>5 DEF RelSort
  <2>2. d # c
    BY <2>1 DEF removed, takenOut, payable, present, TypeCharge, Charge
  <2>3. talk'[p] = afterRemoval(talk[p], d) /\ pc'[p] = "rsort" /\ c \in talk[p].todo
    BY <1>5, <2>1, GotoKeeps DEF RelSort, Outing
  <2>4. afterRemoval(talk[p], d).todo = talk[p].todo \ {d}
    BY DEF afterRemoval, Talk
  <2>. QED  BY <2>2, <2>3, <2>4 DEF Outing
<1>6. Start(p) => FALSE
  BY DEF Outing, Start, Ensure, Look, Cancel, AgreeFee, Hear, Recheck, CancelDue, begin
<1>7. Proceed(p) => RelRead(p) \/ RelList(p) \/ RelSort(p)
  <2>1. ~(Known(p) \/ List(p) \/ Sort(p) \/ Beside(p) \/ Renew(p) \/ GiveUp(p) \/ Create(p)
          \/ RecordRefusal(p) \/ Settle(p) \/ Unwant(p) \/ KeepIt(p) \/ HoldFor(p) \/ LetGo(p))
    BY DEF Outing, Known, List, Sort, Beside, Renew, GiveUp, Create, RecordRefusal, Settle, Unwant, KeepIt, HoldFor, LetGo
  <2>2. ~(HearRows(p) \/ HearList(p) \/ HearMissing(p) \/ HearWrite(p) \/ Change(p) \/ Push(p))
    BY DEF Outing, HearRows, HearList, HearMissing, HearWrite, Change, Push
  <2>3. ~(RelFitting(p) \/ RelWrite(p))
    BY DEF Outing, RelFitting, RelWrite, besidePaid
  <2>. QED  BY <2>1, <2>2, <2>3 DEF Proceed
<1>. QED  BY <1>1, <1>2, <1>3, <1>4, <1>5, <1>6, <1>7, CleanSteps DEF CleanNext

\* Whoever leaves a charge of a cancelled order removes it, or sees the order cancelled.
LEMMA OffIsLedStep ==
  ASSUME RowsInv, TypeOK', Onward, Answered, [Next]_vars
  PROVE  OffIsLed'
<1>. /\ ChargeInv /\ TypeOK /\ TypeTalk /\ PaidsSure /\ OnePresent /\ (\A p \in Procs : Worth(p))
     /\ FaultsLeft /\ Aims /\ AllShown /\ NewIsLed /\ OffIsLed
  BY TypeParts DEF RowsInv, ChargeInv, Answered
<1>. SUFFICES ASSUME NothingFailed', cancelled', NEW c \in Charges, payable(c)'
              PROVE  Led' \/ \E p \in Procs : Outing(p, c)'
  BY DEF OffIsLed, Led, Outing
<1>0. NothingFailed /\ ~fault
  BY FaultsStep
<1>1. CASE ~cancelled
  BY <1>1, CancelsToRelease DEF Outing
<1>2. CASE ~Made(c)
  BY <1>0, <1>2, MadeInOrder DEF Made, payable, present, Led
<1>3. CASE cancelled /\ Made(c)
  <2>1. payable(c)
    BY <1>3 DEF Onward
  <2>2. CASE Led
    <3>1. ASSUME NEW p \in Procs, Settle(p), pc'[p] \notin {"settle", "unwant"}, claim.by = p,
                 target(talk[p]) = c, ~isPaidWord(talk[p].seen[c])
          PROVE  FALSE
      <4>1. unwanted(talk[p])
        BY <1>3, <3>1 DEF unwanted
      <4>2. goto(p, "unwant")
        BY <3>1, <4>1 DEF Settle
      <4>. QED  BY <3>1, <4>2, GotoKeeps
    <3>2. \/ Led'
          \/ \E p \in Procs :
              /\ Settle(p) /\ pc'[p] \notin {"settle", "unwant"} /\ claim.by = p /\ target(talk[p]) = c
              /\ ~isPaidWord(talk[p].seen[c])
      BY <1>0, <2>1, <2>2, LedMoves
    <3>. QED  BY <3>1, <3>2
  <2>3. CASE ~Led
    <3>1. PICK p \in Procs : Outing(p, c)
      BY <1>0, <1>3, <2>1, <2>3 DEF OffIsLed
    <3>. QED  BY <1>0, <1>3, <2>1, <2>3, <3>1, OutingMoves
  <2>. QED  BY <2>2, <2>3
<1>. QED  BY <1>1, <1>2, <1>3

\* Money kept: the order's payment, or a stray one.
Kept(b, c) == wasPaid(b.rows[c].status) \/ b.stray[c] # NoStatus

\* An event of the order is being heard, and what was listed so far shows the payment.
Hearing(p, c) ==
  /\ talk[p].kind = "hear"
  /\ pc[p] \in {"hread", "hlist"} \/ (pc[p] = "hmiss" /\ isPaidWord(talk[p].seen[c]))

\* Money that arrived is kept, or an event of it waits or is being heard.
MoneyHeard ==
  NothingFailed => \A c \in Charges :
    present(c) /\ ~payable(c) => Kept(book, c) \/ due \/ \E p \in Procs : Hearing(p, c)

\* Noting strays gives a reason to each of them and takes none away.
LEMMA NoteStraysStray ==
  ASSUME NEW b \in Book, NEW S, NEW reason \in StrayReasons, NEW c \in Charges
  PROVE  /\ b.stray[c] # NoStatus => noteStrays(b, S, reason).stray[c] # NoStatus
         /\ c \in S => noteStrays(b, S, reason).stray[c] # NoStatus
         /\ noteStrays(b, S, reason) \in Book /\ noteStrays(b, S, reason).rows = b.rows
<1>1. noteStrays(b, S, reason).stray[c] = IF c \in S /\ b.stray[c] = NoStatus THEN reason ELSE b.stray[c]
  BY NoteStraysPaid
<1>2. reason # NoStatus
  BY DEF StrayReasons, NoStatus
<1>. QED  BY <1>1, <1>2, NoteStraysType, NoteStraysRow

\* A reason once kept is kept.
StraysStay(b, d) == \A c \in Charges : b.stray[c] # NoStatus => d.stray[c] # NoStatus

\* A hearing keeps every payment it found: on its row, or as a stray.
LEMMA HearingStrays ==
  ASSUME TypeOK, NEW b \in Book, NEW t \in Talk, NEW first \in oneOf(paidIn(t.seen))
  PROVE  /\ StraysStay(b, heardOf(b, t, first))
         /\ \A c \in paidIn(t.seen) : Kept(heardOf(b, t, first), c)
<1>. t.seen \in [Charges -> AsaasWords \cup {NoStatus}] /\ cancelled \in BOOLEAN
  BY TalkFields, ViewTypes
<1>. DEFINE given == cancelRows(b, t.gone)
            S == listedIn(t.seen) \cap liveCharges(given)
            a == appliedTo(b, t)
            h == takenBy(a, t, first)
            P == paidIn(t.seen)
            empty == cancelRows(a, liveCharges(a))
            w == applyCharge(empty, first, t.seen, cancelled)
<1>1. a \in Book /\ h \in Book
  BY HeardOfType
<1>2. a.stray = b.stray
  <2>1. given \in Book /\ given.stray = b.stray
    <3>1. given \in Book
      BY CancelRowsType
    <3>2. given.stray = b.stray
      BY DEF cancelRows, Book
    <3>. QED  BY <3>1, <3>2
  <2>. HIDE DEF given, S
  <2>2. applyCharges(given, S, t.seen, cancelled).stray = given.stray
    BY <2>1, ApplyChargesTold
  <2>. QED  BY <2>1, <2>2 DEF appliedTo, given, S
<1>3. P \subseteq Charges
  BY DEF paidIn, listedIn
<1>. HIDE DEF a
<1>4. StraysStay(a, h) /\ \A c \in P : Kept(h, c)
  <2>. HIDE DEF P
  <2>1. CASE paidCharges(a) # {}
    <3>1. h = noteStrays(a, P \ paidCharges(a), "ORDER_ALREADY_PAID")
      BY <2>1 DEF takenBy, P
    <3>2. StraysStay(a, h) /\ h.rows = a.rows /\ \A c \in P \ paidCharges(a) : h.stray[c] # NoStatus
      BY <1>1, <1>3, <3>1, NoteStraysStray, NoteStraysRow DEF StraysStay, StrayReasons
    <3>3. \A c \in paidCharges(a) : wasPaid(a.rows[c].status)
      BY DEF paidCharges
    <3>. HIDE DEF h
    <3>. QED  BY <3>2, <3>3 DEF Kept
  <2>2. CASE paidCharges(a) = {} /\ first = NoCharge
    <3>1. h = a
      BY <2>2 DEF takenBy
    <3>2. P = {}
      BY <2>2, Sets, <1>3 DEF oneOf, P
    <3>. HIDE DEF h
    <3>. QED  BY <3>1, <3>2 DEF StraysStay
  <2>3. CASE paidCharges(a) = {} /\ first # NoCharge
    <3>1. first \in P /\ first \in Charges /\ isPaidWord(t.seen[first])
      BY <1>3, <2>3 DEF oneOf, P, paidIn
    <3>2. h = noteStrays(w, P \ {first}, "ORDER_ALREADY_PAID")
      BY <2>3 DEF takenBy, P
    <3>3. empty \in Book /\ empty.stray = a.stray
      <4>1. \A gone : cancelRows(a, gone) \in Book
        BY <1>1, CancelRowsType
      <4>2. \A gone : cancelRows(a, gone).stray = a.stray
        BY <1>1 DEF cancelRows, Book
      <4>. QED  BY <4>1, <4>2
    <3>. HIDE DEF empty
    <3>4. w \in Book /\ w.stray = a.stray
      BY <3>1, <3>3, ApplyChargesType, ApplyChargesTold DEF applyCharge
    <3>5. wasPaid(w.rows[first].status)
      BY <3>1, <3>3, ApplyPays DEF paidCharges
    <3>. HIDE DEF w, h
    <3>6. h.rows = w.rows /\ StraysStay(w, h) /\ \A c \in P \ {first} : h.stray[c] # NoStatus
      <4>1. "ORDER_ALREADY_PAID" \in StrayReasons
        BY DEF StrayReasons
      <4>2. \A Q : /\ noteStrays(w, Q, "ORDER_ALREADY_PAID").rows = w.rows
                   /\ StraysStay(w, noteStrays(w, Q, "ORDER_ALREADY_PAID"))
                   /\ \A c \in Charges \cap Q : noteStrays(w, Q, "ORDER_ALREADY_PAID").stray[c] # NoStatus
        <5>. TAKE Q
        <5>. DEFINE n == noteStrays(w, Q, "ORDER_ALREADY_PAID")
        <5>1. n.rows = w.rows
          BY <3>4, NoteStraysRow
        <5>2. \A c \in Charges : /\ w.stray[c] # NoStatus => n.stray[c] # NoStatus
                                 /\ c \in Q => n.stray[c] # NoStatus
          BY <3>4, <4>1, NoteStraysStray
        <5>. QED  BY <5>1, <5>2 DEF StraysStay
      <4>. QED  BY <1>3, <3>2, <4>2
    <3>. QED  BY <3>4, <3>5, <3>6 DEF StraysStay, Kept
  <2>. QED  BY <2>1, <2>2, <2>3
<1>. DEFINE n == heardOf(b, t, first)
<1>5. n = h \/ n = noteStrays(h, heldCharges(h), "ORDER_CANCELLED")
  BY DEF heardOf, a
<1>. HIDE DEF h, n
<1>6. StraysStay(h, n) /\ n.rows = h.rows
  BY <1>1, <1>5, NoteStraysStray, NoteStraysRow DEF StraysStay, StrayReasons
<1>7. StraysStay(b, n)
  BY <1>2, <1>4, <1>6 DEF StraysStay
<1>8. \A c \in P : Kept(n, c)
  BY <1>3, <1>4, <1>6 DEF StraysStay, Kept
<1>. QED  BY <1>7, <1>8 DEF n

\* No write forgets a stray.
LEMMA StraysStayStep ==
  ASSUME TypeOK, [Next]_vars
  PROVE  StraysStay(book, book')
<1>. book \in Book /\ TypeTalk /\ cancelled \in BOOLEAN
  BY TypeParts, ViewTypes
<1>1. UNCHANGED book => StraysStay(book, book')
  BY DEF StraysStay
<1>2. ASSUME NEW p \in Procs,
             RecordRefusal(p) \/ GiveUp(p) \/ Settle(p) \/ KeepIt(p) \/ HearWrite(p) \/ RelWrite(p)
      PROVE  StraysStay(book, book')
  <2>. DEFINE t == talk[p]
  <2>0. t \in Talk /\ t.seen \in [Charges -> AsaasWords \cup {NoStatus}]
    BY TalkFields DEF TypeTalk
  <2>. HIDE DEF t
  <2>00. /\ \A b \in Book : \A gone : cancelRows(b, gone) \in Book /\ cancelRows(b, gone).stray = b.stray
         /\ \A b \in Book : \A S : applyCharges(b, S, t.seen, cancelled).stray = b.stray
    <3>1. \A b \in Book : \A gone : cancelRows(b, gone).stray = b.stray
      BY DEF cancelRows, Book
    <3>2. \A b \in Book : \A gone : cancelRows(b, gone) \in Book
      BY CancelRowsType
    <3>3. \A b \in Book : \A S : applyCharges(b, S, t.seen, cancelled).stray = b.stray
      BY ApplyChargesTold
    <3>. QED  BY <3>1, <3>2, <3>3
  <2>1. CASE RecordRefusal(p)
    BY <2>1 DEF RecordRefusal, recordRefusal, Book, StraysStay
  <2>2. CASE GiveUp(p)
    BY <2>2, <2>00 DEF GiveUp, StraysStay
  <2>3. CASE Settle(p)
    <3>. DEFINE d == target(t)
                g == cancelRows(book, rowsKnown(t) \ {d})
    <3>1. book' \in {book, noteStrays(book, {d}, "ORDER_ALREADY_PAID"), applyCharge(g, d, t.seen, cancelled)}
      BY <2>3 DEF Settle, t
    <3>2. g \in Book /\ g.stray = book.stray
      BY <2>00
    <3>. HIDE DEF g, d
    <3>3. applyCharge(g, d, t.seen, cancelled).stray = book.stray
      BY <2>00, <3>2 DEF applyCharge
    <3>. QED  BY <3>1, <3>3, NoteStraysStray DEF StraysStay, StrayReasons
  <2>4. CASE KeepIt(p)
    <3>1. book' \in {book, applyCharge(book, target(t), t.seen, cancelled)}
      BY <2>4 DEF KeepIt, t
    <3>. QED  BY <2>00, <3>1 DEF applyCharge, StraysStay
  <2>5. CASE HearWrite(p)
    <3>1. PICK first \in oneOf(paidIn(t.seen)) : book' = heardOf(book, t, first)
      BY <2>5 DEF HearWrite, t
    <3>. QED  BY <2>0, <3>1, HearingStrays
  <2>6. CASE RelWrite(p)
    <3>1. PICK paid \in paidOf(t) : book' \in {book, releaseStrays(releasedTo(book, t, paid), t, paid)}
      BY <2>6 DEF RelWrite, t
    <3>. DEFINE kept == IF paid = NoCharge THEN t.keep ELSE paid
                g == cancelRows(book, rowsKnown(t) \ {kept})
                b == releasedTo(book, t, paid)
    <3>2. g \in Book /\ g.stray = book.stray
      BY <2>00
    <3>3. b \in {g, applyCharge(g, kept, t.seen, cancelled)}
      BY DEF releasedTo
    <3>4. b \in Book
      BY <2>0, <3>1, ReleasedType DEF t
    <3>. HIDE DEF g, kept, b
    <3>5. b.stray = book.stray
      BY <2>00, <3>2, <3>3 DEF applyCharge
    <3>6. StraysStay(b, releaseStrays(b, t, paid))
      <4>1. \A Q : /\ noteStrays(b, Q, "ORDER_CANCELLED") \in Book
                   /\ StraysStay(b, noteStrays(b, Q, "ORDER_CANCELLED"))
        BY <3>4, NoteStraysStray, NoteStraysType DEF StraysStay, StrayReasons
      <4>2. \A n \in Book : \A Q : StraysStay(n, noteStrays(n, Q, "ORDER_ALREADY_PAID"))
        BY NoteStraysStray DEF StraysStay, StrayReasons
      <4>. QED  BY <4>1, <4>2 DEF releaseStrays, StraysStay
    <3>. QED  BY <3>1, <3>5, <3>6 DEF b, StraysStay
  <2>. QED  BY <1>2, <2>1, <2>2, <2>3, <2>4, <2>5, <2>6
<1>. QED  BY <1>1, <1>2, BookSteps

\* A step that makes money of a charge made tells of it.
LEMMA PaidIsDue ==
  ASSUME ChargeInv, ~Restores, [Next]_vars, NEW c \in Charges, Made(c), payable(c), present(c)', ~payable(c)'
  PROVE  due'
<1>. TypeCharge
  BY TypeParts DEF ChargeInv
<1>1. ~UNCHANGED charge
  BY DEF payable, present
<1>2. ASSUME NEW d, takenOut(d) PROVE due'
  BY <1>2 DEF takenOut
<1>3. ASSUME NEW d \in Charges, WordMoves(d) PROVE due'
  BY <1>3 DEF WordMoves
<1>4. ASSUME NEW d \in Charges, Surface(d) \/ OfferEnds(d) PROVE FALSE
  BY <1>4 DEF Surface, OfferEnds, TypeCharge, Charge, payable, present
<1>5. ASSUME NEW d \in Charges, Restore(d) PROVE FALSE
  BY <1>5 DEF Restore
<1>6. ASSUME NEW p \in Procs, Create(p) PROVE FALSE
  <2>1. ~present(c)
    BY <1>6 DEF Create, ChargeInv, NoneLeft
  <2>. QED  BY <2>1 DEF payable
<1>. QED  BY <1>1, <1>2, <1>3, <1>4, <1>5, <1>6, ChargeSteps

\* An event that waits goes on waiting, or is heard.
LEMMA DueMoves ==
  ASSUME TypeTalk, [Next]_vars, ~fault, due
  PROVE  due' \/ \E p \in Procs : pc'[p] = "hread" /\ talk'[p].kind = "hear"
<1>1. ASSUME NEW p \in Procs, Hear(p) PROVE pc'[p] = "hread" /\ talk'[p].kind = "hear"
  <2>1. pc'[p] = "hread" /\ talk'[p] = [Blank EXCEPT !.kind = "hear", !.want = Open]
    BY <1>1, GotoKeeps DEF Hear, begin
  <2>. QED  BY <2>1 DEF Blank
<1>2. ASSUME NEW p \in Procs, Start(p), ~Hear(p) PROVE due'
  BY <1>2 DEF Start, Ensure, Look, Cancel, AgreeFee, Recheck, CancelDue
<1>3. ASSUME NEW p \in Procs, CallFails(p) \/ RemovalUnheard(p) \/ Crash(p) PROVE FALSE
  BY <1>3 DEF CallFails, RemovalUnheard, Crash
<1>4. ASSUME NEW c \in Charges, WordMoves(c) \/ Surface(c) \/ OfferEnds(c) \/ Restore(c) PROVE due'
  BY <1>4 DEF WordMoves, Surface, OfferEnds, Restore
<1>5. ClaimEnds \/ DeadlinePasses \/ ShopMovesOrder \/ UNCHANGED vars => due'
  BY DEF ClaimEnds, DeadlinePasses, ShopMovesOrder, vars
<1>6. ASSUME NEW p \in Procs, Proceed(p) PROVE due'
  <2>0. ASSUME NEW c, removed(c) PROVE due'
    BY <2>0 DEF removed, takenOut
  <2>1. Known(p) \/ List(p) \/ Renew(p) \/ GiveUp(p) \/ Create(p)
          \/ RecordRefusal(p) \/ Settle(p) \/ KeepIt(p) \/ HoldFor(p) \/ LetGo(p) => due'
    BY DEF Known, List, Renew, GiveUp, Create, RecordRefusal, Settle, KeepIt, HoldFor, LetGo
  <2>2. HearRows(p) \/ HearList(p) \/ HearMissing(p) \/ HearWrite(p) \/ Change(p) \/ Push(p)
          \/ RelRead(p) \/ RelList(p) \/ RelWrite(p) => due'
    BY DEF HearRows, HearList, HearMissing, HearWrite, Change, Push, RelRead, RelList, RelWrite
  <2>3. Sort(p) \/ Beside(p) \/ Unwant(p) \/ RelSort(p) \/ RelFitting(p) => due' \/ \E c : removed(c)
    BY DEF Sort, Beside, Unwant, RelSort, RelFitting
  <2>. QED  BY <1>6, <2>0, <2>1, <2>2, <2>3 DEF Proceed
<1>. QED  BY <1>1, <1>2, <1>3, <1>4, <1>5, <1>6 DEF Next

\* What is being heard is listed, and then kept.
LEMMA HearingMoves ==
  ASSUME ChargeInv, AllShown, NothingFailed, ~fault, [Next]_vars,
         NEW p \in Procs, NEW c \in Charges, Hearing(p, c), present(c), ~payable(c)
  PROVE  Hearing(p, c)' \/ Kept(book', c)
<1>. TypeOK /\ TypeTalk /\ talk[p] \in Talk
  BY TypeParts DEF ChargeInv, TypeTalk
<1>0. listing[c] = charge[c].word /\ isPaidWord(charge[c].word)
  BY ListingWorth DEF AllShown, payable
<1>1. pc'[p] = pc[p] /\ talk'[p] = talk[p] => Hearing(p, c)'
  BY DEF Hearing
<1>2. ASSUME NEW q \in Procs \ {p}, Start(q) \/ Proceed(q) PROVE Hearing(p, c)'
  BY <1>1, <1>2, OthersStayPut DEF OthersStay
<1>3. ASSUME HearRows(p) PROVE Hearing(p, c)'
  <2>1. pc'[p] = "hlist" /\ talk'[p] = [talk[p] EXCEPT !.known = statuses]
    BY <1>3, GotoKeeps DEF HearRows
  <2>. HIDE DEF statuses
  <2>2. talk'[p].kind = talk[p].kind
    BY <2>1 DEF Talk
  <2>. QED  BY <2>1, <2>2 DEF Hearing
<1>4. ASSUME HearList(p) PROVE Hearing(p, c)'
  <2>. DEFINE S == {d \in Charges : waits(talk[p].known[d]) /\ listing[d] = NoStatus}
  <2>1. pc'[p] = "hmiss" /\ talk'[p] = [talk[p] EXCEPT !.seen = listing, !.todo = S]
    BY <1>4, GotoKeeps DEF HearList
  <2>. HIDE DEF listing, S
  <2>2. talk'[p].kind = talk[p].kind /\ talk'[p].seen = listing
    BY <2>1 DEF Talk
  <2>. QED  BY <1>0, <2>1, <2>2 DEF Hearing
<1>5. ASSUME HearMissing(p) PROVE Hearing(p, c)'
  <2>1. PICK d \in talk[p].todo :
          say(p, IF present(d) THEN [talk[p] EXCEPT !.todo = @ \ {d}, !.seen[d] = charge[d].word]
                               ELSE [talk[p] EXCEPT !.todo = @ \ {d}, !.gone = @ \cup {d}])
    BY <1>5 DEF HearMissing
  <2>2. talk'[p].kind = talk[p].kind /\ talk'[p].seen[c] \in {talk[p].seen[c], charge[c].word}
    <3>1. CASE present(d)
      <4>1. talk'[p] = [talk[p] EXCEPT !.todo = @ \ {d}, !.seen[d] = charge[d].word]
        BY <2>1, <3>1, GotoKeeps
      <4>2. talk'[p].kind = talk[p].kind /\ talk'[p].seen = [talk[p].seen EXCEPT ![d] = charge[d].word]
        BY <4>1 DEF Talk
      <4>. QED  BY <4>2, TalkFields
    <3>2. CASE ~present(d)
      <4>1. talk'[p] = [talk[p] EXCEPT !.todo = @ \ {d}, !.gone = @ \cup {d}]
        BY <2>1, <3>2, GotoKeeps
      <4>. QED  BY <4>1 DEF Talk
    <3>. QED  BY <3>1, <3>2
  <2>3. pc'[p] = "hmiss" /\ pc[p] = "hmiss"
    BY <1>5 DEF HearMissing
  <2>. QED  BY <1>0, <2>2, <2>3 DEF Hearing
<1>6. ASSUME HearWrite(p) PROVE Kept(book', c)
  <2>1. PICK first \in oneOf(paidIn(talk[p].seen)) : book' = heardOf(book, talk[p], first)
    BY <1>6 DEF HearWrite
  <2>2. isPaidWord(talk[p].seen[c])
    BY <1>6 DEF Hearing, HearWrite
  <2>3. c \in paidIn(talk[p].seen)
    BY <2>2, NothingPaidYet DEF paidIn, listedIn
  <2>. QED  BY <2>1, <2>3, HearingStrays DEF TypeOK
<1>7. Start(p) => FALSE
  BY DEF Hearing, Start, Ensure, Look, Cancel, AgreeFee, Hear, Recheck, CancelDue, begin
<1>8. Proceed(p) => HearRows(p) \/ HearList(p) \/ HearMissing(p) \/ HearWrite(p)
  <2>1. ~(Known(p) \/ List(p) \/ Sort(p) \/ Beside(p) \/ Renew(p) \/ GiveUp(p) \/ Create(p)
          \/ RecordRefusal(p) \/ Settle(p) \/ Unwant(p) \/ KeepIt(p) \/ HoldFor(p) \/ LetGo(p))
    BY DEF Hearing, Known, List, Sort, Beside, Renew, GiveUp, Create, RecordRefusal, Settle, Unwant, KeepIt, HoldFor, LetGo
  <2>2. ~(Change(p) \/ Push(p) \/ RelRead(p) \/ RelList(p) \/ RelSort(p) \/ RelFitting(p) \/ RelWrite(p))
    BY DEF Hearing, Change, Push, RelRead, RelList, RelSort, RelFitting, RelWrite
  <2>. QED  BY <2>1, <2>2 DEF Proceed
<1>. QED  BY <1>1, <1>2, <1>3, <1>4, <1>5, <1>6, <1>7, <1>8, CleanSteps DEF CleanNext

\* A payment is due until an event of it is heard, and a hearing that saw it writes it.
LEMMA MoneyHeardStep ==
  ASSUME RowsInv, TypeOK', Onward, BornUnpaid, ~Restores, BookSound, FaultsLeft, AllShown, MoneyHeard, [Next]_vars
  PROVE  MoneyHeard'
<1>. ChargeInv /\ TypeOK /\ TypeTalk
  BY TypeParts DEF RowsInv, ChargeInv
<1>. SUFFICES ASSUME NothingFailed', NEW c \in Charges, present(c)', ~payable(c)', ~due',
                     \A p \in Procs : ~Hearing(p, c)'
              PROVE  Kept(book', c)
  BY DEF MoneyHeard, Hearing, Kept
<1>0. NothingFailed /\ ~fault
  BY FaultsStep
<1>1. Made(c)
  <2>. SUFFICES ASSUME ~Made(c) PROVE FALSE
    OBVIOUS
  <2>1. charge'[c].word \in FirstWords
    BY <1>0, MadeInOrder DEF Made, present
  <2>. QED  BY <2>1 DEF BornUnpaid, payable
<1>2. present(c) /\ ~payable(c)
  BY <1>1, PaidIsDue DEF Onward
<1>3. CASE Kept(book, c)
  BY <1>3, NamesStay, StraysStayStep DEF Kept, StraysStay
<1>4. CASE due
  BY <1>0, <1>4, DueMoves DEF Hearing
<1>5. ASSUME NEW p \in Procs, Hearing(p, c) PROVE Kept(book', c)
  BY <1>0, <1>2, <1>5, HearingMoves
<1>. QED  BY <1>0, <1>2, <1>3, <1>4, <1>5 DEF MoneyHeard

\* Inductive: and whoever is at work answers for what can be paid and for what was paid.
RestInv == RowsInv /\ CashNever /\ Aimed /\ BookSound /\ Answered /\ MoneyHeard

\* Before the first request there is no charge to answer for.
LEMMA RestInvInit ==
  ASSUME NoCash, Init
  PROVE  RestInv
<1>1. RowsInv /\ CashNever /\ Aimed /\ BookSound
  BY RowsInvInit, CashInit
<1>2. \A c \in Charges : ~present(c)
  BY DEF Init, present, NoneMade
<1>3. AllShown /\ NewIsLed /\ OffIsLed /\ MoneyHeard
  BY <1>2 DEF AllShown, NewIsLed, OffIsLed, MoneyHeard, payable
<1>4. FaultsLeft /\ Aims
  BY Bounds DEF Init, FaultsLeft, Aims
<1>. QED  BY <1>1, <1>3, <1>4 DEF RestInv, Answered

\* No step breaks any part of it, under all five hypotheses.
LEMMA RestInvNext ==
  ASSUME Timely, ~Restores, PaidStays, NoCash, BornUnpaid
  PROVE  RestInv /\ [Next]_vars => RestInv'
<1>. SUFFICES ASSUME RestInv, [Next]_vars PROVE RestInv'
  OBVIOUS
<1>. /\ RowsInv /\ ChargeInv /\ TypeOK /\ TypeCharge /\ TypeTalk /\ PaidsSure /\ CashNever /\ Aimed /\ BookSound
     /\ Answered /\ FaultsLeft /\ AllShown /\ Aims /\ MoneyHeard /\ \A p \in Procs : Worth(p)
  BY TypeParts DEF RestInv, RowsInv, ChargeInv, Answered
<1>1. RowsInv' /\ TypeOK' /\ Onward
  BY RowsInvNext, MovesOnward DEF RowsInv, ChargeInv
<1>2. CashNever' /\ Aimed' /\ BookSound'
  BY CashNeverStep, AimedStep, BookSoundStep
<1>3. FaultsLeft' /\ AllShown' /\ Aims'
  BY <1>1, FaultsStep, AllShownStep, AimsStep
<1>4. NewIsLed' /\ OffIsLed'
  BY <1>1, NewIsLedStep, OffIsLedStep
<1>5. MoneyHeard'
  BY <1>1, MoneyHeardStep
<1>. QED  BY <1>1, <1>2, <1>3, <1>4, <1>5 DEF RestInv, Answered

\* payment-sync.service.ts:38, order-payments.service.ts:161 - whatever raced whatever, an
\* order at rest that was cancelled has nothing left to be paid, and money that reached
\* Asaas is the order's payment or kept for the shop to settle.
THEOREM RestAgrees ==
  ASSUME Timely, ~Restores, PaidStays, NoCash, BornUnpaid
  PROVE  Spec => []QuietAgrees
<1>1. RestInv => QuietAgrees
  <2>. SUFFICES ASSUME RestInv, quiet, NEW c \in Charges
                PROVE  /\ payable(c) => ~cancelled
                       /\ present(c) /\ ~payable(c) => wasPaid(book.rows[c].status) \/ book.stray[c] # NoStatus
    BY DEF QuietAgrees
  <2>1. NothingFailed /\ ~due /\ \A p \in Procs : pc[p] = "idle"
    BY DEF quiet, NothingFailed
  <2>2. ~Led /\ \A p \in Procs : ~Outing(p, c) /\ ~Hearing(p, c)
    BY <2>1 DEF Led, Outing, Hearing
  <2>. QED  BY <2>1, <2>2 DEF RestInv, Answered, OffIsLed, MoneyHeard, Kept
<1>2. Init => RestInv
  BY RestInvInit
<1>. QED  BY <1>1, <1>2, RestInvNext, PTL DEF Spec
=============================================================================

--------------------------- MODULE Subscriptions ---------------------------
(***************************************************************************)
(* A page's subscription at bee-link's own Asaas account: the choice of a  *)
(* cycle (StoreSubscriptions.choose), its removal for a coupon's free      *)
(* month (withdraw, PlatformCoupons.redeem), and the one door a payment    *)
(* comes in by (SubscriptionSync.sync).                                    *)
(*                                                                         *)
(* A choice holds a claim on the page's row, kept as a time it wrote, and  *)
(* talks to Asaas with no lock held.  Each step is one transaction or one  *)
(* call.  A page that is exempt, invoices, and the charges after the first *)
(* are left out; a page whose trial expired is TRIALING, and one suspended *)
(* PAST_DUE: nothing here tells them apart.                                *)
(***************************************************************************)
EXTENDS Integers, Sequences, FiniteSets

CONSTANTS
  Talks,        \* requests in flight at once
  NoTalk,       \* who holds a claim no request recognizes
  Terms,        \* a cycle at its price
  NoTerms,
  InTime,       \* a claim and a hold outlast the calls they cover and what those made
  MaxChoices,   \* bound: choices of a cycle
  MaxCoupons,   \* bound: tries of a coupon
  MaxRemovals,  \* bound: subscriptions removed at Asaas's panel
  MaxLapses     \* bound: calls that fail, answers lost, processes crashed

ASSUME TalkersAssumption == NoTalk \notin Talks /\ NoTerms \notin Terms /\ InTime \in BOOLEAN
ASSUME BudgetAssumption == /\ MaxChoices \in Nat /\ MaxCoupons \in Nat
                           /\ MaxRemovals \in Nat /\ MaxLapses \in Nat

VARIABLES
  subs,         \* Asaas's subscriptions under the page's reference, as they were made
  page,         \* the row of store_subscriptions
  place, said,  \* where each request is, and what it holds on the way
  left          \* what is left of the bounds

pageVars == <<subs, page, place, said, left>>

\* money: what its first charge says, REVIEW any word not known to be harmless.
\* over: the time it was paid for has ended.
Money == {"WAITS", "REVIEW", "PAID", "BACK"}
Subscription == [terms : Terms, alive : BOOLEAN, shown : BOOLEAN, money : Money, over : BOOLEAN]

\* named: asaasSubscriptionId, 0 for none.  paidBy: the subscription whose payment
\* currentPeriodEndsAt comes of, 0 for none.  claim: whose value asaasSubscriptionClaimedUntil
\* is, and whether it lies ahead.
Free == [by |-> NoTalk, live |-> FALSE]
PageRow == [status : {"TRIALING", "ACTIVE", "PAST_DUE", "CANCELED"}, named : Nat,
            terms : Terms \cup {NoTerms}, paidBy : Nat, coupon : BOOLEAN,
            claim : [by : Talks \cup {NoTalk}, live : BOOLEAN]]

\* found: what stands.  todo: what is still to be looked at, or removed.  one: the one kept, made,
\* being removed or being read.  paid: a charge money touched was found.  again: asked for another
\* customer.  later: the readings begun after this one; overtaken: one of them was written.
Silent == [kind |-> "none", want |-> NoTerms, known |-> 0, found |-> {}, todo |-> {}, one |-> 0,
           kept |-> 0, paid |-> FALSE, again |-> FALSE,
           stands |-> FALSE, money |-> "WAITS", later |-> {}, overtaken |-> FALSE]
PageTalk == [kind : {"none", "choice", "withdrawal"}, want : Terms \cup {NoTerms}, known : Nat,
             found : SUBSET Nat, todo : SUBSET Nat, one : Nat, kept : Nat,
             paid : BOOLEAN, again : BOOLEAN,
             stands : BOOLEAN, money : Money, later : SUBSET Talks, overtaken : BOOLEAN]

PagePlaces == {"rest", "claim", "search", "known", "look", "remove", "delete", "relook", "forget", "renew",
               "create", "record", "settle", "clear", "give", "letGo", "hold",
               "hear", "readSub", "readCharges", "write"}

PageInit ==
  /\ subs = <<>>
  /\ page = [status |-> "TRIALING", named |-> 0, terms |-> NoTerms, paidBy |-> 0, coupon |-> FALSE, claim |-> Free]
  /\ place = [p \in Talks |-> "rest"] /\ said = [p \in Talks |-> Silent]
  /\ left = [choices |-> MaxChoices, coupons |-> MaxCoupons, removals |-> MaxRemovals, lapses |-> MaxLapses]

-----------------------------------------------------------------------------

stand == {i \in DOMAIN subs : subs[i].alive}
running == page.paidBy # 0 /\ ~subs[page.paidBy].over

moves(p, where, t) == place' = [place EXCEPT ![p] = where] /\ said' = [said EXCEPT ![p] = t]
onTo(p, where) == moves(p, where, said[p])
rests(p) == moves(p, "rest", Silent)
costs(what) == left[what] > 0 /\ left' = [left EXCEPT ![what] = @ - 1]
fails(p) == costs("lapses") /\ onTo(p, "letGo")

(* Writes to the row while the claim is this request's; one that lost it writes nothing and ends. *)
mine(p) == page.claim.by = p
ifMine(p, row, where, t) ==
  IF mine(p) THEN page' = row /\ moves(p, where, t) ELSE rests(p) /\ UNCHANGED page

taken(p) == [by |-> p, live |-> TRUE]
renewed(p) == [page EXCEPT !.claim = taken(p)]
held == [page EXCEPT !.claim = [by |-> NoTalk, live |-> TRUE]]
released == [page EXCEPT !.claim = Free]
naming(i, terms) == [page EXCEPT !.named = i, !.terms = terms]
unnamed == naming(0, NoTerms)

-----------------------------------------------------------------------------
(* The first transaction of a choice, of a coupon, of a withdrawal. *)

Choose(p) ==
  /\ place[p] = "rest" /\ costs("choices")
  /\ ~(page.status = "ACTIVE" /\ running) /\ ~page.claim.live
  /\ page' = renewed(p)
  /\ \E want \in Terms : moves(p, "search", [Silent EXCEPT !.kind = "choice", !.want = want, !.known = page.named])
  /\ UNCHANGED subs

couponFits == page.status = "TRIALING" /\ ~page.coupon /\ ~page.claim.live

Redeem(p) ==
  /\ place[p] = "rest" /\ costs("coupons") /\ couponFits
  /\ moves(p, IF page.named # 0 THEN "claim" ELSE "give", [Silent EXCEPT !.kind = "withdrawal"])
  /\ UNCHANGED <<subs, page>>

Withdraw(p) ==
  /\ place[p] = "claim"
  /\ IF page.claim.live THEN rests(p) /\ UNCHANGED page
     ELSE page' = renewed(p) /\ moves(p, "search", [said[p] EXCEPT !.known = page.named])
  /\ UNCHANGED <<subs, left>>

-----------------------------------------------------------------------------
(* What stands at Asaas is found, looked at and, where it does not serve, removed. *)

anyFound(t) == t.found   \* mutant: another cycle's kept as if it were the one asked for
serving(t) == {i \in t.found : subs[i].terms = t.want}
\* The one the row names first, else any that serves; 0 for none.
keptOf(t) ==
  IF t.kind # "choice" \/ serving(t) = {} THEN {0}
  ELSE IF t.known \in serving(t) THEN {t.known} ELSE serving(t)

\* mutant: a withdrawal that clears the row and removes nothing
clearsAtOnce(t) ==
  IF t.kind = "withdrawal" THEN "clear"
  ELSE IF t.todo # {} THEN "remove"
  ELSE IF t.kept # 0 THEN "settle"
  ELSE IF t.known # 0 THEN "forget" ELSE "renew"
\* Where a talk goes once what stood in its way is removed.
whereNext(t) ==
  IF t.todo # {} THEN "remove"
  ELSE IF t.kind = "withdrawal" THEN "clear"
  ELSE IF t.kept # 0 THEN "settle"
  ELSE IF t.known # 0 THEN "forget" ELSE "renew"

decides(p, t) ==
  IF t.todo # {} THEN moves(p, "look", t)
  ELSE IF t.paid THEN moves(p, "letGo", t)
  ELSE \E kept \in keptOf(t) :
         LET s == [t EXCEPT !.kept = kept, !.todo = t.found \ {kept}] IN moves(p, whereNext(s), s)

lookAt(t, found) == [t EXCEPT !.found = found, !.todo = found]

Search(p) ==
  LET found == {i \in stand : subs[i].shown} IN
  /\ place[p] = "search"
  /\ \/ /\ IF said[p].known \in found \cup {0} THEN decides(p, lookAt(said[p], found))
           ELSE moves(p, "known", [said[p] EXCEPT !.found = found])
        /\ UNCHANGED left
     \/ fails(p)
  /\ UNCHANGED <<subs, page>>

(* A search that lags is no leave to make another: the one the row names is read. *)
ReadKnown(p) ==
  /\ place[p] = "known"
  /\ \/ decides(p, lookAt(said[p], said[p].found \cup (stand \cap {said[p].known}))) /\ UNCHANGED left
     \/ fails(p)
  /\ UNCHANGED <<subs, page>>

touchedByMoney(i) == subs[i].money # "WAITS"

ReadFirstCharge(p) ==
  /\ place[p] = "look"
  /\ \/ /\ \E i \in said[p].todo :
             decides(p, [said[p] EXCEPT !.todo = @ \ {i}, !.paid = @ \/ touchedByMoney(i)])
        /\ UNCHANGED left
     \/ fails(p)
  /\ UNCHANGED <<subs, page>>

RenewToRemove(p) ==
  /\ place[p] = "remove"
  /\ \E i \in said[p].todo : ifMine(p, renewed(p), "delete", [said[p] EXCEPT !.one = i])
  /\ UNCHANGED <<subs, left>>

(* A removal whose answer is lost may have been made. *)
Delete(p) ==
  /\ place[p] = "delete"
  /\ \/ subs' = [subs EXCEPT ![said[p].one].alive = FALSE] /\ ((onTo(p, "relook") /\ UNCHANGED left) \/ fails(p))
     \/ fails(p) /\ UNCHANGED subs
  /\ UNCHANGED page

(* Looked at again: paid between the look before and the removal. *)
Relook(p) ==
  LET i == said[p].one
      t == [said[p] EXCEPT !.todo = @ \ {i}, !.one = 0]
  IN /\ place[p] = "relook"
     /\ \/ /\ IF touchedByMoney(i) THEN moves(p, "letGo", [t EXCEPT !.paid = TRUE])
              ELSE moves(p, whereNext(t), t)
           /\ UNCHANGED left
        \/ fails(p)
     /\ UNCHANGED <<subs, page>>

-----------------------------------------------------------------------------
(* A new one is made only when none stands. *)

Forget(p) ==
  /\ place[p] = "forget" /\ ifMine(p, unnamed, "renew", said[p]) /\ UNCHANGED <<subs, left>>

RenewToCreate(p) ==
  /\ place[p] = "renew" /\ ifMine(p, renewed(p), "create", said[p]) /\ UNCHANGED <<subs, left>>

unheardAsRefused(p) == fails(p)   \* mutant: the claim let go after a creation nobody heard of
unheard(p) == costs("lapses") /\ onTo(p, "hold")

Subscribe(p) ==
  /\ place[p] = "create"
  /\ \/ /\ \E shown \in BOOLEAN :
             subs' = Append(subs, [terms |-> said[p].want, alive |-> TRUE, shown |-> shown,
                                   money |-> "WAITS", over |-> FALSE])
        /\ \/ moves(p, "record", [said[p] EXCEPT !.one = Len(subs')]) /\ UNCHANGED left
           \/ unheard(p)
     \/ UNCHANGED subs /\ (unheard(p) \/ fails(p))
     \* Refused, and its customer turns out to be another: asked for once more.
     \/ UNCHANGED subs /\ ~said[p].again /\ costs("lapses") /\ moves(p, "renew", [said[p] EXCEPT !.again = TRUE])
  /\ UNCHANGED page

Record(p) ==
  /\ place[p] = "record"
  /\ ifMine(p, naming(said[p].one, said[p].want), "settle", [said[p] EXCEPT !.kept = said[p].one])
  /\ UNCHANGED <<subs, left>>

(* Its charges are read first, for the invoice. *)
SettleOn(p) ==
  /\ place[p] = "settle"
  /\ \/ ifMine(p, [naming(said[p].kept, said[p].want) EXCEPT !.claim = Free], "rest", Silent) /\ UNCHANGED left
     \/ fails(p) /\ UNCHANGED page
  /\ UNCHANGED subs

(* The claim let go after a failure; a payment come upon is then read as any other. *)
LetPageGo(p) ==
  /\ place[p] = "letGo"
  /\ page' = IF mine(p) THEN released ELSE page
  /\ moves(p, IF said[p].paid THEN "hear" ELSE "rest", Silent)
  /\ UNCHANGED <<subs, left>>

(* Nobody creates again until what an unanswered creation made had time to show. *)
HoldPage(p) ==
  /\ place[p] = "hold" /\ page' = (IF mine(p) THEN held ELSE page)
  /\ rests(p) /\ UNCHANGED <<subs, left>>

-----------------------------------------------------------------------------
(* The end of a withdrawal, and the free month. *)

Clear(p) ==
  /\ place[p] = "clear"
  /\ ifMine(p, [unnamed EXCEPT !.claim = Free], "give", [Silent EXCEPT !.kind = "withdrawal"])
  /\ UNCHANGED <<subs, left>>

givenAsVetted == page.status = "TRIALING" /\ ~page.coupon   \* mutant: what was vetted before, not looked at again
mayGive == couponFits /\ page.named = 0

Give(p) ==
  /\ place[p] = "give" /\ rests(p)
  /\ page' = IF mayGive THEN [page EXCEPT !.coupon = TRUE] ELSE page
  /\ UNCHANGED <<subs, left>>

-----------------------------------------------------------------------------
(* SubscriptionSync.sync: by an event, the routine, the panel, or a choice that came upon a payment. *)

reading(q) == place[q] \in {"readSub", "readCharges", "write"}

BeginReading(p) ==
  /\ place[p] \in {"rest", "hear"} /\ (place[p] = "rest" => page.named # 0)
  /\ IF page.named = 0 THEN rests(p)
     ELSE /\ place' = [place EXCEPT ![p] = "readSub"]
          /\ said' = [q \in Talks |-> IF q = p THEN [Silent EXCEPT !.one = page.named]
                                      ELSE IF reading(q) THEN [said[q] EXCEPT !.later = @ \cup {p}] ELSE said[q]]
  /\ UNCHANGED <<subs, page, left>>

ReadSub(p) ==
  /\ place[p] = "readSub"
  /\ \/ moves(p, "readCharges", [said[p] EXCEPT !.stands = subs[said[p].one].alive]) /\ UNCHANGED left
     \/ costs("lapses") /\ rests(p)
  /\ UNCHANGED <<subs, page>>

ReadCharges(p) ==
  /\ place[p] = "readCharges"
  /\ \/ moves(p, "write", [said[p] EXCEPT !.money = subs[said[p].one].money]) /\ UNCHANGED left
     \/ costs("lapses") /\ rests(p)
  /\ UNCHANGED <<subs, page>>

moneySeen(t) == t.money \in {"PAID", "BACK"}
covered(t) == t.money = "PAID" /\ ~subs[t.one].over

\* statusOf: what was and what was read.
statusOf(was, t) ==
  CASE ~t.stands -> IF moneySeen(t) \/ was \in {"ACTIVE", "PAST_DUE"} THEN "CANCELED" ELSE was
    [] t.stands /\ covered(t) -> "ACTIVE"
    [] t.stands /\ t.money = "BACK" -> "CANCELED"
    [] t.stands /\ ~moneySeen(t) -> was
    [] OTHER -> IF was = "CANCELED" THEN was ELSE "PAST_DUE"

\* A list that shows no money erases nothing of what was known.
paidByOf(row, t) == IF t.money = "PAID" THEN t.one ELSE IF t.money = "BACK" THEN 0 ELSE row.paidBy
\* mutant: Asaas's word written where the page's status is
wordAsStatus(row, t) == [row EXCEPT !.status = t.money, !.paidBy = paidByOf(row, t)]
factsOf(row, t) == [row EXCEPT !.status = statusOf(@, t), !.paidBy = paidByOf(row, t)]

unclaimedAndFresh(t) ==   \* mutant, alone: which subscription was read not looked at
  ~page.claim.live /\ ~t.overtaken
writable(t) == page.named = t.one /\ unclaimedAndFresh(t)

Write(p) ==
  /\ place[p] = "write" /\ place' = [place EXCEPT ![p] = "rest"]
  /\ IF writable(said[p])
     THEN /\ page' = factsOf(page, said[p])
          /\ said' = [q \in Talks |-> IF q = p THEN Silent
                                      ELSE [said[q] EXCEPT !.overtaken = @ \/ p \in said[q].later]]
     ELSE UNCHANGED page /\ said' = [said EXCEPT ![p] = Silent]
  /\ UNCHANGED <<subs, left>>

-----------------------------------------------------------------------------
(* Crashes, claims that run out, Asaas and who pays. *)

Dies(p) ==
  /\ place[p] # "rest" /\ costs("lapses") /\ rests(p)
  /\ page' = [page EXCEPT !.claim.by = IF @ = p THEN NoTalk ELSE @] /\ UNCHANGED subs

ClaimRunsOut ==
  /\ page.claim.live
  /\ InTime => page.claim.by = NoTalk /\ \A i \in DOMAIN subs : subs[i].shown
  /\ page' = [page EXCEPT !.claim.live = FALSE] /\ UNCHANGED <<subs, place, said, left>>

asaas(i, sub) == subs' = [subs EXCEPT ![i] = sub] /\ UNCHANGED <<page, place, said>>
word(i, money) == asaas(i, [subs[i] EXCEPT !.money = money]) /\ UNCHANGED left

Appears(i) == ~subs[i].shown /\ asaas(i, [subs[i] EXCEPT !.shown = TRUE]) /\ UNCHANGED left

\* The invoice of one removed cannot be paid.
Pays(i) == subs[i].alive /\ subs[i].money = "WAITS" /\ (word(i, "PAID") \/ word(i, "REVIEW"))
Reviewed(i) == subs[i].money = "REVIEW" /\ (word(i, "PAID") \/ word(i, "WAITS"))
GivesBack(i) == subs[i].money = "PAID" /\ word(i, "BACK")
PeriodEnds(i) ==
  subs[i].money = "PAID" /\ ~subs[i].over /\ asaas(i, [subs[i] EXCEPT !.over = TRUE]) /\ UNCHANGED left
TakenOut(i) ==
  subs[i].alive /\ costs("removals") /\ asaas(i, [subs[i] EXCEPT !.alive = FALSE])

Converses(p) ==
  \/ Withdraw(p) \/ Search(p) \/ ReadKnown(p) \/ ReadFirstCharge(p)
  \/ RenewToRemove(p) \/ Delete(p) \/ Relook(p) \/ Forget(p) \/ RenewToCreate(p) \/ Subscribe(p)
  \/ Record(p) \/ SettleOn(p) \/ LetPageGo(p) \/ HoldPage(p) \/ Clear(p) \/ Give(p)
Reads(p) == BeginReading(p) \/ ReadSub(p) \/ ReadCharges(p) \/ Write(p)

PageNext ==
  \/ \E p \in Talks : Choose(p) \/ Redeem(p) \/ Converses(p) \/ Reads(p) \/ Dies(p)
  \/ ClaimRunsOut
  \/ \E i \in DOMAIN subs : \/ Appears(i) \/ Pays(i) \/ Reviewed(i) \/ GivesBack(i)
                            \/ PeriodEnds(i) \/ TakenOut(i)

PageSpec == PageInit /\ [][PageNext]_pageVars

-----------------------------------------------------------------------------
PageTypeOK ==
  /\ subs \in Seq(Subscription) /\ page \in PageRow
  /\ page.named \in 0..Len(subs) /\ page.paidBy \in 0..Len(subs)
  /\ place \in [Talks -> PagePlaces] /\ said \in [Talks -> PageTalk]
  /\ left \in [choices : 0..MaxChoices, coupons : 0..MaxCoupons, removals : 0..MaxRemovals, lapses : 0..MaxLapses]

\* A page never has two subscriptions standing at Asaas, each charging it: not when a creation's
\* answer was lost, not when the search lags, not when a talk died half way.
OneStanding == InTime => \A i, j \in stand : i = j

\* What the row says of Asaas tells of the subscription it names: a cycle that was only asked for
\* is never on the row.
RowTells == page.terms = IF page.named = 0 THEN NoTerms ELSE subs[page.named].terms

\* With no call failed, once no talk holds the page, what stands is what its row names.
NothingUnnamed == InTime /\ left.lapses = MaxLapses /\ page.claim = Free => stand \subseteq {page.named}

\* A page becomes active only by a payment of the subscription it has, never by one read of another.
ActiveByItsOwn ==
  [][page'.status = "ACTIVE" /\ page.status # "ACTIVE"
       => page.named # 0 /\ subs[page.named].money \in {"PAID", "BACK"}]_pageVars

\* A free month is given only while nothing charges the page, unless an answer was lost.
FreeMonthIsFree ==
  [][page'.coupon # page.coupon /\ InTime /\ left.lapses = MaxLapses => stand = {}]_pageVars
=============================================================================

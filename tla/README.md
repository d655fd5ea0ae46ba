# bee-link, specified

bee-link (`src/apps/api`, NestJS over PostgreSQL; `src/apps/web`, Next.js) gives small shops a page,
a catalog, orders, and payment online through the shop's own account at Asaas, a Brazilian payment
provider. This directory specifies in TLA+ the part of it that is hardest to get right and hardest to
test: what happens between bee-link's database and the services it cannot hold a lock on.

Paths below are relative to `src/apps/api/src/modules/` unless they begin with `src/`.

## 1. The system

### Parts, what they keep, how they interact

| Part | State | Operations | Talks to |
|---|---|---|---|
| An order's charge `payments/order-payments.service.ts` | `order_payments` rows, `orders.paymentClaimedUntil` | `ensure`, `release`, `hearOf`, `releasePendingOf` | Asaas (list, read, create, remove), payment facts |
| Hearing Asaas `payments/payment-sync.service.ts` | the same rows, `order_stray_payments`, refunds | `sync` | Asaas, payment facts |
| Payment facts and status `payments/payment-facts.ts`, `payment-status.ts` | a row's status and Asaas's last word, `order_paid_notices` | `applyCharge`, `cancelRows`, `noteStray`, `recordRefusal`, `statusAfter` | called inside the transactions of all the others |
| Asaas events `payment-events/asaas-events.service.ts` | `asaas_events` (recorded, tries, lease, outcome) | `receive`, `dispatch`/`sweep`, `prune` | webhook in; `sync`, `release` |
| bee-link's own events `billing/billing-events.service.ts` | `billing_events`, the same columns | the same, on the billing routine | webhook in; the subscription's sync |
| Reconciliation, unpaid orders `payment-events/` | `nextCheckAt`, `orders.paymentDueAt` | `checkDue`, `cancelDue` on a routine | `sync`, `release`, orders |
| Refunds `payments/order-refunds.service.ts`, `payment-refunds.ts` | `order_refunds`, sums on the rows | `refund`, `refundBeforeCancelling`, `reconcileRefunds` | Asaas |
| Orders `orders/` | `orders`, events, stock taken | placement, status moves, fee agreed, cancellation | stock, coupon, cashback, charge, conversation |
| Cashback `cashback/` | lots, uses, a balance a customer | earn, release, revoke, redeem, return, expire | orders |
| Sessions `auth/session.service.ts` | sessions, refresh tokens | issue, refresh (with a 20 s grace), revoke | - |
| Billing `billing/` | `store_subscriptions` and the claim on it, coupons' uses | `choose`, `withdraw`, `redeem`, `sync`, checks | the platform's Asaas account |
| Page, custom domain, labels, Meta purchases, favorites, mail outbox | drafts and versions; host and verdict; labels; outboxes | publish/restore; check; buy/cancel; flush | DNS, Melhor Envio, Meta, SMTP |
| Catalog, promotions, customers, delivery, reviews, reports, uploads, leads, couriers | their own tables | CRUD and reads | - |

A request is a sequence of *database transactions*, most under the shop's row lock
(`SELECT ... FOR UPDATE` of `stores`), and *calls to outside services*, made with no lock held. So each
transaction is atomic, and everything may happen between two of them: another request, an answer lost,
the customer paying, the shop acting at the service's own panel, the process dying.

### What is hard

The list kept in `PROJECT.json` under `hazards` names each at its line. In short: claims kept as a
timestamp that a slow request outlives; creations and removals carried out but not answered; facts read
of Asaas that are stale when written; events late, twice or lost; a crash between a commit and what it
owed; money that arrives for an order already cancelled, already paid, or of another total; an
automatic cancellation racing the payment it waited for.

### What makes it correct

* A charge is never made while another of the order can be paid (`NoSecondPayable`).
* Nothing stale takes a row back down (`MoneyNeverGoesBack`), or ends one that stands at Asaas
  (`RowLeavesOnAsaasWord`); an order has one living row (`OneLiveRow`).
* All money is accounted for: it is the order's payment or a stray one, not both (`MoneyAccounted`,
  `StrayApart`, `CancelledMoneyKept`); its customer is told, once it came and only then (`PaidIsTold`).
* Nothing is cancelled as unpaid over a payment (`UnpaidIsSure`), and nothing is left to be paid for
  an order that was cancelled (`QuietAgrees`, `CancelledRowEnds`).
* No refund Asaas made is forgotten (`AskedIsCounted`) or given up on while it may yet be made
  (`NotGivenUp`), so no cent is asked for twice; nobody is told of money that never left (`TakenIsReal`,
  `OwnBackIsBack`); what stands is never more than was paid (`NeverMoreThanPaid`), nor is more denied than
  Asaas cancelled (`DeniedIsCancelled`); a row never goes back (`RowsGoForward`); no order is cancelled with
  its money kept (`CancelGivesBack`); and one whole reading makes bee-link's rows agree with Asaas
  (`HearingAgrees`).
* A page never has two subscriptions charging it (`OneStanding`), its row tells of the one it names
  (`RowTells`) and names the one that stands (`NothingUnnamed`); it becomes active by its own payment
  (`ActiveByItsOwn`), and a free month is given only while nothing charges it (`FreeMonthIsFree`).
* A customer's credit is what its lots, its statement and its caches all say (`BooksHold`, `LotsSound`);
  what an order earned is credit once, however it is undone and redone (`EarnedOnce`), and credit that
  was voided or has expired does not come back (`VoidStays`, `ExpiredNotRevived`).
* An event delivered is written once, lies on one process's desk at a time and is done once (`Promise`),
  for good (`NeverAgain`); it always ends (`EventSettles`), is given up only for its tries or its age
  (`GivenUpForCause`), and no dispatch rests over something it was told of (`NothingMissed`).

## 2. Modules

| Module | Models |
|---|---|
| `PaymentStatus` | `payment-status.ts`: pure operators |
| `ChargeFacts` | `payment-facts.ts`: a *book* (rows, strays, notice of one order) and its writers, each a function of a book, so a transaction is a composition written in one step |
| `OrderCharge` | the state machine: one order, its charges at Asaas, and the requests that touch them |
| `MCOrderCharge` | instances of it for TLC |
| `RefundBook` | `payment-refunds.ts`, `refund-totals.ts`: the refund rows of a charge and their writers, functions of the rows |
| `Refunds` | the state machine of one paid order's refunds and of the cancellation that gives back first |
| `MCRefunds` | instances of it for TLC |
| `Subscriptions` | a page's subscription at bee-link's own account: choosing, withdrawing for a coupon, reading a payment |
| `MCClaims` | the two talks a claim holds apart, `OrderCharge`'s and `Subscriptions`', each explored while the other rests |
| `Cashback` | the ledger of one customer's credit; independent of the charge |
| `MCCashback` | instances of it for TLC |
| `EventInbox` | the table of events delivered and the dispatchers that work it; the shops' inbox, or bee-link's own |
| `EventBook` | abstract: what an inbox promises. `EventInbox` implements it |
| `MCEventInbox` | instances of it for TLC |
| `OrderCharge_proofs`, `OrderRows_proofs`, `OrderRest_proofs`, `RefundBook_proofs`, `Refunds_proofs`, `Subscriptions_proofs`, `Cashback_proofs`, `EventInbox_proofs` | theorems |

### `OrderCharge`

State: `charge` (Asaas's account: word, total, how far its offer ran out, deleted, shown in the
listing), `book` (the database's rows), `order` (status, total, past its time to be paid), `claim`
(`paymentClaimedUntil`: whose value stands there, and whether its time still runs - the code compares the
timestamp it wrote, hence "whose"), `due` (an event waits in the inbox), and for each process of `Procs`
where it is (`pc`) and what it read and decided on the way (`talk`).

| Request | Steps | Code |
|---|---|---|
| `ensure` | `Ensure`, `Known`, `List`, `Sort`*, `Beside`* or `Renew`, `GiveUp`, `Create`, then `Settle`, `Unwant`, `KeepIt`, `LetGo`, `HoldFor`, `RecordRefusal` | `OrderPayments.ensure`, `claim`, `converge`, `settle`, `removeOrPaid` |
| hearing | `Hear`, `Recheck`, `Look` or a change of the order, then `HearRows`, `HearList`, `HearMissing`*, `HearWrite` | `PaymentSync.sync` and its callers |
| cancellation, fee, unpaid | `Cancel`, `AgreeFee`, `CancelDue`; a hearing; `Change` or `Push` | `OrdersService.move`, `CustomerOrdersService.cancel`, `agreeDeliveryFee`, `UnpaidOrders.cancelDue` |
| `release` | `RelRead`, `RelList`, `RelSort`*, `RelFitting`, `RelWrite` | `OrderPayments.release` |

A step is one transaction or one call. A failed call, an answer lost, a crash and a restored charge
(`CallFails`, `RemovalUnheard`, the third branch of `Create`, `Crash`, `Restore`) each take from
`MaxFaults`. Asaas, the customer and the clock are `WordMoves`, `Surface`, `OfferEnds`, `ClaimEnds`,
`DeadlinePasses`, `ShopMovesOrder`.

Abstractions. An order whose fee is not agreed has total `Open`. Times are what they decide: `age` of a
charge (0 on offer; 1 its Pix code ended, so its row no longer serves; 2 its due day ended), `order.late`,
`claim.live`. A charge id is used once, so `Charges` bounds how many are ever made. An unanswered creation
may have made its charge, which shows in the listing later (`Surface`); `due` is one flag for any number
of events, since an event carries nothing but its order. `Timely` is the assumption the code writes at
`CLAIM_MS` and `UNKNOWN_OUTCOME_HOLD_MS` - a claim and a hold outlast the call they cover - and the runs
and theorems say when they need it.

A transaction that would leave two living rows is aborted by the index `order_payments_one_live_key`:
`Settle`, `KeepIt` and `RelWrite` take the path the code takes on an error. `HearWrite` has no such path,
and `OneLiveRow` says it needs none.

### `RefundBook` and `Refunds`

State: `asaas` (the charge's refunds as they were made: cents, word, whether a reading shows it yet, and
the row it was asked for - history, no column), `rows` (`order_refunds`, with whether `claimedUntil` lies
ahead), `pay` (the order's payment: its status, what is back and what is on its way), `order`, and for each
process where it is (`at`) and what it holds (`talk`).

| Request | Steps | Code |
|---|---|---|
| a refund | `Ask`, `Claim`, `Made` or `NotMade`, then `Write`, `Refuse`, `Drop`, or `Reread` and `Hold` | `OrderRefunds.refund`, `claim`, `failed`, `told` |
| an earlier one nobody heard the end of | `ReadUnknown`, `SettleUnknown`, a hearing, `Claim` again | `settleUnknown` |
| a cancellation | `AskCancel`, `Before`, the refund, `Thrown`, `Cancel` | `refundBeforeCancelling`, `OrdersService.move`, `refuseUnrefundedOrder` |
| a hearing | `Hear`, `HearList`, `HearWrite` | `PaymentSync.sync`, `applyCharge`, `reconcileRefunds` |

bee-link reads Asaas's refunds as three sums (done, pending, cancelled), and matches them to its rows, the
oldest first: `reconcileRefunds` is translated whole, as folds over the rows. A reading is kept in `talk`
and may be written any time later; a listing may leave the refunds out, a refund just made need not show,
and an answer may be lost on a request that was or was not carried out.

Abstractions. One charge, no stray payment, no instalments. `told` reads the payment in the step that wrote
it. The word Asaas gives a charge it will not refund now is a possible refusal while some of it is on its
way. What `refundBeforeCancelling` hears before it looks is any hearing that came before. `Timely` is what
`CLAIM_MS` and `UNKNOWN_OUTCOME_HOLD_MS` assume: a hold outlasts the call it covers, the time a refund made takes to
show, and a settlement under way. `InOrder` is that refunds asked for come to show in the order they were
made. `Refuses` is whether Asaas refuses a refund it has the money for.

`ItsOwn` says that a charge's refunds were all asked for at bee-link and that Asaas cancelled none. Sums tell no
more than that can bear: the properties that compare the rows with Asaas's refunds (`AskedIsCounted`,
`TakenIsReal`, `OwnBackIsBack`, `CancelGivesBack`, `HearingAgrees`) are said of such charges, where `Timely`
and `InOrder` hold. TLC breaks them without each of the four:

* a refund of the panel, or one cancelled: section 5 tells what happens;
* `InOrder`: of refunds of 1 and 3 the second shows first, and covers the first's row as taken while the
  refund it was asked for is still the other's (`TakenIsReal`, a charge of 4);
* `Timely` over a settlement: its reading is old when another asking's claim runs out, and gives up on a row
  whose refund was made since (`AskedIsCounted`, a charge of 1, three askings, three faults).

### `Subscriptions`

State: `subs` (the subscriptions under the page's reference at Asaas: terms, alive, shown in the search, what
the first charge says, whether the period it paid for is over), `page` (the row: status, the one it names and on
what terms, the payment its period comes of, the coupon, the claim), and for each request where it is
(`place`) and what it holds (`said`).

| Request | Steps | Code |
|---|---|---|
| a choice | `Choose`, `Search`, `ReadKnown`, `ReadFirstCharge`*, (`RenewToRemove`, `Delete`, `Relook`)*, `Forget`, `RenewToCreate`, `Subscribe`, `Record`, `SettleOn`, or `LetPageGo`, `HoldPage` | `StoreSubscriptions.choose`, `claim`, `converge`, `standing`, `remove`, `create`, `settle` |
| a coupon | `Redeem`, `Withdraw`, the same search and removals, `Clear`, `Give` | `PlatformCoupons.redeem`, `give`, `StoreSubscriptions.withdraw` |
| a reading | `BeginReading`, `ReadSub`, `ReadCharges`, `Write` | `SubscriptionSync.sync`, `factsOf`, `statusOf` |

The claim is a time a talk wrote, compared again at every write (`mine`): hence `claim.by`, whose value
stands there, and `claim.live`, whether it lies ahead. A talk that lost it writes nothing. `InTime` is what the
comments on `SUBSCRIPTION_CLAIM_MS` and `SUBSCRIPTION_UNKNOWN_HOLD_MS` say: a claim outlasts the calls it covers,
and a hold the time an unanswered creation takes to show. A failed call, a lost answer and a crash each take
from `MaxLapses`. `REVIEW` stands for every word that is neither waiting nor known to be money. The account's
customer is looked up with the search; an invoice that is not there yet changes the answer alone.

### `Cashback`

State: `lots` (rows of `cashback_credits`; an order's lot has the order's name), `uses`
(`cashback_redemptions` not returned yet), `statement` (the sum of `cashback_entries`), `books` (the
customer's two caches), `order` (not placed, placed, delivered, cancelled) and the day, `now`.

| Action | Code |
|---|---|
| `Place` | `redeemCashback`, then `holdOrderCashback`, in `OrderPlacement.place` |
| `Deliver`, `LeaveDelivered` | `OrdersService.move`: `releaseOrderCashback`, `revokeOrderCashback` `BACK` |
| `Cancel` | `settleCancellation`: `returnCashback`, then `revokeOrderCashback` `CANCELLED` |
| `Expire` | `CashbackSweeper.expireFor`: any time after the day, so the sweep may come late |
| `AdjustUp`, `AdjustDown`, `Forfeit` | `adjustCashback`, `forfeitCashback` |

Each of them is one transaction under the shop's and the customer's locks (`lockLedger`), so there is
nothing to interleave inside one: what is hard is the sequences. Lots of equal expiry are taken from in
any order, where the code settles ties by age. `Cancel` is disabled where the CHECK of the lots would
roll it back (`fits`); every other action is left free to break it, and `LotsSound` says none does. The
field `root` is history: which earning a split lot's credit comes from.

### `EventInbox` and `EventBook`

State: `rows` (a row's outcome, tries, time until it is due, age, time since it was done), `sent` (the time
since an event happened at Asaas, which delivers it, again and again, for `Hold` and no longer), `sweep`
(each process's dispatcher: the two fields `sweeping` and `again`, the batch it claimed with the try of
each, the row being worked, what Asaas asked to wait), and two histories: `owed`, what a dispatch was told
of and nobody claimed since, and `spent`, the claims of a row that were not given back.

| Action | Code |
|---|---|
| `Receive` | `receive`: insert or meet the unique index, then `dispatch` |
| `Routine` | the routine's `dispatch`, each minute |
| `Claim` | the one `UPDATE ... FOR UPDATE SKIP LOCKED ... RETURNING` |
| `TakeUp`, `Finish` | `findUnique`, `work`, and the write of what came of it |
| `PassOn` | `BillingEvents.sweep`: the rest of a batch, once Asaas asked to wait |
| `EndBatch` | the `while` of `dispatch` |
| `Stop` | the `catch` of `dispatch`, or the process dying |
| `Prune` | `prune` |
| `Tick` | the clock, for every time of every row at once |

The two services are one program twice; `Billing` chooses. The shops' has keys that do not open (`UNAVAILABLE`,
parked an hour at a time with the try given back); bee-link's own has one key, and passes its batch on when
throttled. Times count down to zero, or up to the last value that anything tests, so there is no horizon
and no deadlock. `Late` is whether a batch may outlast its lease, which the comment on `ASAAS_EVENT_LEASE_MS`
says it does not. Rows of equal age are claimed in any order. What the order of an event is, and what `work`
does, are left to a set `Ours` and a result.

The refinement maps a row's outcome to where its event stands and a sweep's batch to a desk. Leases, tries,
waits and the clock stutter; `Finish` is `Settle` or `PutBack`, `Stop` puts a whole desk back.

## 3. Runs

`OrderCharge`: all with two processes and two charges: two are what every race above takes, and a third charge can only
be made after both others are gone.

| Run | Instance | Shows |
|---|---|---|
| `race` | every kind but the unpaid routine; totals 1 and 2; 3 asks, 2 faults. And `Subscriptions`, below | `NoSecondPayable`, `RowLeavesOnAsaasWord`, `PaidIsTold`, `QuietAgrees` |
| `strays` | every kind; claims that run out under a slow request, removed charges restored: two charges paid; cards under review, charges paid late, offers running out, the unpaid routine; 3 asks, 1 fault | `TypeOK`, `OneLiveRow`, `StrayApart`, `MoneyNeverGoesBack`, `UnpaidIsSure` |
| `live` | fairness; 2 asks, 1 fault | `MoneyAccounted`, `CancelledMoneyKept`, `CancelledRowEnds` |
| `review` | a card under review and the unpaid routine | `ReviewNotCancelledOver` is **violated** (section 5) |

The bound `Apart` of `strays` leaves out a fault, and a third asking, beside a card under review, a charge past
its offer or the unpaid routine: those come with two askings of a charge, a fee or the routine itself, one round at a time. No receipt in cash is declared there (see `NoCash`, section 4); the theorems on
`MoneyNeverGoesBack` and `UnpaidIsSure` allow one.

`Subscriptions`:

| Run | Instance | Shows |
|---|---|---|
| `race` | two talks, two cycles, claims in time; of two choices, a coupon and a lapse any three, or the choices and a removal at the panel | `PageTypeOK`, `OneStanding`, `RowTells`, `NothingUnnamed`, `ActiveByItsOwn`, `FreeMonthIsFree` |

The two share no variable, and `MCClaims` explores each while the other stays as it began; what one run says of both is
what a run of each would. Two choices are what leaves one subscription to be removed for another; a lapse
between them is a creation nobody heard of, a removal half done, or a claim whose process died. The bound
(`Few`) leaves out a behaviour with all four, and, beside a removal at the panel, payments given back and
periods that end. Every budget ends, so deadlock is not checked.

`Refunds`:

| Run | Instance | Shows |
|---|---|---|
| `refunds` | two processes, a charge of 2; three askings and one fault, or two beside a refund at the panel or one cancelled | `TypeOK`, `AskedIsCounted`, `NotGivenUp`, `TakenIsReal`, `OwnBackIsBack`, `NeverMoreThanPaid`, `DeniedIsCancelled`, `RowsGoForward`, `CancelGivesBack`, `HearingAgrees` |
| `refunds_crossed` | two hearings and two refunds at the panel, a charge of 3, nothing asked | `SaidBackIsBack` is **violated** (section 5) |
| `refunds_denied` | one process, a charge of 1, Asaas refuses and cancels | `DeniedIsRead` is **violated** (section 5) |

A charge of 2 is the least with a part and the rest of it; three askings are two refunds and a third asked over
an unknown one, or a cancellation over both. The bound `Few` is the "or": what comes from outside comes beside two askings.

`Cashback`:

| Run | Instance | Shows |
|---|---|---|
| `cashback` | two orders with credit of one day and a return worth two, three days; or three orders, a lot to give and no expiry | `TypeOK`, `BooksHold`, `LotsSound`, `EarnedOnce`, `VoidStays`, `ExpiredNotRevived` |
| `cashback_returns` | three orders, no expiry | `CancellationFits` is **violated** (section 5) |
| `cashback_forgiven` | two orders, credit of one day | `ForgivenNotRecreated` is **violated** (section 5) |

The bound `Small` is that `or`: a behaviour has one of the two kinds of credit.
An order earns 2 and spends 0, 1 or 2: whole, part and nothing of a lot. Three orders let one lot be spent
by two others and undone between; with expiry, two orders and one name for a split lot already give every
case of `returnedLotOf` but the one whose validity reaches past the week, which the run without expiry
gives (`Small`'s other half). The days, and the number of lots, end the behaviours, so deadlock is not checked.

For `OrderCharge`, `Subscriptions` and `Refunds` deadlock is not checked either: the budgets of asks and faults end every behaviour, and an order paid or
cancelled rightly stays so. The budgets leave out long storms only: every single fault, and every pair of
faults in `race`, is tried at every step.

`EventInbox`:

| Run | Instance | Shows |
|---|---|---|
| `inbox_billing` | bee-link's own inbox in time; three events and batches of two, two tries, waits shorter and longer than a retry | `TypeOK`, `NothingMissed`, `GivenUpForCause`, `Promise` |
| `inbox_late` | the shops' inbox, late; one event to work, one to ignore, a lease of one, one crash; fairness | `NeverAgain`, `EventSettles` |

Three events are what a batch of two leaves one behind of; one lease and two processes already have a row
claimed twice. `Hold <= Keep` is what the constants say (fourteen days and thirty); without it a pruned
event comes back. Fairness: time goes by, a process that is up takes the next step of its sweep and its
routine strikes; Asaas owes neither an event nor an answer of any kind but that its call ends. Crashes are
finitely many: an event whose every claim died would be tried for ever, since only a sweep that lives to
write gives up.

Fairness (`live`): a request that is running takes its next step (`Proceed`, the process is alive and
faults are bounded), an event recorded is worked (the sweep and its retries), the reconciliation comes
round to a waiting charge (`payment-routine.ts`, every minute), a charge made reaches Asaas's listing.
Nothing is assumed of people: no one has to pay, look or ask.

## 4. Proofs

`OrderCharge`, for any finite or infinite set of processes and charges, any totals and words, no bound on faults:

| Theorem | States | Rests on |
|---|---|---|
| `TypeCorrect` | `Spec => []TypeOK` | - |
| `OneChargeAtATime` | `Timely /\ ~Restores => (Spec => NoSecondPayable)` | `ChargeInv` |
| `OneLiving` | `Spec => []OneLiveRow` | lemmas on the writers |
| `MoneyKept` | `Spec => MoneyNeverGoesBack` | the lattice of statuses |
| `UnpaidForSure` | `Spec => UnpaidIsSure` | what a hearing leaves when it shows no payment |
| `HeldIsTold` | `Spec => [](~cancelled /\ heldCharges(book) # {} => book.told)` | lemmas on the writers |
| `PaidToTold` | `NoCash => (Spec => []PaidIsTold)` | `HeldIsTold`, that no payment is undone |
| `StraysApart` | `NoCash => (Spec => []StrayApart)` | the same |
| `RowsLeaveOnAsaasWord` | `Timely /\ ~Restores /\ PaidStays => (Spec => RowLeavesOnAsaasWord)` | `RowsInv` |
| `RestAgrees` | `Timely /\ ~Restores /\ PaidStays /\ NoCash /\ BornUnpaid => (Spec => []QuietAgrees)` | `RestInv` |

`NoSecondPayable` is not inductive. `ChargeInv` strengthens it: only the holder of the claim is at
`giveup` or `create` (`HolderCreates`); a charge not shown yet is covered by a claim that is held or
waits unanswered (`UnshownIsHeld`); a request in `sort` has in `todo` or `keep` everything that can still
be paid (`SortHasAll`); so nothing is left to be paid when it reaches `create` (`NoneLeft`). The
assumption `Timely` is needed: without it a creation slow past its claim meets a second one.

`OneLiving` and `MoneyKept` need no assumption: they follow from what each writer does to a book,
whatever stale facts it is given (the first section of `OrderCharge_proofs`).

`UnpaidIsSure` rests on what a hearing leaves behind: one that saw a payment and still leads to the change
found that payment refunded (`UnpaidSure`), a row refunded stays so, and the change is then refused. `PaidIsTold` and `StrayApart`
follow from what every writer keeps of a book (`BookSound`): told means some row is paid, and a charge kept as one
too many has another that is the order's payment; this needs that what a request takes for paid was read as paid
(`PaidsSure`) and that a request aims at some charge (`Aimed`). `NoCash` says that no charge is declared received
in cash at Asaas's panel. Only such a receipt can be taken back, and with one TLC finds both properties violated
(section 5); that whoever paid is told (`HeldIsTold`) needs no such hypothesis.

`RowLeavesOnAsaasWord` says of a step what Asaas holds at that moment, while the writer knows only what it read some
steps ago. What it read ages well (`Onward`): a charge once listed is listed until it is removed, one removed stays so, and
one paid is neither removed nor paid back. So a reading is still worth something when it is written down (`Worth`): whatever a
request speaks of has been made and shown, what it found gone is gone, what it found paid is there and paid, a release knows of
nothing payable but what it is about to remove, and beside a payment found by the claim's holder nothing else stands,
since an order has one charge at Asaas at a time (`OnePresent`). Rows are written only of charges that were shown
(`RowsMet`): a listing that lacks a row's charge proves it gone, which is the reading `cancelRows` stands on. `RowsInv`
is these with `ChargeInv` and `PaidsSure`.

`QuietAgrees` compares the account with the book when nobody is at work, so its invariant names who answers
until then. As long as nothing failed, a charge that can be paid while no row names it is in the hands of the claim's
holder (`NewIsLed`); one that can be paid for a cancelled order is in those hands, or in those of a release that has yet to
read the order or to remove it (`OffIsLed`); and money that arrived is on its row, kept as a stray, or an event of it
waits or is being heard by a hearing that will see it (`MoneyHeard`). Each step hands a charge on or writes it down.
After a failure none of this holds at once, and what brings it back is the reconciliation: that is what
`MoneyAccounted` and `CancelledRowEnds` check.

`PaidStays` says that Asaas's words take no payment back (a refund still says that money came); only the undoing of a receipt in
cash would. `BornUnpaid` says that no charge is made paid: a creation carries no card (`order-payments.service.ts:303`).
TLC shows which hypotheses matter. With `Timely` false, both are violated on the instance of `race`:
a creation slow past its claim. With a removed charge restored at the panel, or cash undone, `RowLeavesOnAsaasWord` is: the row is
given up on over a charge back in place. With a receipt in cash, `QuietAgrees` is: a stale reading undoes it
(section 5). `BornUnpaid` was not refuted on the small instance; the proof uses it, for a payment that no event announces.

`Refunds`, for any amount, processes, refunds of the panel, cancellations and faults:

| Theorem | States | Rests on |
|---|---|---|
| `ReconcileKeeps` | whatever Asaas says, `reconcileRefunds` keeps every row and its cents, and only moves it forward | folds over the rows |
| `TypeCorrect` | `Spec => []TypeOK` | `TypeInv` |
| `RowsForward` | `Spec => RowsGoForward` | `TypeInv`, `ReconcileKeeps` |
| `GivenUpOnlyWhenGone` | `Timely => (Spec => []NotGivenUp)` | `SafeInv` |
| `ReconcileSums` | whatever Asaas says, `reconcileRefunds` leaves no more standing than was paid, nor denies more than Asaas cancelled | folds over the rows |
| `CoversExactly` | from a reading of the oldest of bee-link's own refunds, `reconcileRefunds` takes exactly their rows, and makes none up | the same |
| `PaidOnceOnly` | `Spec => []NeverMoreThanPaid` | `TypeInv`, `ReconcileSums` |
| `DeniedOnlyWhenCancelled` | `Spec => []DeniedIsCancelled` | the same, and that what Asaas cancelled only grows |
| `AskedCounts` | `Timely /\ InOrder => (Spec => []AskedIsCounted)` | `OwnInv` |
| `TakenMeansMade` | `Timely /\ InOrder => (Spec => []TakenIsReal)` | `OwnInv` |
| `BackMeansBack` | `Timely /\ InOrder => (Spec => []OwnBackIsBack)` | `OwnInv` |
| `CancelledGivesBack` | `Timely /\ InOrder => (Spec => CancelGivesBack)` | `OwnInv` |
| `HearingsAgree` | `Timely /\ InOrder => (Spec => HearingAgrees)` | `OwnInv`, `CoversExactly` |

`reconcileRefunds` goes over the rows, so what it does to each is an induction along them, put as a least
counterexample. `TypeInv` adds to the types what a request is sure of at each place (`Fine`): that it holds a
row while it asks, and a reading where it writes one. A refund given up on is one whose row is refused or dropped while
the refund may still be made, or is made and not shown; it is not inductive. `SafeInv` says with it that the
row of one asking or unshown is held while it is only asked (`Held`), that no other request asks for the same
row (`Alone`), that a request which has not called yet has nothing at Asaas (`Unmade`), and that a refund at
Asaas names a row there is (`Known`). The steps fall in five kinds - one that leaves the askings alone
(`Quiet`), one that begins one, makes one, gives one up, or happens around them - and each kind has a lemma.
`Timely` is needed: a hold that ends first lets the next asking refuse a row whose refund is made.

The last five are of charges for which `ItsOwn` holds, and the sums they compare say too little to be inductive. `OwnInv`
compares the refunds themselves. The rows that refunds name are those refunds, one to one and in the same order, with the same
cents (`AskedHere`); no other row is taken, none is denied, and only the last may still be asked (`TakenHere`); the rows
done are the first of those that stand, and add up to no more than came back (`DoneHere`). That is `Agree`. Every reading held anywhere, however old, is of
the k oldest refunds for some k (`Reads`), which is what `InOrder` buys; and one that a settlement is about to write has
all of them, or each row it could give up on is held. So `CoversExactly` applies to every writing, and an old reading writes
on rows that a newer one has already moved. With it go `PayTrue` (a payment said refunded is, and what is said back is),
`ShownFirst` (what shows is a prefix) and `AtCall` (a row is for what its request asks). TLC checked `OwnInv` on the
instance of `refunds` and on one of a charge of 4 before it was proved. Folds over a list are reasoned about by the
least place where two of them part.

`Subscriptions`, for any requests in flight, any terms, and any number of choices, coupons, removals and lapses:

| Theorem | States | Rests on |
|---|---|---|
| `PageTypes` | `PageSpec => []PageTypeOK` | `PageInv` |
| `RowAlwaysTells` | `PageSpec => []RowTells` | `PageInv` |
| `ActiveOnlyByItsOwn` | `PageSpec => ActiveByItsOwn` | `PageInv` |
| `NeverTwoStand` | `PageSpec => []OneStanding` | `ClaimInv` |
| `NothingIsUnnamed` | `PageSpec => []NothingUnnamed` | `ClaimInv` |
| `FreeMonthsAreFree` | `PageSpec => FreeMonthIsFree` | `ClaimInv` |

`PageInv` says what a request is sure of at each place however claims run out (`Sure`): that what it kept or
made is of the terms it wants, and that money it read is money still, paid or given back. `ClaimInv` holds where
`InTime` does, and the last three properties are said of that. One talk at a time holds the page (`Held`); each
knows what stands - all of it is in what it found, then in what is left to remove and what it keeps, and nothing
stands when it creates (`Known`); what stands and is not shown is named, or covered by a claim (`Covered`), which
is why a search may be believed; and without a lapse what stands is named or is just being recorded (`Told`).
None of the four is inductive without the others.

`Cashback`, for any orders, names, cents, validities and days:

| Theorem | States |
|---|---|
| `TypeCorrect` | `Spec => []TypeOK` |
| `LotsStaySound` | `Spec => []LotsSound` |
| `VoidForGood` | `Spec => VoidStays` |
| `ExpiredForGood` | `Spec => ExpiredNotRevived` |
| `BooksAlwaysHold` | `Spec => []BooksHold` |
| `EarnedOnlyOnce` | `Spec => []EarnedOnce` |

The first four rest on one invariant, `IInv`: the types (a subtraction in `revokeOrderCashback` stays in `Nat` only
because of `LotsSound`), each lot's own rule, and that an order not placed has no lot (so a placement
never overwrites one). Each operation on a lot has a lemma of its own; `LotStep` then says the seven things
a step can do to a lot, and the two action properties are read off them. The assumptions are on the
constants: cents and validities are positive, `MinDays` too, orders and extra lots are finitely many
(`FiniteAssumption`: a sum over the lots means something), and no order shares a name with an extra lot.

The last two are of sums over the lots. `BInv` adds to `IInv` that a lot not begun has no uses and is no lot's root
but its own (`Fresh`) and that an order not placed uses nothing (`Unspent`): a lot split off keeps its root, so what leaves the
lots it was spent from arrives in lots of the same root (`LeavesArrives`), and no earning grows. What a sum over a finite set does -
when one term changes, when terms move, when one is below another - is proved by the smallest subset on which it fails.

`EventInbox`, for any processes and events, any times and batch, no bound on crashes:

| Theorem | States | Rests on |
|---|---|---|
| `DispatchSuffices` | `Spec => []NothingMissed` | `LateInv` |
| `DoneForGood` | `Spec => NeverAgain` | `LateInv` |
| `TypeCorrect` | `~Late => (Spec => []TypeOK)` | `InboxInv` |
| `GivenUpRightly` | `~Late => (Spec => []GivenUpForCause)` | `InboxInv` |
| `PromiseKept` | `~Late => (Spec => Promise)` | `InboxInv`, the refinement mapping |

The invariant has two layers. `LateInv` holds however late a sweep comes: a dispatcher that rests holds
nothing; whatever is owed to a process that works comes with its next round, since it either was told again or
its batch is full; and a row is as old as what Asaas still holds allows. `InboxInv` adds what a lease buys:
a row in a batch waits (`Claims`), is in no other batch (`Alone`), and a row's tries are the claims that ended
and were not given back, and the one under way (`HeldNat`, `Free`). Each of these needs the others: tries stay in `Nat` only
because a try is given back by the one sweep that took it. That is also why `TypeCorrect` wants `~Late`.

Every safety property that a passing run checks is proved. Only model-checked: the liveness properties `MoneyAccounted`,
`CancelledMoneyKept`, `CancelledRowEnds` and `EventSettles`, since the prover does not reach liveness under fairness. The four properties a run violates have no theorem.

## 5. What the runs found

`payment-events/unpaid-orders.ts:23` says that an order is not cancelled over "a card Asaas is reviewing
by hand". `PaymentSync.sync` looks for one in the rows (`payment-sync.service.ts:153`). While `ensure` has
made the charge and not yet written its row - or died there - the hearing lists the card under review,
writes nothing of it (it is not paid), and lets the routine cancel. The release that follows asks Asaas to
remove the charge.

`cashback/cashback-return.ts:50` gives a use back to a usable lot without regard to its
`unrecoveredCents`. An order whose lot was partly spent leaves delivered and is delivered again: the lot is
usable and keeps what was not got back. Cancelling the order that spent it then puts `remainingCents +
unrecoveredCents` past `amountCents`; the database's CHECK rolls the cancellation back, every time
(`CancellationFits`). The shopkeeper's cancellation has refunded the customer by then.

`cashback/cashback-orders.ts:88` leaves an expired lot expired when its order is cancelled, so that
cancelling later an order that spent of it makes what returns usable again, which the comment at
`cashback-return.ts:43` says never happens to credit of a cancelled order (`ForgivenNotRecreated`). The same
is so of credit already split off a lot when its order is cancelled, and of an account deleted meanwhile.

`payments/payment-refunds.ts:70` takes the rows given up on off what Asaas shows cancelled - and with them
the rows Asaas refused in so many words, which it never held. After one such refusal, a refund of as much
that Asaas takes and then cancels is never read as denied, though
`src/apps/api/test/order-refunds.e2e-spec.ts:325` says it is (`DeniedIsRead`): its row stays on its way, its
money cannot be refunded again, and the order can be cancelled over it. With `Refuses` false the same instance
passes.

`payments/payment-refunds.ts:100` books what a reading has left over after every row is covered as a refund made at
Asaas's panel. Sums older than the rows leave something over too. One hearing reads 1 given back at the
panel, a second refund of 1 is made there, another hearing reads 2 and writes one row of 2; the first, written last, does not
cover that row, which is done and counts for nothing, and books its 1 again. The rows and the payment say 3 is back, of 2
(`SaidBackIsBack`), and no later reading takes a row that is done away. The plan of the code says the sums are never wrong
(`src/docs/plans/2026-10-06--BEELINK-208--estorno.md:150`). Where every refund was asked for at bee-link a reading in
order never has anything over (`OwnBackIsBack`); in no case does what stands pass what was paid (`NeverMoreThanPaid`).

Also seen, and within what the code says of itself or beside it:

* A receipt in cash is undone by a reading from before it was declared. `applyCharge` takes a waiting word over
  `RECEIVED_IN_CASH` for the shop's undoing it (`payment-facts.ts:46`); so is one that a slow hearing read earlier and writes
  last. The row goes back to waiting until the next hearing, and in between another charge that was paid, and kept as one too
  many, may become the order's payment as well. Hence `NoCash` in `PaidToTold` and `StraysApart`; `MoneyNeverGoesBack` lets
  that one way back be, as the code does.
* The same of two hearings one of which read a refund on its way, and the other that Asaas cancelled it: the
  first to have read, written last, books it as a refund made at the panel. The customer is told twice, and the order may
  be cancelled over money that stays. With one cancelled, a refund Asaas holds may also go
  uncounted (`AskedIsCounted`, a charge of 2, four askings, one fault). Hence no refund cancelled in `ItsOwn`.
* A panel refund and a cancelled one that fall between two readings may cover, or deny, the wrong row: the
  sums say nothing more. The plan of the code acknowledges it.
* A page's subscription paid between the look and its removal stops the talk (`store-subscriptions.service.ts:282`),
  "no other may be made over money already taken". The next choice finds it neither in the search nor standing, and
  makes another. The payment stays on a removed subscription, for bee-link to settle by hand.
* A creation nobody heard of that is paid before any choice finds it: every choice is then refused as paid,
  while `sync` reads only the one the row names. `NothingUnnamed` is said of behaviours with no lapse for that.
* `sync` orders readings by when each began to ask, not by when Asaas answered: of two that overlap, an older answer
  may be written last, until the next check.
* A hearing that read the rows before `settle` wrote one can leave a waiting row for a removed charge,
  until the reconciliation comes round (`CancelledRowEnds` holds because it does).
* `settle` can meet the one-live index, when a stale `release` wrote the row of a charge removed since: the
  charge it made stays payable with no row until the next `ensure`, `release` or payment.
* With `Late` true, the slower of two sweeps writes last: an event worked may end as given up, and a try may be
  given back by a sweep whose claim was taken over. Nothing done is undone (`NeverAgain`), and the
  reconciliation asks about every waiting charge anyway.
* With `Timely` false, a slow creation leaves a charge at Asaas that no row names; if it is paid, a
  hearing learns of it (`MoneyAccounted`).

## 6. Not modelled, and why

In `Cashback`: two records merged (`moveCashback`), what an order earns and the cap on what it may spend
(`earningOf`, `cashbackMaxOf`: any of a few amounts here), notices of expiry.

In `EventInbox`: how an event's order, page or identity is found (`orderOf`, `pageOf`), a write that the
database made and did not answer (it would be written over as a failure), a row read as missing and a
page read earlier in the sweep (both are a result `OK` or a batch let go), and the routine's own `running`,
which only makes passes fewer.

In `Refunds`: refunds of a stray payment and of an instalment plan, a charge of an account the shop left, the
notices to the customer.

In `Subscriptions`: exempt pages, invoices and cards, the charges after the first and so the calendar of
`coveredUntilDay`, the grace and the suspension, `checkDue` (when a page is read again; any time here), the
coupon's own count (an `UPDATE` with its condition), the accounts' customers.

Within the charge's files: `releasePendingOf` and
everything about an account disconnected or replaced, charges edited at Asaas's panel, instalment plans
(one thing to pay here), `pushCheck` and throttling (when the reconciliation asks, not what it does with the
answer), texts and notifications after the commit. Every other part of the system is
listed in `PROJECT.json` with its reason.

## 7. Plan

1. Done: `PaymentStatus`, `ChargeFacts`, `OrderCharge`, `RefundBook` and `Refunds`, `Cashback`, `EventInbox` over
   `EventBook`, `Subscriptions`, their runs and forty theorems.
2. `Cashback`: two records merged.
3. `Session`: refresh rotation, its grace, revocation.
4. Orders' books: stock and coupon of a placement and a cancellation.
5. `PageDraft`, `CustomDomain`, `Labels`, the generic outbox; discounts and billing dates as pure algorithms.

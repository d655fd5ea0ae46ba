----------------------- MODULE Subscriptions_proofs -----------------------
(***************************************************************************)
(* What is proved of Subscriptions for any requests in flight, any terms,  *)
(* and any number of choices, coupons, removals and lapses.                *)
(***************************************************************************)
EXTENDS Subscriptions, TLAPS

ChoicePlaces == {"forget", "renew", "create", "record", "settle"}
OnePlaces == {"delete", "relook", "record", "readSub", "readCharges", "write"}
SearchPlaces == {"claim", "search", "known", "look", "remove", "delete", "relook"}

\* What a request is sure of at each place, of the subscriptions S.
Sure(where, t, S) ==
  /\ where \in PagePlaces /\ t \in PageTalk
  /\ t.known \in 0..Len(S) /\ t.one \in 0..Len(S) /\ t.kept \in 0..Len(S)
  /\ t.found \subseteq 1..Len(S) /\ t.todo \subseteq 1..Len(S)
  /\ where \in OnePlaces => t.one # 0
  /\ where \in SearchPlaces => t.kind \in {"choice", "withdrawal"}
  /\ where \in ChoicePlaces => t.kind = "choice"
  /\ t.kind = "choice" => t.want \in Terms
  /\ t.kept # 0 => t.kind = "choice" /\ S[t.kept].terms = t.want
  /\ where = "settle" => t.kept # 0
  /\ where = "record" => S[t.one].terms = t.want
  /\ where = "write" /\ moneySeen(t) => S[t.one].money \in {"PAID", "BACK"}

AllSure == \A p \in Talks : Sure(place[p], said[p], subs)

\* What only grows at Asaas, and what never comes back.
Grew(S, T) ==
  /\ T \in Seq(Subscription) /\ Len(S) <= Len(T)
  /\ \A i \in 1..Len(S) : /\ T[i].terms = S[i].terms
                          /\ S[i].money \in {"PAID", "BACK"} => T[i].money \in {"PAID", "BACK"}

LeftOK == left \in [choices : 0..MaxChoices, coupons : 0..MaxCoupons,
                    removals : 0..MaxRemovals, lapses : 0..MaxLapses]
RowOK == page \in PageRow /\ page.named \in 0..Len(subs) /\ page.paidBy \in 0..Len(subs) /\ RowTells
Whole == place \in [Talks -> PagePlaces] /\ said \in [Talks -> PageTalk]

PageInv == subs \in Seq(Subscription) /\ RowOK /\ Whole /\ LeftOK /\ AllSure

-----------------------------------------------------------------------------
(* Lemmas on the operators. *)

LEMMA SilentIsTalk == Silent \in PageTalk
  BY DEF Silent, PageTalk, Money

LEMMA SilentIsSure ==
  ASSUME NEW S \in Seq(Subscription)
  PROVE  Sure("rest", Silent, S) /\ Sure("hear", Silent, S)
<1>1. Silent \in PageTalk
  BY SilentIsTalk
<1> QED
  BY <1>1 DEF Sure, Silent, PagePlaces, OnePlaces, SearchPlaces, ChoicePlaces

LEMMA SureAfter ==
  ASSUME NEW S \in Seq(Subscription), NEW T, Grew(S, T), NEW where, NEW t, Sure(where, t, S)
  PROVE  Sure(where, t, T)
<1>1. Len(S) \in Nat /\ Len(T) \in Nat /\ Len(S) <= Len(T)
  BY DEF Grew
<1>2. 0..Len(S) \subseteq 0..Len(T) /\ 1..Len(S) \subseteq 1..Len(T)
  BY <1>1
<1>3. t.kept # 0 => t.kept \in 1..Len(S)
  BY <1>1 DEF Sure
<1>4. t.one # 0 => t.one \in 1..Len(S)
  BY <1>1 DEF Sure
<1>5. t.kept # 0 => T[t.kept].terms = S[t.kept].terms
  BY <1>3 DEF Grew
<1>6. t.one # 0 => /\ T[t.one].terms = S[t.one].terms
                   /\ S[t.one].money \in {"PAID", "BACK"} => T[t.one].money \in {"PAID", "BACK"}
  BY <1>4 DEF Grew
<1> QED
  BY <1>2, <1>5, <1>6 DEF Sure, OnePlaces

LEMMA OthersSure ==
  ASSUME PageInv, NEW p \in Talks, NEW where, NEW t, moves(p, where, t),
         Sure(where, t, subs'), Grew(subs, subs')
  PROVE  Whole' /\ AllSure'
<1>1. where \in PagePlaces /\ t \in PageTalk
  BY DEF Sure
<1>2. Whole'
  BY <1>1 DEF PageInv, Whole, moves
<1>3. \A q \in Talks : Sure(place'[q], said'[q], subs')
  <2> SUFFICES ASSUME NEW q \in Talks
               PROVE  Sure(place'[q], said'[q], subs')
    OBVIOUS
  <2>1. CASE q = p
    BY <2>1 DEF moves, PageInv, Whole
  <2>2. CASE q # p
    <3>1. place'[q] = place[q] /\ said'[q] = said[q]
      BY <2>2 DEF moves, PageInv, Whole
    <3> QED
      BY <3>1, SureAfter DEF PageInv, AllSure
  <2> QED
    BY <2>1, <2>2
<1> QED
  BY <1>2, <1>3 DEF AllSure

LEMMA SameGrew ==
  ASSUME subs \in Seq(Subscription), UNCHANGED subs
  PROVE  Grew(subs, subs')
  BY DEF Grew

LEMMA SpentLeft ==
  ASSUME LeftOK, NEW what \in {"choices", "coupons", "removals", "lapses"}, costs(what)
  PROVE  LeftOK'
<1>1. MaxChoices \in Nat /\ MaxCoupons \in Nat /\ MaxRemovals \in Nat /\ MaxLapses \in Nat
  BY BudgetAssumption
<1> QED
  BY <1>1 DEF LeftOK, costs

\* A step of one request that leaves Asaas and the row alone.
LEMMA TalkOnly ==
  ASSUME PageInv, NEW p \in Talks, NEW where, NEW t, moves(p, where, t),
         Sure(where, t, subs), UNCHANGED <<subs, page>>, LeftOK'
  PROVE  PageInv'
<1>1. Grew(subs, subs') /\ Sure(where, t, subs')
  BY SameGrew DEF PageInv
<1>2. Whole' /\ AllSure'
  BY <1>1, OthersSure
<1> QED
  BY <1>2 DEF PageInv, RowOK, RowTells

\* A step of one request that writes to the row.
LEMMA TalkAndRow ==
  ASSUME PageInv, NEW p \in Talks, NEW where, NEW t, moves(p, where, t),
         Sure(where, t, subs), UNCHANGED subs, RowOK', LeftOK'
  PROVE  PageInv'
<1>1. Grew(subs, subs') /\ Sure(where, t, subs')
  BY SameGrew DEF PageInv
<1>2. Whole' /\ AllSure'
  BY <1>1, OthersSure
<1> QED
  BY <1>2 DEF PageInv

LEMMA FailsSafely ==
  ASSUME PageInv, NEW p \in Talks, fails(p), UNCHANGED <<subs, page>>
  PROVE  PageInv'
<1>1. Sure("letGo", said[p], subs)
  BY DEF PageInv, AllSure, Sure, PagePlaces, OnePlaces, SearchPlaces, ChoicePlaces
<1>2. LeftOK'
  BY SpentLeft DEF fails, PageInv
<1> QED
  BY <1>1, <1>2, TalkOnly DEF fails, onTo

LEMMA RestsSafely ==
  ASSUME PageInv, NEW p \in Talks, rests(p), UNCHANGED <<subs, page>>, LeftOK'
  PROVE  PageInv'
  BY SilentIsSure, TalkOnly DEF rests, PageInv

Claims == [by : Talks \cup {NoTalk}, live : BOOLEAN]

LEMMA ClaimsAreClaims ==
  /\ Free \in Claims
  /\ \A p \in Talks : taken(p) \in Claims
  /\ [by |-> NoTalk, live |-> TRUE] \in Claims
  BY DEF Claims, Free, taken

LEMMA WithClaim ==
  ASSUME NEW row \in PageRow, NEW c \in Claims
  PROVE  LET r == [row EXCEPT !.claim = c] IN
         /\ r \in PageRow /\ r.named = row.named /\ r.terms = row.terms /\ r.paidBy = row.paidBy
  BY DEF PageRow, Claims

\* The row is whole whatever is claimed or let go, and whatever subscription is named.
LEMMA ClaimedRow ==
  ASSUME PageInv, UNCHANGED subs,
         NEW c \in Claims, page' = [page EXCEPT !.claim = c]
  PROVE  RowOK'
  BY WithClaim DEF PageInv, RowOK, RowTells

LEMMA NamedRow ==
  ASSUME PageInv, UNCHANGED subs, NEW i \in 1..Len(subs), NEW terms, subs[i].terms = terms,
         page' = naming(i, terms) \/ page' = [naming(i, terms) EXCEPT !.claim = Free]
  PROVE  RowOK'
<1>1. subs[i] \in Subscription
  BY DEF PageInv
<1>2. terms \in Terms
  BY <1>1 DEF Subscription
<1>3. i \in Nat /\ i # 0 /\ i \in 0..Len(subs)
  BY DEF PageInv
<1>4. page \in PageRow /\ page.paidBy \in 0..Len(subs)
  BY DEF PageInv, RowOK
<1> DEFINE row == naming(i, terms)
<1>5. row \in PageRow /\ row.named = i /\ row.terms = terms /\ row.paidBy = page.paidBy
  BY <1>2, <1>3, <1>4 DEF naming, PageRow
<1> HIDE DEF row
<1>6. page' = row \/ page' = [row EXCEPT !.claim = Free]
  BY DEF row
<1>7. CASE page' = row
  BY <1>3, <1>4, <1>5, <1>7 DEF RowOK, RowTells
<1>8. CASE page' = [row EXCEPT !.claim = Free]
  <2>1. /\ page' \in PageRow /\ page'.named = i /\ page'.terms = terms
        /\ page'.paidBy = page.paidBy
    BY <1>5, <1>8, ClaimsAreClaims, WithClaim
  <2> QED
    BY <1>3, <1>4, <2>1 DEF RowOK, RowTells
<1> QED
  BY <1>6, <1>8, <1>7

LEMMA UnnamedRow ==
  ASSUME PageInv, UNCHANGED subs,
         page' = unnamed \/ page' = [unnamed EXCEPT !.claim = Free]
  PROVE  RowOK'
<1>1. 0 \in 0..Len(subs)
  BY DEF PageInv
<1>2. page \in PageRow /\ page.paidBy \in 0..Len(subs)
  BY DEF PageInv, RowOK
<1>3. unnamed \in PageRow /\ unnamed.named = 0 /\ unnamed.terms = NoTerms /\ unnamed.paidBy = page.paidBy
  BY <1>2 DEF naming, unnamed, PageRow
<1>4. page' \in PageRow /\ page'.named = 0 /\ page'.terms = NoTerms /\ page'.paidBy = page.paidBy
  BY <1>3, ClaimsAreClaims, WithClaim
<1> QED
  BY <1>1, <1>2, <1>4 DEF RowOK, RowTells

LEMMA IfMineSafely ==
  ASSUME PageInv, NEW p \in Talks, NEW row, NEW where, NEW t, ifMine(p, row, where, t),
         page' = row => RowOK', Sure(where, t, subs), UNCHANGED subs, LeftOK'
  PROVE  PageInv'
<1>1. CASE mine(p)
  BY <1>1, TalkAndRow DEF ifMine
<1>2. CASE ~mine(p)
  BY <1>2, RestsSafely DEF ifMine
<1> QED
  BY <1>1, <1>2

-----------------------------------------------------------------------------
(* Each step keeps it. *)

LEMMA DataInit ==
  ASSUME PageInit
  PROVE  PageInv
<1>1. MaxChoices \in Nat /\ MaxCoupons \in Nat /\ MaxRemovals \in Nat /\ MaxLapses \in Nat
  BY BudgetAssumption
<1>2. subs \in Seq(Subscription) /\ Len(subs) = 0
  BY DEF PageInit
<1>3. RowOK
  BY <1>2 DEF PageInit, RowOK, RowTells, PageRow, Free
<1>4. Whole /\ AllSure
  BY <1>2, SilentIsTalk, SilentIsSure DEF PageInit, Whole, AllSure, PagePlaces
<1> QED
  BY <1>1, <1>2, <1>3, <1>4 DEF PageInv, LeftOK, PageInit

LEMMA SureHere ==
  ASSUME PageInv, NEW p \in Talks
  PROVE  Sure(place[p], said[p], subs) /\ said[p] \in PageTalk
  BY DEF PageInv, AllSure, Sure

LEMMA ChooseData ==
  ASSUME PageInv, NEW p \in Talks, Choose(p)
  PROVE  PageInv'
<1>1. PICK want \in Terms :
        moves(p, "search", [Silent EXCEPT !.kind = "choice", !.want = want, !.known = page.named])
  BY DEF Choose
<1> DEFINE t == [Silent EXCEPT !.kind = "choice", !.want = want, !.known = page.named]
<1>2. page.named \in 0..Len(subs) /\ page.named \in Nat
  BY DEF PageInv, RowOK, PageRow
<1>3. t \in PageTalk
  BY <1>2, SilentIsTalk DEF PageTalk
<1>4. /\ t.known = page.named /\ t.one = 0 /\ t.kept = 0 /\ t.found = {} /\ t.todo = {}
      /\ t.kind = "choice" /\ t.want = want
  BY DEF Silent
<1>5. 0 \in 0..Len(subs)
  BY DEF PageInv
<1> HIDE DEF t
<1>6. Sure("search", t, subs)
  BY <1>2, <1>3, <1>4, <1>5 DEF Sure, PagePlaces, OnePlaces, SearchPlaces, ChoicePlaces
<1>7. RowOK'
  BY ClaimsAreClaims, ClaimedRow DEF Choose, renewed
<1>8. LeftOK'
  BY SpentLeft DEF Choose, PageInv
<1> QED
  BY <1>1, <1>6, <1>7, <1>8, TalkAndRow DEF Choose, t

LEMMA RedeemData ==
  ASSUME PageInv, NEW p \in Talks, Redeem(p)
  PROVE  PageInv'
<1> DEFINE t == [Silent EXCEPT !.kind = "withdrawal"]
<1>1. Sure("claim", t, subs) /\ Sure("give", t, subs)
  BY SilentIsTalk, SilentIsSure DEF Sure, PageInv, Silent, PageTalk, PagePlaces, OnePlaces, SearchPlaces, ChoicePlaces
<1>2. LeftOK'
  BY SpentLeft DEF Redeem, PageInv
<1> QED
  BY <1>1, <1>2, TalkOnly DEF Redeem

LEMMA WithdrawData ==
  ASSUME PageInv, NEW p \in Talks, Withdraw(p)
  PROVE  PageInv'
<1>1. LeftOK'
  BY DEF Withdraw, PageInv, LeftOK
<1>2. CASE page.claim.live
  BY <1>1, <1>2, RestsSafely DEF Withdraw
<1>3. CASE ~page.claim.live
  <2>1. RowOK'
    BY <1>3, ClaimsAreClaims, ClaimedRow DEF Withdraw, renewed
  <2>2. Sure("search", [said[p] EXCEPT !.known = page.named], subs)
    BY SureHere DEF Withdraw, Sure, PageInv, RowOK, PageTalk, PagePlaces, OnePlaces, SearchPlaces, ChoicePlaces
  <2> QED
    BY <1>1, <1>3, <2>1, <2>2, TalkAndRow DEF Withdraw
<1> QED
  BY <1>2, <1>3

LEMMA LeftKept ==
  ASSUME PageInv, UNCHANGED left
  PROVE  LeftOK'
  BY DEF PageInv, LeftOK

LEMMA Lens ==
  ASSUME PageInv
  PROVE  /\ Len(subs) \in Nat /\ 0 \in 0..Len(subs) /\ DOMAIN subs = 1..Len(subs)
         /\ \A i \in DOMAIN subs : subs[i] \in Subscription
         /\ stand \subseteq 1..Len(subs)
  BY DEF PageInv, stand

\* Where a talk that has looked goes next, it is sure of what it needs there.
LEMMA Onward ==
  ASSUME PageInv, NEW t, Sure("look", t, subs)
  PROVE  Sure(whereNext(t), t, subs)
<1>1. whereNext(t) \in {"remove", "clear", "settle", "forget", "renew"}
  BY DEF whereNext
<1>2. whereNext(t) = "settle" => t.kept # 0
  BY DEF whereNext
<1>3. t.kind \in {"choice", "withdrawal"}
  BY DEF Sure, SearchPlaces
<1>4. whereNext(t) \in {"settle", "forget", "renew"} => t.kind = "choice"
  BY <1>3 DEF whereNext
<1> HIDE DEF whereNext
<1> QED
  BY <1>1, <1>2, <1>3, <1>4 DEF Sure, PagePlaces, OnePlaces, SearchPlaces, ChoicePlaces

LEMMA KeptServes ==
  ASSUME PageInv, NEW t, Sure("look", t, subs), NEW k \in keptOf(t)
  PROVE  k = 0 \/ (k \in t.found /\ t.kind = "choice" /\ subs[k].terms = t.want)
  BY DEF keptOf, serving

LEMMA DecidesSafely ==
  ASSUME PageInv, NEW p \in Talks, NEW t, Sure("look", t, subs), decides(p, t),
         UNCHANGED <<subs, page, left>>
  PROVE  PageInv'
<1>1. LeftOK'
  BY LeftKept
<1>2. CASE t.todo # {}
  BY <1>1, <1>2, TalkOnly DEF decides
<1>3. CASE t.todo = {} /\ t.paid
  <2>1. Sure("letGo", t, subs)
    BY DEF Sure, PagePlaces, OnePlaces, SearchPlaces, ChoicePlaces
  <2> QED
    BY <1>1, <1>3, <2>1, TalkOnly DEF decides
<1>4. CASE t.todo = {} /\ ~t.paid
  <2> DEFINE s(k) == [t EXCEPT !.kept = k, !.todo = t.found \ {k}]
  <2>1. PICK k \in keptOf(t) : moves(p, whereNext(s(k)), s(k))
    BY <1>4 DEF decides
  <2>2. k = 0 \/ (k \in t.found /\ t.kind = "choice" /\ subs[k].terms = t.want)
    BY <2>1, KeptServes
  <2>3. t \in PageTalk /\ t.found \subseteq 1..Len(subs) /\ k \in 0..Len(subs)
    BY <2>2, Lens DEF Sure
  <2>4. s(k) \in PageTalk
    <3>1. k \in Nat /\ t.found \ {k} \in SUBSET Nat
      BY <2>3, Lens
    <3> QED
      BY <2>3, <3>1 DEF PageTalk
  <2>5. /\ s(k).known = t.known /\ s(k).one = t.one /\ s(k).kept = k /\ s(k).found = t.found
        /\ s(k).todo = t.found \ {k} /\ s(k).kind = t.kind /\ s(k).want = t.want
    BY <2>3 DEF PageTalk
  <2> HIDE DEF s
  <2>6. s(k).todo \subseteq 1..Len(subs)
    BY <2>3, <2>5
  <2>7. s(k).kept # 0 => s(k).kind = "choice" /\ subs[s(k).kept].terms = s(k).want
    BY <2>2, <2>5
  <2>8. Sure("look", s(k), subs)
    BY <2>3, <2>4, <2>5, <2>6, <2>7 DEF Sure, OnePlaces, SearchPlaces, ChoicePlaces
  <2> QED
    BY <1>1, <2>1, <2>8, Onward, TalkOnly
<1> QED
  BY <1>2, <1>3, <1>4

\* A talk that has just found some goes to look at them.
LEMMA LookAtSure ==
  ASSUME PageInv, NEW p \in Talks, place[p] \in {"search", "known"}, NEW found \in SUBSET (1..Len(subs))
  PROVE  Sure("look", lookAt(said[p], found), subs)
<1> DEFINE t == lookAt(said[p], found)
<1>1. found \subseteq 1..Len(subs) /\ found \subseteq Nat
  BY DEF PageInv
<1>2. said[p] \in PageTalk
  BY SureHere
<1>3. t \in PageTalk
  BY <1>1, <1>2 DEF lookAt, PageTalk
<1>4. /\ t.known = said[p].known /\ t.one = said[p].one /\ t.kept = said[p].kept /\ t.found = found
      /\ t.todo = found /\ t.kind = said[p].kind /\ t.want = said[p].want
  BY <1>2 DEF lookAt, PageTalk
<1> HIDE DEF t
<1>5. Sure("look", t, subs)
  BY <1>1, <1>3, <1>4, SureHere DEF Sure, PagePlaces, OnePlaces, SearchPlaces, ChoicePlaces
<1> QED
  BY <1>5 DEF t

LEMMA SearchData ==
  ASSUME PageInv, NEW p \in Talks, Search(p)
  PROVE  PageInv'
<1> DEFINE found == {i \in stand : subs[i].shown}
<1>1. CASE fails(p)
  BY <1>1, FailsSafely DEF Search
<1>2. CASE said[p].known \in found \cup {0} /\ decides(p, lookAt(said[p], found)) /\ UNCHANGED left
  <2>1. Sure("look", lookAt(said[p], found), subs)
    BY Lens, LookAtSure DEF Search
  <2> QED
    BY <1>2, <2>1, DecidesSafely DEF Search
<1>3. CASE moves(p, "known", [said[p] EXCEPT !.found = found]) /\ UNCHANGED left
  <2> DEFINE t == [said[p] EXCEPT !.found = found]
  <2>1. found \subseteq 1..Len(subs) /\ found \subseteq Nat
    BY Lens
  <2>2. said[p] \in PageTalk
    BY SureHere
  <2>3. t \in PageTalk
    BY <2>1, <2>2 DEF PageTalk
  <2>4. /\ t.known = said[p].known /\ t.one = said[p].one /\ t.kept = said[p].kept /\ t.found = found
        /\ t.todo = said[p].todo /\ t.kind = said[p].kind /\ t.want = said[p].want
    BY <2>2 DEF PageTalk
  <2> HIDE DEF t
  <2>5. Sure("known", t, subs)
    BY <2>1, <2>3, <2>4, SureHere DEF Search, Sure, PagePlaces, OnePlaces, SearchPlaces, ChoicePlaces
  <2> QED
    BY <1>3, <2>5, LeftKept, TalkOnly DEF Search, t
<1> QED
  BY <1>1, <1>2, <1>3 DEF Search

LEMMA ReadKnownData ==
  ASSUME PageInv, NEW p \in Talks, ReadKnown(p)
  PROVE  PageInv'
<1> DEFINE found == said[p].found \cup (stand \cap {said[p].known})
<1>1. CASE fails(p)
  BY <1>1, FailsSafely DEF ReadKnown
<1>2. CASE decides(p, lookAt(said[p], found)) /\ UNCHANGED left
  <2>1. found \subseteq 1..Len(subs)
    BY SureHere, Lens DEF Sure
  <2>2. Sure("look", lookAt(said[p], found), subs)
    BY <2>1, LookAtSure DEF ReadKnown
  <2> QED
    BY <1>2, <2>2, DecidesSafely DEF ReadKnown
<1> QED
  BY <1>1, <1>2 DEF ReadKnown

LEMMA ReadFirstChargeData ==
  ASSUME PageInv, NEW p \in Talks, ReadFirstCharge(p)
  PROVE  PageInv'
<1>1. CASE fails(p)
  BY <1>1, FailsSafely DEF ReadFirstCharge
<1>2. CASE ~fails(p)
  <2> DEFINE t(i) == [said[p] EXCEPT !.todo = @ \ {i}, !.paid = @ \/ touchedByMoney(i)]
  <2>1. PICK i \in said[p].todo : decides(p, t(i)) /\ UNCHANGED left
    BY <1>2 DEF ReadFirstCharge
  <2>2. said[p] \in PageTalk
    BY SureHere
  <2>3. t(i) \in PageTalk
    BY <2>2 DEF PageTalk, touchedByMoney
  <2>4. /\ t(i).known = said[p].known /\ t(i).one = said[p].one /\ t(i).kept = said[p].kept
        /\ t(i).found = said[p].found
        /\ t(i).todo = said[p].todo \ {i} /\ t(i).kind = said[p].kind /\ t(i).want = said[p].want
    BY <2>2 DEF PageTalk
  <2> HIDE DEF t
  <2>5. Sure("look", t(i), subs)
    BY <2>3, <2>4, SureHere DEF ReadFirstCharge, Sure, PagePlaces, OnePlaces, SearchPlaces, ChoicePlaces
  <2> QED
    BY <2>1, <2>5, DecidesSafely DEF ReadFirstCharge
<1> QED
  BY <1>1, <1>2

LEMMA OneChanged ==
  ASSUME PageInv, NEW i \in 1..Len(subs), NEW sub \in Subscription, sub.terms = subs[i].terms,
         subs[i].money \in {"PAID", "BACK"} => sub.money \in {"PAID", "BACK"},
         subs' = [subs EXCEPT ![i] = sub]
  PROVE  Grew(subs, subs') /\ Len(subs') = Len(subs) /\ subs' \in Seq(Subscription)
<1>1. subs \in Seq(Subscription) /\ Len(subs) \in Nat
  BY DEF PageInv
<1>2. subs' \in Seq(Subscription) /\ Len(subs') = Len(subs)
  BY <1>1
<1>3. \A j \in 1..Len(subs) : subs'[j] = IF j = i THEN sub ELSE subs[j]
  BY <1>1
<1> QED
  BY <1>1, <1>2, <1>3 DEF Grew

LEMMA RenewToRemoveData ==
  ASSUME PageInv, NEW p \in Talks, RenewToRemove(p)
  PROVE  PageInv'
<1> DEFINE t(i) == [said[p] EXCEPT !.one = i]
<1>1. PICK i \in said[p].todo : ifMine(p, renewed(p), "delete", t(i))
  BY DEF RenewToRemove
<1>2. said[p] \in PageTalk /\ i \in 1..Len(subs) /\ i \in Nat /\ i # 0 /\ i \in 0..Len(subs)
  BY SureHere, Lens DEF Sure
<1>3. t(i) \in PageTalk
  BY <1>2 DEF PageTalk
<1>4. /\ t(i).known = said[p].known /\ t(i).one = i /\ t(i).kept = said[p].kept
      /\ t(i).found = said[p].found /\ t(i).todo = said[p].todo /\ t(i).kind = said[p].kind
      /\ t(i).want = said[p].want
  BY <1>2 DEF PageTalk
<1> HIDE DEF t
<1>5. Sure("delete", t(i), subs)
  BY <1>2, <1>3, <1>4, SureHere
     DEF RenewToRemove, Sure, PagePlaces, OnePlaces, SearchPlaces, ChoicePlaces
<1>6. page' = renewed(p) => RowOK'
  BY ClaimsAreClaims, ClaimedRow DEF RenewToRemove, renewed
<1> QED
  BY <1>1, <1>5, <1>6, LeftKept, IfMineSafely DEF RenewToRemove

LEMMA DeleteData ==
  ASSUME PageInv, NEW p \in Talks, Delete(p)
  PROVE  PageInv'
<1>1. CASE UNCHANGED subs /\ fails(p)
  BY <1>1, FailsSafely DEF Delete
<1>2. CASE /\ subs' = [subs EXCEPT ![said[p].one].alive = FALSE]
           /\ (onTo(p, "relook") /\ UNCHANGED left) \/ fails(p)
  <2>1. said[p].one \in 1..Len(subs)
    BY SureHere, Lens DEF Delete, Sure, OnePlaces
  <2> DEFINE sub == [subs[said[p].one] EXCEPT !.alive = FALSE]
  <2>2. sub \in Subscription /\ sub.terms = subs[said[p].one].terms /\ sub.money = subs[said[p].one].money
    BY <2>1, Lens DEF Subscription
  <2>3. subs' = [subs EXCEPT ![said[p].one] = sub]
    BY <1>2
  <2> HIDE DEF sub
  <2>4. Grew(subs, subs') /\ Len(subs') = Len(subs)
    BY <2>1, <2>2, <2>3, OneChanged
  <2>5. LeftOK'
    BY <1>2, SpentLeft, LeftKept DEF fails, PageInv
  <2>6. PICK where \in {"relook", "letGo"} : moves(p, where, said[p])
    BY <1>2 DEF onTo, fails
  <2>7. Sure(where, said[p], subs)
    BY <2>6, SureHere DEF Delete, Sure, PagePlaces, OnePlaces, SearchPlaces, ChoicePlaces
  <2>8. Sure(where, said[p], subs')
    BY <2>4, <2>7, SureAfter DEF PageInv
  <2>9. Whole' /\ AllSure'
    BY <2>4, <2>6, <2>8, OthersSure
  <2>10. page' = page /\ \A i \in 1..Len(subs) : subs'[i].terms = subs[i].terms
    BY <2>4 DEF Grew, Delete
  <2>11. RowOK'
    <3>1. page \in PageRow /\ page.named \in 0..Len(subs) /\ page.paidBy \in 0..Len(subs) /\ RowTells
      BY DEF PageInv, RowOK
    <3>2. page.named # 0 => subs'[page.named].terms = subs[page.named].terms
      BY <2>10, <3>1, Lens
    <3> QED
      BY <2>4, <2>10, <3>1, <3>2 DEF RowOK, RowTells
  <2> QED
    BY <2>4, <2>5, <2>9, <2>11 DEF PageInv, Grew
<1> QED
  BY <1>1, <1>2 DEF Delete

LEMMA RelookData ==
  ASSUME PageInv, NEW p \in Talks, Relook(p)
  PROVE  PageInv'
<1> DEFINE i == said[p].one
           t == [said[p] EXCEPT !.todo = @ \ {i}, !.one = 0]
<1>1. said[p] \in PageTalk
  BY SureHere
<1>2. t \in PageTalk
  BY <1>1 DEF PageTalk
<1>3. /\ t.known = said[p].known /\ t.one = 0 /\ t.kept = said[p].kept /\ t.found = said[p].found
      /\ t.todo = said[p].todo \ {i} /\ t.kind = said[p].kind /\ t.want = said[p].want
  BY <1>1 DEF PageTalk
<1>4. [t EXCEPT !.paid = TRUE] \in PageTalk
  BY <1>1 DEF PageTalk
<1>5. CASE fails(p)
  BY <1>5, FailsSafely DEF Relook
<1>6. CASE ~fails(p)
  <2>1. UNCHANGED <<subs, page, left>>
    BY <1>6 DEF Relook
  <2>2. \/ moves(p, "letGo", [t EXCEPT !.paid = TRUE])
        \/ moves(p, whereNext(t), t)
    BY <1>6 DEF Relook
  <2>3. LET u == [t EXCEPT !.paid = TRUE] IN
        /\ u.known = t.known /\ u.one = t.one /\ u.kept = t.kept /\ u.found = t.found
        /\ u.todo = t.todo /\ u.kind = t.kind /\ u.want = t.want
    BY <1>2 DEF PageTalk
  <2> HIDE DEF t
  <2>4. Sure("look", t, subs)
    BY <1>2, <1>3, SureHere, Lens DEF Relook, Sure, PagePlaces, OnePlaces, SearchPlaces, ChoicePlaces
  <2>5. Sure("letGo", [t EXCEPT !.paid = TRUE], subs)
    BY <1>4, <2>3, <2>4 DEF Sure, PagePlaces, OnePlaces, SearchPlaces, ChoicePlaces
  <2> QED
    BY <2>1, <2>2, <2>4, <2>5, Onward, LeftKept, TalkOnly
<1> QED
  BY <1>5, <1>6

LEMMA ForgetData ==
  ASSUME PageInv, NEW p \in Talks, Forget(p)
  PROVE  PageInv'
<1>1. Sure("renew", said[p], subs)
  BY SureHere DEF Forget, Sure, PagePlaces, OnePlaces, SearchPlaces, ChoicePlaces
<1>2. page' = unnamed => RowOK'
  BY UnnamedRow DEF Forget
<1> QED
  BY <1>1, <1>2, LeftKept, IfMineSafely DEF Forget

LEMMA RenewToCreateData ==
  ASSUME PageInv, NEW p \in Talks, RenewToCreate(p)
  PROVE  PageInv'
<1>1. Sure("create", said[p], subs)
  BY SureHere DEF RenewToCreate, Sure, PagePlaces, OnePlaces, SearchPlaces, ChoicePlaces
<1>2. page' = renewed(p) => RowOK'
  BY ClaimsAreClaims, ClaimedRow DEF RenewToCreate, renewed
<1> QED
  BY <1>1, <1>2, LeftKept, IfMineSafely DEF RenewToCreate

LEMMA Appended ==
  ASSUME PageInv, NEW sub \in Subscription, subs' = Append(subs, sub)
  PROVE  /\ Grew(subs, subs') /\ subs' \in Seq(Subscription)
         /\ Len(subs') = Len(subs) + 1 /\ subs'[Len(subs')] = sub
         /\ \A i \in 1..Len(subs) : subs'[i] = subs[i]
<1>1. subs \in Seq(Subscription) /\ Len(subs) \in Nat
  BY DEF PageInv
<1>2. subs' \in Seq(Subscription) /\ Len(subs') = Len(subs) + 1
  BY <1>1
<1>3. subs'[Len(subs')] = sub /\ \A i \in 1..Len(subs) : subs'[i] = subs[i]
  BY <1>1
<1> QED
  BY <1>1, <1>2, <1>3 DEF Grew

LEMMA RowStays ==
  ASSUME PageInv, Grew(subs, subs'), UNCHANGED page
  PROVE  RowOK'
<1>1. page \in PageRow /\ page.named \in 0..Len(subs) /\ page.paidBy \in 0..Len(subs) /\ RowTells
  BY DEF PageInv, RowOK
<1>2. page.named # 0 => subs'[page.named].terms = subs[page.named].terms
  BY <1>1, Lens DEF Grew
<1>3. Len(subs) <= Len(subs') /\ Len(subs') \in Nat
  BY DEF Grew
<1> QED
  BY <1>1, <1>2, <1>3, Lens DEF RowOK, RowTells

LEMMA SubscribeData ==
  ASSUME PageInv, NEW p \in Talks, Subscribe(p)
  PROVE  PageInv'
<1>1. Sure("create", said[p], subs) /\ said[p] \in PageTalk /\ said[p].want \in Terms
  BY SureHere DEF Subscribe, Sure, ChoicePlaces
<1>2. CASE UNCHANGED subs /\ (unheard(p) \/ fails(p))
  <2>1. Sure("hold", said[p], subs)
    BY <1>1 DEF Sure, PagePlaces, OnePlaces, SearchPlaces, ChoicePlaces
  <2>2. CASE unheard(p)
    BY <1>2, <2>1, <2>2, SpentLeft, TalkOnly DEF Subscribe, unheard, onTo, PageInv
  <2> QED
    BY <1>2, <2>2, FailsSafely DEF Subscribe
<1>3. CASE UNCHANGED subs /\ costs("lapses") /\ moves(p, "renew", [said[p] EXCEPT !.again = TRUE])
  <2> DEFINE t == [said[p] EXCEPT !.again = TRUE]
  <2>1. t \in PageTalk
    BY <1>1 DEF PageTalk
  <2>2. /\ t.known = said[p].known /\ t.one = said[p].one /\ t.kept = said[p].kept
        /\ t.found = said[p].found /\ t.todo = said[p].todo /\ t.kind = said[p].kind
        /\ t.want = said[p].want
    BY <1>1 DEF PageTalk
  <2> HIDE DEF t
  <2>3. Sure("renew", t, subs)
    BY <1>1, <2>1, <2>2 DEF Sure, PagePlaces, OnePlaces, SearchPlaces, ChoicePlaces
  <2> QED
    BY <1>3, <2>3, SpentLeft, TalkOnly DEF Subscribe, t, PageInv
<1>4. CASE /\ \E shown \in BOOLEAN :
                subs' = Append(subs, [terms |-> said[p].want, alive |-> TRUE, shown |-> shown,
                                      money |-> "WAITS", over |-> FALSE])
           /\ \/ moves(p, "record", [said[p] EXCEPT !.one = Len(subs')]) /\ UNCHANGED left
              \/ unheard(p)
  <2>1. PICK shown \in BOOLEAN :
               subs' = Append(subs, [terms |-> said[p].want, alive |-> TRUE, shown |-> shown,
                                     money |-> "WAITS", over |-> FALSE])
    BY <1>4
  <2> DEFINE sub == [terms |-> said[p].want, alive |-> TRUE, shown |-> shown,
                     money |-> "WAITS", over |-> FALSE]
  <2>2. sub \in Subscription /\ sub.terms = said[p].want
    BY <1>1 DEF Subscription, Money
  <2> HIDE DEF sub
  <2>3. /\ Grew(subs, subs') /\ subs' \in Seq(Subscription)
        /\ Len(subs') = Len(subs) + 1 /\ subs'[Len(subs')] = sub
    BY <2>1, <2>2, Appended DEF sub
  <2>4. RowOK'
    BY <2>3, RowStays DEF Subscribe
  <2>5. CASE moves(p, "record", [said[p] EXCEPT !.one = Len(subs')]) /\ UNCHANGED left
    <3> DEFINE t == [said[p] EXCEPT !.one = Len(subs')]
    <3>1. /\ Len(subs') \in Nat /\ Len(subs') # 0 /\ Len(subs') \in 0..Len(subs')
      BY <2>3, Lens
    <3>2. t \in PageTalk
      BY <1>1, <3>1 DEF PageTalk
    <3>3. /\ t.known = said[p].known /\ t.one = Len(subs') /\ t.kept = said[p].kept
          /\ t.found = said[p].found /\ t.todo = said[p].todo /\ t.kind = said[p].kind
          /\ t.want = said[p].want
      BY <1>1 DEF PageTalk
    <3> HIDE DEF t
    <3>4. Sure("create", said[p], subs')
      BY <1>1, <2>3, SureAfter DEF PageInv
    <3>5. Sure("record", t, subs')
      BY <3>1, <3>2, <3>3, <3>4, <2>2, <2>3
         DEF Sure, PagePlaces, OnePlaces, SearchPlaces, ChoicePlaces
    <3>6. Whole' /\ AllSure'
      BY <2>3, <2>5, <3>5, OthersSure DEF t
    <3> QED
      BY <2>3, <2>4, <2>5, <3>6, LeftKept DEF PageInv
  <2>6. CASE unheard(p)
    <3>1. Sure("create", said[p], subs')
      BY <1>1, <2>3, SureAfter DEF PageInv
    <3>2. Sure("hold", said[p], subs')
      BY <3>1 DEF Sure, PagePlaces, OnePlaces, SearchPlaces, ChoicePlaces
    <3>3. Whole' /\ AllSure'
      BY <2>3, <2>6, <3>2, OthersSure DEF unheard, onTo
    <3> QED
      BY <2>3, <2>4, <2>6, <3>3, SpentLeft DEF PageInv, unheard
  <2> QED
    BY <1>4, <2>5, <2>6
<1> QED
  BY <1>2, <1>3, <1>4 DEF Subscribe

LEMMA RecordData ==
  ASSUME PageInv, NEW p \in Talks, Record(p)
  PROVE  PageInv'
<1> DEFINE i == said[p].one
           t == [said[p] EXCEPT !.kept = i]
<1>1. said[p] \in PageTalk /\ Sure("record", said[p], subs)
  BY SureHere DEF Record
<1>2. i \in 1..Len(subs) /\ i \in Nat /\ subs[i].terms = said[p].want
  BY <1>1, Lens DEF Sure, OnePlaces
<1>3. t \in PageTalk
  BY <1>1, <1>2 DEF PageTalk
<1>4. /\ t.known = said[p].known /\ t.one = i /\ t.kept = i /\ t.found = said[p].found
      /\ t.todo = said[p].todo /\ t.kind = said[p].kind /\ t.want = said[p].want
  BY <1>1 DEF PageTalk
<1>5. ifMine(p, naming(i, said[p].want), "settle", t)
  BY DEF Record
<1> HIDE DEF t, i
<1>6. Sure("settle", t, subs)
  BY <1>1, <1>2, <1>3, <1>4, Lens DEF Sure, PagePlaces, OnePlaces, SearchPlaces, ChoicePlaces
<1>7. page' = naming(i, said[p].want) => RowOK'
  BY <1>2, NamedRow DEF Record
<1> QED
  BY <1>5, <1>6, <1>7, LeftKept, IfMineSafely DEF Record

LEMMA SettleOnData ==
  ASSUME PageInv, NEW p \in Talks, SettleOn(p)
  PROVE  PageInv'
<1>1. CASE fails(p) /\ UNCHANGED page
  BY <1>1, FailsSafely DEF SettleOn
<1>2. CASE /\ ifMine(p, [naming(said[p].kept, said[p].want) EXCEPT !.claim = Free], "rest", Silent)
           /\ UNCHANGED left
  <2> DEFINE i == said[p].kept
             row == [naming(i, said[p].want) EXCEPT !.claim = Free]
  <2>1. i \in 1..Len(subs) /\ subs[i].terms = said[p].want
    BY SureHere, Lens DEF SettleOn, Sure
  <2>2. page' = row => RowOK'
    BY <2>1, NamedRow DEF SettleOn
  <2>3. Sure("rest", Silent, subs)
    BY SilentIsSure DEF PageInv
  <2> HIDE DEF row, i
  <2> QED
    BY <1>2, <2>2, <2>3, LeftKept, IfMineSafely DEF SettleOn, row, i
<1> QED
  BY <1>1, <1>2 DEF SettleOn

LEMMA LetPageGoData ==
  ASSUME PageInv, NEW p \in Talks, LetPageGo(p)
  PROVE  PageInv'
<1>1. Sure("rest", Silent, subs) /\ Sure("hear", Silent, subs)
  BY SilentIsSure DEF PageInv
<1>2. CASE mine(p)
  <2>1. RowOK'
    BY <1>2, ClaimsAreClaims, ClaimedRow DEF LetPageGo, released
  <2> QED
    BY <1>1, <2>1, LeftKept, TalkAndRow DEF LetPageGo
<1>3. CASE ~mine(p)
  BY <1>1, <1>3, LeftKept, TalkOnly DEF LetPageGo
<1> QED
  BY <1>2, <1>3

LEMMA HoldPageData ==
  ASSUME PageInv, NEW p \in Talks, HoldPage(p)
  PROVE  PageInv'
<1>1. Sure("rest", Silent, subs)
  BY SilentIsSure DEF PageInv
<1>2. CASE mine(p)
  <2>1. RowOK'
    BY <1>2, ClaimsAreClaims, ClaimedRow DEF HoldPage, held
  <2> QED
    BY <1>1, <2>1, LeftKept, TalkAndRow DEF HoldPage, rests
<1>3. CASE ~mine(p)
  BY <1>3, LeftKept, RestsSafely DEF HoldPage
<1> QED
  BY <1>2, <1>3

LEMMA ClearData ==
  ASSUME PageInv, NEW p \in Talks, Clear(p)
  PROVE  PageInv'
<1>1. Sure("give", [Silent EXCEPT !.kind = "withdrawal"], subs)
  BY SilentIsTalk, SilentIsSure
     DEF Sure, PageInv, Silent, PageTalk, PagePlaces, OnePlaces, SearchPlaces, ChoicePlaces
<1>2. page' = [unnamed EXCEPT !.claim = Free] => RowOK'
  BY UnnamedRow DEF Clear
<1> QED
  BY <1>1, <1>2, LeftKept, IfMineSafely DEF Clear

LEMMA GiveData ==
  ASSUME PageInv, NEW p \in Talks, Give(p)
  PROVE  PageInv'
<1>1. Sure("rest", Silent, subs)
  BY SilentIsSure DEF PageInv
<1>2. RowOK'
  BY DEF Give, PageInv, RowOK, RowTells, PageRow
<1> QED
  BY <1>1, <1>2, LeftKept, TalkAndRow DEF Give, rests

-----------------------------------------------------------------------------

\* What is known of later readings changes nothing a request is sure of.
LEMMA SureOfReadings ==
  ASSUME NEW S, NEW where, NEW t, Sure(where, t, S), NEW u \in PageTalk,
         \/ \E later \in SUBSET Talks : u = [t EXCEPT !.later = later]
         \/ \E b \in BOOLEAN : u = [t EXCEPT !.overtaken = b]
  PROVE  Sure(where, u, S)
<1>1. t \in PageTalk
  BY DEF Sure
<1>2. /\ u.known = t.known /\ u.one = t.one /\ u.kept = t.kept /\ u.found = t.found /\ u.todo = t.todo
      /\ u.kind = t.kind /\ u.want = t.want /\ u.money = t.money
  BY <1>1 DEF PageTalk
<1> QED
  BY <1>2 DEF Sure, moneySeen

\* A step that leaves every request as sure as it was.
LEMMA AllStillSure ==
  ASSUME PageInv, UNCHANGED subs, RowOK', LeftOK',
         place' \in [Talks -> PagePlaces], DOMAIN said' = Talks, said' = [q \in Talks |-> said'[q]],
         \A q \in Talks : Sure(place'[q], said'[q], subs)
  PROVE  PageInv'
<1>1. \A q \in Talks : said'[q] \in PageTalk
  BY DEF Sure
<1>2. said' \in [Talks -> PageTalk]
  BY <1>1
<1> QED
  BY <1>2 DEF PageInv, Whole, AllSure

LEMMA BeginReadingData ==
  ASSUME PageInv, NEW p \in Talks, BeginReading(p)
  PROVE  PageInv'
<1>1. CASE page.named = 0
  BY <1>1, LeftKept, RestsSafely DEF BeginReading
<1>2. CASE page.named # 0
  <2> DEFINE t == [Silent EXCEPT !.one = page.named]
  <2>1. page.named \in 0..Len(subs) /\ page.named \in Nat
    BY DEF PageInv, RowOK, PageRow
  <2>2. t \in PageTalk
    BY <2>1, SilentIsTalk DEF PageTalk
  <2>3. /\ t.known = 0 /\ t.one = page.named /\ t.kept = 0 /\ t.found = {} /\ t.todo = {}
        /\ t.kind = "none"
    BY DEF Silent
  <2>4. /\ place' = [place EXCEPT ![p] = "readSub"]
        /\ said' = [q \in Talks |-> IF q = p THEN t
                                    ELSE IF reading(q) THEN [said[q] EXCEPT !.later = @ \cup {p}] ELSE said[q]]
        /\ UNCHANGED <<subs, page, left>>
    BY <1>2 DEF BeginReading
  <2> HIDE DEF t
  <2>5. Sure("readSub", t, subs)
    BY <1>2, <2>1, <2>2, <2>3, Lens DEF Sure, PagePlaces, OnePlaces, SearchPlaces, ChoicePlaces
  <2>6. \A q \in Talks : Sure(place'[q], said'[q], subs)
    <3> SUFFICES ASSUME NEW q \in Talks
                 PROVE  Sure(place'[q], said'[q], subs)
      OBVIOUS
    <3>1. CASE q = p
      BY <2>4, <2>5, <3>1 DEF PageInv, Whole
    <3>2. CASE q # p
      <4>1. place'[q] = place[q] /\ Sure(place[q], said[q], subs) /\ said[q].later \cup {p} \in SUBSET Talks
        BY <2>4, <3>2, SureHere DEF PageInv, Whole, PageTalk
      <4>2. said'[q] = said[q] \/ said'[q] = [said[q] EXCEPT !.later = said[q].later \cup {p}]
        BY <2>4, <3>2
      <4>3. said[q] \in PageTalk
        BY SureHere
      <4>4. CASE said'[q] = [said[q] EXCEPT !.later = said[q].later \cup {p}]
        <5>1. said'[q] \in PageTalk
          BY <4>1, <4>3, <4>4 DEF PageTalk
        <5> QED
          BY <4>1, <4>4, <5>1, SureOfReadings
      <4> QED
        BY <4>1, <4>2, <4>4
    <3> QED
      BY <3>1, <3>2
  <2>7. place' \in [Talks -> PagePlaces] /\ DOMAIN said' = Talks /\ said' = [q \in Talks |-> said'[q]]
    BY <2>4 DEF PageInv, Whole, PagePlaces
  <2>8. RowOK'
    BY <2>4 DEF PageInv, RowOK, RowTells
  <2> QED
    BY <2>4, <2>6, <2>7, <2>8, LeftKept, AllStillSure
<1> QED
  BY <1>1, <1>2

LEMMA ReadSubData ==
  ASSUME PageInv, NEW p \in Talks, ReadSub(p)
  PROVE  PageInv'
<1>1. CASE costs("lapses") /\ rests(p)
  <2>1. LeftOK'
    BY <1>1, SpentLeft DEF PageInv
  <2> QED
    BY <1>1, <2>1, RestsSafely DEF ReadSub
<1>2. CASE moves(p, "readCharges", [said[p] EXCEPT !.stands = subs[said[p].one].alive]) /\ UNCHANGED left
  <2> DEFINE t == [said[p] EXCEPT !.stands = subs[said[p].one].alive]
  <2>1. said[p] \in PageTalk /\ Sure("readSub", said[p], subs)
    BY SureHere DEF ReadSub
  <2>2. subs[said[p].one].alive \in BOOLEAN
    BY <2>1, Lens DEF Sure, OnePlaces, Subscription
  <2>3. t \in PageTalk
    BY <2>1, <2>2 DEF PageTalk
  <2>4. /\ t.known = said[p].known /\ t.one = said[p].one /\ t.kept = said[p].kept
        /\ t.found = said[p].found /\ t.todo = said[p].todo /\ t.kind = said[p].kind
        /\ t.want = said[p].want
    BY <2>1 DEF PageTalk
  <2> HIDE DEF t
  <2>5. Sure("readCharges", t, subs)
    BY <2>1, <2>3, <2>4 DEF Sure, PagePlaces, OnePlaces, SearchPlaces, ChoicePlaces
  <2> QED
    BY <1>2, <2>5, LeftKept, TalkOnly DEF ReadSub, t
<1> QED
  BY <1>1, <1>2 DEF ReadSub

LEMMA ReadChargesData ==
  ASSUME PageInv, NEW p \in Talks, ReadCharges(p)
  PROVE  PageInv'
<1>1. CASE costs("lapses") /\ rests(p)
  <2>1. LeftOK'
    BY <1>1, SpentLeft DEF PageInv
  <2> QED
    BY <1>1, <2>1, RestsSafely DEF ReadCharges
<1>2. CASE moves(p, "write", [said[p] EXCEPT !.money = subs[said[p].one].money]) /\ UNCHANGED left
  <2> DEFINE t == [said[p] EXCEPT !.money = subs[said[p].one].money]
  <2>1. said[p] \in PageTalk /\ Sure("readCharges", said[p], subs)
    BY SureHere DEF ReadCharges
  <2>2. subs[said[p].one].money \in Money
    BY <2>1, Lens DEF Sure, OnePlaces, Subscription
  <2>3. t \in PageTalk
    BY <2>1, <2>2 DEF PageTalk
  <2>4. /\ t.known = said[p].known /\ t.one = said[p].one /\ t.kept = said[p].kept
        /\ t.found = said[p].found /\ t.todo = said[p].todo /\ t.kind = said[p].kind
        /\ t.want = said[p].want /\ t.money = subs[said[p].one].money
    BY <2>1 DEF PageTalk
  <2> HIDE DEF t
  <2>5. Sure("write", t, subs)
    BY <2>1, <2>3, <2>4 DEF Sure, PagePlaces, OnePlaces, SearchPlaces, ChoicePlaces, moneySeen
  <2> QED
    BY <1>2, <2>5, LeftKept, TalkOnly DEF ReadCharges, t
<1> QED
  BY <1>1, <1>2 DEF ReadCharges

\* The facts written leave the row whole: what is named and its terms are not theirs to change.
LEMMA FactsRow ==
  ASSUME PageInv, NEW t, Sure("write", t, subs), UNCHANGED subs, page' = factsOf(page, t)
  PROVE  RowOK'
<1>1. page \in PageRow /\ page.named \in 0..Len(subs) /\ page.paidBy \in 0..Len(subs) /\ RowTells
  BY DEF PageInv, RowOK
<1>2. statusOf(page.status, t) \in {"TRIALING", "ACTIVE", "PAST_DUE", "CANCELED"}
  <2>1. page.status \in {"TRIALING", "ACTIVE", "PAST_DUE", "CANCELED"}
    BY <1>1 DEF PageRow
  <2> HIDE DEF PageInv
  <2> QED
    BY <2>1 DEF statusOf
<1>3. paidByOf(page, t) \in 0..Len(subs) /\ paidByOf(page, t) \in Nat
  BY <1>1, Lens DEF paidByOf, Sure, PageRow
<1>4. /\ page'.named = page.named /\ page'.terms = page.terms /\ page'.paidBy = paidByOf(page, t)
      /\ page' \in PageRow
  BY <1>1, <1>2, <1>3 DEF factsOf, PageRow
<1> QED
  BY <1>1, <1>3, <1>4 DEF RowOK, RowTells

LEMMA WriteData ==
  ASSUME PageInv, NEW p \in Talks, Write(p)
  PROVE  PageInv'
<1>1. Sure("rest", Silent, subs) /\ Sure("write", said[p], subs)
  BY SilentIsSure, SureHere DEF PageInv, Write
<1>2. CASE writable(said[p])
  <2>1. /\ place' = [place EXCEPT ![p] = "rest"] /\ page' = factsOf(page, said[p])
        /\ said' = [q \in Talks |-> IF q = p THEN Silent
                                    ELSE [said[q] EXCEPT !.overtaken = @ \/ p \in said[q].later]]
        /\ UNCHANGED <<subs, left>>
    BY <1>2 DEF Write
  <2>2. RowOK'
    BY <1>1, <2>1, FactsRow
  <2>3. \A q \in Talks : Sure(place'[q], said'[q], subs)
    <3> SUFFICES ASSUME NEW q \in Talks
                 PROVE  Sure(place'[q], said'[q], subs)
      OBVIOUS
    <3>1. CASE q = p
      BY <1>1, <2>1, <3>1 DEF PageInv, Whole
    <3>2. CASE q # p
      <4> DEFINE b == said[q].overtaken \/ p \in said[q].later
      <4>1. place'[q] = place[q] /\ Sure(place[q], said[q], subs) /\ said[q] \in PageTalk
        BY <2>1, <3>2, SureHere DEF PageInv, Whole
      <4>2. said'[q] = [said[q] EXCEPT !.overtaken = b] /\ b \in BOOLEAN
        BY <2>1, <3>2
      <4> HIDE DEF b
      <4>3. said'[q] \in PageTalk
        BY <4>1, <4>2 DEF PageTalk
      <4> QED
        BY <4>1, <4>2, <4>3, SureOfReadings
    <3> QED
      BY <3>1, <3>2
  <2>4. place' \in [Talks -> PagePlaces] /\ DOMAIN said' = Talks /\ said' = [q \in Talks |-> said'[q]]
    BY <2>1 DEF PageInv, Whole, PagePlaces
  <2> QED
    BY <2>1, <2>2, <2>3, <2>4, LeftKept, AllStillSure
<1>3. CASE ~writable(said[p])
  <2>1. moves(p, "rest", Silent)
    BY <1>3 DEF Write, moves
  <2> QED
    BY <1>1, <1>3, <2>1, LeftKept, TalkOnly DEF Write
<1> QED
  BY <1>2, <1>3

LEMMA DiesData ==
  ASSUME PageInv, NEW p \in Talks, Dies(p)
  PROVE  PageInv'
<1>1. Sure("rest", Silent, subs)
  BY SilentIsSure DEF PageInv
<1>2. LeftOK'
  BY SpentLeft DEF Dies, PageInv
<1>3. PICK c \in Claims : page' = [page EXCEPT !.claim = c]
  <2>1. page.claim \in Claims
    BY DEF PageInv, RowOK, PageRow, Claims
  <2> DEFINE c == [page.claim EXCEPT !.by = IF @ = p THEN NoTalk ELSE @]
  <2>2. c \in Claims
    BY <2>1 DEF Claims
  <2>3. page' = [page EXCEPT !.claim = c]
    BY DEF Dies
  <2> QED
    BY <2>2, <2>3
<1>4. RowOK'
  BY <1>3, ClaimedRow DEF Dies
<1> QED
  BY <1>1, <1>2, <1>4, TalkAndRow DEF Dies, rests

\* What happens apart from the requests.
LEMMA Apart ==
  ASSUME PageInv, UNCHANGED <<place, said>>, Grew(subs, subs'), RowOK', LeftOK'
  PROVE  PageInv'
<1>1. subs' \in Seq(Subscription)
  BY DEF Grew
<1>2. AllSure'
  BY SureAfter DEF PageInv, AllSure
<1> QED
  BY <1>1, <1>2 DEF PageInv, Whole

LEMMA ClaimRunsOutData ==
  ASSUME PageInv, ClaimRunsOut
  PROVE  PageInv'
<1>1. PICK c \in Claims : page' = [page EXCEPT !.claim = c]
  <2>1. page.claim \in Claims
    BY DEF PageInv, RowOK, PageRow, Claims
  <2>2. [page.claim EXCEPT !.live = FALSE] \in Claims
    BY <2>1 DEF Claims
  <2>3. page' = [page EXCEPT !.claim = [page.claim EXCEPT !.live = FALSE]]
    BY DEF ClaimRunsOut
  <2> QED
    BY <2>2, <2>3
<1>2. RowOK'
  BY <1>1, ClaimedRow DEF ClaimRunsOut
<1> QED
  BY <1>2, SameGrew, LeftKept, Apart DEF ClaimRunsOut, PageInv

LEMMA AsaasSafely ==
  ASSUME PageInv, NEW i \in DOMAIN subs, NEW sub \in Subscription, sub.terms = subs[i].terms,
         subs[i].money \in {"PAID", "BACK"} => sub.money \in {"PAID", "BACK"},
         asaas(i, sub), LeftOK'
  PROVE  PageInv'
<1>1. Grew(subs, subs')
  BY Lens, OneChanged DEF asaas
<1>2. RowOK'
  BY <1>1, RowStays DEF asaas
<1> QED
  BY <1>1, <1>2, Apart DEF asaas

LEMMA AsaasData ==
  ASSUME PageInv, NEW i \in DOMAIN subs,
         \/ Appears(i) \/ Pays(i) \/ Reviewed(i) \/ GivesBack(i) \/ PeriodEnds(i) \/ TakenOut(i)
  PROVE  PageInv'
<1>1. subs[i] \in Subscription
  BY Lens
<1>2. CASE Appears(i)
  <2>1. [subs[i] EXCEPT !.shown = TRUE] \in Subscription
    BY <1>1 DEF Subscription
  <2> QED
    BY <1>1, <1>2, <2>1, LeftKept, AsaasSafely DEF Appears, Subscription
<1>3. \A money \in Money :
        /\ [subs[i] EXCEPT !.money = money] \in Subscription
        /\ [subs[i] EXCEPT !.money = money].terms = subs[i].terms
        /\ [subs[i] EXCEPT !.money = money].money = money
  BY <1>1 DEF Subscription
<1>4. \A money \in Money :
        word(i, money) /\ (subs[i].money \in {"PAID", "BACK"} => money \in {"PAID", "BACK"}) => PageInv'
  BY <1>3, LeftKept, AsaasSafely DEF word
<1>5. CASE Pays(i) \/ Reviewed(i) \/ GivesBack(i)
  BY <1>4, <1>5 DEF Pays, Reviewed, GivesBack, Money
<1>6. CASE PeriodEnds(i)
  <2>1. [subs[i] EXCEPT !.over = TRUE] \in Subscription
    BY <1>1 DEF Subscription
  <2> QED
    BY <1>1, <1>6, <2>1, LeftKept, AsaasSafely DEF PeriodEnds, Subscription
<1>7. CASE TakenOut(i)
  <2>1. [subs[i] EXCEPT !.alive = FALSE] \in Subscription
    BY <1>1 DEF Subscription
  <2>2. LeftOK'
    BY <1>7, SpentLeft DEF TakenOut, PageInv
  <2> QED
    BY <1>1, <1>7, <2>1, <2>2, AsaasSafely DEF TakenOut, Subscription
<1> QED
  BY <1>2, <1>5, <1>6, <1>7

LEMMA DataStep ==
  ASSUME PageInv, [PageNext]_pageVars
  PROVE  PageInv'
<1>1. CASE UNCHANGED pageVars
  <2>1. UNCHANGED <<subs, page, place, said, left>>
    BY <1>1 DEF pageVars
  <2>2. RowOK' /\ LeftOK' /\ Grew(subs, subs')
    BY <2>1, SameGrew DEF PageInv, RowOK, RowTells, LeftOK
  <2> QED
    BY <2>1, <2>2, Apart
<1>2. ASSUME NEW p \in Talks, Converses(p) PROVE PageInv'
  BY <1>2, WithdrawData, SearchData, ReadKnownData, ReadFirstChargeData, RenewToRemoveData, DeleteData,
     RelookData, ForgetData, RenewToCreateData, SubscribeData, RecordData, SettleOnData, LetPageGoData,
     HoldPageData, ClearData, GiveData DEF Converses
<1>3. ASSUME NEW p \in Talks, Reads(p) PROVE PageInv'
  BY <1>3, BeginReadingData, ReadSubData, ReadChargesData, WriteData DEF Reads
<1> QED
  BY <1>1, <1>2, <1>3, ChooseData, RedeemData, DiesData, ClaimRunsOutData, AsaasData DEF PageNext

LEMMA DataKept == PageSpec => []PageInv
<1>1. PageInit => PageInv
  BY DataInit
<1>2. PageInv /\ [PageNext]_pageVars => PageInv'
  BY DataStep
<1> QED
  BY <1>1, <1>2, PTL DEF PageSpec

\* Every variable of the page keeps its type.
THEOREM PageTypes == PageSpec => []PageTypeOK
<1>1. PageInv => PageTypeOK
  BY DEF PageInv, RowOK, Whole, LeftOK, PageTypeOK
<1> QED
  BY <1>1, DataKept, PTL

\* The row's terms are those of the subscription it names, whatever fails and however claims run
\* out: store-subscriptions.service.ts records what was made, never what was asked.
THEOREM RowAlwaysTells == PageSpec => []RowTells
<1>1. PageInv => RowTells
  BY DEF PageInv, RowOK
<1> QED
  BY <1>1, DataKept, PTL

LEMMA ActivatedByWrite ==
  ASSUME PageInv, [PageNext]_pageVars, page'.status = "ACTIVE", page.status # "ACTIVE"
  PROVE  page.named # 0 /\ subs[page.named].money \in {"PAID", "BACK"}
<1>1. PICK p \in Talks : Write(p) /\ page' = factsOf(page, said[p]) /\ writable(said[p])
  <2>1. page \in PageRow
    BY DEF PageInv, RowOK
  <2>2. UNCHANGED page => FALSE
    OBVIOUS
  <2>3. \A c : page' = [page EXCEPT !.claim = c] => FALSE
    BY <2>1 DEF PageRow
  <2>4. \A i, terms, c : /\ page' = naming(i, terms) => FALSE
                         /\ page' = [naming(i, terms) EXCEPT !.claim = c] => FALSE
    BY <2>1 DEF naming, PageRow
  <2>5. ASSUME NEW p \in Talks, Converses(p) PROVE FALSE
    <3>1. page' = [page EXCEPT !.coupon = TRUE] => FALSE
      BY <2>1 DEF PageRow
    <3>2. CASE Withdraw(p) \/ RenewToRemove(p) \/ RenewToCreate(p) \/ LetPageGo(p) \/ HoldPage(p)
      BY <2>2, <2>3, <3>2
         DEF Withdraw, RenewToRemove, RenewToCreate, LetPageGo, HoldPage, ifMine, renewed, released, held
    <3>3. CASE Search(p) \/ ReadKnown(p) \/ ReadFirstCharge(p) \/ Delete(p) \/ Relook(p) \/ Subscribe(p)
      BY <2>2, <3>3 DEF Search, ReadKnown, ReadFirstCharge, Delete, Relook, Subscribe
    <3>4. CASE Forget(p) \/ Record(p) \/ SettleOn(p) \/ Clear(p)
      BY <2>2, <2>4, <3>4 DEF Forget, Record, SettleOn, Clear, ifMine, unnamed
    <3>5. CASE Give(p)
      BY <2>2, <3>1, <3>5 DEF Give
    <3> QED
      BY <2>5, <3>2, <3>3, <3>4, <3>5 DEF Converses
  <2>6. ASSUME NEW p \in Talks, Choose(p) \/ Redeem(p) PROVE FALSE
    BY <2>2, <2>3, <2>6 DEF Choose, Redeem, renewed
  <2>7. ASSUME NEW p \in Talks, Dies(p) PROVE FALSE
    BY <2>1, <2>7 DEF Dies, PageRow
  <2>8. ClaimRunsOut => FALSE
    BY <2>1 DEF ClaimRunsOut, PageRow
  <2>9. ASSUME NEW i \in DOMAIN subs,
               Appears(i) \/ Pays(i) \/ Reviewed(i) \/ GivesBack(i) \/ PeriodEnds(i) \/ TakenOut(i)
        PROVE  FALSE
    BY <2>2, <2>9 DEF Appears, Pays, Reviewed, GivesBack, PeriodEnds, TakenOut, asaas, word
  <2>10. UNCHANGED pageVars => FALSE
    BY <2>2 DEF pageVars
  <2>11. PICK p \in Talks : Reads(p)
    BY <2>5, <2>6, <2>7, <2>8, <2>9, <2>10 DEF PageNext
  <2> QED
    BY <2>2, <2>11 DEF Reads, BeginReading, ReadSub, ReadCharges, Write
<1>2. Sure("write", said[p], subs) /\ page.named = said[p].one
  BY <1>1, SureHere DEF Write, writable
<1>3. statusOf(page.status, said[p]) = "ACTIVE"
  BY <1>1 DEF factsOf, PageInv, RowOK, PageRow
<1>4. moneySeen(said[p])
  BY <1>3 DEF statusOf, covered, moneySeen
<1> QED
  BY <1>2, <1>4 DEF Sure, OnePlaces

\* A page becomes active only by the payment of the subscription its row names, though what is
\* read of Asaas is read with no lock held and written later (subscription-sync.service.ts).
THEOREM ActiveOnlyByItsOwn == PageSpec => ActiveByItsOwn
<1>1. PageInv /\ [PageNext]_pageVars =>
        [page'.status = "ACTIVE" /\ page.status # "ACTIVE"
           => page.named # 0 /\ subs[page.named].money \in {"PAID", "BACK"}]_pageVars
  BY ActivatedByWrite
<1> QED
  BY <1>1, DataKept, PTL DEF PageSpec, ActiveByItsOwn

-----------------------------------------------------------------------------
(* While claims outlast the calls they cover: one talk at a time, and what it knows of Asaas. *)

Conversing == {"search", "known", "look", "remove", "delete", "relook", "forget", "renew", "create",
               "record", "settle", "clear", "letGo", "hold"}

\* What the talk that holds the page knows of what stands.
Knows(where, t, named, standing) ==
  /\ where \in {"search", "known"} => t.known = named
  /\ where = "known" => standing \subseteq t.found \cup {t.known}
  /\ where = "look" => standing \subseteq t.found
  /\ where \in {"remove", "delete"} => standing \subseteq t.todo \cup {t.kept}
  /\ where = "relook" => standing \subseteq (t.todo \ {t.one}) \cup {t.kept}
  /\ where \in {"forget", "renew", "create", "clear"} => standing = {}
  /\ where = "record" => standing \subseteq {t.one}
  /\ where = "settle" => standing \subseteq {t.kept}

Held == \A p \in Talks : place[p] \in Conversing => page.claim = taken(p)
Known == \A p \in Talks : place[p] \in Conversing => Knows(place[p], said[p], page.named, stand)

\* What stands and the search does not show yet is named, or covered by a claim.
Covered ==
  \A i \in stand :
    \/ subs[i].shown
    \/ page.named = i
    \/ page.claim = [by |-> NoTalk, live |-> TRUE]
    \/ \E p \in Talks : place[p] = "hold" \/ (place[p] = "record" /\ said[p].one = i)

Single == \A i, j \in stand : i = j

\* With no lapse, what stands is named, or is about to be.
Told ==
  left.lapses = MaxLapses =>
    stand \subseteq {page.named} \/ \E p \in Talks : place[p] = "record" /\ stand \subseteq {said[p].one}

ClaimInv == Held /\ Known /\ Covered /\ Single /\ Told

-----------------------------------------------------------------------------

LEMMA OneConverses ==
  ASSUME ClaimInv, NEW p \in Talks, place[p] \in Conversing
  PROVE  /\ page.claim = taken(p) /\ mine(p) /\ page.claim.live
         /\ \A q \in Talks : place[q] \in Conversing => q = p
<1>1. page.claim = taken(p) /\ \A q \in Talks : place[q] \in Conversing => page.claim = taken(q)
  BY DEF ClaimInv, Held
<1>2. \A q \in Talks : taken(q).by = q /\ taken(q).live = TRUE
  BY DEF taken
<1> HIDE DEF taken
<1> QED
  BY <1>1, <1>2 DEF mine

LEMMA NoneConverses ==
  ASSUME ClaimInv, ~page.claim.live \/ page.claim.by = NoTalk
  PROVE  \A q \in Talks : place[q] \notin Conversing
<1> SUFFICES ASSUME NEW q \in Talks, place[q] \in Conversing
             PROVE  FALSE
  OBVIOUS
<1>1. mine(q) /\ page.claim.live
  BY OneConverses
<1> QED
  BY <1>1, TalkersAssumption DEF mine

LEMMA KnowsLess ==
  ASSUME NEW where, NEW t, NEW named, NEW A, NEW B \in SUBSET A, Knows(where, t, named, A)
  PROVE  Knows(where, t, named, B)
  BY DEF Knows

LEMMA LapseTold ==
  ASSUME PageInv, costs("lapses")
  PROVE  Told'
  BY BudgetAssumption DEF Told, costs, PageInv, LeftOK

\* A step that neither takes nor lets go of the claim, names nothing else and makes nothing.
LEMMA Steady ==
  ASSUME PageInv, ClaimInv,
         page'.named = page.named, page'.claim = page.claim,
         stand' \subseteq stand, \A i \in stand' : subs[i].shown => subs'[i].shown,
         left'.lapses = MaxLapses => left.lapses = MaxLapses,
         \A q \in Talks : place'[q] \in Conversing =>
            place[q] \in Conversing /\ Knows(place'[q], said'[q], page.named, stand'),
         \A q \in Talks : place[q] \in {"hold", "record"} =>
            place'[q] = place[q] /\ said'[q].one = said[q].one
  PROVE  ClaimInv'
<1>1. Held' /\ Known'
  BY DEF ClaimInv, Held, Known, taken
<1>2. Covered'
  <2> SUFFICES ASSUME NEW i \in stand', ~subs'[i].shown
               PROVE  \/ page'.named = i
                      \/ page'.claim = [by |-> NoTalk, live |-> TRUE]
                      \/ \E p \in Talks : place'[p] = "hold" \/ (place'[p] = "record" /\ said'[p].one = i)
    BY DEF Covered
  <2>1. i \in stand /\ ~subs[i].shown
    OBVIOUS
  <2>2. \/ page.named = i
        \/ page.claim = [by |-> NoTalk, live |-> TRUE]
        \/ \E p \in Talks : place[p] = "hold" \/ (place[p] = "record" /\ said[p].one = i)
    BY <2>1 DEF ClaimInv, Covered
  <2> QED
    BY <2>2
<1>3. Single'
  BY DEF ClaimInv, Single
<1>4. Told'
  <2> SUFFICES ASSUME left'.lapses = MaxLapses
               PROVE  \/ stand' \subseteq {page'.named}
                      \/ \E p \in Talks : place'[p] = "record" /\ stand' \subseteq {said'[p].one}
    BY DEF Told
  <2>1. \/ stand \subseteq {page.named}
        \/ \E p \in Talks : place[p] = "record" /\ stand \subseteq {said[p].one}
    BY DEF ClaimInv, Told
  <2> QED
    BY <2>1
<1> QED
  BY <1>1, <1>2, <1>3, <1>4 DEF ClaimInv

\* A step of the only request that converses, before it or after it.
LEMMA Alone ==
  ASSUME PageInv, ClaimInv, NEW p \in Talks, NEW where, NEW t, moves(p, where, t),
         \A q \in Talks : place[q] \in Conversing => q = p,
         where \in Conversing => page'.claim = taken(p) /\ Knows(where, t, page'.named, stand'),
         Covered', Single', Told'
  PROVE  ClaimInv'
<1>1. /\ \A q \in Talks : q # p => place'[q] = place[q] /\ said'[q] = said[q]
      /\ place'[p] = where /\ said'[p] = t
  BY DEF moves, PageInv, Whole
<1>2. Held' /\ Known'
  BY <1>1 DEF Held, Known, taken
<1> QED
  BY <1>2 DEF ClaimInv

\* A step of the talk that holds the page, which it goes on holding.
LEMMA TalksOn ==
  ASSUME PageInv, ClaimInv, NEW p \in Talks, place[p] \in Conversing \ {"hold", "record"},
         NEW where \in Conversing, NEW t, moves(p, where, t),
         page'.named = page.named, page'.claim = page.claim,
         stand' \subseteq stand, \A i \in stand' : subs[i].shown => subs'[i].shown,
         left'.lapses = MaxLapses => left.lapses = MaxLapses,
         Knows(where, t, page.named, stand')
  PROVE  ClaimInv'
<1>1. /\ \A q \in Talks : q # p => place'[q] = place[q] /\ said'[q] = said[q]
      /\ place'[p] = where /\ said'[p] = t
  BY DEF moves, PageInv, Whole
<1>2. \A q \in Talks : place'[q] \in Conversing =>
            place[q] \in Conversing /\ Knows(place'[q], said'[q], page.named, stand')
  BY <1>1, OneConverses
<1>3. \A q \in Talks : place[q] \in {"hold", "record"} =>
            place'[q] = place[q] /\ said'[q].one = said[q].one
  BY <1>1
<1> QED
  BY <1>2, <1>3, Steady

\* A step of a request that holds nothing, and takes nothing.
LEMMA Meanwhile ==
  ASSUME PageInv, ClaimInv, NEW p \in Talks, place[p] \notin Conversing,
         NEW where \in PagePlaces \ Conversing, place' = [place EXCEPT ![p] = where],
         \A q \in Talks : place[q] \in Conversing =>
            \/ said'[q] = said[q]
            \/ \E later \in SUBSET Talks : said'[q] = [said[q] EXCEPT !.later = later]
            \/ \E b \in BOOLEAN : said'[q] = [said[q] EXCEPT !.overtaken = b],
         UNCHANGED subs, page'.named = page.named, page'.claim = page.claim,
         left'.lapses = MaxLapses => left.lapses = MaxLapses
  PROVE  ClaimInv'
<1>1. stand' = stand
  BY DEF stand
<1>2. \A q \in Talks : place'[q] \in Conversing => place[q] \in Conversing /\ place'[q] = place[q]
  BY DEF PageInv, Whole
<1>3. \A q \in Talks : place[q] \in Conversing =>
        /\ place'[q] = place[q]
        /\ said'[q].known = said[q].known /\ said'[q].found = said[q].found /\ said'[q].todo = said[q].todo
        /\ said'[q].one = said[q].one /\ said'[q].kept = said[q].kept
  <2> SUFFICES ASSUME NEW q \in Talks, place[q] \in Conversing
               PROVE  /\ place'[q] = place[q]
                      /\ said'[q].known = said[q].known /\ said'[q].found = said[q].found
                      /\ said'[q].todo = said[q].todo
                      /\ said'[q].one = said[q].one /\ said'[q].kept = said[q].kept
    OBVIOUS
  <2>1. said[q] \in PageTalk /\ place'[q] = place[q]
    BY SureHere DEF PageInv, Whole
  <2> QED
    BY <2>1 DEF PageTalk
<1>4. \A q \in Talks : place[q] \in Conversing => Knows(place'[q], said'[q], page.named, stand')
  <2> SUFFICES ASSUME NEW q \in Talks, place[q] \in Conversing
               PROVE  Knows(place'[q], said'[q], page.named, stand')
    OBVIOUS
  <2>1. Knows(place[q], said[q], page.named, stand)
    BY DEF ClaimInv, Known
  <2> QED
    BY <1>1, <1>3, <2>1 DEF Knows
<1>5. \A q \in Talks : place[q] \in {"hold", "record"} =>
            place'[q] = place[q] /\ said'[q].one = said[q].one
  BY <1>3 DEF Conversing
<1> QED
  BY <1>1, <1>2, <1>4, <1>5, Steady

LEMMA ClaimInit ==
  ASSUME PageInit
  PROVE  ClaimInv
<1>1. stand = {} /\ \A p \in Talks : place[p] \notin Conversing
  BY DEF PageInit, stand, Conversing
<1> QED
  BY <1>1 DEF ClaimInv, Held, Known, Covered, Single, Told

\* With nothing standing, there is nothing to cover and nothing to tell.
LEMMA NothingStands ==
  ASSUME stand = {}
  PROVE  Covered /\ Single /\ Told
  BY DEF Covered, Single, Told

\* A request takes the page for itself, while no other holds it.
LEMMA Takes ==
  ASSUME PageInv, ClaimInv, NEW p \in Talks, ~page.claim.live, NEW t, moves(p, "search", t),
         t.known = page.named, page' = renewed(p), UNCHANGED subs,
         left'.lapses = left.lapses
  PROVE  ClaimInv'
<1>1. \A q \in Talks : place[q] \notin Conversing
  BY NoneConverses
<1>2. page'.named = page.named /\ page'.claim = taken(p) /\ stand' = stand
  BY DEF renewed, stand, PageInv, RowOK, PageRow
<1>3. Covered'
  <2>1. \A i \in stand : subs[i].shown \/ page.named = i
    BY <1>1 DEF ClaimInv, Covered, Conversing
  <2> QED
    BY <1>2, <2>1 DEF Covered
<1>4. Single'
  BY <1>2 DEF ClaimInv, Single
<1>5. Told'
  BY <1>1, <1>2 DEF ClaimInv, Told, Conversing
<1>6. Knows("search", t, page'.named, stand')
  BY <1>2 DEF Knows
<1> QED
  BY <1>1, <1>2, <1>3, <1>4, <1>5, <1>6, Alone

LEMMA ChooseClaim ==
  ASSUME PageInv, ClaimInv, NEW p \in Talks, Choose(p)
  PROVE  ClaimInv'
<1>1. PICK want \in Terms :
        moves(p, "search", [Silent EXCEPT !.kind = "choice", !.want = want, !.known = page.named])
  BY DEF Choose
<1>2. [Silent EXCEPT !.kind = "choice", !.want = want, !.known = page.named].known = page.named
  BY DEF Silent
<1>3. left'.lapses = left.lapses
  BY DEF Choose, costs, PageInv, LeftOK
<1> QED
  BY <1>1, <1>2, <1>3, Takes DEF Choose

LEMMA WithdrawClaim ==
  ASSUME PageInv, ClaimInv, NEW p \in Talks, Withdraw(p)
  PROVE  ClaimInv'
<1>1. CASE page.claim.live
  BY <1>1, Meanwhile DEF Withdraw, rests, moves, Conversing, PagePlaces, PageInv, Whole
<1>2. CASE ~page.claim.live
  <2>1. said[p] \in PageTalk
    BY SureHere
  <2>2. [said[p] EXCEPT !.known = page.named].known = page.named
    BY <2>1 DEF PageTalk
  <2> QED
    BY <1>2, <2>2, Takes DEF Withdraw
<1> QED
  BY <1>1, <1>2

\* A step of a request that holds nothing and leaves the row's name and claim alone.
LEMMA Aside ==
  ASSUME PageInv, ClaimInv, NEW p \in Talks, place[p] \notin Conversing,
         NEW where \in PagePlaces \ Conversing, NEW t, moves(p, where, t),
         UNCHANGED subs, page'.named = page.named, page'.claim = page.claim,
         left'.lapses = MaxLapses => left.lapses = MaxLapses
  PROVE  ClaimInv'
<1>1. place' = [place EXCEPT ![p] = where]
  BY DEF moves
<1>2. \A q \in Talks : place[q] \in Conversing => said'[q] = said[q]
  BY DEF moves, PageInv, Whole
<1> QED
  BY <1>1, <1>2, Meanwhile

LEMMA LapsesSpent ==
  ASSUME PageInv, costs("lapses")
  PROVE  left'.lapses # MaxLapses
  BY BudgetAssumption DEF costs, PageInv, LeftOK

LEMMA AsideClaim ==
  ASSUME PageInv, ClaimInv, NEW p \in Talks,
         Redeem(p) \/ Give(p) \/ ReadSub(p) \/ ReadCharges(p)
  PROVE  ClaimInv'
<1>1. page.claim \in Claims /\ page \in PageRow
  BY DEF PageInv, RowOK, PageRow, Claims
<1>2. CASE Redeem(p)
  <2>1. left'.lapses = left.lapses
    BY <1>2 DEF Redeem, costs, PageInv, LeftOK
  <2> QED
    BY <1>2, <2>1, Aside DEF Redeem, Conversing, PagePlaces
<1>3. CASE Give(p)
  <2>1. page'.named = page.named /\ page'.claim = page.claim
    BY <1>1, <1>3 DEF Give, PageRow
  <2> QED
    BY <1>3, <2>1, Aside DEF Give, rests, Conversing, PagePlaces
<1>4. CASE ReadSub(p)
  BY <1>4, LapsesSpent, Aside DEF ReadSub, rests, Conversing, PagePlaces
<1>5. CASE ReadCharges(p)
  BY <1>5, LapsesSpent, Aside DEF ReadCharges, rests, Conversing, PagePlaces
<1> QED
  BY <1>2, <1>3, <1>4, <1>5

LEMMA BeginReadingClaim ==
  ASSUME PageInv, ClaimInv, NEW p \in Talks, BeginReading(p)
  PROVE  ClaimInv'
<1>1. CASE page.named = 0
  BY <1>1, Aside DEF BeginReading, rests, Conversing, PagePlaces
<1>2. CASE page.named # 0
  <2>1. /\ place' = [place EXCEPT ![p] = "readSub"] /\ UNCHANGED <<subs, page, left>>
        /\ place[p] \in {"rest", "hear"}
    BY <1>2 DEF BeginReading
  <2>2. \A q \in Talks : place[q] \in Conversing => said'[q] = said[q]
    BY <1>2 DEF BeginReading, reading, Conversing
  <2> QED
    BY <2>1, <2>2, Meanwhile DEF Conversing, PagePlaces
<1> QED
  BY <1>1, <1>2

LEMMA WriteClaim ==
  ASSUME PageInv, ClaimInv, NEW p \in Talks, Write(p)
  PROVE  ClaimInv'
<1>1. place' = [place EXCEPT ![p] = "rest"] /\ UNCHANGED <<subs, left>> /\ place[p] = "write"
  BY DEF Write
<1>2. page'.named = page.named /\ page'.claim = page.claim
  BY DEF Write, factsOf, PageInv, RowOK, PageRow
<1>3. \A q \in Talks : place[q] \in Conversing =>
         \/ said'[q] = said[q]
         \/ \E b \in BOOLEAN : said'[q] = [said[q] EXCEPT !.overtaken = b]
  <2> SUFFICES ASSUME NEW q \in Talks, place[q] \in Conversing
               PROVE  \/ said'[q] = said[q]
                      \/ \E b \in BOOLEAN : said'[q] = [said[q] EXCEPT !.overtaken = b]
    OBVIOUS
  <2>1. q # p
    BY <1>1 DEF Conversing
  <2>2. CASE writable(said[p])
    <3> DEFINE b == said[q].overtaken \/ p \in said[q].later
    <3>1. said'[q] = [said[q] EXCEPT !.overtaken = b] /\ b \in BOOLEAN
      BY <2>1, <2>2 DEF Write
    <3> QED
      BY <3>1
  <2>3. CASE ~writable(said[p])
    BY <2>1, <2>3 DEF Write, PageInv, Whole
  <2> QED
    BY <2>2, <2>3
<1> QED
  BY <1>1, <1>2, <1>3, Meanwhile DEF Conversing, PagePlaces

\* A talk whose call failed goes to let the claim go.
LEMMA FailsClaim ==
  ASSUME PageInv, ClaimInv, NEW p \in Talks, place[p] \in Conversing \ {"hold", "record"}, fails(p),
         UNCHANGED page, stand' \subseteq stand, \A i \in stand' : subs[i].shown => subs'[i].shown
  PROVE  ClaimInv'
<1>1. Knows("letGo", said[p], page.named, stand')
  BY DEF Knows
<1> QED
  BY <1>1, LapsesSpent, TalksOn DEF fails, onTo, Conversing

LEMMA OnwardKnows ==
  ASSUME PageInv, NEW t, Sure("look", t, subs), stand \subseteq t.todo \cup {t.kept}
  PROVE  /\ Knows(whereNext(t), t, page.named, stand)
         /\ whereNext(t) \in {"remove", "clear", "settle", "forget", "renew"}
<1>1. whereNext(t) \in {"remove", "clear", "settle", "forget", "renew"}
  BY DEF whereNext
<1>2. whereNext(t) # "remove" => t.todo = {}
  BY DEF whereNext
<1>3. whereNext(t) = "clear" => t.kept = 0
  <2>1. t.kept # 0 => t.kind = "choice"
    BY DEF Sure
  <2> QED
    BY <2>1 DEF whereNext
<1>4. whereNext(t) \in {"forget", "renew"} => t.kept = 0
  BY DEF whereNext
<1>5. 0 \notin stand
  BY Lens
<1>6. whereNext(t) \in {"clear", "forget", "renew"} => stand = {}
  BY <1>2, <1>3, <1>4, <1>5
<1> HIDE DEF whereNext
<1> QED
  BY <1>1, <1>2, <1>6 DEF Knows

LEMMA DecidesClaim ==
  ASSUME PageInv, ClaimInv, NEW p \in Talks, place[p] \in Conversing \ {"hold", "record"},
         NEW t, Sure("look", t, subs), stand \subseteq t.found, decides(p, t),
         UNCHANGED <<subs, page, left>>
  PROVE  ClaimInv'
<1>1. stand' = stand
  BY DEF stand
<1>2. CASE t.todo # {}
  <2>1. Knows("look", t, page.named, stand)
    BY DEF Knows
  <2> QED
    BY <1>1, <1>2, <2>1, TalksOn DEF decides, Conversing
<1>3. CASE t.todo = {} /\ t.paid
  <2>1. Knows("letGo", t, page.named, stand)
    BY DEF Knows
  <2> QED
    BY <1>1, <1>3, <2>1, TalksOn DEF decides, Conversing
<1>4. CASE t.todo = {} /\ ~t.paid
  <2> DEFINE s(k) == [t EXCEPT !.kept = k, !.todo = t.found \ {k}]
  <2>1. PICK k \in keptOf(t) : moves(p, whereNext(s(k)), s(k))
    BY <1>4 DEF decides
  <2>2. k = 0 \/ (k \in t.found /\ t.kind = "choice" /\ subs[k].terms = t.want)
    BY <2>1, KeptServes
  <2>3. t \in PageTalk /\ t.found \subseteq 1..Len(subs) /\ k \in 0..Len(subs)
    BY <2>2, Lens DEF Sure
  <2>4. s(k) \in PageTalk
    <3>1. k \in Nat /\ t.found \ {k} \in SUBSET Nat
      BY <2>3, Lens
    <3> QED
      BY <2>3, <3>1 DEF PageTalk
  <2>5. /\ s(k).known = t.known /\ s(k).one = t.one /\ s(k).kept = k /\ s(k).found = t.found
        /\ s(k).todo = t.found \ {k} /\ s(k).kind = t.kind /\ s(k).want = t.want
    BY <2>3 DEF PageTalk
  <2> HIDE DEF s
  <2>6. s(k).todo \subseteq 1..Len(subs)
    BY <2>3, <2>5
  <2>7. s(k).kept # 0 => s(k).kind = "choice" /\ subs[s(k).kept].terms = s(k).want
    BY <2>2, <2>5
  <2>8. Sure("look", s(k), subs)
    BY <2>3, <2>4, <2>5, <2>6, <2>7 DEF Sure, OnePlaces, SearchPlaces, ChoicePlaces
  <2>9. stand \subseteq s(k).todo \cup {s(k).kept}
    BY <2>5
  <2>10. /\ Knows(whereNext(s(k)), s(k), page.named, stand)
         /\ whereNext(s(k)) \in Conversing
    BY <2>8, <2>9, OnwardKnows DEF Conversing
  <2> QED
    BY <1>1, <2>1, <2>10, TalksOn
<1> QED
  BY <1>2, <1>3, <1>4

LEMMA HolderKnows ==
  ASSUME ClaimInv, NEW p \in Talks, place[p] \in Conversing
  PROVE  Knows(place[p], said[p], page.named, stand)
  BY DEF ClaimInv, Known

\* What a searching talk does not see is what the row names.
LEMMA SearchedKnows ==
  ASSUME PageInv, ClaimInv, NEW p \in Talks, place[p] = "search"
  PROVE  stand \subseteq {i \in stand : subs[i].shown} \cup {said[p].known}
<1>1. said[p].known = page.named
  BY HolderKnows DEF Knows, Conversing
<1>2. /\ page.claim.by = p
      /\ \A q \in Talks : place[q] \in Conversing => q = p
  BY OneConverses DEF Conversing, mine
<1>3. page.claim # [by |-> NoTalk, live |-> TRUE]
  BY <1>2, TalkersAssumption
<1>4. \A q \in Talks : place[q] # "hold" /\ place[q] # "record"
  BY <1>2 DEF Conversing
<1>5. \A i \in stand : subs[i].shown \/ page.named = i
  BY <1>3, <1>4 DEF ClaimInv, Covered
<1> QED
  BY <1>1, <1>5

LEMMA SearchClaim ==
  ASSUME PageInv, ClaimInv, NEW p \in Talks, Search(p)
  PROVE  ClaimInv'
<1> DEFINE found == {i \in stand : subs[i].shown}
<1>1. /\ place[p] = "search" /\ place[p] \in Conversing \ {"hold", "record"} /\ UNCHANGED <<subs, page>>
      /\ stand' = stand
  BY DEF Search, Conversing, stand
<1>2. CASE fails(p)
  BY <1>1, <1>2, FailsClaim
<1>3. CASE said[p].known \in found \cup {0} /\ decides(p, lookAt(said[p], found)) /\ UNCHANGED left
  <2>1. Sure("look", lookAt(said[p], found), subs)
    BY <1>1, Lens, LookAtSure
  <2>2. stand \subseteq found
    BY <1>1, <1>3, SearchedKnows, Lens
  <2>3. lookAt(said[p], found).found = found
    BY SureHere DEF lookAt, PageTalk
  <2> HIDE DEF found
  <2> QED
    BY <1>1, <1>3, <2>1, <2>2, <2>3, DecidesClaim
<1>4. CASE moves(p, "known", [said[p] EXCEPT !.found = found]) /\ UNCHANGED left
  <2> DEFINE t == [said[p] EXCEPT !.found = found]
  <2>1. t.found = found /\ t.known = said[p].known
    BY SureHere DEF PageTalk
  <2> HIDE DEF t
  <2>2. said[p].known = page.named
    BY <1>1, HolderKnows DEF Knows
  <2>3. Knows("known", t, page.named, stand)
    BY <1>1, <2>1, <2>2, SearchedKnows DEF Knows
  <2> QED
    BY <1>1, <1>4, <2>3, TalksOn DEF t, Conversing
<1> QED
  BY <1>2, <1>3, <1>4 DEF Search

LEMMA ReadKnownClaim ==
  ASSUME PageInv, ClaimInv, NEW p \in Talks, ReadKnown(p)
  PROVE  ClaimInv'
<1> DEFINE found == said[p].found \cup (stand \cap {said[p].known})
<1>1. /\ place[p] = "known" /\ place[p] \in Conversing \ {"hold", "record"} /\ UNCHANGED <<subs, page>>
      /\ stand' = stand
  BY DEF ReadKnown, Conversing, stand
<1>2. CASE fails(p)
  BY <1>1, <1>2, FailsClaim
<1>3. CASE decides(p, lookAt(said[p], found)) /\ UNCHANGED left
  <2>1. found \subseteq 1..Len(subs)
    BY SureHere, Lens DEF Sure
  <2>2. Sure("look", lookAt(said[p], found), subs)
    BY <1>1, <2>1, LookAtSure
  <2>3. stand \subseteq found
    BY <1>1, HolderKnows DEF Knows
  <2>4. lookAt(said[p], found).found = found
    BY SureHere DEF lookAt, PageTalk
  <2> HIDE DEF found
  <2> QED
    BY <1>1, <1>3, <2>2, <2>3, <2>4, DecidesClaim
<1> QED
  BY <1>2, <1>3 DEF ReadKnown

LEMMA ReadFirstChargeClaim ==
  ASSUME PageInv, ClaimInv, NEW p \in Talks, ReadFirstCharge(p)
  PROVE  ClaimInv'
<1>1. /\ place[p] = "look" /\ place[p] \in Conversing \ {"hold", "record"} /\ UNCHANGED <<subs, page>>
      /\ stand' = stand
  BY DEF ReadFirstCharge, Conversing, stand
<1>2. CASE fails(p)
  BY <1>1, <1>2, FailsClaim
<1>3. CASE ~fails(p)
  <2> DEFINE t(i) == [said[p] EXCEPT !.todo = @ \ {i}, !.paid = @ \/ touchedByMoney(i)]
  <2>1. PICK i \in said[p].todo : decides(p, t(i)) /\ UNCHANGED left
    BY <1>3 DEF ReadFirstCharge
  <2>2. said[p] \in PageTalk
    BY SureHere
  <2>3. t(i) \in PageTalk
    BY <2>2 DEF PageTalk, touchedByMoney
  <2>4. /\ t(i).known = said[p].known /\ t(i).one = said[p].one /\ t(i).kept = said[p].kept
        /\ t(i).found = said[p].found
        /\ t(i).todo = said[p].todo \ {i} /\ t(i).kind = said[p].kind /\ t(i).want = said[p].want
    BY <2>2 DEF PageTalk
  <2> HIDE DEF t
  <2>5. Sure("look", t(i), subs)
    BY <1>1, <2>3, <2>4, SureHere DEF Sure, PagePlaces, OnePlaces, SearchPlaces, ChoicePlaces
  <2>6. stand \subseteq t(i).found
    BY <1>1, <2>4, HolderKnows DEF Knows
  <2> QED
    BY <1>1, <2>1, <2>5, <2>6, DecidesClaim
<1> QED
  BY <1>2, <1>3

\* Renewing the claim one holds changes neither who holds the page nor what it names.
LEMMA RenewedSame ==
  ASSUME PageInv, ClaimInv, NEW p \in Talks, place[p] \in Conversing, page' = renewed(p)
  PROVE  page'.named = page.named /\ page'.claim = page.claim
<1>1. page.claim = taken(p)
  BY OneConverses
<1>2. page \in PageRow
  BY DEF PageInv, RowOK
<1>3. renewed(p).claim = taken(p) /\ renewed(p).named = page.named
  BY <1>2 DEF renewed, PageRow
<1> QED
  BY <1>1, <1>3

LEMMA RenewToRemoveClaim ==
  ASSUME PageInv, ClaimInv, NEW p \in Talks, RenewToRemove(p)
  PROVE  ClaimInv'
<1>1. /\ place[p] = "remove" /\ place[p] \in Conversing \ {"hold", "record"} /\ UNCHANGED <<subs, left>>
      /\ stand' = stand
  BY DEF RenewToRemove, Conversing, stand
<1> DEFINE t(i) == [said[p] EXCEPT !.one = i]
<1>2. PICK i \in said[p].todo : page' = renewed(p) /\ moves(p, "delete", t(i))
  BY <1>1, OneConverses DEF RenewToRemove, ifMine
<1>3. t(i).todo = said[p].todo /\ t(i).kept = said[p].kept
  BY SureHere DEF PageTalk
<1> HIDE DEF t
<1>4. Knows("delete", t(i), page.named, stand)
  BY <1>1, <1>3, HolderKnows DEF Knows
<1> QED
  BY <1>1, <1>2, <1>4, RenewedSame, TalksOn DEF Conversing

LEMMA RenewToCreateClaim ==
  ASSUME PageInv, ClaimInv, NEW p \in Talks, RenewToCreate(p)
  PROVE  ClaimInv'
<1>1. /\ place[p] = "renew" /\ place[p] \in Conversing \ {"hold", "record"} /\ UNCHANGED <<subs, left>>
      /\ stand' = stand
  BY DEF RenewToCreate, Conversing, stand
<1>2. page' = renewed(p) /\ moves(p, "create", said[p])
  BY <1>1, OneConverses DEF RenewToCreate, ifMine
<1>3. Knows("create", said[p], page.named, stand)
  BY <1>1, HolderKnows DEF Knows
<1> QED
  BY <1>1, <1>2, <1>3, RenewedSame, TalksOn DEF Conversing

LEMMA DeleteClaim ==
  ASSUME PageInv, ClaimInv, NEW p \in Talks, Delete(p)
  PROVE  ClaimInv'
<1>1. /\ place[p] = "delete" /\ place[p] \in Conversing \ {"hold", "record"} /\ UNCHANGED page
  BY DEF Delete, Conversing
<1>2. CASE UNCHANGED subs /\ fails(p)
  BY <1>1, <1>2, FailsClaim DEF stand
<1>3. CASE /\ subs' = [subs EXCEPT ![said[p].one].alive = FALSE]
           /\ (onTo(p, "relook") /\ UNCHANGED left) \/ fails(p)
  <2>1. said[p].one \in 1..Len(subs)
    BY <1>1, SureHere, Lens DEF Sure, OnePlaces
  <2>2. subs \in Seq(Subscription) /\ DOMAIN subs' = DOMAIN subs
    BY <1>3 DEF PageInv
  <2>3. \A i \in DOMAIN subs : i # said[p].one => subs'[i] = subs[i]
    BY <1>3, <2>2
  <2>4. ~subs'[said[p].one].alive /\ subs'[said[p].one].shown = subs[said[p].one].shown
    BY <1>3, <2>1, <2>2, Lens DEF Subscription
  <2>5. stand' \subseteq stand \ {said[p].one} /\ \A i \in stand' : subs[i].shown => subs'[i].shown
    BY <2>2, <2>3, <2>4 DEF stand
  <2>6. CASE fails(p)
    BY <1>1, <2>5, <2>6, FailsClaim
  <2>7. CASE onTo(p, "relook") /\ UNCHANGED left
    <3>1. stand \subseteq said[p].todo \cup {said[p].kept}
      BY <1>1, HolderKnows DEF Knows
    <3>2. Knows("relook", said[p], page.named, stand')
      BY <2>5, <3>1 DEF Knows
    <3> QED
      BY <1>1, <2>5, <2>7, <3>2, TalksOn DEF onTo, Conversing
  <2> QED
    BY <1>3, <2>6, <2>7
<1> QED
  BY <1>2, <1>3 DEF Delete

LEMMA RelookClaim ==
  ASSUME PageInv, ClaimInv, NEW p \in Talks, Relook(p)
  PROVE  ClaimInv'
<1> DEFINE i == said[p].one
           t == [said[p] EXCEPT !.todo = @ \ {i}, !.one = 0]
<1>1. /\ place[p] = "relook" /\ place[p] \in Conversing \ {"hold", "record"} /\ UNCHANGED <<subs, page>>
      /\ stand' = stand
  BY DEF Relook, Conversing, stand
<1>2. said[p] \in PageTalk
  BY SureHere
<1>3. t \in PageTalk
  BY <1>2 DEF PageTalk
<1>4. /\ t.known = said[p].known /\ t.one = 0 /\ t.kept = said[p].kept /\ t.found = said[p].found
      /\ t.todo = said[p].todo \ {i} /\ t.kind = said[p].kind /\ t.want = said[p].want
  BY <1>2 DEF PageTalk
<1>5. CASE fails(p)
  BY <1>1, <1>5, FailsClaim
<1>6. CASE ~fails(p)
  <2>1. UNCHANGED left
    BY <1>6 DEF Relook
  <2>2. \/ moves(p, "letGo", [t EXCEPT !.paid = TRUE])
        \/ moves(p, whereNext(t), t)
    BY <1>6 DEF Relook
  <2>3. stand \subseteq t.todo \cup {t.kept}
    BY <1>1, <1>4, HolderKnows DEF Knows
  <2> HIDE DEF t
  <2>4. Sure("look", t, subs)
    BY <1>1, <1>3, <1>4, SureHere, Lens DEF Sure, PagePlaces, OnePlaces, SearchPlaces, ChoicePlaces
  <2>5. Knows("letGo", [t EXCEPT !.paid = TRUE], page.named, stand)
    BY DEF Knows
  <2>6. Knows(whereNext(t), t, page.named, stand) /\ whereNext(t) \in Conversing
    BY <2>3, <2>4, OnwardKnows DEF Conversing
  <2>7. CASE moves(p, "letGo", [t EXCEPT !.paid = TRUE])
    BY <1>1, <2>1, <2>5, <2>7, TalksOn DEF Conversing
  <2>8. CASE moves(p, whereNext(t), t)
    BY <1>1, <2>1, <2>6, <2>8, TalksOn
  <2> QED
    BY <2>2, <2>7, <2>8
<1> QED
  BY <1>5, <1>6

LEMMA ForgetClaim ==
  ASSUME PageInv, ClaimInv, NEW p \in Talks, Forget(p)
  PROVE  ClaimInv'
<1>1. place[p] = "forget" /\ place[p] \in Conversing /\ stand' = stand
  BY DEF Forget, Conversing, stand
<1>2. stand = {}
  BY <1>1, HolderKnows DEF Knows
<1>3. page' = unnamed /\ moves(p, "renew", said[p])
  BY <1>1, OneConverses DEF Forget, ifMine
<1>4. page'.claim = taken(p)
  BY <1>1, <1>3, OneConverses DEF unnamed, naming, PageInv, RowOK, PageRow
<1>5. Covered' /\ Single' /\ Told'
  BY <1>1, <1>2 DEF Covered, Single, Told
<1>6. Knows("renew", said[p], page'.named, stand')
  BY <1>1, <1>2 DEF Knows
<1> QED
  BY <1>1, <1>3, <1>4, <1>5, <1>6, OneConverses, Alone

LEMMA ClearClaim ==
  ASSUME PageInv, ClaimInv, NEW p \in Talks, Clear(p)
  PROVE  ClaimInv'
<1>1. place[p] = "clear" /\ place[p] \in Conversing /\ stand' = stand
  BY DEF Clear, Conversing, stand
<1>2. stand = {}
  BY <1>1, HolderKnows DEF Knows
<1>3. moves(p, "give", [Silent EXCEPT !.kind = "withdrawal"])
  BY <1>1, OneConverses DEF Clear, ifMine
<1>4. Covered' /\ Single' /\ Told'
  BY <1>1, <1>2 DEF Covered, Single, Told
<1> QED
  BY <1>1, <1>3, <1>4, OneConverses, Alone DEF Conversing

\* A row that names what stands covers it and tells of it.
LEMMA NamesWhatStands ==
  ASSUME ClaimInv, UNCHANGED subs, stand \subseteq {page'.named}
  PROVE  Covered' /\ Single' /\ Told'
<1>1. stand' = stand
  BY DEF stand
<1> QED
  BY <1>1 DEF Covered, Single, Told

LEMMA RecordClaim ==
  ASSUME PageInv, ClaimInv, NEW p \in Talks, Record(p)
  PROVE  ClaimInv'
<1>1. place[p] = "record" /\ place[p] \in Conversing /\ stand' = stand /\ UNCHANGED subs
  BY DEF Record, Conversing, stand
<1>2. stand \subseteq {said[p].one}
  BY <1>1, HolderKnows DEF Knows
<1> DEFINE t == [said[p] EXCEPT !.kept = said[p].one]
<1>3. page' = naming(said[p].one, said[p].want) /\ moves(p, "settle", t)
  BY <1>1, OneConverses DEF Record, ifMine
<1>4. page'.claim = taken(p) /\ page'.named = said[p].one
  BY <1>1, <1>3, OneConverses DEF naming, PageInv, RowOK, PageRow
<1>5. Covered' /\ Single' /\ Told'
  BY <1>1, <1>2, <1>4, NamesWhatStands
<1>6. t.kept = said[p].one
  BY SureHere DEF PageTalk
<1> HIDE DEF t
<1>7. Knows("settle", t, page'.named, stand')
  BY <1>1, <1>2, <1>6 DEF Knows
<1> QED
  BY <1>1, <1>3, <1>4, <1>5, <1>7, OneConverses, Alone

LEMMA SettleOnClaim ==
  ASSUME PageInv, ClaimInv, NEW p \in Talks, SettleOn(p)
  PROVE  ClaimInv'
<1>1. place[p] = "settle" /\ place[p] \in Conversing \ {"hold", "record"} /\ UNCHANGED subs
      /\ stand' = stand
  BY DEF SettleOn, Conversing, stand
<1>2. CASE fails(p) /\ UNCHANGED page
  BY <1>1, <1>2, FailsClaim
<1>3. CASE /\ ifMine(p, [naming(said[p].kept, said[p].want) EXCEPT !.claim = Free], "rest", Silent)
           /\ UNCHANGED left
  <2>1. stand \subseteq {said[p].kept}
    BY <1>1, HolderKnows DEF Knows
  <2>2. /\ page' = [naming(said[p].kept, said[p].want) EXCEPT !.claim = Free]
        /\ moves(p, "rest", Silent)
    BY <1>1, <1>3, OneConverses DEF ifMine
  <2>3. page'.named = said[p].kept
    BY <2>2 DEF naming, PageInv, RowOK, PageRow
  <2>4. Covered' /\ Single' /\ Told'
    BY <1>1, <2>1, <2>3, NamesWhatStands
  <2> QED
    BY <1>1, <2>2, <2>4, OneConverses, Alone DEF Conversing
<1> QED
  BY <1>2, <1>3 DEF SettleOn

\* A creation, heard of or not: it is all that stands.
LEMMA SubscribeClaim ==
  ASSUME PageInv, ClaimInv, NEW p \in Talks, Subscribe(p)
  PROVE  ClaimInv'
<1>1. /\ place[p] = "create" /\ place[p] \in Conversing \ {"hold", "record"} /\ UNCHANGED page
      /\ \A q \in Talks : place[q] \in Conversing => q = p
      /\ page.claim = taken(p)
  BY OneConverses DEF Subscribe, Conversing
<1>2. stand = {}
  BY <1>1, HolderKnows DEF Knows
<1>3. CASE UNCHANGED subs
  <2>1. stand' = {}
    BY <1>2, <1>3 DEF stand
  <2>2. Covered' /\ Single' /\ Told'
    BY <2>1 DEF Covered, Single, Told
  <2>3. PICK where \in {"hold", "letGo", "renew"} : \E t : moves(p, where, t)
    <3>1. CASE unheard(p)
      BY <3>1 DEF unheard, onTo
    <3>2. CASE fails(p)
      BY <3>2 DEF fails, onTo
    <3>3. CASE moves(p, "renew", [said[p] EXCEPT !.again = TRUE])
      BY <3>3
    <3>4. \A sub : subs # Append(subs, sub)
      BY DEF PageInv
    <3> QED
      BY <1>3, <3>1, <3>2, <3>3, <3>4 DEF Subscribe
  <2>4. PICK t : moves(p, where, t)
    BY <2>3
  <2>5. Knows(where, t, page'.named, stand')
    BY <2>1, <2>3 DEF Knows
  <2> QED
    BY <1>1, <2>2, <2>4, <2>5, Alone
<1>4. CASE subs' # subs
  <2>1. PICK shown \in BOOLEAN :
               subs' = Append(subs, [terms |-> said[p].want, alive |-> TRUE, shown |-> shown,
                                     money |-> "WAITS", over |-> FALSE])
    BY <1>4 DEF Subscribe
  <2>2. \/ moves(p, "record", [said[p] EXCEPT !.one = Len(subs')]) /\ UNCHANGED left
        \/ unheard(p)
    BY <1>4 DEF Subscribe
  <2> DEFINE sub == [terms |-> said[p].want, alive |-> TRUE, shown |-> shown,
                     money |-> "WAITS", over |-> FALSE]
  <2>3. sub \in Subscription
    BY <1>1, SureHere DEF Subscription, Money, Sure, ChoicePlaces
  <2> HIDE DEF sub
  <2>4. /\ Len(subs') = Len(subs) + 1 /\ \A i \in 1..Len(subs) : subs'[i] = subs[i]
        /\ DOMAIN subs' = 1..Len(subs')
    BY <2>1, <2>3, Appended DEF sub
  <2>5. stand' \subseteq {Len(subs')}
    <3> SUFFICES ASSUME NEW i \in stand', i # Len(subs')
                 PROVE  FALSE
      OBVIOUS
    <3>1. i \in 1..Len(subs) /\ subs[i].alive
      BY <2>4, Lens DEF stand
    <3> QED
      BY <1>2, <3>1, Lens DEF stand
  <2>6. Single'
    BY <2>5 DEF Single
  <2>7. place'[p] = "hold" \/ (place'[p] = "record" /\ said'[p].one = Len(subs'))
    BY <2>2, SureHere DEF moves, unheard, onTo, PageInv, Whole, PageTalk
  <2>8. Covered'
    BY <2>5, <2>7 DEF Covered
  <2>9. CASE unheard(p)
    <3>1. Told'
      BY <2>9, LapseTold DEF unheard
    <3>2. Knows("hold", said[p], page'.named, stand')
      BY DEF Knows
    <3> QED
      BY <1>1, <2>6, <2>8, <2>9, <3>1, <3>2, Alone DEF unheard, onTo
  <2>10. CASE moves(p, "record", [said[p] EXCEPT !.one = Len(subs')])
    <3> DEFINE t == [said[p] EXCEPT !.one = Len(subs')]
    <3>1. t.one = Len(subs')
      BY SureHere DEF PageTalk
    <3>2. moves(p, "record", t) /\ place'[p] = "record" /\ said'[p] = t
      BY <2>10 DEF moves, PageInv, Whole
    <3> HIDE DEF t
    <3>3. Told'
      BY <2>5, <3>1, <3>2 DEF Told
    <3>4. Knows("record", t, page'.named, stand')
      BY <2>5, <3>1 DEF Knows
    <3> QED
      BY <1>1, <2>6, <2>8, <3>2, <3>3, <3>4, Alone
  <2> QED
    BY <2>2, <2>9, <2>10
<1> QED
  BY <1>3, <1>4

\* Once the only talk there is neither records nor holds, what stands unseen is named.
LEMMA LeftNamed ==
  ASSUME PageInv, ClaimInv, NEW p \in Talks, place[p] = "letGo"
  PROVE  /\ \A i \in stand : subs[i].shown \/ page.named = i
         /\ left.lapses = MaxLapses => stand \subseteq {page.named}
<1>1. /\ page.claim.by = p
      /\ \A q \in Talks : place[q] \in Conversing => q = p
  BY OneConverses DEF Conversing, mine
<1>2. page.claim # [by |-> NoTalk, live |-> TRUE]
  BY <1>1, TalkersAssumption
<1>3. \A q \in Talks : place[q] # "hold" /\ place[q] # "record"
  BY <1>1 DEF Conversing
<1> QED
  BY <1>2, <1>3 DEF ClaimInv, Covered, Told

LEMMA LetPageGoClaim ==
  ASSUME PageInv, ClaimInv, NEW p \in Talks, LetPageGo(p)
  PROVE  ClaimInv'
<1>1. place[p] = "letGo" /\ place[p] \in Conversing /\ stand' = stand /\ UNCHANGED <<subs, left>>
  BY DEF LetPageGo, Conversing, stand
<1>2. page'.named = page.named
  BY DEF LetPageGo, released, PageInv, RowOK, PageRow
<1>3. PICK where \in {"hear", "rest"} : moves(p, where, Silent)
  BY DEF LetPageGo
<1>4. Covered'
  BY <1>1, <1>2, LeftNamed DEF Covered
<1>5. Single' /\ Told'
  BY <1>1, <1>2, LeftNamed DEF Single, Told, ClaimInv
<1> QED
  BY <1>1, <1>3, <1>4, <1>5, OneConverses, Alone DEF Conversing

LEMMA HoldPageClaim ==
  ASSUME PageInv, ClaimInv, NEW p \in Talks, HoldPage(p)
  PROVE  ClaimInv'
<1>1. place[p] = "hold" /\ place[p] \in Conversing /\ stand' = stand /\ UNCHANGED <<subs, left>>
  BY DEF HoldPage, Conversing, stand
<1>2. page' = held /\ moves(p, "rest", Silent)
  BY <1>1, OneConverses DEF HoldPage, rests
<1>3. page'.named = page.named /\ page'.claim = [by |-> NoTalk, live |-> TRUE]
  BY <1>2 DEF held, PageInv, RowOK, PageRow
<1>4. Covered'
  BY <1>3 DEF Covered
<1>5. \A q \in Talks : place[q] # "record"
  BY <1>1, OneConverses DEF Conversing
<1>6. Single' /\ Told'
  BY <1>1, <1>3, <1>5 DEF Single, Told, ClaimInv
<1> QED
  BY <1>1, <1>2, <1>4, <1>6, OneConverses, Alone DEF Conversing

LEMMA DiesClaim ==
  ASSUME PageInv, ClaimInv, NEW p \in Talks, Dies(p)
  PROVE  ClaimInv'
<1>1. /\ page \in PageRow /\ page.claim \in Claims /\ stand' = stand /\ UNCHANGED subs
      /\ moves(p, "rest", Silent)
  BY DEF PageInv, RowOK, PageRow, Claims, Dies, stand, rests
<1>2. page'.named = page.named /\ page'.claim = [page.claim EXCEPT !.by = IF @ = p THEN NoTalk ELSE @]
  BY <1>1 DEF Dies, PageRow
<1>3. left'.lapses # MaxLapses
  BY LapsesSpent DEF Dies
<1>4. CASE place[p] \in Conversing
  <2>1. page'.claim = [by |-> NoTalk, live |-> TRUE]
    <3>1. page.claim = [by |-> p, live |-> TRUE]
      BY <1>4, OneConverses DEF taken
    <3>2. page.claim.by = p /\ page.claim.live = TRUE
      BY <3>1
    <3>3. page'.claim = [page.claim EXCEPT !.by = NoTalk]
      BY <1>2, <3>2
    <3> QED
      BY <1>1, <3>2, <3>3 DEF Claims
  <2>2. Covered'
    BY <2>1 DEF Covered
  <2>3. Single' /\ Told'
    BY <1>1, <1>3 DEF Single, Told, ClaimInv
  <2> QED
    BY <1>1, <1>4, <2>2, <2>3, OneConverses, Alone DEF Conversing
<1>5. CASE place[p] \notin Conversing /\ page.claim.by # p
  <2>1. page'.claim = page.claim
    <3>1. page'.claim = [page.claim EXCEPT !.by = page.claim.by]
      BY <1>2, <1>5
    <3> QED
      BY <1>1, <3>1 DEF Claims
  <2> QED
    BY <1>1, <1>2, <1>3, <1>5, <2>1, Aside DEF Conversing, PagePlaces
<1>6. CASE place[p] \notin Conversing /\ page.claim.by = p
  <2>1. \A q \in Talks : place[q] \notin Conversing
    BY <1>6, OneConverses DEF mine
  <2>2. page.claim # [by |-> NoTalk, live |-> TRUE]
    BY <1>6, TalkersAssumption
  <2>3. \A i \in stand : subs[i].shown \/ page.named = i
    BY <2>1, <2>2 DEF ClaimInv, Covered, Conversing
  <2>4. Covered' /\ Single' /\ Told'
    BY <1>1, <1>2, <1>3, <2>3 DEF Covered, Single, Told, ClaimInv
  <2> QED
    BY <1>1, <2>1, <2>4, Alone DEF Conversing
<1> QED
  BY <1>4, <1>5, <1>6

LEMMA ClaimRunsOutClaim ==
  ASSUME PageInv, ClaimInv, InTime, ClaimRunsOut
  PROVE  ClaimInv'
<1>1. /\ page.claim.by = NoTalk /\ \A i \in DOMAIN subs : subs[i].shown
      /\ UNCHANGED <<subs, place, said, left>> /\ stand' = stand
  BY DEF ClaimRunsOut, stand
<1>2. \A q \in Talks : place'[q] \notin Conversing
  BY <1>1, NoneConverses
<1>3. page'.named = page.named
  BY DEF ClaimRunsOut, PageInv, RowOK, PageRow
<1>4. Held' /\ Known'
  BY <1>2 DEF Held, Known
<1>5. Covered'
  BY <1>1, Lens DEF Covered, stand
<1>6. Single' /\ Told'
  BY <1>1, <1>3 DEF Single, Told, ClaimInv
<1> QED
  BY <1>4, <1>5, <1>6 DEF ClaimInv

LEMMA AsaasClaim ==
  ASSUME PageInv, ClaimInv, NEW i \in DOMAIN subs,
         \/ Appears(i) \/ Pays(i) \/ Reviewed(i) \/ GivesBack(i) \/ PeriodEnds(i) \/ TakenOut(i)
  PROVE  ClaimInv'
<1>1. subs[i] \in Subscription /\ subs \in Seq(Subscription)
  BY Lens DEF PageInv
<1>2. PICK sub : /\ subs' = [subs EXCEPT ![i] = sub] /\ UNCHANGED <<page, place, said>>
                 /\ sub.alive => subs[i].alive
                 /\ subs[i].shown => sub.shown
  BY <1>1 DEF Appears, Pays, Reviewed, GivesBack, PeriodEnds, TakenOut, asaas, word, Subscription
<1>3. left'.lapses = left.lapses
  BY DEF Appears, Pays, Reviewed, GivesBack, PeriodEnds, TakenOut, costs, word, PageInv, LeftOK
<1>4. DOMAIN subs' = DOMAIN subs /\ \A j \in DOMAIN subs : subs'[j] = IF j = i THEN sub ELSE subs[j]
  BY <1>1, <1>2
<1>5. stand' \subseteq stand /\ \A j \in stand' : subs[j].shown => subs'[j].shown
  BY <1>2, <1>4 DEF stand
<1>6. \A q \in Talks : place[q] \in Conversing => Knows(place[q], said[q], page.named, stand')
  BY <1>5, KnowsLess DEF ClaimInv, Known
<1> QED
  BY <1>2, <1>3, <1>5, <1>6, Steady

LEMMA ClaimStep ==
  ASSUME PageInv, ClaimInv, InTime, [PageNext]_pageVars
  PROVE  ClaimInv'
<1>1. CASE UNCHANGED pageVars
  <2>1. UNCHANGED <<subs, page, place, said, left>>
    BY <1>1 DEF pageVars
  <2> QED
    BY <2>1 DEF ClaimInv, Held, Known, Covered, Single, Told, stand
<1>2. ASSUME NEW p \in Talks, Converses(p) PROVE ClaimInv'
  BY <1>2, WithdrawClaim, SearchClaim, ReadKnownClaim, ReadFirstChargeClaim, RenewToRemoveClaim,
     DeleteClaim, RelookClaim, ForgetClaim, RenewToCreateClaim, SubscribeClaim, RecordClaim,
     SettleOnClaim, LetPageGoClaim, HoldPageClaim, ClearClaim, AsideClaim DEF Converses
<1>3. ASSUME NEW p \in Talks, Reads(p) PROVE ClaimInv'
  BY <1>3, BeginReadingClaim, AsideClaim, WriteClaim DEF Reads
<1> QED
  BY <1>1, <1>2, <1>3, ChooseClaim, AsideClaim, DiesClaim, ClaimRunsOutClaim, AsaasClaim DEF PageNext

LEMMA ClaimsKept == PageSpec => [](InTime => ClaimInv)
<1>1. PageInit => (InTime => ClaimInv)
  BY ClaimInit
<1>2. PageInv /\ (InTime => ClaimInv) /\ [PageNext]_pageVars => (InTime => ClaimInv)'
  BY ClaimStep
<1> QED
  BY <1>1, <1>2, DataKept, PTL DEF PageSpec

\* A page never has two subscriptions standing at Asaas, when a claim outlasts the calls it covers
\* and a hold what an unanswered creation made: any number of choices, coupons, removals, failures
\* and crashes (store-subscriptions.service.ts, whose claim, search and hold are there for this).
THEOREM NeverTwoStand == PageSpec => []OneStanding
<1>1. (InTime => ClaimInv) => OneStanding
  BY DEF ClaimInv, Single, OneStanding
<1> QED
  BY <1>1, ClaimsKept, PTL

\* With no call failed, what stands while no talk holds the page is what its row names: nothing
\* charges a page unknown to it.
THEOREM NothingIsUnnamed == PageSpec => []NothingUnnamed
<1>1. ASSUME InTime => ClaimInv PROVE NothingUnnamed
  <2> SUFFICES ASSUME InTime, left.lapses = MaxLapses, page.claim = Free
               PROVE  stand \subseteq {page.named}
    BY DEF NothingUnnamed
  <2>1. ~page.claim.live
    BY DEF Free
  <2>2. \A q \in Talks : place[q] # "record"
    BY <1>1, <2>1, NoneConverses DEF Conversing
  <2> QED
    BY <1>1, <2>2 DEF ClaimInv, Told
<1> QED
  BY <1>1, ClaimsKept, PTL

LEMMA GivenWhileNothingStands ==
  ASSUME PageInv, ClaimInv, [PageNext]_pageVars, page'.coupon # page.coupon, left.lapses = MaxLapses
  PROVE  stand = {}
<1>1. page \in PageRow
  BY DEF PageInv, RowOK
<1>2. PICK p \in Talks : Give(p) /\ mayGive
  <2>1. UNCHANGED page => FALSE
    OBVIOUS
  <2>2. \A c : page' = [page EXCEPT !.claim = c] => FALSE
    BY <1>1 DEF PageRow
  <2>3. \A i, terms, c : /\ page' = naming(i, terms) => FALSE
                         /\ page' = [naming(i, terms) EXCEPT !.claim = c] => FALSE
    BY <1>1 DEF naming, PageRow
  <2>4. ASSUME NEW p \in Talks, Converses(p) PROVE Give(p)
    <3>1. CASE Withdraw(p) \/ RenewToRemove(p) \/ RenewToCreate(p) \/ LetPageGo(p) \/ HoldPage(p)
      BY <2>1, <2>2, <3>1
         DEF Withdraw, RenewToRemove, RenewToCreate, LetPageGo, HoldPage, ifMine, renewed, released, held
    <3>2. CASE Search(p) \/ ReadKnown(p) \/ ReadFirstCharge(p) \/ Delete(p) \/ Relook(p) \/ Subscribe(p)
      BY <2>1, <3>2 DEF Search, ReadKnown, ReadFirstCharge, Delete, Relook, Subscribe
    <3>3. CASE Forget(p) \/ Record(p) \/ SettleOn(p) \/ Clear(p)
      BY <2>1, <2>3, <3>3 DEF Forget, Record, SettleOn, Clear, ifMine, unnamed
    <3> QED
      BY <2>4, <3>1, <3>2, <3>3 DEF Converses
  <2>5. ASSUME NEW p \in Talks, Choose(p) \/ Redeem(p) PROVE FALSE
    BY <2>1, <2>2, <2>5 DEF Choose, Redeem, renewed
  <2>6. ASSUME NEW p \in Talks, Dies(p) PROVE FALSE
    BY <1>1, <2>6 DEF Dies, PageRow
  <2>7. ClaimRunsOut => FALSE
    BY <1>1 DEF ClaimRunsOut, PageRow
  <2>8. ASSUME NEW i \in DOMAIN subs,
               Appears(i) \/ Pays(i) \/ Reviewed(i) \/ GivesBack(i) \/ PeriodEnds(i) \/ TakenOut(i)
        PROVE  FALSE
    BY <2>1, <2>8 DEF Appears, Pays, Reviewed, GivesBack, PeriodEnds, TakenOut, asaas, word
  <2>9. UNCHANGED pageVars => FALSE
    BY <2>1 DEF pageVars
  <2>10. ASSUME NEW p \in Talks, Reads(p) PROVE FALSE
    <3>1. \A t : page' = factsOf(page, t) => FALSE
      BY <1>1 DEF factsOf, PageRow
    <3> QED
      BY <2>1, <2>10, <3>1 DEF Reads, BeginReading, ReadSub, ReadCharges, Write
  <2>11. PICK p \in Talks : Give(p)
    BY <2>4, <2>5, <2>6, <2>7, <2>8, <2>9, <2>10 DEF PageNext
  <2> QED
    BY <2>1, <2>11 DEF Give
<1>3. ~page.claim.live /\ page.named = 0
  BY <1>2 DEF mayGive, couponFits
<1>4. \A q \in Talks : place[q] # "record"
  BY <1>3, NoneConverses DEF Conversing
<1>5. stand \subseteq {0}
  BY <1>3, <1>4 DEF ClaimInv, Told
<1> QED
  BY <1>5, Lens

\* A free month is given only while nothing charges the page, when no call failed: platform-
\* coupons.service.ts looks at the row again, under its lock, after the subscription was removed.
THEOREM FreeMonthsAreFree == PageSpec => FreeMonthIsFree
<1>1. PageInv /\ (InTime => ClaimInv) /\ [PageNext]_pageVars =>
        [page'.coupon # page.coupon /\ InTime /\ left.lapses = MaxLapses => stand = {}]_pageVars
  BY GivenWhileNothingStands
<1> QED
  BY <1>1, DataKept, ClaimsKept, PTL DEF PageSpec, FreeMonthIsFree
=============================================================================

------------------------------ MODULE MCClaims ------------------------------
(***************************************************************************)
(* The two talks with Asaas that a claim on a row holds apart: an order's  *)
(* charge, and a page's subscription.  They share no variable: each is     *)
(* explored while the other rests as it began.                             *)
(***************************************************************************)
EXTENDS MCOrderCharge, Subscriptions

ClaimsInit == Init /\ PageInit

ClaimsNext ==
  \/ PageInit /\ Next /\ UNCHANGED pageVars
  \/ Init /\ PageNext /\ UNCHANGED vars

ClaimsSpec == ClaimsInit /\ [][ClaimsNext]_<<vars, pageVars>>

\* Bound: of two choices, a coupon and a lapse, any three; or a removal at the panel and choices
\* alone, with nothing given back and no period that ends.
Few ==
  /\ left.choices + left.coupons + left.lapses > 0
  /\ left.removals < MaxRemovals =>
       /\ left.coupons = MaxCoupons /\ left.lapses = MaxLapses
       /\ \A i \in DOMAIN subs : subs[i].money # "BACK" /\ ~subs[i].over

AllAlike == Symmetry \cup Permutations(Talks) \cup Permutations(Terms)
=============================================================================

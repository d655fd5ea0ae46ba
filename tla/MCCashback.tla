----------------------------- MODULE MCCashback -----------------------------
(* A small shop for TLC: validities shorter and longer than the least a return
   is given, and none. *)
EXTENDS Cashback, TLC

Short == {1}
NoExpiry == {Never}
ShortOrNone == Short \cup NoExpiry

Alike == Permutations(Orders) \cup Permutations(Extras)

(* Bound: two orders, all their credit of a day, and the days going by; or one
   more order, and credit that does not expire. *)
ofValidities(V) ==
    \A l \in Lots : lots[l].status # "NONE" /\ lots[l].root = l => lots[l].validity \in V
Small ==
    \/ ofValidities(Short) /\ \E o \in Orders : order[o] = "NONE"
    \/ ofValidities(NoExpiry) /\ now = 0
=============================================================================

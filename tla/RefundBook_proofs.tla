------------------------- MODULE RefundBook_proofs -------------------------
(***************************************************************************)
(* What the writers of a charge's refunds do to its rows, whatever rows    *)
(* and whatever sums they are given.  The recursive functions of           *)
(* RefundBook are shown to exist, and to have their properties, by the     *)
(* least place where they would not.                                       *)
(***************************************************************************)
EXTENDS RefundBook, TLAPS, WellFoundedInduction

Rows == Seq(RefundRow)

LEMMA NatHasLeast ==
  ASSUME NEW S, S \subseteq Nat, S # {}
  PROVE  \E m \in S : \A k \in S : m <= k
<1> DEFINE R == OpToRel(<, Nat)
<1>1. IsWellFoundedOn(R, Nat)
  BY NatLessThanWellFounded
<1> HIDE DEF R
<1>2. PICK m \in S : \A k \in S : <<k, m>> \notin R
  BY <1>1, WFMin
<1>3. \A k \in S : ~(k < m)
  BY <1>2 DEF R, OpToRel
<1> QED
  BY <1>2, <1>3, SMT

-----------------------------------------------------------------------------
(* Sums. *)

Sum(list, which, n, g) ==
  g = [i \in 0..n |-> IF i = 0 THEN 0
                      ELSE g[i - 1] + IF i \in which THEN list[i].cents ELSE 0]

LEMMA SumExists ==
  ASSUME NEW list, NEW which, NEW n \in Nat
  PROVE  \E g : Sum(list, which, n, g)
<1> DEFINE Bad == {k \in Nat : ~\E g : Sum(list, which, k, g)}
<1> SUFFICES ASSUME Bad # {} PROVE FALSE
  OBVIOUS
<1>1. PICK m \in Bad : \A k \in Bad : m <= k
  BY NatHasLeast
<1>2. m # 0
  <2>1. Sum(list, which, 0, [i \in 0..0 |-> 0])
    BY SMT DEF Sum
  <2> QED
    BY <2>1
<1>3. m - 1 \in Nat /\ m - 1 \notin Bad
  BY <1>1, <1>2
<1>4. PICK h : Sum(list, which, m - 1, h)
  BY <1>3
<1> DEFINE g == [i \in 0..m |-> IF i < m THEN h[i]
                                ELSE h[m - 1] + IF m \in which THEN list[m].cents ELSE 0]
<1>5. \A i \in 0..m : g[i] = IF i = 0 THEN 0
                             ELSE g[i - 1] + IF i \in which THEN list[i].cents ELSE 0
  BY <1>4, <1>2, SMT DEF Sum
<1>6. Sum(list, which, m, g)
  BY <1>5 DEF Sum
<1> QED
  BY <1>6

LEMMA CentsOfIs ==
  ASSUME NEW list, NEW which, Len(list) \in Nat
  PROVE  \E g : Sum(list, which, Len(list), g) /\ centsOf(list, which) = g[Len(list)]
<1>1. \E g : Sum(list, which, Len(list), g)
  BY SumExists
<1> QED
  BY <1>1 DEF centsOf, Sum

\* A sum of cents is a natural, and one over fewer places is no larger.
LEMMA SumsAreNatural ==
  ASSUME NEW list, Len(list) \in Nat, \A i \in 1..Len(list) : list[i].cents \in Nat,
         NEW which, NEW fewer, fewer \subseteq which
  PROVE  /\ centsOf(list, which) \in Nat
         /\ centsOf(list, fewer) \in Nat
         /\ centsOf(list, fewer) <= centsOf(list, which)
<1>1. PICK g : Sum(list, which, Len(list), g) /\ centsOf(list, which) = g[Len(list)]
  BY CentsOfIs
<1>2. PICK h : Sum(list, fewer, Len(list), h) /\ centsOf(list, fewer) = h[Len(list)]
  BY CentsOfIs
<1> DEFINE Bad == {k \in 0..Len(list) : ~(g[k] \in Nat /\ h[k] \in Nat /\ h[k] <= g[k])}
<1>3. Bad = {}
  <2> SUFFICES ASSUME Bad # {} PROVE FALSE
    OBVIOUS
  <2>0. Bad \subseteq Nat
    OBVIOUS
  <2>1. PICK m \in Bad : \A k \in Bad : m <= k
    BY <2>0, NatHasLeast
  <2>2. m # 0
    BY <1>1, <1>2 DEF Sum
  <2>3. g[m - 1] \in Nat /\ h[m - 1] \in Nat /\ h[m - 1] <= g[m - 1]
    BY <2>1, <2>2
  <2>4. /\ g[m] = g[m - 1] + IF m \in which THEN list[m].cents ELSE 0
        /\ h[m] = h[m - 1] + IF m \in fewer THEN list[m].cents ELSE 0
    BY <1>1, <1>2, <2>2 DEF Sum
  <2>5. list[m].cents \in Nat
    BY <2>2
  <2>6. ~(g[m] \in Nat /\ h[m] \in Nat /\ h[m] <= g[m])
    OBVIOUS
  <2> HIDE DEF Bad
  <2>7. CASE m \in fewer
    <3>1. g[m] = g[m - 1] + list[m].cents /\ h[m] = h[m - 1] + list[m].cents
      BY <2>4, <2>7
    <3> QED
      BY <2>3, <2>5, <2>6, <3>1
  <2>8. CASE m \in which /\ m \notin fewer
    <3>1. g[m] = g[m - 1] + list[m].cents /\ h[m] = h[m - 1] + 0
      BY <2>4, <2>8
    <3> QED
      BY <2>3, <2>5, <2>6, <3>1
  <2>9. CASE m \notin which
    <3>1. g[m] = g[m - 1] + 0 /\ h[m] = h[m - 1] + 0
      BY <2>4, <2>9
    <3> QED
      BY <2>3, <2>6, <3>1
  <2> QED
    BY <2>7, <2>8, <2>9
<1> QED
  BY <1>1, <1>2, <1>3

LEMMA RowsSums ==
  ASSUME NEW rows \in Rows, NEW statuses, NEW fewer, fewer \subseteq statuses
  PROVE  /\ sumOf(rows, statuses) \in Nat
         /\ sumOf(rows, fewer) \in Nat
         /\ sumOf(rows, fewer) <= sumOf(rows, statuses)
<1>1. Len(rows) \in Nat /\ \A i \in 1..Len(rows) : rows[i].cents \in Nat
  <2>1. Len(rows) \in Nat /\ \A i \in 1..Len(rows) : rows[i] \in RefundRow
    BY DEF Rows
  <2>2. \A row \in RefundRow : row.cents \in Nat
    BY AmountIsPaid DEF RefundRow
  <2> QED
    BY <2>1, <2>2
<1>2. rowsIn(rows, fewer) \subseteq rowsIn(rows, statuses)
  BY DEF rowsIn
<1> QED
  BY <1>1, <1>2, SumsAreNatural DEF sumOf

\* What place i adds to a sum: nothing past the end of the list.
Share(list, which, i) == IF i \in 1..Len(list) /\ i \in which THEN list[i].cents ELSE 0

\* A list of cents: the rows, or the refunds at Asaas.
Cents(list) == Len(list) \in Nat /\ \A i \in 1..Len(list) : list[i].cents \in Nat

\* The sum up to each place, on past the end of the list.
Upto(list, which, n, g) == g \in [0..n -> Nat] /\ g[0] = 0 /\ \A i \in 1..n : g[i] = g[i - 1] + Share(list, which, i)

LEMMA SharesAreNatural ==
  ASSUME NEW list, Cents(list), NEW which, NEW i
  PROVE  Share(list, which, i) \in Nat
BY DEF Share, Cents

LEMMA SumUpto ==
  ASSUME NEW list, Cents(list), NEW which, NEW n \in Nat, Len(list) <= n
  PROVE  \E g : Upto(list, which, n, g) /\ g[n] = centsOf(list, which)
<1> DEFINE len == Len(list)
<1>0. len \in Nat
  BY DEF Cents
<1>1. PICK h : Sum(list, which, len, h) /\ centsOf(list, which) = h[len]
  BY <1>0, CentsOfIs
<1>2. \A i \in 0..len : h[i] = IF i = 0 THEN 0 ELSE h[i - 1] + IF i \in which THEN list[i].cents ELSE 0
  BY <1>1 DEF Sum
<1>3. h[0] = 0 /\ \A i \in 1..len : h[i] = h[i - 1] + Share(list, which, i)
  BY <1>0, <1>2 DEF Share
<1> DEFINE Bad == {k \in 0..len : h[k] \notin Nat}
<1>4. Bad = {}
  <2> SUFFICES ASSUME Bad # {} PROVE FALSE
    OBVIOUS
  <2>0. Bad \subseteq Nat
    BY <1>0
  <2>1. PICK m \in Bad : \A k \in Bad : m <= k
    BY <2>0, NatHasLeast
  <2>2. m # 0 /\ m \in 1..len
    BY <1>0, <1>3
  <2>3. h[m - 1] \in Nat
    BY <2>1, <2>2, <1>0
  <2>4. h[m] = h[m - 1] + Share(list, which, m) /\ Share(list, which, m) \in Nat
    BY <1>3, <2>2, SharesAreNatural
  <2> QED
    BY <2>3, <2>4
<1> DEFINE g == [i \in 0..n |-> IF i <= len THEN h[i] ELSE h[len]]
<1>5. g \in [0..n -> Nat] /\ g[0] = 0 /\ g[n] = h[len]
  BY <1>0, <1>3, <1>4
<1>6. ASSUME NEW i \in 1..n PROVE g[i] = g[i - 1] + Share(list, which, i)
  <2>1. CASE i <= len
    BY <2>1, <1>0, <1>3
  <2>2. CASE ~(i <= len)
    <3>1. g[i] = h[len] /\ g[i - 1] = h[len]
      BY <2>2, <1>0
    <3>2. Share(list, which, i) = 0
      BY <2>2, <1>0 DEF Share
    <3>3. h[len] \in Nat
      BY <1>0, <1>4
    <3> QED
      BY <3>1, <3>2, <3>3
  <2> QED
    BY <2>1, <2>2
<1> HIDE DEF g
<1>7. Upto(list, which, n, g)
  BY <1>5, <1>6 DEF Upto
<1> QED
  BY <1>1, <1>5, <1>7

\* Three lists, place by place.
Within(c, wc, a, wa, b, wb) ==
  \A i \in Nat \ {0} : Share(c, wc, i) <= Share(a, wa, i) + Share(b, wb, i)
Over(c, wc, a, wa, b, wb) ==
  \A i \in Nat \ {0} : Share(a, wa, i) + Share(b, wb, i) <= Share(c, wc, i)
Matches(c, wc, a, wa, b, wb) ==
  \A i \in Nat \ {0} : Share(c, wc, i) = Share(a, wa, i) + Share(b, wb, i)

LEMMA SumsCompare ==
  ASSUME NEW a, Cents(a), NEW b, Cents(b), NEW c, Cents(c), NEW wa, NEW wb, NEW wc
  PROVE  /\ Within(c, wc, a, wa, b, wb) => centsOf(c, wc) <= centsOf(a, wa) + centsOf(b, wb)
         /\ Over(c, wc, a, wa, b, wb) => centsOf(a, wa) + centsOf(b, wb) <= centsOf(c, wc)
         /\ centsOf(a, wa) \in Nat /\ centsOf(b, wb) \in Nat /\ centsOf(c, wc) \in Nat
<1> DEFINE n == Len(a) + Len(b) + Len(c)
<1>0. n \in Nat /\ Len(a) <= n /\ Len(b) <= n /\ Len(c) <= n
  BY DEF Cents
<1> HIDE DEF n
<1>1. PICK f : Upto(a, wa, n, f) /\ f[n] = centsOf(a, wa)
  BY <1>0, SumUpto
<1>2. PICK g : Upto(b, wb, n, g) /\ g[n] = centsOf(b, wb)
  BY <1>0, SumUpto
<1>3. PICK h : Upto(c, wc, n, h) /\ h[n] = centsOf(c, wc)
  BY <1>0, SumUpto
<1>4. /\ \A i \in 0..n : f[i] \in Nat /\ g[i] \in Nat /\ h[i] \in Nat
      /\ f[0] = 0 /\ g[0] = 0 /\ h[0] = 0
      /\ \A i \in 1..n : /\ f[i] = f[i - 1] + Share(a, wa, i)
                          /\ g[i] = g[i - 1] + Share(b, wb, i)
                          /\ h[i] = h[i - 1] + Share(c, wc, i)
  BY <1>1, <1>2, <1>3 DEF Upto
<1>5. \A i : Share(a, wa, i) \in Nat /\ Share(b, wb, i) \in Nat /\ Share(c, wc, i) \in Nat
  BY SharesAreNatural
<1>6. ASSUME Within(c, wc, a, wa, b, wb) PROVE h[n] <= f[n] + g[n]
  <2> DEFINE Bad == {k \in 0..n : ~(h[k] <= f[k] + g[k])}
  <2> SUFFICES ASSUME Bad # {} PROVE FALSE
    BY <1>0
  <2>0. Bad \subseteq Nat
    BY <1>0
  <2>1. PICK m \in Bad : \A k \in Bad : m <= k
    BY <2>0, NatHasLeast
  <2>2. m # 0 /\ m \in 1..n /\ m - 1 \in 0..n
    BY <1>0, <1>4
  <2>3. h[m - 1] <= f[m - 1] + g[m - 1]
    BY <2>1, <2>2
  <2>4. Share(c, wc, m) <= Share(a, wa, m) + Share(b, wb, m)
    BY <1>6, <2>2 DEF Within
  <2>5. h[m] <= f[m] + g[m]
    BY <1>4, <1>5, <2>2, <2>3, <2>4
  <2> QED
    BY <2>5
<1>7. ASSUME Over(c, wc, a, wa, b, wb) PROVE f[n] + g[n] <= h[n]
  <2> DEFINE Bad == {k \in 0..n : ~(f[k] + g[k] <= h[k])}
  <2> SUFFICES ASSUME Bad # {} PROVE FALSE
    BY <1>0
  <2>0. Bad \subseteq Nat
    BY <1>0
  <2>1. PICK m \in Bad : \A k \in Bad : m <= k
    BY <2>0, NatHasLeast
  <2>2. m # 0
    BY <1>4
  <2> HIDE DEF Bad
  <2>6. m \in 0..n /\ m \in 1..n /\ m - 1 \in 0..n
    BY <1>0, <2>0, <2>1, <2>2 DEF Bad
  <2>3. f[m - 1] + g[m - 1] <= h[m - 1]
    BY <2>1, <2>6 DEF Bad
  <2>4. Share(a, wa, m) + Share(b, wb, m) <= Share(c, wc, m)
    BY <1>7, <2>6 DEF Over
  <2>5. f[m] + g[m] <= h[m]
    BY <1>4, <1>5, <2>6, <2>3, <2>4
  <2> QED
    BY <2>1, <2>5 DEF Bad
<1> QED
  BY <1>0, <1>1, <1>2, <1>3, <1>4, <1>6, <1>7

LEMMA SumsMatch ==
  ASSUME NEW a, Cents(a), NEW b, Cents(b), NEW c, Cents(c), NEW wa, NEW wb, NEW wc,
         Matches(c, wc, a, wa, b, wb)
  PROVE  /\ centsOf(c, wc) = centsOf(a, wa) + centsOf(b, wb)
         /\ centsOf(a, wa) \in Nat /\ centsOf(b, wb) \in Nat /\ centsOf(c, wc) \in Nat
<1>1. \A i : Share(a, wa, i) \in Nat /\ Share(b, wb, i) \in Nat
  BY SharesAreNatural
<1>2. Within(c, wc, a, wa, b, wb)
  BY <1>1 DEF Matches, Within
<1>3. Over(c, wc, a, wa, b, wb)
  BY <1>1 DEF Matches, Over
<1>4. /\ centsOf(c, wc) <= centsOf(a, wa) + centsOf(b, wb)
      /\ centsOf(a, wa) + centsOf(b, wb) <= centsOf(c, wc)
      /\ centsOf(a, wa) \in Nat /\ centsOf(b, wb) \in Nat /\ centsOf(c, wc) \in Nat
  BY <1>2, <1>3, SumsCompare
<1> QED
  BY <1>4

\* A sum over one list is no larger than over another that holds as much at every place.
LEMMA SumsOrdered ==
  ASSUME NEW a, Cents(a), NEW c, Cents(c), NEW wa, NEW wc,
         \A i \in Nat \ {0} : Share(c, wc, i) <= Share(a, wa, i)
  PROVE  centsOf(c, wc) <= centsOf(a, wa) /\ centsOf(c, wc) \in Nat /\ centsOf(a, wa) \in Nat
<1>1. \A i : Share(a, {}, i) = 0 /\ Share(a, wa, i) \in Nat
  BY SharesAreNatural DEF Share
<1>2. Within(c, wc, a, wa, a, {}) /\ Within(a, {}, a, {}, a, {})
  BY <1>1 DEF Within
<1>3. Over(a, {}, a, {}, a, {})
  BY <1>1 DEF Over
<1>4. centsOf(a, {}) + centsOf(a, {}) <= centsOf(a, {}) /\ centsOf(a, {}) \in Nat
  BY <1>3, SumsCompare
<1>5. centsOf(c, wc) <= centsOf(a, wa) + centsOf(a, {}) /\ centsOf(c, wc) \in Nat /\ centsOf(a, wa) \in Nat
  BY <1>2, SumsCompare
<1> QED
  BY <1>4, <1>5

LEMMA CentsAreNatural ==
  ASSUME NEW a, Cents(a), NEW wa
  PROVE  centsOf(a, wa) \in Nat
<1>1. wa \subseteq wa
  OBVIOUS
<1> QED
  BY <1>1, SumsAreNatural DEF Cents

LEMMA SumOfNone ==
  ASSUME NEW a, Cents(a), NEW wa, \A i \in 1..Len(a) : i \notin wa
  PROVE  centsOf(a, wa) = 0
<1>1. \A i \in Nat \ {0} : Share(a, wa, i) = 0
  BY DEF Share
<1>2. Over(a, wa, a, wa, a, wa)
  BY <1>1 DEF Over
<1>3. centsOf(a, wa) + centsOf(a, wa) <= centsOf(a, wa) /\ centsOf(a, wa) \in Nat
  BY <1>2, SumsCompare
<1> QED
  BY <1>3

LEMMA SumOfOne ==
  ASSUME NEW a, Cents(a), NEW i \in 1..Len(a)
  PROVE  centsOf(a, {i}) = a[i].cents
<1> DEFINE n == Len(a)
<1>0. n \in Nat /\ i \in Nat /\ a[i].cents \in Nat
  BY DEF Cents
<1>1. PICK g : Upto(a, {i}, n, g) /\ g[n] = centsOf(a, {i})
  BY <1>0, SumUpto
<1>2. g[0] = 0 /\ \A k \in 1..n : g[k] = g[k - 1] + Share(a, {i}, k)
  BY <1>1 DEF Upto
<1>3. \A k \in 1..n : Share(a, {i}, k) = IF k = i THEN a[i].cents ELSE 0
  BY DEF Share
<1> DEFINE Bad == {k \in 0..n : g[k] # IF k < i THEN 0 ELSE a[i].cents}
<1>4. Bad = {}
  <2> SUFFICES ASSUME Bad # {} PROVE FALSE
    OBVIOUS
  <2>0. Bad \subseteq Nat
    BY <1>0
  <2>1. PICK m \in Bad : \A k \in Bad : m <= k
    BY <2>0, NatHasLeast
  <2>2. m # 0 /\ m \in 1..n /\ m - 1 \in 0..n
    BY <1>0, <1>2
  <2>3. g[m - 1] = IF m - 1 < i THEN 0 ELSE a[i].cents
    BY <2>1, <2>2
  <2>4. g[m] = g[m - 1] + IF m = i THEN a[i].cents ELSE 0
    BY <1>2, <1>3, <2>2
  <2>5. g[m] = IF m < i THEN 0 ELSE a[i].cents
    BY <1>0, <2>2, <2>3, <2>4
  <2> QED
    BY <2>5
<1> QED
  BY <1>0, <1>1, <1>4

LEMMA SumOfBoth ==
  ASSUME NEW a, Cents(a), NEW wa, NEW wb, wa \cap wb = {}
  PROVE  /\ centsOf(a, wa \cup wb) = centsOf(a, wa) + centsOf(a, wb)
         /\ centsOf(a, wa) \in Nat /\ centsOf(a, wb) \in Nat
<1>2. \A i \in Nat \ {0} : Share(a, wa \cup wb, i) = Share(a, wa, i) + Share(a, wb, i)
  <2> SUFFICES ASSUME NEW i PROVE Share(a, wa \cup wb, i) = Share(a, wa, i) + Share(a, wb, i)
    OBVIOUS
  <2>1. CASE i \in 1..Len(a)
    <3>1. a[i].cents \in Nat
      BY <2>1 DEF Cents
    <3> QED
      BY <2>1, <3>1 DEF Share
  <2>2. CASE i \notin 1..Len(a)
    BY <2>2 DEF Share
  <2> QED
    BY <2>1, <2>2
<1>3. Matches(a, wa \cup wb, a, wa, a, wb)
  BY <1>2, Zenon DEF Matches
<1> QED
  BY <1>3, SumsMatch

\* A list one longer adds what its last place holds.
LEMMA SumOneLonger ==
  ASSUME NEW a, Cents(a), NEW c, Cents(c), Len(c) = Len(a) + 1, NEW wa, NEW wc,
         \A i \in 1..Len(a) : c[i].cents = a[i].cents /\ (i \in wc <=> i \in wa)
  PROVE  /\ centsOf(c, wc) = centsOf(a, wa) + IF Len(c) \in wc THEN c[Len(c)].cents ELSE 0
         /\ centsOf(a, wa) \in Nat
<1> DEFINE n == Len(c)
           last == wc \cap {n}
<1>0. n \in Nat /\ Len(a) \in Nat /\ n \in 1..n
  BY DEF Cents
<1>2. ASSUME NEW i \in Nat \ {0} PROVE Share(c, wc, i) = Share(a, wa, i) + Share(c, last, i)
  <2>1. CASE i \in 1..Len(a)
    <3>1. a[i].cents \in Nat /\ i # n /\ i \in 1..n
      BY <2>1, <1>0 DEF Cents
    <3> QED
      BY <2>1, <3>1 DEF Share
  <2>2. CASE i = n
    <3>1. i \notin 1..Len(a) /\ c[n].cents \in Nat
      BY <2>2, <1>0 DEF Cents
    <3> QED
      BY <2>2, <3>1, <1>0 DEF Share
  <2>3. CASE i > n
    BY <2>3, <1>0 DEF Share
  <2> QED
    BY <2>1, <2>2, <2>3, <1>0
<1>3. Matches(c, wc, a, wa, c, last)
  BY <1>2, Zenon DEF Matches
<1> HIDE DEF last
<1>4. centsOf(c, wc) = centsOf(a, wa) + centsOf(c, last) /\ centsOf(a, wa) \in Nat
  BY <1>3, SumsMatch
<1>5. centsOf(c, last) = IF n \in wc THEN c[n].cents ELSE 0
  <2>1. CASE n \in wc
    <3>1. last = {n}
      BY <2>1 DEF last
    <3>2. centsOf(c, {n}) = c[n].cents
      BY <1>0, SumOfOne
    <3> QED
      BY <2>1, <3>1, <3>2
  <2>2. CASE n \notin wc
    <3>1. last = {}
      BY <2>2 DEF last
    <3>2. centsOf(c, {}) = 0
      BY SumOfNone
    <3> QED
      BY <2>2, <3>1, <3>2
  <2> QED
    BY <2>1, <2>2
<1> QED
  BY <1>4, <1>5

LEMMA RowsAreCents ==
  ASSUME NEW books \in Rows
  PROVE  Cents(books) /\ DOMAIN books = 1..Len(books)
<1>1. Len(books) \in Nat /\ DOMAIN books = 1..Len(books) /\ \A i \in 1..Len(books) : books[i] \in RefundRow
  BY DEF Rows
<1>2. \A row \in RefundRow : row.cents \in Nat
  BY AmountIsPaid DEF RefundRow
<1> QED
  BY <1>1, <1>2 DEF Cents

-----------------------------------------------------------------------------
(* The rows found denied were on their way. *)

Fits(rows, missing, cancelled, n, g) ==
  g = [i \in 0..n |-> IF i = 0 THEN NOBODY ELSE fitRow(g[i - 1], rows, i, missing, cancelled)]

LEMMA FitsExists ==
  ASSUME NEW rows, NEW missing, NEW cancelled, NEW n \in Nat
  PROVE  \E g : Fits(rows, missing, cancelled, n, g)
<1> DEFINE Bad == {k \in Nat : ~\E g : Fits(rows, missing, cancelled, k, g)}
<1> SUFFICES ASSUME Bad # {} PROVE FALSE
  OBVIOUS
<1>1. PICK m \in Bad : \A k \in Bad : m <= k
  BY NatHasLeast
<1>2. m # 0
  <2>1. Fits(rows, missing, cancelled, 0, [i \in 0..0 |-> NOBODY])
    BY SMT DEF Fits
  <2> QED
    BY <2>1
<1>3. m - 1 \in Nat /\ m - 1 \notin Bad
  BY <1>1, <1>2
<1>4. PICK h : Fits(rows, missing, cancelled, m - 1, h)
  BY <1>3
<1> DEFINE g == [i \in 0..m |-> IF i < m THEN h[i] ELSE fitRow(h[m - 1], rows, m, missing, cancelled)]
<1>5. \A i \in 0..m : g[i] = IF i = 0 THEN NOBODY
                             ELSE fitRow(g[i - 1], rows, i, missing, cancelled)
  BY <1>4, <1>2, SMT DEF Fits
<1>6. Fits(rows, missing, cancelled, m, g)
  BY <1>5 DEF Fits
<1> QED
  BY <1>6

LEMMA FitRowsOnTheirWay ==
  ASSUME NEW rows, Len(rows) \in Nat, NEW missing, NEW cancelled
  PROVE  \A i \in fitRows(rows, missing, cancelled).who :
            i \in 1..Len(rows) /\ rows[i].status = "PROCESSING"
<1>1. \E g : Fits(rows, missing, cancelled, Len(rows), g)
  BY FitsExists
<1>2. PICK g : /\ Fits(rows, missing, cancelled, Len(rows), g)
               /\ fitRows(rows, missing, cancelled) = g[Len(rows)]
  BY <1>1 DEF fitRows, Fits
<1> DEFINE Ok(k) == \A i \in g[k].who : i \in 1..Len(rows) /\ rows[i].status = "PROCESSING"
           Bad == {k \in 0..Len(rows) : ~Ok(k)}
<1>3. Bad = {}
  <2> SUFFICES ASSUME Bad # {} PROVE FALSE
    OBVIOUS
  <2>0. Bad \subseteq Nat
    OBVIOUS
  <2>1. PICK m \in Bad : \A k \in Bad : m <= k
    BY <2>0, NatHasLeast
  <2>2. m # 0
    BY <1>2 DEF Fits, NOBODY
  <2>3. Ok(m - 1)
    <3>1. m - 1 \in 0..Len(rows) /\ ~(m <= m - 1)
      BY <2>2
    <3> QED
      BY <2>1, <3>1
  <2>4. g[m] = fitRow(g[m - 1], rows, m, missing, cancelled)
    BY <1>2, <2>2 DEF Fits
  <2>5. g[m].who = g[m - 1].who \/ (rows[m].status = "PROCESSING" /\ g[m].who = g[m - 1].who \cup {m})
    BY <2>4 DEF fitRow
  <2>6. m \in 1..Len(rows)
    BY <2>2
  <2>7. Ok(m)
    BY <2>3, <2>5, <2>6
  <2> QED
    BY <2>7
<1> QED
  BY <1>2, <1>3

LEMMA DeniedWereOnTheirWay ==
  ASSUME NEW rows \in Rows, NEW totals
  PROVE  \A i \in deniedBy(rows, totals) : i \in 1..Len(rows) /\ rows[i].status = "PROCESSING"
<1> DEFINE exact == {i \in rowsIn(rows, {"PROCESSING"}) : rows[i].cents = missingOf(rows, totals)}
<1>0. Len(rows) \in Nat /\ DOMAIN rows = 1..Len(rows)
  BY DEF Rows
<1>1. exact # {} => Min(exact) \in exact
  <2> SUFFICES ASSUME exact # {} PROVE Min(exact) \in exact
    OBVIOUS
  <2>1. exact \subseteq Nat
    BY <1>0 DEF rowsIn
  <2> HIDE DEF exact
  <2>2. \E m \in exact : \A k \in exact : m <= k
    BY <2>1, NatHasLeast
  <2> QED
    BY <2>2 DEF Min
<1>2. \A i \in exact : i \in 1..Len(rows) /\ rows[i].status = "PROCESSING"
  BY <1>0 DEF rowsIn
<1>3. \A i \in fitRows(rows, missingOf(rows, totals), cancelledLeft(rows, totals)).who :
         i \in 1..Len(rows) /\ rows[i].status = "PROCESSING"
  BY <1>0, FitRowsOnTheirWay
<1> QED
  BY <1>1, <1>2, <1>3 DEF deniedBy

\* What is denied fits what Asaas cancelled and the rows do not account for yet.
LEMMA FitRowsFit ==
  ASSUME NEW books \in Rows, NEW missing \in Int, NEW cancelled \in Int
  PROVE  LET fit == fitRows(books, missing, cancelled).who IN
         fit # {} => centsOf(books, fit) <= cancelled
<1> DEFINE n == Len(books)
<1>0. Cents(books) /\ n \in Nat
  BY RowsAreCents DEF Cents
<1>1. \E g : Fits(books, missing, cancelled, n, g)
  BY <1>0, FitsExists
<1>2. PICK g : /\ Fits(books, missing, cancelled, n, g)
               /\ fitRows(books, missing, cancelled) = g[n]
  BY <1>1 DEF fitRows, Fits
<1>3. g[0] = NOBODY /\ \A i \in 1..n : g[i] = fitRow(g[i - 1], books, i, missing, cancelled)
  BY <1>0, <1>2 DEF Fits
<1> DEFINE Ok(k) == /\ g[k].who \subseteq 1..k
                    /\ g[k].sum = centsOf(books, g[k].who)
                    /\ g[k].who # {} => g[k].sum <= cancelled
           Bad == {k \in 0..n : ~Ok(k)}
<1>4. Bad = {}
  <2> SUFFICES ASSUME Bad # {} PROVE FALSE
    OBVIOUS
  <2>0. Bad \subseteq Nat
    BY <1>0
  <2>1. PICK m \in Bad : \A k \in Bad : m <= k
    BY <2>0, NatHasLeast
  <2>2. m # 0
    <3>1. g[0].who = {} /\ g[0].sum = 0
      BY <1>3 DEF NOBODY
    <3>2. centsOf(books, {}) = 0
      BY <1>0, SumOfNone
    <3>3. Ok(0)
      BY <3>1, <3>2
    <3> QED
      BY <3>3
  <2>3. m \in 1..n /\ m - 1 \in 0..n
    BY <1>0, <2>2
  <2>4. Ok(m - 1)
    <3>1. ~(m <= m - 1)
      BY <2>3
    <3> QED
      BY <2>1, <2>3, <3>1
  <2> DEFINE who == g[m - 1].who
             sum == g[m - 1].sum + books[m].cents
  <2>5. g[m] = fitRow(g[m - 1], books, m, missing, cancelled)
    BY <1>3, <2>3
  <2>6. CASE g[m] = g[m - 1]
    <3>1. 1..(m - 1) \subseteq 1..m
      BY <2>3
    <3>2. g[m].who \subseteq 1..m
      BY <2>4, <2>6, <3>1
    <3>3. Ok(m)
      BY <2>4, <2>6, <3>2
    <3> QED
      BY <3>3
  <2>7. CASE g[m] = [who |-> who \cup {m}, sum |-> sum] /\ sum <= cancelled
    <3>1. who \cap {m} = {} /\ who \cup {m} \subseteq 1..m
      BY <2>3, <2>4
    <3>2. centsOf(books, who \cup {m}) = centsOf(books, who) + centsOf(books, {m})
      BY <1>0, <3>1, SumOfBoth
    <3>3. centsOf(books, {m}) = books[m].cents
      BY <1>0, <2>3, SumOfOne
    <3>4. g[m].who = who \cup {m} /\ g[m].sum = sum
      BY <2>7
    <3>5. sum = centsOf(books, who) + books[m].cents
      BY <2>4
    <3>6. Ok(m)
      <4> HIDE DEF who, sum
      <4> QED
        BY <2>7, <3>1, <3>2, <3>3, <3>4, <3>5
    <3> QED
      BY <3>6
  <2> QED
    BY <2>5, <2>6, <2>7 DEF fitRow
<1>5. Ok(n)
  BY <1>0, <1>4
<1> QED
  BY <1>2, <1>5

LEMMA DeniedFit ==
  ASSUME NEW books \in Rows, NEW totals \in RefundTotals
  PROVE  LET denied == deniedBy(books, totals) IN
         denied # {} => centsOf(books, denied) <= cancelledLeft(books, totals)
<1> DEFINE missing == missingOf(books, totals)
           cancelled == cancelledLeft(books, totals)
           exact == {i \in rowsIn(books, {"PROCESSING"}) : books[i].cents = missing}
<1>0. Cents(books) /\ DOMAIN books = 1..Len(books)
  BY RowsAreCents
<1>1. totals.done \in Nat /\ totals.pending \in Nat /\ totals.cancelled \in Nat /\ Amount \in Nat
  BY AmountIsPaid DEF RefundTotals
<1>2. missing \in Int /\ cancelled \in Int
  <2>1. sumOf(books, TAKEN_REFUNDS) \in Nat /\ sumOf(books, {"DENIED", "REFUSED"}) \in Nat
    BY RowsSums
  <2>2. doneOf(totals) \in Int
    BY <1>1 DEF doneOf, Least
  <2>3. pendingOf(totals) \in Int
    BY <1>1, <2>2 DEF pendingOf, Least
  <2> QED
    BY <1>1, <2>1, <2>2, <2>3 DEF missingOf, cancelledLeft
<1>3. CASE exact # {} /\ missing <= cancelled
  <2>1. exact \subseteq Nat
    BY <1>0 DEF rowsIn
  <2> HIDE DEF exact
  <2>2. \E m \in exact : \A k \in exact : m <= k
    BY <1>3, <2>1, NatHasLeast
  <2>3. Min(exact) \in exact
    BY <2>2 DEF Min
  <2>4. deniedBy(books, totals) = {Min(exact)}
    BY <1>3 DEF deniedBy, exact
  <2>5. Min(exact) \in 1..Len(books) /\ books[Min(exact)].cents = missing
    BY <2>3, <1>0 DEF exact, rowsIn
  <2> HIDE DEF missing, cancelled
  <2>6. centsOf(books, {Min(exact)}) = missing
    BY <1>0, <2>5, SumOfOne
  <2> QED
    BY <1>3, <2>4, <2>6 DEF cancelled
<1>4. CASE ~(exact # {} /\ missing <= cancelled)
  <2>1. deniedBy(books, totals) = fitRows(books, missing, cancelled).who
    BY <1>4 DEF deniedBy
  <2>2. fitRows(books, missing, cancelled).who # {} => centsOf(books, fitRows(books, missing, cancelled).who) <= cancelled
    BY <1>2, FitRowsFit
  <2> QED
    BY <2>1, <2>2
<1> QED
  BY <1>3, <1>4

-----------------------------------------------------------------------------
(* A reconciliation, row by row. *)

Covering == [rows : Rows, done : Nat, pending : Nat, uncovered : BOOLEAN]

\* What a reading may make of a row: given up on only by one made for that, its claim run out,
\* and denied only when it was found to be.
Kept(before, row, authoritative, denied) ==
  /\ row.cents = before.cents
  /\ \/ row = before
     \/ before.status = "PROCESSING" /\ row.status = "DONE"
     \/ before.status = "PROCESSING" /\ row.status = "DENIED" /\ denied
     \/ before.status = "REQUESTED" /\ row.status \in TAKEN_REFUNDS
     \/ before.status = "REQUESTED" /\ row.status = "REFUSED" /\ authoritative /\ ~before.held

Cover(rows, totals, denied, authoritative, n, g) ==
  g = [i \in 0..n |-> IF i = 0 THEN coverStart(rows, totals)
                      ELSE coverRow(g[i - 1], i, denied, authoritative)]

LEMMA CoverExists ==
  ASSUME NEW rows, NEW totals, NEW denied, NEW authoritative, NEW n \in Nat
  PROVE  \E g : Cover(rows, totals, denied, authoritative, n, g)
<1> DEFINE Bad == {k \in Nat : ~\E g : Cover(rows, totals, denied, authoritative, k, g)}
<1> SUFFICES ASSUME Bad # {} PROVE FALSE
  OBVIOUS
<1>1. PICK m \in Bad : \A k \in Bad : m <= k
  BY NatHasLeast
<1>2. m # 0
  <2>1. Cover(rows, totals, denied, authoritative, 0, [i \in 0..0 |-> coverStart(rows, totals)])
    BY SMT DEF Cover
  <2> QED
    BY <2>1
<1>3. m - 1 \in Nat /\ m - 1 \notin Bad
  BY <1>1, <1>2
<1>4. PICK h : Cover(rows, totals, denied, authoritative, m - 1, h)
  BY <1>3
<1> DEFINE g == [i \in 0..m |-> IF i < m THEN h[i] ELSE coverRow(h[m - 1], m, denied, authoritative)]
<1>5. \A i \in 0..m : g[i] = IF i = 0 THEN coverStart(rows, totals)
                             ELSE coverRow(g[i - 1], i, denied, authoritative)
  BY <1>4, <1>2, SMT DEF Cover
<1>6. Cover(rows, totals, denied, authoritative, m, g)
  BY <1>5 DEF Cover
<1> QED
  BY <1>6

LEMMA RowWritten ==
  ASSUME NEW rows \in Rows, NEW i \in 1..Len(rows), NEW row \in RefundRow
  PROVE  /\ [rows EXCEPT ![i] = row] \in Rows
         /\ Len([rows EXCEPT ![i] = row]) = Len(rows)
         /\ [rows EXCEPT ![i] = row][i] = row
         /\ \A k \in 1..Len(rows) : k # i => [rows EXCEPT ![i] = row][k] = rows[k]
BY DEF Rows

LEMMA TakenRow ==
  ASSUME NEW row \in RefundRow, NEW status \in RefundStatuses
  PROVE  /\ taken(row, status) \in RefundRow
         /\ taken(row, status).cents = row.cents
         /\ taken(row, status).status = status
BY DEF taken, RefundRow

LEMMA CoverRowKeeps ==
  ASSUME NEW s \in Covering, NEW i \in 1..Len(s.rows), NEW denied, NEW authoritative \in BOOLEAN,
         i \in denied => s.rows[i].status = "PROCESSING"
  PROVE  LET t == coverRow(s, i, denied, authoritative) IN
         /\ t \in Covering
         /\ Len(t.rows) = Len(s.rows)
         /\ \A k \in 1..Len(s.rows) : k # i => t.rows[k] = s.rows[k]
         /\ Kept(s.rows[i], t.rows[i], authoritative, i \in denied)
<1> DEFINE row == s.rows[i]
           t == coverRow(s, i, denied, authoritative)
<1>1. s.rows \in Rows /\ s.done \in Nat /\ s.pending \in Nat /\ Len(s.rows) \in Nat
  BY DEF Covering, Rows
<1>2. row \in RefundRow /\ row.cents \in Nat
  <2>1. row \in RefundRow
    BY <1>1 DEF Rows
  <2> QED
    BY <2>1, AmountIsPaid DEF RefundRow
<1>3. CASE t = s
  BY <1>3, <1>1, <1>2 DEF Kept
<1>4. CASE t = [s EXCEPT !.uncovered = TRUE]
  BY <1>4, <1>1, <1>2 DEF Kept, Covering
<1>5. ASSUME NEW new \in RefundRow, NEW done \in Nat, NEW pending \in Nat,
             t = [s EXCEPT !.rows[i] = new, !.done = done, !.pending = pending],
             Kept(row, new, authoritative, i \in denied)
      PROVE  /\ t \in Covering
             /\ Len(t.rows) = Len(s.rows)
             /\ \A k \in 1..Len(s.rows) : k # i => t.rows[k] = s.rows[k]
             /\ Kept(s.rows[i], t.rows[i], authoritative, i \in denied)
  <2>1. t.rows = [s.rows EXCEPT ![i] = new] /\ t = [rows |-> [s.rows EXCEPT ![i] = new], done |-> done, pending |-> pending, uncovered |-> s.uncovered]
    BY <1>5 DEF Covering
  <2>2. t \in Covering
    BY <2>1, <1>1, <1>5, RowWritten DEF Covering
  <2> HIDE DEF t
  <2> QED
    BY <2>1, <2>2, <1>1, <1>5, RowWritten
<1> HIDE DEF row
<1>6. CASE i \in denied
  <2> DEFINE new == [row EXCEPT !.status = "DENIED"]
  <2>1. t = [s EXCEPT !.rows[i] = new, !.done = s.done, !.pending = s.pending]
    BY <1>6, <1>1 DEF coverRow, row, Covering
  <2>2. new \in RefundRow /\ Kept(row, new, authoritative, i \in denied)
    BY <1>2, <1>6 DEF Kept, RefundRow, RefundStatuses, row
  <2> QED
    BY <2>1, <2>2, <1>1, <1>5
<1>7. CASE i \notin denied /\ row.status \in STANDING_REFUNDS /\ row.cents <= s.done
  <2> DEFINE new == IF row.status = "DONE" THEN row ELSE taken(row, "DONE")
  <2>1. t = [s EXCEPT !.rows[i] = new, !.done = s.done - row.cents, !.pending = s.pending]
    BY <1>7, <1>1 DEF coverRow, row, Covering
  <2>2. new \in RefundRow /\ Kept(row, new, authoritative, i \in denied)
    BY <1>2, <1>7, TakenRow DEF RefundStatuses, STANDING_REFUNDS, Kept, TAKEN_REFUNDS
  <2>3. s.done - row.cents \in Nat
    BY <1>1, <1>2, <1>7
  <2> HIDE DEF new
  <2> QED
    BY <2>1, <2>2, <2>3, <1>1, <1>5
<1>8. CASE /\ i \notin denied /\ row.status \in STANDING_REFUNDS /\ ~(row.cents <= s.done)
           /\ row.cents <= s.done + s.pending
  <2> DEFINE new == IF row.status = "REQUESTED" THEN taken(row, "PROCESSING") ELSE row
  <2>1. t = [s EXCEPT !.rows[i] = new, !.done = 0, !.pending = s.pending - (row.cents - s.done)]
    BY <1>8, <1>1 DEF coverRow, row, Covering
  <2>2. new \in RefundRow /\ Kept(row, new, authoritative, i \in denied)
    BY <1>2, TakenRow DEF RefundStatuses, STANDING_REFUNDS, Kept, TAKEN_REFUNDS
  <2>3. s.pending - (row.cents - s.done) \in Nat
    BY <1>1, <1>2, <1>8
  <2> HIDE DEF new
  <2> QED
    BY <2>1, <2>2, <2>3, <1>1, <1>5
<1>9. CASE /\ i \notin denied /\ row.status = "REQUESTED" /\ ~(row.cents <= s.done)
           /\ ~(row.cents <= s.done + s.pending) /\ authoritative /\ ~row.held
  <2>1. t = [s EXCEPT !.rows[i] = taken(row, "REFUSED"), !.done = s.done, !.pending = s.pending]
    BY <1>9, <1>1 DEF coverRow, row, Covering, STANDING_REFUNDS
  <2>2. taken(row, "REFUSED") \in RefundRow /\ Kept(row, taken(row, "REFUSED"), authoritative, i \in denied)
    BY <1>2, <1>9, TakenRow DEF RefundStatuses, Kept
  <2> QED
    BY <2>1, <2>2, <1>1, <1>5
<1> QED
  BY <1>3, <1>4, <1>6, <1>7, <1>8, <1>9 DEF coverRow, row

LEMMA CoverStarts ==
  ASSUME NEW rows \in Rows, NEW totals \in RefundTotals
  PROVE  coverStart(rows, totals) \in Covering
<1>1. totals.done \in Nat /\ totals.pending \in Nat /\ Amount \in Nat
  BY AmountIsPaid DEF RefundTotals
<1>2. doneOf(totals) \in Nat /\ doneOf(totals) <= Amount
  BY <1>1 DEF doneOf, Least
<1>3. pendingOf(totals) \in Nat
  BY <1>1, <1>2 DEF pendingOf, Least
<1> QED
  BY <1>2, <1>3 DEF coverStart, Covering

LEMMA CoverRowsKeep ==
  ASSUME NEW rows \in Rows, NEW totals \in RefundTotals, NEW authoritative \in BOOLEAN
  PROVE  LET t == coverRows(rows, totals, authoritative) IN
         /\ t \in Covering
         /\ Len(t.rows) = Len(rows)
         /\ \A i \in 1..Len(rows) : Kept(rows[i], t.rows[i], authoritative, i \in deniedBy(rows, totals))
<1> DEFINE denied == deniedBy(rows, totals)
           n == Len(rows)
<1>0. n \in Nat
  BY DEF Rows
<1>1. \A i \in denied : i \in 1..n /\ rows[i].status = "PROCESSING"
  BY DeniedWereOnTheirWay
<1> HIDE DEF denied
<1>2. PICK g : /\ Cover(rows, totals, denied, authoritative, n, g)
               /\ coverRows(rows, totals, authoritative) = g[n]
  <2>1. \E g : Cover(rows, totals, denied, authoritative, n, g)
    BY <1>0, CoverExists
  <2> QED
    BY <2>1 DEF coverRows, Cover, denied
<1> DEFINE Ok(k) == /\ g[k] \in Covering
                    /\ Len(g[k].rows) = n
                    /\ \A i \in 1..n : /\ i > k => g[k].rows[i] = rows[i]
                                       /\ Kept(rows[i], g[k].rows[i], authoritative, i \in denied)
           Bad == {k \in 0..n : ~Ok(k)}
<1>3. Bad = {}
  <2> SUFFICES ASSUME Bad # {} PROVE FALSE
    OBVIOUS
  <2>0. Bad \subseteq Nat
    OBVIOUS
  <2>1. PICK m \in Bad : \A k \in Bad : m <= k
    BY <2>0, NatHasLeast
  <2>2. m # 0
    <3>1. g[0] = coverStart(rows, totals)
      BY <1>2, <1>0 DEF Cover
    <3>2. g[0].rows = rows
      BY <3>1 DEF coverStart
    <3>3. Ok(0)
      BY <3>1, <3>2, CoverStarts DEF Kept
    <3> QED
      BY <3>3
  <2>3. Ok(m - 1)
    <3>1. m - 1 \in 0..n /\ ~(m <= m - 1)
      BY <2>2, <1>0
    <3> QED
      BY <2>1, <3>1
  <2> DEFINE s == g[m - 1]
  <2>4. m \in 1..n /\ g[m] = coverRow(s, m, denied, authoritative)
    BY <1>2, <1>0, <2>2 DEF Cover
  <2>5. s \in Covering /\ m \in 1..Len(s.rows) /\ Len(s.rows) = n /\ s.rows[m] = rows[m]
    BY <2>3, <2>4, <1>0
  <2>6. /\ g[m] \in Covering
        /\ Len(g[m].rows) = n
        /\ \A k \in 1..n : k # m => g[m].rows[k] = s.rows[k]
        /\ Kept(rows[m], g[m].rows[m], authoritative, m \in denied)
    <3> HIDE DEF s
    <3> QED
      BY <2>4, <2>5, <1>1, CoverRowKeeps
  <2>7. Ok(m)
    <3> SUFFICES ASSUME NEW i \in 1..n
                 PROVE  /\ i > m => g[m].rows[i] = rows[i]
                        /\ Kept(rows[i], g[m].rows[i], authoritative, i \in denied)
      BY <2>6
    <3>1. CASE i = m
      BY <3>1, <2>6
    <3>2. CASE i # m
      <4>1. g[m].rows[i] = s.rows[i]
        BY <3>2, <2>6
      <4>2. i > m => i > m - 1
        BY <1>0
      <4> QED
        BY <4>1, <4>2, <2>3
    <3> QED
      BY <3>1, <3>2
  <2> QED
    BY <2>7
<1>4. Ok(n)
  BY <1>3, <1>0
<1> QED
  BY <1>2, <1>4 DEF denied

LEMMA Concatenated ==
  ASSUME NEW front \in Rows, NEW back \in Rows
  PROVE  /\ front \o back \in Rows
         /\ Len(front \o back) = Len(front) + Len(back)
         /\ \A i \in 1..Len(front) : (front \o back)[i] = front[i]
         /\ \A i \in 1..Len(back) : (front \o back)[Len(front) + i] = back[i]
BY DEF Rows

LEMMA OutsideRows ==
  ASSUME NEW cents \in 0..Amount, NEW status \in TAKEN_REFUNDS
  PROVE  /\ outsideRow(cents, status) \in Rows
         /\ \A i \in 1..Len(outsideRow(cents, status)) : outsideRow(cents, status)[i].status \in TAKEN_REFUNDS
<1> DEFINE row == [cents |-> cents, status |-> status, held |-> FALSE]
<1>1. CASE cents > 0
  <2>1. row \in RefundRow /\ row.status \in TAKEN_REFUNDS
    BY <1>1, AmountIsPaid DEF RefundRow, RefundStatuses, TAKEN_REFUNDS, STANDING_REFUNDS
  <2>2. outsideRow(cents, status) = <<row>>
    BY <1>1 DEF outsideRow
  <2> HIDE DEF row
  <2> QED
    BY <2>1, <2>2 DEF Rows
<1>2. CASE ~(cents > 0)
  BY <1>2 DEF outsideRow, Rows
<1> QED
  BY <1>1, <1>2

\* A reconciliation keeps every row, moves none back, and adds rows of refunds taken alone.
THEOREM ReconcileKeeps ==
  ASSUME NEW rows \in Rows, NEW totals \in RefundTotals, NEW authoritative \in BOOLEAN
  PROVE  LET new == reconcileRefunds(rows, totals, authoritative) IN
         /\ new \in Rows
         /\ Len(new) >= Len(rows)
         /\ \A i \in 1..Len(rows) : Kept(rows[i], new[i], authoritative, i \in deniedBy(rows, totals))
         /\ \A i \in 1..Len(new) : i > Len(rows) => new[i].status \in TAKEN_REFUNDS
<1> DEFINE s == coverRows(rows, totals, authoritative)
           room == refundableOf(s.rows)
           back == Least(s.done, room)
           rest == Least(s.pending, room - back)
           one == outsideRow(back, "DONE")
           two == outsideRow(rest, "PROCESSING")
           new == reconcileRefunds(rows, totals, authoritative)
<1> SUFFICES /\ new \in Rows
             /\ Len(new) >= Len(rows)
             /\ \A i \in 1..Len(rows) : Kept(rows[i], new[i], authoritative, i \in deniedBy(rows, totals))
             /\ \A i \in 1..Len(new) : i > Len(rows) => new[i].status \in TAKEN_REFUNDS
  OBVIOUS
<1>0. Len(rows) \in Nat
  BY DEF Rows
<1>1. /\ s \in Covering /\ Len(s.rows) = Len(rows)
      /\ \A i \in 1..Len(rows) : Kept(rows[i], s.rows[i], authoritative, i \in deniedBy(rows, totals))
  BY CoverRowsKeep
<1>2. new = IF s.uncovered THEN s.rows ELSE s.rows \o one \o two
  BY DEF reconcileRefunds
<1> HIDE DEF s, new
<1>3. s.rows \in Rows /\ s.done \in Nat /\ s.pending \in Nat
  BY <1>1 DEF Covering
<1>4. room \in 0..Amount
  <2>1. sumOf(s.rows, STANDING_REFUNDS) \in Nat
    BY <1>3, RowsSums
  <2> QED
    BY <2>1, AmountIsPaid DEF refundableOf, NotBelow0
<1> HIDE DEF room
<1>5. back \in 0..Amount /\ back <= room
  BY <1>3, <1>4, AmountIsPaid DEF Least
<1> HIDE DEF back
<1>6. rest \in 0..Amount
  BY <1>3, <1>4, <1>5, AmountIsPaid DEF Least
<1> HIDE DEF rest
<1>7. /\ one \in Rows /\ \A i \in 1..Len(one) : one[i].status \in TAKEN_REFUNDS
      /\ two \in Rows /\ \A i \in 1..Len(two) : two[i].status \in TAKEN_REFUNDS
  BY <1>5, <1>6, OutsideRows DEF TAKEN_REFUNDS
<1> HIDE DEF one, two
<1>8. CASE s.uncovered
  BY <1>8, <1>0, <1>1, <1>2, <1>3
<1>9. CASE ~s.uncovered
  <2> DEFINE mid == s.rows \o one
  <2>1. /\ mid \in Rows /\ Len(mid) = Len(rows) + Len(one)
        /\ \A i \in 1..Len(rows) : mid[i] = s.rows[i]
        /\ \A i \in 1..Len(one) : mid[Len(rows) + i] = one[i]
    <3>1. /\ mid \in Rows /\ Len(mid) = Len(s.rows) + Len(one)
          /\ \A i \in 1..Len(s.rows) : mid[i] = s.rows[i]
          /\ \A i \in 1..Len(one) : mid[Len(s.rows) + i] = one[i]
      BY <1>3, <1>7, Concatenated
    <3> HIDE DEF mid
    <3> QED
      BY <3>1, <1>1
  <2>2. new = mid \o two
    BY <1>2, <1>9
  <2> HIDE DEF mid
  <2>3. /\ new \in Rows /\ Len(new) = Len(mid) + Len(two)
        /\ \A i \in 1..Len(mid) : new[i] = mid[i]
        /\ \A i \in 1..Len(two) : new[Len(mid) + i] = two[i]
    BY <2>1, <2>2, <1>7, Concatenated
  <2>4. Len(one) \in Nat /\ Len(two) \in Nat
    BY <1>7 DEF Rows
  <2>5. ASSUME NEW i \in 1..Len(new), i > Len(rows) PROVE new[i].status \in TAKEN_REFUNDS
    <3>1. CASE i <= Len(mid)
      <4>1. i - Len(rows) \in 1..Len(one) /\ Len(rows) + (i - Len(rows)) = i
        BY <2>1, <2>4, <2>5, <3>1, <1>0
      <4>2. i \in 1..Len(mid)
        BY <2>1, <2>4, <3>1, <1>0
      <4>3. new[i] = one[i - Len(rows)]
        BY <2>1, <2>3, <4>1, <4>2
      <4> QED
        BY <4>1, <4>3, <1>7
    <3>2. CASE i > Len(mid)
      <4>1. i - Len(mid) \in 1..Len(two) /\ Len(mid) + (i - Len(mid)) = i
        BY <2>1, <2>3, <2>4, <2>5, <3>2, <1>0
      <4> QED
        BY <4>1, <2>3, <1>7
    <3> QED
      BY <3>1, <3>2, <2>1, <2>4, <1>0
  <2>6. \A i \in 1..Len(rows) : new[i] = s.rows[i]
    BY <2>1, <2>3, <2>4, <1>0
  <2> QED
    BY <2>1, <2>3, <2>4, <2>5, <2>6, <1>0, <1>1
<1> QED
  BY <1>8, <1>9

-----------------------------------------------------------------------------
(* What the writers leave of the sums. *)

\* Rows that keep their cents, and stand or are denied only where they did.
LEMMA SumsFall ==
  ASSUME NEW books \in Rows, NEW new \in Rows, Len(new) = Len(books), NEW statuses,
         \A i \in 1..Len(books) : /\ new[i].cents = books[i].cents
                                  /\ new[i].status \in statuses => books[i].status \in statuses
  PROVE  sumOf(new, statuses) <= sumOf(books, statuses)
<1> DEFINE wa == rowsIn(books, statuses)
           wc == rowsIn(new, statuses)
<1>0. Cents(books) /\ Cents(new) /\ DOMAIN books = 1..Len(books) /\ DOMAIN new = 1..Len(books)
  BY RowsAreCents
<1>1. ASSUME NEW i \in Nat \ {0} PROVE Share(new, wc, i) <= Share(books, wa, i)
  <2>1. CASE i \in 1..Len(books)
    <3>1. i \in wc => i \in wa
      BY <1>0, <2>1 DEF rowsIn
    <3>2. books[i].cents \in Nat /\ new[i].cents = books[i].cents
      BY <1>0, <2>1 DEF Cents
    <3> HIDE DEF wa, wc
    <3> QED
      BY <2>1, <3>1, <3>2 DEF Share
  <2>2. CASE i \notin 1..Len(books)
    BY <2>2 DEF Share
  <2> QED
    BY <2>1, <2>2
<1> HIDE DEF wa, wc
<1>2. centsOf(new, wc) <= centsOf(books, wa)
  BY <1>0, <1>1, SumsOrdered
<1> QED
  BY <1>2 DEF sumOf, wa, wc

LEMMA SumOneRowMore ==
  ASSUME NEW books \in Rows, NEW new \in Rows, Len(new) = Len(books) + 1, NEW statuses,
         \A i \in 1..Len(books) : new[i] = books[i]
  PROVE  LET last == new[Len(new)] IN
         sumOf(new, statuses) = sumOf(books, statuses) + IF last.status \in statuses THEN last.cents ELSE 0
<1> DEFINE wa == rowsIn(books, statuses)
           wc == rowsIn(new, statuses)
<1>0. Cents(books) /\ Cents(new) /\ DOMAIN books = 1..Len(books) /\ DOMAIN new = 1..Len(new) /\ Len(books) \in Nat
  BY RowsAreCents DEF Cents
<1>1. \A i \in 1..Len(books) : new[i].cents = books[i].cents /\ (i \in wc <=> i \in wa)
  BY <1>0 DEF rowsIn
<1>2. Len(new) \in wc <=> new[Len(new)].status \in statuses
  BY <1>0 DEF rowsIn
<1> HIDE DEF wa, wc
<1>3. centsOf(new, wc) = centsOf(books, wa) + IF Len(new) \in wc THEN new[Len(new)].cents ELSE 0
  BY <1>0, <1>1, SumOneLonger
<1> QED
  BY <1>2, <1>3 DEF sumOf, wa, wc

LEMMA SumWithOutside ==
  ASSUME NEW books \in Rows, NEW cents \in 0..Amount, NEW status \in TAKEN_REFUNDS, NEW statuses
  PROVE  LET new == books \o outsideRow(cents, status) IN
         /\ new \in Rows
         /\ sumOf(new, statuses) = sumOf(books, statuses) + IF status \in statuses THEN cents ELSE 0
<1> DEFINE row == [cents |-> cents, status |-> status, held |-> FALSE]
           new == books \o outsideRow(cents, status)
<1>0. sumOf(books, statuses) \in Nat
  BY RowsSums
<1>1. CASE cents > 0
  <2>1. outsideRow(cents, status) = <<row>> /\ row.status = status /\ row.cents = cents
    BY <1>1 DEF outsideRow
  <2>2. outsideRow(cents, status) \in Rows
    BY OutsideRows
  <2> HIDE DEF row
  <2>3. /\ new \in Rows /\ Len(new) = Len(books) + 1
        /\ \A i \in 1..Len(books) : new[i] = books[i]
        /\ new[Len(books) + 1] = row
    <3>1. <<row>> \in Rows /\ Len(<<row>>) = 1 /\ <<row>>[1] = row
      BY <2>1, <2>2
    <3> QED
      BY <2>1, <3>1, Concatenated
  <2> HIDE DEF new
  <2>4. sumOf(new, statuses) = sumOf(books, statuses) + IF new[Len(new)].status \in statuses THEN new[Len(new)].cents ELSE 0
    BY <2>3, SumOneRowMore
  <2> QED
    BY <2>1, <2>3, <2>4 DEF new
<1>2. CASE cents = 0
  <2>1. outsideRow(cents, status) = <<>>
    BY <1>2 DEF outsideRow
  <2>2. new = books
    BY <2>1 DEF Rows
  <2>3. sumOf(books, statuses) = sumOf(books, statuses) + IF status \in statuses THEN cents ELSE 0
    BY <1>0, <1>2
  <2> HIDE DEF new
  <2>4. new \in Rows /\ sumOf(new, statuses) = sumOf(books, statuses) + IF status \in statuses THEN cents ELSE 0
    BY <2>2, <2>3
  <2> QED
    BY <2>4 DEF new
<1> QED
  BY <1>1, <1>2

\* Whatever reading is written, and however late: the refunds that stand are no more than was paid,
\* and what is denied is accounted for by what the reading says was cancelled.
THEOREM ReconcileSums ==
  ASSUME NEW rows \in Rows, NEW totals \in RefundTotals, NEW authoritative \in BOOLEAN
  PROVE  LET new == reconcileRefunds(rows, totals, authoritative) IN
         /\ sumOf(rows, STANDING_REFUNDS) <= Amount => sumOf(new, STANDING_REFUNDS) <= Amount
         /\ \/ sumOf(new, {"DENIED"}) <= sumOf(rows, {"DENIED"})
            \/ sumOf(new, {"DENIED"}) <= totals.cancelled
<1> DEFINE s == coverRows(rows, totals, authoritative)
           room == refundableOf(s.rows)
           back == Least(s.done, room)
           rest == Least(s.pending, room - back)
           mid == s.rows \o outsideRow(back, "DONE")
           new == reconcileRefunds(rows, totals, authoritative)
           denied == deniedBy(rows, totals)
<1>1. /\ s \in Covering /\ Len(s.rows) = Len(rows)
      /\ \A i \in 1..Len(rows) : Kept(rows[i], s.rows[i], authoritative, i \in denied)
  BY CoverRowsKeep
<1>2. new = IF s.uncovered THEN s.rows ELSE mid \o outsideRow(rest, "PROCESSING")
  BY DEF reconcileRefunds
<1>d. /\ \A i \in denied : i \in 1..Len(rows) /\ rows[i].status = "PROCESSING"
      /\ denied # {} => centsOf(rows, denied) <= cancelledLeft(rows, totals)
  BY DeniedWereOnTheirWay, DeniedFit
<1> HIDE DEF s, new, denied
<1>3. s.rows \in Rows /\ s.done \in Nat /\ s.pending \in Nat /\ Amount \in Nat
  BY <1>1, AmountIsPaid DEF Covering
<1>4. room \in 0..Amount /\ room = NotBelow0(Amount - sumOf(s.rows, STANDING_REFUNDS))
  <2>1. sumOf(s.rows, STANDING_REFUNDS) \in Nat
    BY <1>3, RowsSums
  <2> QED
    BY <2>1, AmountIsPaid DEF refundableOf, NotBelow0
<1> HIDE DEF room
<1>5. back \in 0..Amount /\ back <= room
  BY <1>3, <1>4 DEF Least
<1> HIDE DEF back
<1>6. rest \in 0..Amount /\ rest <= room - back
  BY <1>3, <1>4, <1>5 DEF Least
<1> HIDE DEF rest
<1>7. "DONE" \in TAKEN_REFUNDS /\ "PROCESSING" \in TAKEN_REFUNDS
  BY DEF TAKEN_REFUNDS
<1>8. \A statuses : /\ mid \in Rows
                    /\ sumOf(mid, statuses) = sumOf(s.rows, statuses) + IF "DONE" \in statuses THEN back ELSE 0
  BY <1>3, <1>5, <1>7, SumWithOutside
<1> HIDE DEF mid
<1>9. ~s.uncovered => \A statuses : sumOf(new, statuses) = sumOf(mid, statuses) + IF "PROCESSING" \in statuses THEN rest ELSE 0
  BY <1>2, <1>6, <1>7, <1>8, SumWithOutside
<1>10. \A statuses : sumOf(s.rows, statuses) \in Nat /\ sumOf(rows, statuses) \in Nat
  BY <1>3, RowsSums
<1>11. ASSUME sumOf(rows, STANDING_REFUNDS) <= Amount PROVE sumOf(new, STANDING_REFUNDS) <= Amount
  <2>1. sumOf(s.rows, STANDING_REFUNDS) <= sumOf(rows, STANDING_REFUNDS)
    <3>1. \A i \in 1..Len(rows) : /\ s.rows[i].cents = rows[i].cents
                                  /\ s.rows[i].status \in STANDING_REFUNDS => rows[i].status \in STANDING_REFUNDS
      BY <1>1 DEF Kept, STANDING_REFUNDS
    <3> QED
      BY <1>1, <1>3, <3>1, SumsFall
  <2>2. CASE s.uncovered
    BY <1>2, <1>10, <1>11, <1>3, <2>1, <2>2
  <2>3. CASE ~s.uncovered
    <3>1. /\ sumOf(mid, STANDING_REFUNDS) = sumOf(s.rows, STANDING_REFUNDS) + back
          /\ sumOf(new, STANDING_REFUNDS) = sumOf(mid, STANDING_REFUNDS) + rest
      BY <1>8, <1>9, <2>3 DEF STANDING_REFUNDS
    <3>2. room = Amount - sumOf(s.rows, STANDING_REFUNDS)
      BY <1>3, <1>4, <1>10, <1>11, <2>1 DEF NotBelow0
    <3> QED
      BY <1>3, <1>4, <1>5, <1>6, <1>10, <3>1, <3>2
  <2> QED
    BY <2>2, <2>3
<1>12. sumOf(new, {"DENIED"}) = sumOf(s.rows, {"DENIED"})
  <2>1. CASE s.uncovered
    BY <1>2, <2>1
  <2>2. CASE ~s.uncovered
    <3>1. /\ sumOf(mid, {"DENIED"}) = sumOf(s.rows, {"DENIED"}) + 0
          /\ sumOf(new, {"DENIED"}) = sumOf(mid, {"DENIED"}) + 0
      BY <1>8, <1>9, <2>2
    <3> QED
      BY <1>10, <3>1
  <2> QED
    BY <2>1, <2>2
<1>13. sumOf(s.rows, {"DENIED"}) <= sumOf(rows, {"DENIED"}) + centsOf(rows, denied)
  <2> DEFINE wa == rowsIn(rows, {"DENIED"})
             wc == rowsIn(s.rows, {"DENIED"})
  <2>0. Cents(rows) /\ Cents(s.rows) /\ DOMAIN rows = 1..Len(rows) /\ DOMAIN s.rows = 1..Len(rows)
    BY <1>1, <1>3, RowsAreCents
  <2>1. ASSUME NEW i \in Nat \ {0} PROVE Share(s.rows, wc, i) <= Share(rows, wa, i) + Share(rows, denied, i)
    <3>0. Share(rows, wa, i) \in Nat /\ Share(rows, denied, i) \in Nat
      BY <2>0, SharesAreNatural
    <3>1. CASE i \in 1..Len(rows)
      <4>1. i \in wc => i \in wa \/ i \in denied
        <5>1. s.rows[i].status = "DENIED" => rows[i].status = "DENIED" \/ i \in denied
          BY <1>1, <3>1 DEF Kept, TAKEN_REFUNDS
        <5> QED
          BY <2>0, <3>1, <5>1 DEF rowsIn
      <4>2. s.rows[i].cents = rows[i].cents /\ rows[i].cents \in Nat
        BY <1>1, <2>0, <3>1 DEF Kept, Cents
      <4> HIDE DEF wa, wc
      <4> QED
        BY <1>1, <3>0, <3>1, <4>1, <4>2 DEF Share
    <3>2. CASE i \notin 1..Len(rows)
      BY <1>1, <3>2 DEF Share
    <3> QED
      BY <3>1, <3>2
  <2> HIDE DEF wa, wc
  <2>2. Within(s.rows, wc, rows, wa, rows, denied)
    BY <2>1, Zenon DEF Within
  <2>3. centsOf(s.rows, wc) <= centsOf(rows, wa) + centsOf(rows, denied)
    BY <2>0, <2>2, SumsCompare
  <2> QED
    BY <2>3 DEF sumOf, wa, wc
<1>14. \/ sumOf(new, {"DENIED"}) <= sumOf(rows, {"DENIED"})
       \/ sumOf(new, {"DENIED"}) <= totals.cancelled
  <2>1. CASE denied = {}
    <3>1. centsOf(rows, denied) = 0
      BY <2>1, RowsAreCents, SumOfNone
    <3> QED
      BY <1>10, <1>12, <1>13, <3>1
  <2>2. CASE denied # {}
    <3>1. centsOf(rows, denied) <= totals.cancelled - sumOf(rows, {"DENIED", "REFUSED"})
      BY <1>d, <2>2 DEF cancelledLeft
    <3>2. sumOf(rows, {"DENIED"}) <= sumOf(rows, {"DENIED", "REFUSED"})
      BY RowsSums
    <3>3. centsOf(rows, denied) \in Nat /\ totals.cancelled \in Nat
      BY RowsAreCents, CentsAreNatural DEF RefundTotals
    <3> QED
      BY <1>10, <1>12, <1>13, <3>1, <3>2, <3>3
  <2> QED
    BY <2>1, <2>2
<1> QED
  BY <1>11, <1>14 DEF new

-----------------------------------------------------------------------------
(* A reading of some of the rows' own refunds, the oldest of what stands.  *)

\* The sums are those of the rows K, all of which stand, and older than whatever else stands.
ReadingOf(books, totals, K) ==
  /\ K \subseteq 1..Len(books)
  /\ \A i \in K : books[i].status \in STANDING_REFUNDS
  /\ \A i \in 1..Len(books) : books[i].status \in STANDING_REFUNDS /\ i \notin K => \A k \in K : k < i
  /\ totals.cancelled = 0
  /\ totals.done + totals.pending = centsOf(books, K) /\ centsOf(books, K) <= Amount

\* With nothing cancelled no row is denied.
LEMMA NoneDenied ==
  ASSUME NEW books \in Rows, NEW totals \in RefundTotals, totals.cancelled = 0
  PROVE  deniedBy(books, totals) = {}
<1> DEFINE denied == deniedBy(books, totals)
<1> SUFFICES ASSUME denied # {} PROVE FALSE
  OBVIOUS
<1>0. Cents(books) /\ \A i \in 1..Len(books) : books[i] \in RefundRow
  BY RowsAreCents DEF Rows
<1>1. centsOf(books, denied) <= cancelledLeft(books, totals)
  BY DeniedFit
<1>2. \A i \in denied : i \in 1..Len(books)
  BY DeniedWereOnTheirWay
<1> HIDE DEF denied
<1>3. PICK i : i \in denied
  OBVIOUS
<1>4. centsOf(books, {i}) = books[i].cents /\ books[i].cents \in 1..Amount
  BY <1>0, <1>2, <1>3, SumOfOne DEF RefundRow
<1>5. centsOf(books, {i}) <= centsOf(books, denied) /\ centsOf(books, denied) \in Nat
  BY <1>0, <1>3, SumsAreNatural DEF Cents
<1>6. sumOf(books, {"DENIED", "REFUSED"}) \in Nat
  BY RowsSums
<1> QED
  BY <1>1, <1>4, <1>5, <1>6, AmountIsPaid DEF cancelledLeft

\* What the reading holds of a row is taken, and is back as far as what came back reaches: the rows
\* up to q.  A row it does not hold is left alone, or given up on.
RowRead(before, row, i, K, q, authoritative) ==
  /\ i \in K => row.status \in TAKEN_REFUNDS
  /\ i \notin K => \/ row = before
                   \/ /\ before.status = "REQUESTED" /\ ~before.held /\ authoritative
                      /\ row.status = "REFUSED"
  /\ row.status = "DONE" <=> before.status = "DONE" \/ (i \in K /\ i <= q)

LEMMA RowIsTaken ==
  ASSUME NEW s \in Covering, NEW i \in 1..Len(s.rows), NEW authoritative \in BOOLEAN,
         s.rows[i].status \in STANDING_REFUNDS, s.rows[i].cents <= s.done + s.pending
  PROVE  LET t == coverRow(s, i, {}, authoritative)
             c == s.rows[i].cents
         IN /\ t.done + t.pending = s.done + s.pending - c
            /\ t.rows[i].status \in TAKEN_REFUNDS
            /\ c <= s.done => /\ t.done = s.done - c /\ t.pending = s.pending
                              /\ t.rows[i].status = "DONE"
            /\ ~(c <= s.done) => /\ t.done = 0
                                 /\ t.rows[i].status = "DONE" <=> s.rows[i].status = "DONE"
<1> DEFINE row == s.rows[i]
           t == coverRow(s, i, {}, authoritative)
<1>1. /\ s.rows \in Rows /\ s.done \in Nat /\ s.pending \in Nat
      /\ s = [rows |-> s.rows, done |-> s.done, pending |-> s.pending, uncovered |-> s.uncovered]
  BY DEF Covering
<1>2. row \in RefundRow /\ row.cents \in Nat
  <2>1. row \in RefundRow
    BY <1>1 DEF Rows
  <2> QED
    BY <2>1, AmountIsPaid DEF RefundRow
<1>3. CASE row.cents <= s.done
  <2> DEFINE new == IF row.status = "DONE" THEN row ELSE taken(row, "DONE")
  <2>1. new.status = "DONE" /\ new \in RefundRow
    BY <1>2, TakenRow DEF RefundStatuses, STANDING_REFUNDS
  <2>2. t = [s EXCEPT !.rows[i] = new, !.done = s.done - row.cents]
    BY <1>3, <1>1 DEF coverRow, Covering
  <2> HIDE DEF new, t
  <2>3. t.rows = [s.rows EXCEPT ![i] = new] /\ t.done = s.done - row.cents /\ t.pending = s.pending
    BY <1>1, <2>2
  <2>4. t.rows[i] = new
    BY <1>1, <2>1, <2>3, RowWritten
  <2>5. /\ t.done + t.pending = s.done + s.pending - row.cents
        /\ t.rows[i].status = "DONE" /\ "DONE" \in TAKEN_REFUNDS
    BY <1>1, <1>2, <2>1, <2>3, <2>4 DEF TAKEN_REFUNDS
  <2> QED
    BY <1>3, <2>3, <2>5 DEF t
<1>4. CASE ~(row.cents <= s.done)
  <2> DEFINE new == IF row.status = "REQUESTED" THEN taken(row, "PROCESSING") ELSE row
  <2>1. new.status \in TAKEN_REFUNDS /\ (new.status = "DONE" <=> row.status = "DONE") /\ new \in RefundRow
    BY <1>2, TakenRow DEF RefundStatuses, STANDING_REFUNDS, TAKEN_REFUNDS
  <2>2. t = [s EXCEPT !.rows[i] = new, !.pending = s.pending - (row.cents - s.done), !.done = 0]
    BY <1>4, <1>1 DEF coverRow, Covering
  <2> HIDE DEF new, t
  <2>3. t.rows = [s.rows EXCEPT ![i] = new] /\ t.done = 0 /\ t.pending = s.pending - (row.cents - s.done)
    BY <1>1, <2>2
  <2>4. t.rows[i] = new
    BY <1>1, <2>1, <2>3, RowWritten
  <2>5. t.done + t.pending = s.done + s.pending - row.cents
    BY <1>1, <1>2, <2>3
  <2> QED
    BY <1>4, <2>1, <2>3, <2>4, <2>5 DEF t
<1> QED
  BY <1>3, <1>4

LEMMA RowIsLeft ==
  ASSUME NEW s \in Covering, NEW i \in 1..Len(s.rows), NEW authoritative \in BOOLEAN,
         s.rows[i].status \in STANDING_REFUNDS => s.done + s.pending = 0
  PROVE  LET t == coverRow(s, i, {}, authoritative)
             row == s.rows[i]
         IN /\ t.done = s.done /\ t.pending = s.pending
            /\ \/ t.rows[i] = row
               \/ row.status = "REQUESTED" /\ ~row.held /\ authoritative /\ t.rows[i].status = "REFUSED"
<1> DEFINE row == s.rows[i]
           t == coverRow(s, i, {}, authoritative)
<1>1. /\ s.rows \in Rows /\ s.done \in Nat /\ s.pending \in Nat
      /\ s = [rows |-> s.rows, done |-> s.done, pending |-> s.pending, uncovered |-> s.uncovered]
  BY DEF Covering
<1>2. row \in RefundRow /\ row.cents \in Nat /\ row.cents > 0
  <2>1. row \in RefundRow
    BY <1>1 DEF Rows
  <2> QED
    BY <2>1, AmountIsPaid DEF RefundRow
<1>3. CASE row.status \notin STANDING_REFUNDS
  BY <1>3 DEF coverRow
<1>4. CASE row.status \in STANDING_REFUNDS
  <2>1. s.done = 0 /\ s.pending = 0
    BY <1>1, <1>4
  <2>2. ~(row.cents <= s.done) /\ ~(row.cents <= s.done + s.pending)
    BY <1>2, <2>1
  <2>3. CASE row.status = "REQUESTED" /\ authoritative /\ ~row.held
    <3> DEFINE new == taken(row, "REFUSED")
    <3>1. t = [s EXCEPT !.rows[i] = new]
      BY <1>4, <2>2, <2>3 DEF coverRow
    <3>2. new \in RefundRow /\ new.status = "REFUSED"
      BY <1>2, TakenRow DEF RefundStatuses
    <3> HIDE DEF new, t
    <3>3. t.rows = [s.rows EXCEPT ![i] = new] /\ t.done = s.done /\ t.pending = s.pending
      BY <1>1, <3>1
    <3>4. t.rows[i] = new
      BY <1>1, <3>2, <3>3, RowWritten
    <3> QED
      BY <2>3, <3>2, <3>3, <3>4 DEF t
  <2>4. CASE ~(row.status = "REQUESTED" /\ authoritative /\ ~row.held)
    <3>1. t = s \/ t = [s EXCEPT !.uncovered = TRUE]
      BY <1>4, <2>2, <2>4 DEF coverRow
    <3> HIDE DEF t
    <3>2. t.rows = s.rows /\ t.done = s.done /\ t.pending = s.pending
      BY <1>1, <3>1
    <3> QED
      BY <3>2 DEF t
  <2> QED
    BY <2>3, <2>4
<1> QED
  BY <1>3, <1>4

\* The sum of the rows of K up to m grows by the row m, when it is one of K.
LEMMA SumReaches ==
  ASSUME NEW books, Cents(books), NEW K, NEW m \in 1..Len(books)
  PROVE  /\ m \in K => centsOf(books, K \cap (1..m)) = centsOf(books, K \cap (1..(m - 1))) + books[m].cents
         /\ m \notin K => centsOf(books, K \cap (1..m)) = centsOf(books, K \cap (1..(m - 1)))
         /\ centsOf(books, K \cap (1..m)) <= centsOf(books, K)
         /\ centsOf(books, K \cap (1..(m - 1))) \in Nat /\ centsOf(books, K \cap (1..m)) \in Nat
         /\ centsOf(books, K) \in Nat /\ books[m].cents \in Nat
<1> DEFINE before == K \cap (1..(m - 1))
           upto == K \cap (1..m)
<1>0. Len(books) \in Nat /\ m \in Nat /\ m \notin 1..(m - 1) /\ 1..m = (1..(m - 1)) \cup {m} /\ books[m].cents \in Nat
  BY DEF Cents
<1>1. CASE m \in K
  <2>1. upto = before \cup {m} /\ before \cap {m} = {}
    BY <1>0, <1>1
  <2> HIDE DEF before, upto
  <2>2. centsOf(books, before \cup {m}) = centsOf(books, before) + centsOf(books, {m})
    BY <2>1, SumOfBoth
  <2>3. centsOf(books, {m}) = books[m].cents
    BY SumOfOne
  <2>4. centsOf(books, upto) = centsOf(books, before) + books[m].cents
    BY <2>1, <2>2, <2>3
  <2>5. upto \subseteq K
    BY DEF upto
  <2>6. centsOf(books, upto) <= centsOf(books, K)
    BY <2>5, SumsAreNatural DEF Cents
  <2> QED
    BY <1>0, <1>1, <2>4, <2>6, CentsAreNatural DEF before, upto
<1>2. CASE m \notin K
  <2>1. upto = before /\ upto \subseteq K
    BY <1>0, <1>2
  <2> HIDE DEF before, upto
  <2>2. centsOf(books, upto) <= centsOf(books, K)
    BY <2>1, SumsAreNatural DEF Cents
  <2>3. centsOf(books, before) \in Nat /\ centsOf(books, upto) \in Nat /\ centsOf(books, K) \in Nat
    BY CentsAreNatural
  <2>4. centsOf(books, upto) = centsOf(books, before)
    BY <2>1
  <2> QED
    BY <1>0, <1>2, <2>2, <2>3, <2>4 DEF before, upto
<1> QED
  BY <1>1, <1>2

\* Where the covering of a reading of K is after m rows, what came back having reached the row q.
Reached(s, rows, totals, K, m, q, authoritative) ==
  /\ s \in Covering /\ Len(s.rows) = Len(rows) /\ q \in 0..m
  /\ \A i \in 1..Len(rows) : i > m => s.rows[i] = rows[i]
  /\ \A i \in 1..m : RowRead(rows[i], s.rows[i], i, K, q, authoritative)
  /\ s.done + s.pending + centsOf(rows, K \cap (1..m)) = centsOf(rows, K)
  /\ s.done + centsOf(rows, K \cap (1..q)) <= totals.done
  /\ q = m \/ s.done = 0
  /\ totals.pending = 0 => s.pending = 0 /\ q = m

LEMMA ReachedStart ==
  ASSUME NEW rows \in Rows, NEW totals \in RefundTotals, NEW K, ReadingOf(rows, totals, K),
         NEW authoritative
  PROVE  Reached(coverStart(rows, totals), rows, totals, K, 0, 0, authoritative)
<1> DEFINE s == coverStart(rows, totals)
<1>0. Cents(rows) /\ totals.done \in Nat /\ totals.pending \in Nat /\ Amount \in Nat
  BY RowsAreCents, AmountIsPaid DEF RefundTotals
<1>1. totals.done + totals.pending = centsOf(rows, K) /\ centsOf(rows, K) <= Amount
  BY DEF ReadingOf
<1>2. doneOf(totals) = totals.done /\ pendingOf(totals) = totals.pending
  <2>1. doneOf(totals) = totals.done
    BY <1>0, <1>1 DEF doneOf, Least
  <2> QED
    BY <1>0, <1>1, <2>1 DEF pendingOf, Least
<1>3. s.rows = rows /\ s.done = totals.done /\ s.pending = totals.pending /\ s \in Covering
  BY <1>2, CoverStarts DEF coverStart
<1>4. centsOf(rows, K \cap (1..0)) = 0
  <2>1. \A i \in 1..Len(rows) : i \notin K \cap (1..0)
    OBVIOUS
  <2> QED
    BY <1>0, <2>1, SumOfNone
<1> HIDE DEF s
<1>5. \A i \in 1..0 : RowRead(rows[i], s.rows[i], i, K, 0, authoritative)
  OBVIOUS
<1> QED
  BY <1>0, <1>1, <1>3, <1>4, <1>5 DEF Reached, s

LEMMA ReachedNext ==
  ASSUME NEW rows \in Rows, NEW totals \in RefundTotals, NEW K, ReadingOf(rows, totals, K),
         NEW authoritative \in BOOLEAN, NEW m \in 1..Len(rows), NEW q, NEW s,
         Reached(s, rows, totals, K, m - 1, q, authoritative)
  PROVE  \E r : Reached(coverRow(s, m, {}, authoritative), rows, totals, K, m, r, authoritative)
<1> DEFINE n == Len(rows)
           row == rows[m]
           before == centsOf(rows, K \cap (1..(m - 1)))
           upto == centsOf(rows, K \cap (1..m))
           all == centsOf(rows, K)
           t == coverRow(s, m, {}, authoritative)
<1>0. /\ Cents(rows) /\ n \in Nat /\ m \in Nat /\ totals.done \in Nat /\ totals.pending \in Nat
      /\ row \in RefundRow
  BY RowsAreCents DEF RefundTotals, Cents, Rows
<1>1. /\ s \in Covering /\ Len(s.rows) = n /\ q \in 0..(m - 1)
      /\ \A i \in 1..n : i > m - 1 => s.rows[i] = rows[i]
      /\ \A i \in 1..(m - 1) : RowRead(rows[i], s.rows[i], i, K, q, authoritative)
      /\ s.done + s.pending + before = all
      /\ s.done + centsOf(rows, K \cap (1..q)) <= totals.done
      /\ q = m - 1 \/ s.done = 0
      /\ totals.pending = 0 => s.pending = 0 /\ q = m - 1
  BY DEF Reached
<1>2. s.rows[m] = row /\ m \in 1..Len(s.rows) /\ s.done \in Nat /\ s.pending \in Nat
  BY <1>0, <1>1 DEF Covering
<1>3. /\ m \in K => upto = before + row.cents
      /\ m \notin K => upto = before
      /\ upto <= all /\ before \in Nat /\ upto \in Nat /\ all \in Nat /\ row.cents \in Nat
  <2> HIDE DEF before, upto, all, row, n
  <2>0. Cents(rows) /\ m \in 1..Len(rows)
    BY <1>0
  <2>1. /\ m \in K => centsOf(rows, K \cap (1..m)) = centsOf(rows, K \cap (1..(m - 1))) + rows[m].cents
        /\ m \notin K => centsOf(rows, K \cap (1..m)) = centsOf(rows, K \cap (1..(m - 1)))
    <3>1. ASSUME m \in K PROVE centsOf(rows, K \cap (1..m)) = centsOf(rows, K \cap (1..(m - 1))) + rows[m].cents
      BY <2>0, <3>1, SumReaches
    <3>2. ASSUME m \notin K PROVE centsOf(rows, K \cap (1..m)) = centsOf(rows, K \cap (1..(m - 1)))
      BY <2>0, <3>2, SumReaches
    <3> QED
      BY <3>1, <3>2
  <2>2. /\ centsOf(rows, K \cap (1..m)) <= centsOf(rows, K)
        /\ centsOf(rows, K \cap (1..(m - 1))) \in Nat /\ centsOf(rows, K \cap (1..m)) \in Nat
        /\ centsOf(rows, K) \in Nat /\ rows[m].cents \in Nat
    BY <1>0, SumReaches
  <2> QED
    BY <2>1, <2>2, Zenon DEF before, upto, all, row
<1>s. s.done + s.pending + before = all /\ (q = m - 1 \/ s.done = 0)
  BY <1>1
<1>4. row.cents > 0
  BY <1>0, AmountIsPaid DEF RefundRow
<1>k. /\ m \in K => row.status \in STANDING_REFUNDS
      /\ row.status \in STANDING_REFUNDS /\ m \notin K => \A k \in K : k < m
  BY DEF ReadingOf
<1>5. /\ t \in Covering /\ Len(t.rows) = n
      /\ \A k \in 1..n : k # m => t.rows[k] = s.rows[k]
  <2>1. m \in {} => s.rows[m].status = "PROCESSING"
    OBVIOUS
  <2> QED
    BY <1>1, <1>2, <2>1, CoverRowKeeps
<1>6. CASE m \in K
  <2>1. row.cents <= s.done + s.pending
    BY <1>1, <1>2, <1>3, <1>6
  <2>2. /\ t.done + t.pending = s.done + s.pending - row.cents
        /\ t.rows[m].status \in TAKEN_REFUNDS
        /\ row.cents <= s.done => t.done = s.done - row.cents /\ t.pending = s.pending /\ t.rows[m].status = "DONE"
        /\ ~(row.cents <= s.done) => t.done = 0 /\ (t.rows[m].status = "DONE" <=> row.status = "DONE")
    BY <1>1, <1>2, <1>6, <1>k, <2>1, RowIsTaken
  <2>3. t.done \in Nat /\ t.pending \in Nat
    BY <1>5 DEF Covering
  <2> HIDE DEF t, before, upto, all, row
  <2>4. t.done + t.pending + upto = all
    <3>1. upto = before + row.cents
      BY <1>3, <1>6
    <3>2. t.done + t.pending = s.done + s.pending - row.cents
      BY <2>2
    <3>3. s.done + s.pending + before = all
      BY <1>s
    <3>4. s.done \in Nat /\ s.pending \in Nat /\ before \in Nat /\ row.cents \in Nat
      BY <1>2, <1>3
    <3> QED
      BY <2>3, <3>1, <3>2, <3>3, <3>4
  <2>5. \A i \in 1..n : i > m => t.rows[i] = rows[i]
    BY <1>0, <1>1, <1>5
  <2>6. CASE row.cents <= s.done
    <3>1. q = m - 1
      BY <1>1, <1>2, <1>3, <1>4, <2>6
    <3>2. t.done + upto <= totals.done
      <4>1. s.done + before <= totals.done
        <5>1. centsOf(rows, K \cap (1..q)) = before
          BY <3>1, Zenon DEF before
        <5> QED
          BY <1>1, <5>1
      <4>2. upto = before + row.cents /\ t.done = s.done - row.cents
        BY <1>3, <1>6, <2>2, <2>6
      <4>3. s.done \in Nat /\ before \in Nat /\ row.cents \in Nat /\ totals.done \in Nat
        BY <1>0, <1>2, <1>3
      <4> QED
        BY <2>3, <4>1, <4>2, <4>3
    <3>3. ASSUME NEW i \in 1..m PROVE RowRead(rows[i], t.rows[i], i, K, m, authoritative)
      <4>1. CASE i = m
        BY <4>1, <1>0, <1>6, <2>2, <2>6 DEF RowRead
      <4>2. CASE i # m
        <5>1. i \in 1..(m - 1) /\ t.rows[i] = s.rows[i] /\ i <= q /\ i <= m
          BY <1>0, <1>5, <3>1, <4>2
        <5>2. RowRead(rows[i], s.rows[i], i, K, q, authoritative)
          BY <1>1, <5>1
        <5> QED
          BY <5>1, <5>2 DEF RowRead
      <4> QED
        BY <4>1, <4>2
    <3>4. totals.pending = 0 => t.pending = 0
      BY <1>1, <2>2, <2>6
    <3>5. Reached(t, rows, totals, K, m, m, authoritative)
      BY <1>0, <1>5, <2>4, <2>5, <3>2, <3>3, <3>4 DEF Reached, upto, all
    <3> QED
      BY <3>5 DEF t
  <2>7. CASE ~(row.cents <= s.done)
    <3>1. totals.pending # 0
      BY <1>1, <1>2, <1>3, <2>1, <2>7
    <3>2. t.done + centsOf(rows, K \cap (1..q)) <= totals.done
      <4>1. centsOf(rows, K \cap (1..q)) \in Nat
        BY <1>0, CentsAreNatural
      <4> QED
        BY <1>0, <1>1, <1>2, <2>2, <2>7, <4>1
    <3>3. ASSUME NEW i \in 1..m PROVE RowRead(rows[i], t.rows[i], i, K, q, authoritative)
      <4>1. CASE i = m
        <5>1. ~(m <= q)
          BY <1>0, <1>1
        <5> QED
          BY <4>1, <1>6, <2>2, <2>7, <5>1 DEF RowRead, row
      <4>2. CASE i # m
        <5>1. i \in 1..(m - 1) /\ t.rows[i] = s.rows[i]
          BY <1>0, <1>5, <4>2
        <5> QED
          BY <1>1, <5>1
      <4> QED
        BY <4>1, <4>2
    <3>4. q \in 0..m
      BY <1>0, <1>1
    <3>5. Reached(t, rows, totals, K, m, q, authoritative)
      BY <1>0, <1>5, <2>2, <2>4, <2>5, <2>7, <3>1, <3>2, <3>3, <3>4 DEF Reached, upto, all
    <3> QED
      BY <3>5 DEF t
  <2> QED
    BY <2>6, <2>7
<1>7. CASE m \notin K
  <2> DEFINE r == IF q = m - 1 THEN m ELSE q
  <2>1. row.status \in STANDING_REFUNDS => s.done + s.pending = 0
    <3> SUFFICES ASSUME row.status \in STANDING_REFUNDS PROVE s.done + s.pending = 0
      OBVIOUS
    <3>1. \A k \in K : k < m /\ k \in 1..n
      BY <1>7, <1>k DEF ReadingOf
    <3>2. K \cap (1..(m - 1)) = K
      BY <1>0, <3>1
    <3>3. before = all
      BY <3>2, Zenon
    <3> QED
      BY <1>1, <1>2, <1>3, <3>3
  <2>2. /\ t.done = s.done /\ t.pending = s.pending
        /\ \/ t.rows[m] = row
           \/ row.status = "REQUESTED" /\ ~row.held /\ authoritative /\ t.rows[m].status = "REFUSED"
    BY <1>1, <1>2, <2>1, RowIsLeft
  <2>3. upto = before
    BY <1>3, <1>7
  <2>4. K \cap (1..r) = K \cap (1..q)
    <3>1. CASE q = m - 1
      <4>1. 1..m = (1..(m - 1)) \cup {m}
        BY <1>0
      <4> QED
        BY <1>7, <3>1, <4>1
    <3>2. CASE q # m - 1
      BY <3>2
    <3> QED
      BY <3>1, <3>2
  <2>5. /\ r \in 0..m /\ (r = m \/ s.done = 0) /\ (q = m - 1 => r = m)
        /\ \A i \in 1..(m - 1) : i <= r <=> i <= q
    BY <1>0, <1>1
  <2> HIDE DEF t, before, upto, all, r
  <2>6. t.done + centsOf(rows, K \cap (1..r)) <= totals.done
    <3>1. centsOf(rows, K \cap (1..r)) = centsOf(rows, K \cap (1..q))
      BY <2>4, Zenon
    <3> QED
      BY <1>1, <2>2, <3>1
  <2>7. ASSUME NEW i \in 1..m PROVE RowRead(rows[i], t.rows[i], i, K, r, authoritative)
    <3>1. CASE i = m
      BY <3>1, <1>7, <2>2 DEF RowRead
    <3>2. CASE i # m
      <4>1. i \in 1..(m - 1) /\ t.rows[i] = s.rows[i]
        BY <1>0, <1>5, <3>2
      <4>2. RowRead(rows[i], s.rows[i], i, K, q, authoritative) /\ (i <= r <=> i <= q)
        BY <1>1, <2>5, <4>1
      <4> QED
        BY <4>1, <4>2 DEF RowRead
    <3> QED
      BY <3>1, <3>2
  <2>8. \A i \in 1..n : i > m => t.rows[i] = rows[i]
    BY <1>0, <1>1, <1>5
  <2>9. t.done + t.pending + upto = all
    BY <1>1, <2>2, <2>3
  <2>10. Reached(t, rows, totals, K, m, r, authoritative)
    BY <1>1, <1>5, <2>2, <2>5, <2>6, <2>7, <2>8, <2>9 DEF Reached, upto, all
  <2> QED
    BY <2>10 DEF t
<1> QED
  BY <1>6, <1>7

\* What a reading of K leaves of the rows: no row of a refund made elsewhere, and what came back
\* reaches the row q.
ReadExactly(rows, new, totals, K, q, authoritative) ==
  /\ Len(new) = Len(rows) /\ q \in 0..Len(rows)
  /\ \A i \in 1..Len(rows) : RowRead(rows[i], new[i], i, K, q, authoritative)
  /\ centsOf(rows, K \cap (1..q)) <= totals.done
  /\ totals.pending = 0 => q = Len(rows)

\* A reading of the oldest of the rows' own refunds is written on exactly those rows.
THEOREM CoversExactly ==
  ASSUME NEW rows \in Rows, NEW totals \in RefundTotals, NEW K, ReadingOf(rows, totals, K),
         NEW authoritative \in BOOLEAN
  PROVE  \E q : ReadExactly(rows, reconcileRefunds(rows, totals, authoritative), totals, K, q, authoritative)
<1> DEFINE n == Len(rows)
           s == coverRows(rows, totals, authoritative)
           new == reconcileRefunds(rows, totals, authoritative)
<1>0. /\ n \in Nat /\ Cents(rows) /\ K \subseteq 1..n /\ totals.cancelled = 0
      /\ deniedBy(rows, totals) = {}
  <2>1. totals.cancelled = 0 /\ K \subseteq 1..n
    BY DEF ReadingOf
  <2> QED
    BY <2>1, RowsAreCents, NoneDenied DEF Cents
<1> DEFINE denied == deniedBy(rows, totals)
<1>1. PICK g : /\ Cover(rows, totals, denied, authoritative, n, g)
               /\ s = g[n]
  <2>1. \E g : Cover(rows, totals, denied, authoritative, n, g)
    BY <1>0, CoverExists
  <2> QED
    BY <2>1 DEF coverRows, Cover
<1>2. /\ g[0] = coverStart(rows, totals)
      /\ \A m \in 1..n : g[m] = coverRow(g[m - 1], m, {}, authoritative)
  BY <1>0, <1>1 DEF Cover
<1> DEFINE Ok(k) == \E q : Reached(g[k], rows, totals, K, k, q, authoritative)
           Bad == {k \in 0..n : ~Ok(k)}
<1>3. Bad = {}
  <2> SUFFICES ASSUME Bad # {} PROVE FALSE
    OBVIOUS
  <2> HIDE DEF Ok
  <2>0. Bad \subseteq Nat
    BY <1>0
  <2>1. PICK m \in Bad : \A k \in Bad : m <= k
    BY <2>0, NatHasLeast
  <2>2. m # 0
    <3>1. Ok(0)
      BY <1>2, ReachedStart DEF Ok
    <3> QED
      BY <2>1, <3>1
  <2>3. m \in 1..n /\ Ok(m - 1)
    <3>1. m - 1 \in 0..n /\ ~(m <= m - 1) /\ m \in 1..n
      BY <2>1, <2>2, <1>0
    <3> QED
      BY <2>1, <3>1
  <2>4. PICK q : Reached(g[m - 1], rows, totals, K, m - 1, q, authoritative)
    BY <2>3 DEF Ok
  <2>5. \E r : Reached(coverRow(g[m - 1], m, {}, authoritative), rows, totals, K, m, r, authoritative)
    BY <2>3, <2>4, ReachedNext
  <2>6. Ok(m)
    BY <1>2, <2>3, <2>5 DEF Ok
  <2> QED
    BY <2>1, <2>6
<1>4. PICK q : Reached(s, rows, totals, K, n, q, authoritative)
  BY <1>0, <1>1, <1>3
<1>5. /\ s \in Covering /\ Len(s.rows) = n /\ q \in 0..n
      /\ \A i \in 1..n : RowRead(rows[i], s.rows[i], i, K, q, authoritative)
      /\ s.done + s.pending + centsOf(rows, K \cap (1..n)) = centsOf(rows, K)
      /\ s.done + centsOf(rows, K \cap (1..q)) <= totals.done
      /\ totals.pending = 0 => q = n
  BY <1>4 DEF Reached
<1>6. s.rows \in Rows /\ s.done = 0 /\ s.pending = 0
  <2>1. K \cap (1..n) = K
    BY <1>0
  <2>2. centsOf(rows, K \cap (1..n)) = centsOf(rows, K)
    BY <2>1, Zenon
  <2>3. centsOf(rows, K) \in Nat
    BY <1>0, CentsAreNatural
  <2>4. s.rows \in Rows /\ s.done \in Nat /\ s.pending \in Nat
    BY <1>5 DEF Covering
  <2>5. s.done + s.pending + centsOf(rows, K) = centsOf(rows, K)
    BY <1>5, <2>2
  <2> QED
    BY <2>3, <2>4, <2>5
<1>7. Len(new) = n /\ \A i \in 1..n : new[i] = s.rows[i]
  <2>1. refundableOf(s.rows) \in Nat
    <3>1. sumOf(s.rows, STANDING_REFUNDS) \in Nat
      BY <1>6, RowsSums
    <3> QED
      BY <3>1, AmountIsPaid DEF refundableOf, NotBelow0
  <2>2. Least(s.done, refundableOf(s.rows)) = 0 /\ Least(s.pending, refundableOf(s.rows) - 0) = 0
    BY <1>6, <2>1 DEF Least
  <2>3. outsideRow(0, "DONE") = <<>> /\ outsideRow(0, "PROCESSING") = <<>>
    BY DEF outsideRow
  <2>4. new = s.rows \/ new = s.rows \o <<>> \o <<>>
    BY <2>2, <2>3 DEF reconcileRefunds
  <2>5. <<>> \in Rows /\ Len(<<>>) = 0
    BY DEF Rows
  <2> HIDE DEF new, s
  <2>6. /\ s.rows \o <<>> \in Rows /\ Len(s.rows \o <<>>) = n
        /\ \A i \in 1..n : (s.rows \o <<>>)[i] = s.rows[i]
    BY <1>0, <1>5, <1>6, <2>5, Concatenated
  <2>7. /\ Len(s.rows \o <<>> \o <<>>) = n
        /\ \A i \in 1..n : (s.rows \o <<>> \o <<>>)[i] = s.rows[i]
    BY <1>0, <2>5, <2>6, Concatenated
  <2> QED
    BY <1>5, <2>4, <2>7
<1> HIDE DEF new, s
<1>8. centsOf(rows, K \cap (1..q)) <= totals.done
  <2>1. centsOf(rows, K \cap (1..q)) \in Nat
    BY <1>0, CentsAreNatural
  <2> QED
    BY <1>5, <1>6, <2>1
<1>9. ReadExactly(rows, new, totals, K, q, authoritative)
  BY <1>5, <1>7, <1>8 DEF ReadExactly
<1> QED
  BY <1>9 DEF new

\* What the payment says of its refunds stays within what was paid.
LEMMA SettledPayment ==
  ASSUME NEW pay \in Payment, NEW rows \in Rows
  PROVE  LET new == settleRefundMoney(pay, rows) IN
         new \in Payment /\ new.refunded + new.refunding <= Amount
<1> DEFINE whole == pay.status = "REFUNDED" \/ backOf(rows) >= Amount
           refunded == IF whole THEN Amount ELSE backOf(rows)
           refunding == refundingOf(rows, refunded)
           status == IF whole THEN "REFUNDED" ELSE IF refunded > 0 THEN "PARTIALLY_REFUNDED" ELSE pay.status
<1>1. backOf(rows) \in Nat /\ onItsWay(rows) \in Nat
  <2>1. {"DONE"} \subseteq TAKEN_REFUNDS
    BY DEF TAKEN_REFUNDS
  <2> QED
    BY <2>1, RowsSums DEF backOf, onItsWay
<1>2. refunded \in 0..Amount
  BY <1>1, AmountIsPaid
<1>3. settleRefundMoney(pay, rows) = [pay EXCEPT !.refunded = refunded, !.refunding = refunding, !.status = status]
  BY DEF settleRefundMoney
<1>4. status \in {"RECEIVED", "PARTIALLY_REFUNDED", "REFUNDED"}
  BY DEF Payment
<1> HIDE DEF refunded, status
<1>5. refunding \in 0..Amount /\ refunded + refunding <= Amount
  BY <1>1, <1>2, AmountIsPaid DEF refundingOf, Least
<1> HIDE DEF refunding
<1> QED
  BY <1>2, <1>3, <1>4, <1>5 DEF Payment

=============================================================================

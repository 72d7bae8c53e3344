------------------------- MODULE Calculations_proofs -------------------------
(***************************************************************************)
(* Theorems about the pure parts of the system, for all their inputs: the  *)
(* amounts of an invoice, the payment reference, the personal number in    *)
(* its two forms, the nightly timer and the dates of a recurring invoice.  *)
(* What the recursive functions of the first two compute is proved by      *)
(* induction, stated as the least element of a set of natural numbers: the *)
(* operators of the induction theorems cannot be instantiated.             *)
(***************************************************************************)
EXTENDS InvoiceAmounts, OcrNumbers, DailyTimer, CustomerIdentity, RecurringDates,
        SequenceTheorems, WellFoundedInduction, TLAPS

-----------------------------------------------------------------------------
(* Induction over the natural numbers *)

\* A set of natural numbers has a least element, if any.
LEMMA LeastNat ==
  ASSUME NEW T \in SUBSET Nat, T # {}
  PROVE  \E x \in T : \A y \in T : x <= y
<1> DEFINE R == OpToRel(<, Nat)
<1>1. IsWellFoundedOn(R, Nat)
  BY NatLessThanWellFounded
<1>2. \A x, y \in Nat : x < y => <<x, y>> \in R
  BY DEF OpToRel
<1> HIDE DEF R
<1>3. PICK x \in T : \A y \in T : ~ (<<y, x>> \in R)
  BY <1>1, WFMin
<1>4. ASSUME NEW y \in T, ~ (x <= y)
      PROVE  FALSE
  <2>1. y < x
    BY <1>4
  <2>2. <<y, x>> \in R
    BY <1>2, <2>1
  <2> QED
    BY <1>3, <2>2
<1> QED
  BY <1>4

\* Induction over the natural numbers, for a set of them.
LEMMA AllNat ==
  ASSUME NEW T \in SUBSET Nat, 0 \in T, \A n \in T : n + 1 \in T
  PROVE  T = Nat
<1>1. SUFFICES ASSUME Nat \ T # {}
               PROVE  FALSE
  OBVIOUS
<1>2. PICK m \in Nat \ T : \A y \in Nat \ T : m <= y
  <2>1. Nat \ T \in SUBSET Nat
    OBVIOUS
  <2> QED
    BY <1>1, <2>1, LeastNat
<1>3. m # 0 /\ m - 1 \in Nat /\ ~(m <= m - 1)
  BY <1>2
<1>4. m - 1 \in T /\ (m - 1) + 1 = m
  BY <1>2, <1>3
<1> QED
  BY <1>2, <1>4

-----------------------------------------------------------------------------
(* Sums over lines *)

\* The running totals of the amounts of n lines.
IsSum(acc, g, n) == acc = [i \in 0..n |-> IF i = 0 THEN noTotals ELSE plus(acc[i - 1], g[i])]

LEMMA SumExists ==
  ASSUME NEW g, NEW n \in Nat
  PROVE  \E acc : IsSum(acc, g, n)
<1> DEFINE T == {m \in Nat : \E acc : IsSum(acc, g, m)}
<1>1. 0 \in T
  <2> DEFINE a == [i \in {0} |-> noTotals]
  <2>1. IsSum(a, g, 0)
    <3>1. 0..0 = {0}
      OBVIOUS
    <3> QED
      BY <3>1, Zenon DEF IsSum
  <2> QED
    BY <2>1
<1>2. ASSUME NEW m \in T
      PROVE  m + 1 \in T
  <2>1. m \in Nat /\ m + 1 \in Nat
    BY <1>2
  <2>2. PICK a : IsSum(a, g, m)
    BY <1>2
  <2> DEFINE b == [i \in 0..(m + 1) |-> IF i = m + 1 THEN plus(a[m], g[m + 1]) ELSE a[i]]
  <2>3. a = [i \in 0..m |-> IF i = 0 THEN noTotals ELSE plus(a[i - 1], g[i])]
    BY <2>2 DEF IsSum
  <2>4. ASSUME NEW i \in 0..(m + 1)
        PROVE  b[i] = IF i = 0 THEN noTotals ELSE plus(b[i - 1], g[i])
    <3> HIDE DEF b
    <3>1. CASE i = m + 1
      <4>1. b[m] = a[m] /\ b[m + 1] = plus(a[m], g[m + 1])
        BY <2>1 DEF b
      <4> QED
        BY <2>1, <3>1, <4>1
    <3>2. CASE i # m + 1 /\ i # 0
      <4>1. i \in 0..m /\ i - 1 \in 0..(m + 1) /\ i - 1 # m + 1
        BY <2>1, <3>2
      <4>2. b[i - 1] = a[i - 1] /\ b[i] = a[i]
        BY <4>1, <3>2 DEF b
      <4>3. a[i] = plus(a[i - 1], g[i])
        BY <4>1, <2>3, <3>2
      <4> QED
        BY <3>2, <4>2, <4>3
    <3>3. CASE i = 0
      <4>1. i \in 0..m /\ i # m + 1
        BY <2>1, <3>3
      <4> QED
        BY <2>3, <3>3, <4>1 DEF b
    <3> QED
      BY <3>1, <3>2, <3>3
  <2>5. IsSum(b, g, m + 1)
    <3>1. b = [i \in 0..(m + 1) |-> b[i]]
      OBVIOUS
    <3> HIDE DEF b
    <3> QED
      BY <2>4, <3>1, Zenon DEF IsSum
  <2> QED
    BY <2>1, <2>5
<1> HIDE DEF T
<1>3. T = Nat
  BY <1>1, <1>2, AllNat DEF T
<1> QED
  BY <1>3 DEF T

LEMMA SumTotalsIs ==
  ASSUME NEW items, Len(items) \in Nat
  PROVE  \E acc : IsSum(acc, items, Len(items)) /\ sumTotals(items) = acc[Len(items)]
<1> DEFINE a == CHOOSE acc : IsSum(acc, items, Len(items))
<1>1. IsSum(a, items, Len(items))
  BY SumExists
<1>2. sumTotals(items) = a[Len(items)]
  BY Zenon DEF sumTotals, IsSum
<1> QED
  BY <1>1, <1>2

\* What the form adds up.
Ores == [i \in 1..Len(lines) |->
           computeLineOre(lines[i].milli, lines[i].unitPriceOre, lines[i].vatRate)]

LEMMA TotalsOreIs ==
  ASSUME Len(lines) \in Nat
  PROVE  \E acc : IsSum(acc, Ores, Len(lines)) /\ totalsOre = acc[Len(lines)]
<1> DEFINE ore(l) == computeLineOre(l.milli, l.unitPriceOre, l.vatRate)
           Is(acc) == acc = [i \in 0..Len(lines) |->
                               IF i = 0 THEN noTotals ELSE plus(acc[i - 1], ore(lines[i]))]
           a == CHOOSE acc : Is(acc)
<1>1. \A acc : IsSum(acc, Ores, Len(lines)) <=> Is(acc)
  <2> TAKE acc
  <2>1. ASSUME NEW i \in 0..Len(lines)
        PROVE  (IF i = 0 THEN noTotals ELSE plus(acc[i - 1], Ores[i]))
                 = (IF i = 0 THEN noTotals ELSE plus(acc[i - 1], ore(lines[i])))
    <3>1. CASE i # 0
      <4>1. i \in 1..Len(lines)
        BY <3>1
      <4>2. Ores[i] = ore(lines[i])
        BY <4>1 DEF Ores
      <4> HIDE DEF ore
      <4> QED
        BY <4>2
    <3> QED
      BY <3>1
  <2> HIDE DEF ore
  <2> QED
    BY <2>1, Zenon DEF IsSum
<1>2. Is(a)
  BY <1>1, SumExists, Zenon
<1>3. totalsOre = a[Len(lines)]
  BY Zenon DEF totalsOre
<1> HIDE DEF Is, a
<1> QED
  BY <1>1, <1>2, <1>3

\* Amounts that agree line by line have the same sum.
SameAmounts(x, y) == x.excl = y.excl /\ x.vat = y.vat /\ x.incl = y.incl

LEMMA SumsAgree ==
  ASSUME NEW g, NEW h, NEW n \in Nat, NEW a, NEW b, IsSum(a, g, n), IsSum(b, h, n),
         \A i \in 1..n : SameAmounts(g[i], h[i])
  PROVE  a[n] = b[n]
<1> DEFINE T == {m \in Nat : m <= n => a[m] = b[m]}
<1>1. /\ a = [i \in 0..n |-> IF i = 0 THEN noTotals ELSE plus(a[i - 1], g[i])]
      /\ b = [i \in 0..n |-> IF i = 0 THEN noTotals ELSE plus(b[i - 1], h[i])]
  BY DEF IsSum
<1>2. 0 \in T
  <2>1. 0 \in 0..n
    OBVIOUS
  <2> QED
    BY <1>1, <2>1
<1>3. ASSUME NEW m \in T
      PROVE  m + 1 \in T
  <2> SUFFICES ASSUME m + 1 <= n
               PROVE  a[m + 1] = b[m + 1]
    BY <1>3
  <2>1. m \in Nat /\ m + 1 \in 0..n /\ m + 1 \in 1..n /\ m + 1 # 0 /\ (m + 1) - 1 = m
    BY <1>3
  <2>2. a[m] = b[m]
    BY <1>3, <2>1
  <2>3. a[m + 1] = plus(a[m], g[m + 1]) /\ b[m + 1] = plus(b[m], h[m + 1])
    BY <1>1, <2>1
  <2>4. SameAmounts(g[m + 1], h[m + 1])
    BY <2>1
  <2> QED
    BY <2>2, <2>3, <2>4 DEF plus, SameAmounts
<1> HIDE DEF T
<1>4. T = Nat
  BY <1>2, <1>3, AllNat DEF T
<1> QED
  BY <1>4 DEF T

\* Amounts that cancel line by line cancel in the sum.
Amount(x) == x.excl \in Int /\ x.vat \in Int /\ x.incl \in Int

LEMMA CancellingSums ==
  ASSUME NEW u, NEW v, NEW x, NEW y, Amount(u), Amount(v), Amount(x), Amount(y),
         plus(v, u) = noTotals, plus(y, x) = noTotals
  PROVE  /\ Amount(plus(u, x)) /\ Amount(plus(v, y))
         /\ plus(plus(v, y), plus(u, x)) = noTotals
<1>1. /\ v.excl + u.excl = 0 /\ v.vat + u.vat = 0 /\ v.incl + u.incl = 0
      /\ y.excl + x.excl = 0 /\ y.vat + x.vat = 0 /\ y.incl + x.incl = 0
  BY DEF plus, noTotals
<1> DEFINE p == plus(u, x)
           q == plus(v, y)
<1>2. /\ p.excl = u.excl + x.excl /\ p.vat = u.vat + x.vat /\ p.incl = u.incl + x.incl
      /\ q.excl = v.excl + y.excl /\ q.vat = v.vat + y.vat /\ q.incl = v.incl + y.incl
  BY DEF plus
<1> HIDE DEF p, q
<1>3. Amount(p) /\ Amount(q)
  BY <1>2 DEF Amount
<1>4. q.excl + p.excl = 0 /\ q.vat + p.vat = 0 /\ q.incl + p.incl = 0
  BY <1>1, <1>2 DEF Amount
<1>5. plus(q, p) = noTotals
  BY <1>4 DEF plus, noTotals
<1> QED
  BY <1>3, <1>5 DEF p, q

LEMMA SumsCancel ==
  ASSUME NEW g, NEW h, NEW n \in Nat, NEW a, NEW b, IsSum(a, g, n), IsSum(b, h, n),
         \A i \in 1..n : Amount(g[i]) /\ Amount(h[i]) /\ plus(h[i], g[i]) = noTotals
  PROVE  plus(b[n], a[n]) = noTotals
<1> DEFINE T == {m \in Nat : m <= n => Amount(a[m]) /\ Amount(b[m]) /\ plus(b[m], a[m]) = noTotals}
<1>1. /\ a = [i \in 0..n |-> IF i = 0 THEN noTotals ELSE plus(a[i - 1], g[i])]
      /\ b = [i \in 0..n |-> IF i = 0 THEN noTotals ELSE plus(b[i - 1], h[i])]
  BY DEF IsSum
<1>2. 0 \in T
  <2>1. 0 \in 0..n
    OBVIOUS
  <2>2. a[0] = noTotals /\ b[0] = noTotals
    BY <1>1, <2>1
  <2> QED
    BY <2>2 DEF noTotals, plus, Amount
<1>3. ASSUME NEW m \in T
      PROVE  m + 1 \in T
  <2> SUFFICES ASSUME m + 1 <= n
               PROVE  Amount(a[m + 1]) /\ Amount(b[m + 1]) /\ plus(b[m + 1], a[m + 1]) = noTotals
    BY <1>3
  <2>1. m \in Nat /\ m + 1 \in 0..n /\ m + 1 \in 1..n /\ m + 1 # 0 /\ (m + 1) - 1 = m
    BY <1>3
  <2>2. Amount(a[m]) /\ Amount(b[m]) /\ plus(b[m], a[m]) = noTotals
    BY <1>3, <2>1
  <2>3. a[m + 1] = plus(a[m], g[m + 1]) /\ b[m + 1] = plus(b[m], h[m + 1])
    BY <1>1, <2>1
  <2>4. Amount(g[m + 1]) /\ Amount(h[m + 1]) /\ plus(h[m + 1], g[m + 1]) = noTotals
    BY <2>1
  <2>5. /\ Amount(plus(a[m], g[m + 1])) /\ Amount(plus(b[m], h[m + 1]))
        /\ plus(plus(b[m], h[m + 1]), plus(a[m], g[m + 1])) = noTotals
    BY <2>2, <2>4, CancellingSums
  <2> QED
    BY <2>3, <2>5
<1> HIDE DEF T
<1>4. T = Nat
  BY <1>2, <1>3, AllNat DEF T
<1> QED
  BY <1>4 DEF T

-----------------------------------------------------------------------------
(* One line *)

Line == [milli : Nat, unitPriceOre : Nat, vatRate : Nat]

LEMMA RatesAreNat ==
  ASSUME AmountsAssumption
  PROVE  /\ Rates \subseteq Nat /\ 25 \in Rates /\ Quantities \subseteq Nat /\ Prices \subseteq Nat
         /\ EMPTY_LINE \in Line
BY DEF AmountsAssumption, EMPTY_LINE, Line

\* The whole and the fractional part of a quantity, taken apart and multiplied, make
\* the exact product.
LEMMA ExactProduct ==
  ASSUME NEW milli \in Nat, NEW price \in Nat
  PROVE  /\ milli * price \in Nat
         /\ exactLineExclVat(milli, price) = milli * price
<1> DEFINE whole == milli \div 1000
           frac == milli - whole * 1000
<1>1. whole \in Nat /\ frac \in Nat /\ milli = 1000 * whole + frac
  OBVIOUS
<1>2. exactLineExclVat(milli, price) = 1000 * (whole * price) + frac * price
  BY DEF exactLineExclVat
<1> HIDE DEF whole, frac
<1>3. whole * price \in Nat /\ frac * price \in Nat /\ milli * price \in Nat
  BY <1>1
<1>4. milli * price = 1000 * (whole * price) + frac * price
  BY <1>1
<1> QED
  BY <1>2, <1>3, <1>4

\* A half is rounded upwards.
LEMMA RoundedInThousand ==
  ASSUME NEW x \in Int
  PROVE  /\ roundHalfUp(x, 1000) \in Int
         /\ -1000 < 2 * (1000 * roundHalfUp(x, 1000) - x)
         /\ 2 * (1000 * roundHalfUp(x, 1000) - x) <= 1000
BY DEF roundHalfUp

LEMMA RoundedInHundred ==
  ASSUME NEW x \in Int
  PROVE  /\ roundHalfUp(x, 100) \in Int
         /\ -100 < 2 * (100 * roundHalfUp(x, 100) - x)
         /\ 2 * (100 * roundHalfUp(x, 100) - x) <= 100
BY DEF roundHalfUp

\* The amounts of a line are its exact products, each rounded once.
RoundedAs(l, excl, vat, incl) ==
  /\ -1000 < 2 * (1000 * excl - l.milli * l.unitPriceOre)
  /\ 2 * (1000 * excl - l.milli * l.unitPriceOre) <= 1000
  /\ -100 < 2 * (100 * vat - excl * l.vatRate)
  /\ 2 * (100 * vat - excl * l.vatRate) <= 100
  /\ incl = excl + vat

LEMMA LineRounded ==
  ASSUME NEW l, l.milli \in Nat, l.unitPriceOre \in Nat, l.vatRate \in Nat,
         NEW c, c = computeLine(l)
  PROVE  Amount(c) /\ RoundedAs(l, c.excl, c.vat, c.incl)
<1> DEFINE x == l.milli * l.unitPriceOre
           excl == roundHalfUp(x, 1000)
           y == excl * l.vatRate
           vat == roundHalfUp(y, 100)
<1>1. x \in Int /\ exactLineExclVat(l.milli, l.unitPriceOre) = x
  <2>1. \A m, p \in Nat : m * p \in Int /\ exactLineExclVat(m, p) = m * p
    BY ExactProduct
  <2> QED
    BY <2>1, Zenon
<1>2. excl \in Int
  BY <1>1, RoundedInThousand
<1>3. y \in Int
  BY <1>2
<1>4. vat \in Int
  BY <1>3, RoundedInHundred
<1>5. c.excl = excl /\ c.vat = vat /\ c.incl = excl + vat
  <2>1. c = [excl |-> excl, vat |-> vat, incl |-> excl + vat]
    BY <1>1 DEF computeLine
  <2> HIDE DEF x, excl, y, vat
  <2> QED
    BY <2>1
<1>6. -1000 < 2 * (1000 * excl - x) /\ 2 * (1000 * excl - x) <= 1000
  BY <1>1, RoundedInThousand
<1>7. -100 < 2 * (100 * vat - y) /\ 2 * (100 * vat - y) <= 100
  BY <1>3, RoundedInHundred
<1>8. Amount(c) /\ c.incl = c.excl + c.vat
  <2> HIDE DEF x, excl, y, vat
  <2> QED
    BY <1>2, <1>4, <1>5 DEF Amount
<1> HIDE DEF excl, vat
<1>9. RoundedAs(l, excl, vat, excl + vat)
  BY <1>6, <1>7 DEF RoundedAs
<1> QED
  BY <1>5, <1>8, <1>9

\* The back office computes the amounts of a line as billing does.
LEMMA SameForTheScreen ==
  ASSUME NEW l, l.milli \in Nat, l.unitPriceOre \in Nat, l.vatRate \in Nat
  PROVE  computeLineOre(l.milli, l.unitPriceOre, l.vatRate) = computeLine(l)
<1> DEFINE x == 1000 * ((l.milli \div 1000) * l.unitPriceOre)
                  + (l.milli - (l.milli \div 1000) * 1000) * l.unitPriceOre
           excl == roundHalfUp(x, 1000)
<1>1. exactLineExclVat(l.milli, l.unitPriceOre) = x
  BY DEF exactLineExclVat
<1>2. x \in Int
  <2>1. \A m, p \in Nat : m * p \in Int /\ exactLineExclVat(m, p) = m * p
    BY ExactProduct
  <2>2. exactLineExclVat(l.milli, l.unitPriceOre) \in Int
    BY <2>1, Zenon
  <2> HIDE DEF x
  <2> QED
    BY <1>1, <2>2
<1>3. computeLineOre(l.milli, l.unitPriceOre, l.vatRate)
        = [excl |-> (2 * x + 1000) \div 2000,
           vat |-> (2 * ((2 * x + 1000) \div 2000) * l.vatRate + 100) \div 200,
           incl |-> ((2 * x + 1000) \div 2000)
                      + ((2 * ((2 * x + 1000) \div 2000) * l.vatRate + 100) \div 200)]
  BY DEF computeLineOre
<1>4. computeLine(l) = [excl |-> excl, vat |-> roundHalfUp(excl * l.vatRate, 100),
                        incl |-> excl + roundHalfUp(excl * l.vatRate, 100)]
  BY <1>1 DEF computeLine
<1> HIDE DEF x
<1>5. excl = (2 * x + 1000) \div 2000 /\ excl \in Int
  BY <1>2 DEF roundHalfUp
<1>6. roundHalfUp(excl * l.vatRate, 100) = (2 * excl * l.vatRate + 100) \div 200
  <2>1. 2 * excl * l.vatRate = 2 * (excl * l.vatRate)
    BY <1>5
  <2> QED
    BY <2>1 DEF roundHalfUp
<1> HIDE DEF excl
<1> QED
  BY <1>3, <1>4, <1>5, <1>6


-----------------------------------------------------------------------------
(* The invariant *)

Item == [milli : Nat, unitPriceOre : Nat, vatRate : Nat, excl : Int, vat : Int, incl : Int]

LinesTyped == lines \in Seq(Line)

\* What is booked was computed line by line, and is what the form showed.
Booked ==
  /\ invoice.items \in Seq(Item)
  /\ \A i \in 1..Len(invoice.items) : SameAmounts(invoice.items[i], computeLine(invoice.items[i]))
  /\ invoice.totals = sumTotals(invoice.items)
  /\ shown = invoice.totals

\* The credit note mirrors the invoice it was made of, which no longer changes.
Credited ==
  /\ mode = "closed" /\ invoice.status = "credited"
  /\ credit.items = [i \in DOMAIN invoice.items |-> creditItem(invoice.items[i])]
  /\ credit.totals = sumTotals(credit.items)

\* An untouched form holds the lines that are booked.
Reopened ==
  /\ Len(lines) = Len(invoice.items)
  /\ \A i \in 1..Len(lines) : /\ lines[i].milli = invoice.items[i].milli
                              /\ lines[i].unitPriceOre = invoice.items[i].unitPriceOre
                              /\ lines[i].vatRate = invoice.items[i].vatRate

AmountsInv ==
  /\ LinesTyped
  /\ mode \in {"new", "edit", "closed"}
  /\ IF mode = "new" THEN invoice = NoInvoice ELSE Booked
  /\ mode = "edit" => invoice.status = "draft"
  /\ credit # NoInvoice => Credited
  /\ mode = "edit" /\ clean => Reopened

-----------------------------------------------------------------------------
(* What the code's operations return *)

LEMMA ItemsOfLines ==
  ASSUME NEW ls \in Seq(Line)
  PROVE  /\ toItems(ls) \in Seq(Item) /\ Len(toItems(ls)) = Len(ls)
         /\ \A i \in 1..Len(ls) :
              /\ toItems(ls)[i].milli = ls[i].milli
              /\ toItems(ls)[i].unitPriceOre = ls[i].unitPriceOre
              /\ toItems(ls)[i].vatRate = ls[i].vatRate
              /\ SameAmounts(toItems(ls)[i], computeLine(ls[i]))
              /\ computeLine(toItems(ls)[i]) = computeLine(ls[i])
<1> DEFINE row(l) == [milli |-> l.milli, unitPriceOre |-> l.unitPriceOre, vatRate |-> l.vatRate,
                      excl |-> computeLine(l).excl, vat |-> computeLine(l).vat,
                      incl |-> computeLine(l).incl]
<1>1. DOMAIN ls = 1..Len(ls) /\ Len(ls) \in Nat /\ \A i \in 1..Len(ls) : ls[i] \in Line
  OBVIOUS
<1>2. toItems(ls) = [i \in 1..Len(ls) |-> row(ls[i])]
  BY <1>1 DEF toItems
<1>3. ASSUME NEW l \in Line
      PROVE  /\ row(l) \in Item
             /\ row(l).milli = l.milli /\ row(l).unitPriceOre = l.unitPriceOre
             /\ row(l).vatRate = l.vatRate
             /\ SameAmounts(row(l), computeLine(l))
             /\ computeLine(row(l)) = computeLine(l)
  <2>1. l.milli \in Nat /\ l.unitPriceOre \in Nat /\ l.vatRate \in Nat
    BY DEF Line
  <2>2. Amount(computeLine(l))
    BY <2>1, LineRounded
  <2>3. row(l) \in Item
    BY <2>1, <2>2 DEF Amount, Item
  <2>4. /\ row(l).milli = l.milli /\ row(l).unitPriceOre = l.unitPriceOre
        /\ row(l).vatRate = l.vatRate
    OBVIOUS
  <2>5. SameAmounts(row(l), computeLine(l))
    BY DEF SameAmounts
  <2> HIDE DEF row
  <2>6. computeLine(row(l)) = computeLine(l)
    BY <2>4 DEF computeLine
  <2> QED
    BY <2>3, <2>4, <2>5, <2>6
<1> HIDE DEF row
<1>4. ASSUME NEW i \in 1..Len(ls)
      PROVE  toItems(ls)[i] = row(ls[i]) /\ ls[i] \in Line
  BY <1>1, <1>2
<1>5. toItems(ls) \in [1..Len(ls) -> Item]
  BY <1>1, <1>2, <1>3
<1>6. toItems(ls) \in Seq(Item) /\ Len(toItems(ls)) = Len(ls)
  BY <1>1, <1>5
<1> QED
  BY <1>3, <1>4, <1>6

LEMMA SumsOfSame ==
  ASSUME NEW g, NEW h, Len(g) \in Nat, Len(g) = Len(h),
         \A i \in 1..Len(g) : SameAmounts(g[i], h[i])
  PROVE  sumTotals(g) = sumTotals(h)
<1>1. PICK a : IsSum(a, g, Len(g)) /\ sumTotals(g) = a[Len(g)]
  BY SumTotalsIs
<1>2. PICK b : IsSum(b, h, Len(h)) /\ sumTotals(h) = b[Len(h)]
  BY SumTotalsIs
<1> QED
  BY <1>1, <1>2, SumsAgree

\* The total on the screen is the total that is booked for the same lines.
LEMMA ScreenTotal ==
  ASSUME LinesTyped, NEW items, Len(items) = Len(lines),
         \A i \in 1..Len(lines) : SameAmounts(items[i], computeLine(lines[i]))
  PROVE  totalsOre = sumTotals(items)
<1>1. Len(lines) \in Nat
  BY DEF LinesTyped
<1>2. PICK a : IsSum(a, Ores, Len(lines)) /\ totalsOre = a[Len(lines)]
  BY <1>1, TotalsOreIs
<1>3. PICK b : IsSum(b, items, Len(lines)) /\ sumTotals(items) = b[Len(lines)]
  BY <1>1, SumTotalsIs
<1>4. ASSUME NEW i \in 1..Len(lines)
      PROVE  SameAmounts(Ores[i], items[i])
  <2>1. lines[i] \in Line
    BY DEF LinesTyped
  <2>2. Ores[i] = computeLine(lines[i])
    BY <2>1, SameForTheScreen DEF Ores, Line
  <2>3. SameAmounts(items[i], computeLine(lines[i]))
    OBVIOUS
  <2> QED
    BY <2>2, <2>3 DEF SameAmounts
<1> QED
  BY <1>1, <1>2, <1>3, <1>4, SumsAgree

\* A credited line and its total are the booked ones with the sign changed.
LEMMA CreditedItems ==
  ASSUME NEW items \in Seq(Item), NEW cs,
         cs = [i \in DOMAIN items |-> creditItem(items[i])]
  PROVE  /\ DOMAIN items = 1..Len(items)
         /\ \A i \in 1..Len(items) :
              /\ plus(cs[i], items[i]) = noTotals
              /\ cs[i].milli + items[i].milli = 0
         /\ plus(sumTotals(cs), sumTotals(items)) = noTotals
<1>1. DOMAIN items = 1..Len(items) /\ Len(items) \in Nat
      /\ \A i \in 1..Len(items) : items[i] \in Item
  OBVIOUS
<1>2. Len(cs) = Len(items)
  BY <1>1
<1>3. ASSUME NEW it \in Item
      PROVE  /\ Amount(it) /\ Amount(creditItem(it)) /\ plus(creditItem(it), it) = noTotals
             /\ creditItem(it).milli + it.milli = 0
  <2> DEFINE c == creditItem(it)
  <2>1. /\ it.milli \in Nat /\ it.excl \in Int /\ it.vat \in Int /\ it.incl \in Int
        /\ DOMAIN it = {"milli", "unitPriceOre", "vatRate", "excl", "vat", "incl"}
    BY DEF Item
  <2>2. c.milli = -it.milli /\ c.excl = -it.excl /\ c.vat = -it.vat /\ c.incl = -it.incl
    BY <2>1 DEF creditItem, Item
  <2> HIDE DEF c
  <2>3. Amount(it) /\ Amount(c) /\ c.milli + it.milli = 0
    BY <2>1, <2>2 DEF Amount
  <2>4. plus(c, it) = noTotals
    BY <2>1, <2>2 DEF plus, noTotals
  <2> QED
    BY <2>3, <2>4 DEF c
<1>4. ASSUME NEW i \in 1..Len(items)
      PROVE  /\ Amount(items[i]) /\ Amount(cs[i]) /\ plus(cs[i], items[i]) = noTotals
             /\ cs[i].milli + items[i].milli = 0
  <2>1. cs[i] = creditItem(items[i]) /\ items[i] \in Item
    BY <1>1
  <2> QED
    BY <2>1, <1>3
<1>5. PICK a : IsSum(a, items, Len(items)) /\ sumTotals(items) = a[Len(items)]
  BY <1>1, SumTotalsIs
<1>6. PICK b : IsSum(b, cs, Len(items)) /\ sumTotals(cs) = b[Len(items)]
  BY <1>1, <1>2, SumTotalsIs
<1>7. plus(sumTotals(cs), sumTotals(items)) = noTotals
  BY <1>1, <1>4, <1>5, <1>6, SumsCancel
<1> QED
  BY <1>1, <1>4, <1>7


-----------------------------------------------------------------------------
(* The steps *)

LEMMA AmountsStart ==
  ASSUME AmountsAssumption, AmountsInit
  PROVE  AmountsInv
<1>1. lines = <<EMPTY_LINE>> /\ mode = "new" /\ invoice = NoInvoice /\ credit = NoInvoice
  BY DEF AmountsInit
<1>2. lines \in Seq(Line)
  BY <1>1, RatesAreNat
<1> QED
  BY <1>1, <1>2 DEF AmountsInv, LinesTyped

\* A change of the lines in the form touches nothing that is booked.
LEMMA LinesStep ==
  ASSUME AmountsInv, lines' \in Seq(Line), mode # "closed", clean' = FALSE,
         UNCHANGED <<mode, shown, invoice, credit>>
  PROVE  AmountsInv'
<1>1. credit = NoInvoice
  BY DEF AmountsInv, Credited
<1> QED
  BY <1>1 DEF AmountsInv, LinesTyped, Booked

LEMMA AddLineStep ==
  ASSUME AmountsAssumption, AmountsInv, addLine
  PROVE  AmountsInv'
<1>1. lines \in Seq(Line) /\ EMPTY_LINE \in Line
  BY RatesAreNat DEF AmountsInv, LinesTyped
<1>2. lines' \in Seq(Line)
  BY <1>1 DEF addLine
<1> QED
  BY <1>2, LinesStep DEF addLine

LEMMA RemoveLineStep ==
  ASSUME AmountsInv, removeLine
  PROVE  AmountsInv'
<1>1. lines \in Seq(Line)
  BY DEF AmountsInv, LinesTyped
<1>2. PICK i \in DOMAIN lines :
        lines' = SubSeq(lines, 1, i - 1) \o SubSeq(lines, i + 1, Len(lines))
  BY DEF removeLine
<1>3. Len(lines) \in Nat /\ DOMAIN lines = 1..Len(lines)
  BY <1>1
<1>4. i \in 1..Len(lines) /\ i - 1 \in 0..Len(lines) /\ i + 1 \in 1..(Len(lines) + 1)
  BY <1>2, <1>3
<1>5. SubSeq(lines, 1, i - 1) \in Seq(Line)
  BY <1>1, <1>3, <1>4, SubSeqProperties
<1>6. SubSeq(lines, i + 1, Len(lines)) \in Seq(Line)
  BY <1>1, <1>3, <1>4, SubSeqProperties
<1>7. lines' \in Seq(Line)
  BY <1>2, <1>5, <1>6, ConcatProperties
<1> QED
  BY <1>7, LinesStep DEF removeLine

LEMMA UpdateLineStep ==
  ASSUME AmountsAssumption, AmountsInv, updateLine
  PROVE  AmountsInv'
<1>1. lines \in Seq(Line) /\ DOMAIN lines = 1..Len(lines) /\ Len(lines) \in Nat
  BY DEF AmountsInv, LinesTyped
<1>2. PICK i \in DOMAIN lines :
        \/ \E q \in Quantities : lines' = [lines EXCEPT ![i].milli = q]
        \/ \E p \in Prices : lines' = [lines EXCEPT ![i].unitPriceOre = p]
        \/ \E r \in Rates : lines' = [lines EXCEPT ![i].vatRate = r]
  BY DEF updateLine
<1>3. lines[i] \in Line
  BY <1>1, <1>2
<1>4. PICK l \in Line : lines' = [lines EXCEPT ![i] = l]
  <2>1. CASE \E q \in Quantities : lines' = [lines EXCEPT ![i].milli = q]
    <3>1. PICK q \in Quantities : lines' = [lines EXCEPT ![i].milli = q]
      BY <2>1
    <3>2. [lines[i] EXCEPT !.milli = q] \in Line
      BY <1>3, <3>1, RatesAreNat DEF Line
    <3>3. lines' = [lines EXCEPT ![i] = [lines[i] EXCEPT !.milli = q]]
      BY <3>1
    <3> QED
      BY <3>2, <3>3
  <2>2. CASE \E p \in Prices : lines' = [lines EXCEPT ![i].unitPriceOre = p]
    <3>1. PICK p \in Prices : lines' = [lines EXCEPT ![i].unitPriceOre = p]
      BY <2>2
    <3>2. [lines[i] EXCEPT !.unitPriceOre = p] \in Line
      BY <1>3, <3>1, RatesAreNat DEF Line
    <3>3. lines' = [lines EXCEPT ![i] = [lines[i] EXCEPT !.unitPriceOre = p]]
      BY <3>1
    <3> QED
      BY <3>2, <3>3
  <2>3. CASE \E r \in Rates : lines' = [lines EXCEPT ![i].vatRate = r]
    <3>1. PICK r \in Rates : lines' = [lines EXCEPT ![i].vatRate = r]
      BY <2>3
    <3>2. [lines[i] EXCEPT !.vatRate = r] \in Line
      BY <1>3, <3>1, RatesAreNat DEF Line
    <3>3. lines' = [lines EXCEPT ![i] = [lines[i] EXCEPT !.vatRate = r]]
      BY <3>1
    <3> QED
      BY <3>2, <3>3
  <2> QED
    BY <1>2, <2>1, <2>2, <2>3
<1>5. lines' \in Seq(Line)
  BY <1>1, <1>2, <1>4, ExceptSeq
<1> QED
  BY <1>5, LinesStep DEF updateLine

LEMMA SaveStep ==
  ASSUME AmountsInv, saveInvoice
  PROVE  AmountsInv'
<1> DEFINE items == toItems(lines)
<1>1. /\ mode # "closed" /\ mode' = "closed" /\ shown' = totalsOre
      /\ invoice' = [status |-> "draft", items |-> items, totals |-> sumTotals(items)]
      /\ UNCHANGED <<lines, clean, credit, patches>>
  BY DEF saveInvoice
<1>2. credit = NoInvoice /\ lines \in Seq(Line) /\ Len(lines) \in Nat
  BY <1>1 DEF AmountsInv, Credited, LinesTyped
<1>3. /\ items \in Seq(Item) /\ Len(items) = Len(lines)
      /\ \A i \in 1..Len(lines) : /\ SameAmounts(items[i], computeLine(lines[i]))
                                  /\ computeLine(items[i]) = computeLine(lines[i])
  BY <1>2, ItemsOfLines
<1>4. totalsOre = sumTotals(items)
  BY <1>3, ScreenTotal DEF AmountsInv
<1> HIDE DEF items
<1>5. invoice'.items = items /\ invoice'.totals = sumTotals(items)
  BY <1>1
<1>6. \A i \in 1..Len(items) : SameAmounts(items[i], computeLine(items[i]))
  BY <1>3
<1>7. Booked'
  BY <1>1, <1>3, <1>4, <1>5, <1>6 DEF Booked
<1> QED
  BY <1>1, <1>2, <1>7 DEF AmountsInv, LinesTyped

LEMMA OpenEditStep ==
  ASSUME AmountsInv, openEdit
  PROVE  AmountsInv'
<1>1. /\ mode = "closed" /\ invoice.status = "draft" /\ mode' = "edit"
      /\ lines' = [i \in DOMAIN invoice.items |-> toLineView(invoice.items[i])]
      /\ UNCHANGED <<shown, invoice, credit, patches>>
  BY DEF openEdit
<1>2. Booked /\ credit = NoInvoice
  BY <1>1 DEF AmountsInv, Credited
<1> DEFINE items == invoice.items
<1>3. /\ items \in Seq(Item) /\ DOMAIN items = 1..Len(items) /\ Len(items) \in Nat
      /\ \A i \in 1..Len(items) : items[i] \in Item
  BY <1>2 DEF Booked
<1>4. ASSUME NEW it \in Item
      PROVE  /\ toLineView(it) \in Line /\ toLineView(it).milli = it.milli
             /\ toLineView(it).unitPriceOre = it.unitPriceOre
             /\ toLineView(it).vatRate = it.vatRate
  <2>1. it.milli \in Nat /\ it.unitPriceOre \in Nat /\ it.vatRate \in Nat
    BY DEF Item
  <2>2. 100 * (it.unitPriceOre \div 100) + (it.unitPriceOre % 100) = it.unitPriceOre
    BY <2>1
  <2>3. toLineView(it) = [milli |-> it.milli, unitPriceOre |-> it.unitPriceOre,
                          vatRate |-> it.vatRate]
    BY <2>2 DEF toLineView
  <2> QED
    BY <2>1, <2>3 DEF Line
<1> HIDE DEF items
<1>5. lines' = [i \in 1..Len(items) |-> toLineView(items[i])]
  BY <1>1, <1>3 DEF items
<1>6. \A i \in 1..Len(items) : lines'[i] = toLineView(items[i])
  BY <1>5
<1>7. lines' \in [1..Len(items) -> Line]
  BY <1>3, <1>4, <1>5
<1>8. lines' \in Seq(Line) /\ Len(lines') = Len(items)
  BY <1>3, <1>7
<1>9. Reopened'
  BY <1>1, <1>3, <1>4, <1>6, <1>8 DEF Reopened, items
<1>10. Booked'
  BY <1>1, <1>2 DEF Booked
<1> QED
  BY <1>1, <1>2, <1>8, <1>9, <1>10 DEF AmountsInv, LinesTyped

LEMMA SendStep ==
  ASSUME AmountsInv, sendInvoice
  PROVE  AmountsInv'
<1>1. /\ mode = "closed" /\ invoice.status = "draft"
      /\ invoice' = [invoice EXCEPT !.status = "sent"]
      /\ UNCHANGED <<lines, mode, clean, shown, credit, patches>>
  BY DEF sendInvoice
<1>2. Booked /\ credit = NoInvoice
  BY <1>1 DEF AmountsInv, Credited
<1>3. invoice'.items = invoice.items /\ invoice'.totals = invoice.totals
  BY <1>1
<1>4. Booked'
  BY <1>1, <1>2, <1>3 DEF Booked
<1> QED
  BY <1>1, <1>2, <1>4 DEF AmountsInv, LinesTyped

LEMMA CreditStep ==
  ASSUME AmountsInv, creditInvoice
  PROVE  AmountsInv'
<1> DEFINE items == [i \in DOMAIN invoice.items |-> creditItem(invoice.items[i])]
<1>1. /\ invoice # NoInvoice /\ invoice.status = "sent"
      /\ credit' = [items |-> items, totals |-> sumTotals(items)]
      /\ invoice' = [invoice EXCEPT !.status = "credited"]
      /\ UNCHANGED <<lines, mode, clean, shown, patches>>
  BY DEF creditInvoice
<1>2. mode = "closed" /\ Booked
  BY <1>1 DEF AmountsInv
<1>3. /\ invoice'.items = invoice.items /\ invoice'.totals = invoice.totals
      /\ DOMAIN invoice = DOMAIN invoice'
  BY <1>1
<1>4. Booked'
  BY <1>1, <1>2, <1>3 DEF Booked
<1>5. invoice'.status = "credited"
  BY <1>1
<1>6. credit'.items = [i \in DOMAIN invoice'.items |-> creditItem(invoice'.items[i])]
      /\ credit'.totals = sumTotals(credit'.items)
  BY <1>1, <1>3
<1> HIDE DEF items
<1>7. Credited'
  BY <1>1, <1>2, <1>5, <1>6 DEF Credited
<1> QED
  BY <1>1, <1>2, <1>4, <1>7 DEF AmountsInv, LinesTyped

LEMMA AmountsStep ==
  ASSUME AmountsAssumption
  PROVE  AmountsInv /\ [AmountsNext]_amountVars => AmountsInv'
<1> SUFFICES ASSUME AmountsInv, [AmountsNext]_amountVars
             PROVE  AmountsInv'
  OBVIOUS
<1>1. CASE UNCHANGED amountVars
  BY <1>1 DEF amountVars, AmountsInv, LinesTyped, Booked, Credited, Reopened
<1> QED
  BY <1>1, AddLineStep, RemoveLineStep, UpdateLineStep, SaveStep, OpenEditStep, SendStep,
     CreditStep DEF AmountsNext

-----------------------------------------------------------------------------
(* What the invariant says of the amounts *)

LEMMA ComputedIsRounded ==
  ASSUME NEW it \in Item, SameAmounts(it, computeLine(it))
  PROVE  RoundedAs(it, it.excl, it.vat, it.incl)
<1>1. it.milli \in Nat /\ it.unitPriceOre \in Nat /\ it.vatRate \in Nat
  BY DEF Item
<1> DEFINE c == computeLine(it)
<1>2. RoundedAs(it, c.excl, c.vat, c.incl)
  BY <1>1, LineRounded
<1>3. it.excl = c.excl /\ it.vat = c.vat /\ it.incl = c.incl
  BY DEF SameAmounts
<1> HIDE DEF c
<1> QED
  BY <1>2, <1>3

LEMMA BookedRounded ==
  ASSUME AmountsInv
  PROVE  RoundedOnce
<1> SUFFICES ASSUME invoice # NoInvoice, NEW i \in DOMAIN invoice.items
             PROVE  RoundedAs(invoice.items[i], invoice.items[i].excl,
                              invoice.items[i].vat, invoice.items[i].incl)
  BY DEF RoundedOnce, RoundedAs
<1>1. Booked
  BY DEF AmountsInv
<1>2. /\ invoice.items[i] \in Item
      /\ SameAmounts(invoice.items[i], computeLine(invoice.items[i]))
  BY <1>1 DEF Booked
<1> QED
  BY <1>2, ComputedIsRounded

LEMMA ReopenedShows ==
  ASSUME AmountsInv
  PROVE  ReopenShowsBooked
<1> SUFFICES ASSUME mode = "edit", clean
             PROVE  totalsOre = invoice.totals /\ toItems(lines) = invoice.items
  BY DEF ReopenShowsBooked
<1> DEFINE items == invoice.items
<1>1. Booked /\ Reopened /\ lines \in Seq(Line)
  BY DEF AmountsInv, LinesTyped
<1>2. /\ items \in Seq(Item) /\ Len(lines) = Len(items) /\ Len(lines) \in Nat
      /\ \A i \in 1..Len(lines) : items[i] \in Item
  BY <1>1 DEF Booked, Reopened
<1>3. ASSUME NEW i \in 1..Len(lines)
      PROVE  /\ computeLine(items[i]) = computeLine(lines[i])
             /\ SameAmounts(items[i], computeLine(lines[i]))
  <2>1. /\ lines[i].milli = items[i].milli /\ lines[i].unitPriceOre = items[i].unitPriceOre
        /\ lines[i].vatRate = items[i].vatRate
    BY <1>1 DEF Reopened
  <2>2. computeLine(items[i]) = computeLine(lines[i])
    BY <2>1 DEF computeLine
  <2>3. SameAmounts(items[i], computeLine(items[i]))
    BY <1>1, <1>2 DEF Booked
  <2> QED
    BY <2>2, <2>3
<1>4. totalsOre = sumTotals(items)
  BY <1>1, <1>2, <1>3, ScreenTotal DEF LinesTyped
<1>5. /\ toItems(lines) \in Seq(Item) /\ Len(toItems(lines)) = Len(lines)
      /\ \A i \in 1..Len(lines) :
              /\ toItems(lines)[i].milli = lines[i].milli
              /\ toItems(lines)[i].unitPriceOre = lines[i].unitPriceOre
              /\ toItems(lines)[i].vatRate = lines[i].vatRate
              /\ SameAmounts(toItems(lines)[i], computeLine(lines[i]))
  BY <1>1, ItemsOfLines
<1>6. ASSUME NEW i \in 1..Len(lines)
      PROVE  toItems(lines)[i] = items[i]
  <2> DEFINE x == toItems(lines)[i]
             y == items[i]
  <2>1. x \in Item /\ y \in Item
    BY <1>2, <1>5
  <2>2. /\ x.milli = y.milli /\ x.unitPriceOre = y.unitPriceOre /\ x.vatRate = y.vatRate
        /\ x.excl = y.excl /\ x.vat = y.vat /\ x.incl = y.incl
    BY <1>1, <1>3, <1>5 DEF Reopened, SameAmounts
  <2> HIDE DEF x, y
  <2>3. x = y
    BY <2>1, <2>2 DEF Item
  <2> QED
    BY <2>3 DEF x, y
<1>7. toItems(lines) = items
  BY <1>2, <1>5, <1>6, SeqEqual
<1> QED
  BY <1>1, <1>4, <1>7 DEF Booked

LEMMA CreditMirrors ==
  ASSUME AmountsInv
  PROVE  CreditCancels
<1> SUFFICES ASSUME credit # NoInvoice
             PROVE  /\ plus(credit.totals, invoice.totals) = noTotals
                    /\ \A i \in DOMAIN invoice.items :
                         /\ plus(credit.items[i], invoice.items[i]) = noTotals
                         /\ credit.items[i].milli + invoice.items[i].milli = 0
  BY DEF CreditCancels
<1>1. Credited /\ Booked
  BY DEF AmountsInv, Credited
<1> DEFINE items == invoice.items
           cs == credit.items
<1>2. /\ items \in Seq(Item) /\ cs = [i \in DOMAIN items |-> creditItem(items[i])]
      /\ credit.totals = sumTotals(cs) /\ invoice.totals = sumTotals(items)
  BY <1>1 DEF Credited, Booked
<1> HIDE DEF items, cs
<1>3. /\ DOMAIN items = 1..Len(items)
      /\ \A i \in 1..Len(items) :
           /\ plus(cs[i], items[i]) = noTotals
           /\ cs[i].milli + items[i].milli = 0
      /\ plus(sumTotals(cs), sumTotals(items)) = noTotals
  BY <1>2, CreditedItems
<1> QED
  BY <1>2, <1>3 DEF items, cs

-----------------------------------------------------------------------------
\* Billing's amounts (domain/vat.ts) are each rounded once, those of the form in the
\* back office (lib/vat.ts, InvoiceFormPage.tsx) are the same, and a credit note
\* cancels its invoice, for any number of lines, quantities and prices.
THEOREM AmountsAgreeHolds ==
  ASSUME AmountsAssumption
  PROVE  AmountsSpec => []AmountsAgree
<1>1. AmountsInit => AmountsInv
  BY AmountsStart
<1>2. AmountsInv /\ [AmountsNext]_amountVars => AmountsInv'
  BY AmountsStep
<1>3. AmountsInv => AmountsAgree
  <2> SUFFICES ASSUME AmountsInv
               PROVE  AmountsAgree
    OBVIOUS
  <2>1. PreviewIsBooked
    BY DEF PreviewIsBooked, AmountsInv, Booked
  <2> QED
    BY <2>1, BookedRounded, ReopenedShows, CreditMirrors DEF AmountsAgree
<1> QED
  BY <1>1, <1>2, <1>3, PTL DEF AmountsSpec

-----------------------------------------------------------------------------
-----------------------------------------------------------------------------
(* Luhn sums *)

Digits == Seq(0..9)

IsLuhn(s, ds, n) == s = [i \in 0..n |-> IF i = 0 THEN 0 ELSE s[i - 1] + weighed(ds, i)]

LEMMA LuhnExists ==
  ASSUME NEW ds, NEW n \in Nat
  PROVE  \E s : IsLuhn(s, ds, n)
<1> DEFINE T == {m \in Nat : \E s : IsLuhn(s, ds, m)}
<1>1. 0 \in T
  <2> DEFINE a == [i \in {0} |-> 0]
  <2>1. IsLuhn(a, ds, 0)
    <3>1. 0..0 = {0}
      OBVIOUS
    <3> QED
      BY <3>1, Zenon DEF IsLuhn
  <2> QED
    BY <2>1
<1>2. ASSUME NEW m \in T
      PROVE  m + 1 \in T
  <2>1. m \in Nat /\ m + 1 \in Nat
    BY <1>2
  <2>2. PICK a : IsLuhn(a, ds, m)
    BY <1>2
  <2> DEFINE b == [i \in 0..(m + 1) |-> IF i = m + 1 THEN a[m] + weighed(ds, m + 1) ELSE a[i]]
  <2>3. a = [i \in 0..m |-> IF i = 0 THEN 0 ELSE a[i - 1] + weighed(ds, i)]
    BY <2>2 DEF IsLuhn
  <2>4. ASSUME NEW i \in 0..(m + 1)
        PROVE  b[i] = IF i = 0 THEN 0 ELSE b[i - 1] + weighed(ds, i)
    <3> HIDE DEF b
    <3>1. CASE i = m + 1
      <4>1. b[m] = a[m] /\ b[m + 1] = a[m] + weighed(ds, m + 1)
        BY <2>1 DEF b
      <4> QED
        BY <2>1, <3>1, <4>1
    <3>2. CASE i # m + 1 /\ i # 0
      <4>1. i \in 0..m /\ i - 1 \in 0..(m + 1) /\ i - 1 # m + 1
        BY <2>1, <3>2
      <4>2. b[i - 1] = a[i - 1] /\ b[i] = a[i]
        BY <4>1, <3>2 DEF b
      <4>3. a[i] = a[i - 1] + weighed(ds, i)
        BY <4>1, <2>3, <3>2
      <4> QED
        BY <3>2, <4>2, <4>3
    <3>3. CASE i = 0
      <4>1. i \in 0..m /\ i # m + 1
        BY <2>1, <3>3
      <4> QED
        BY <2>3, <3>3, <4>1 DEF b
    <3> QED
      BY <3>1, <3>2, <3>3
  <2>5. IsLuhn(b, ds, m + 1)
    <3>1. b = [i \in 0..(m + 1) |-> b[i]]
      OBVIOUS
    <3> HIDE DEF b
    <3> QED
      BY <2>4, <3>1, Zenon DEF IsLuhn
  <2> QED
    BY <2>1, <2>5
<1> HIDE DEF T
<1>3. T = Nat
  BY <1>1, <1>2, AllNat DEF T
<1> QED
  BY <1>3 DEF T

LEMMA LuhnIs ==
  ASSUME NEW ds \in Digits
  PROVE  \E s : /\ IsLuhn(s, ds, Len(ds))
                /\ luhnCheckDigit(ds) = (10 - (s[Len(ds)] % 10)) % 10
<1>1. Len(ds) \in Nat
  BY DEF Digits
<1> DEFINE a == CHOOSE s : IsLuhn(s, ds, Len(ds))
<1>2. IsLuhn(a, ds, Len(ds))
  BY <1>1, LuhnExists
<1>3. luhnCheckDigit(ds) = (10 - (a[Len(ds)] % 10)) % 10
  BY Zenon DEF luhnCheckDigit, IsLuhn
<1> HIDE DEF a
<1> QED
  BY <1>2, <1>3

LEMMA WeighedDigit ==
  ASSUME NEW ds \in Digits, NEW i \in 1..Len(ds)
  PROVE  ds[i] \in 0..9 /\ weighed(ds, i) \in 0..9
<1>1. ds[i] \in 0..9
  BY DEF Digits
<1> QED
  BY <1>1 DEF weighed, doubled

LEMMA LuhnIsInt ==
  ASSUME NEW ds \in Digits, NEW s, IsLuhn(s, ds, Len(ds))
  PROVE  \A m \in 0..Len(ds) : s[m] \in Int
<1> DEFINE T == {m \in Nat : m <= Len(ds) => s[m] \in Int}
<1>1. s = [i \in 0..Len(ds) |-> IF i = 0 THEN 0 ELSE s[i - 1] + weighed(ds, i)]
      /\ Len(ds) \in Nat
  BY DEF IsLuhn, Digits
<1>2. 0 \in T
  BY <1>1
<1>3. ASSUME NEW m \in T
      PROVE  m + 1 \in T
  <2> SUFFICES ASSUME m + 1 <= Len(ds)
               PROVE  s[m + 1] \in Int
    BY <1>3
  <2>1. m \in Nat /\ m + 1 \in 0..Len(ds) /\ m + 1 \in 1..Len(ds) /\ m + 1 # 0
        /\ (m + 1) - 1 = m
    BY <1>1, <1>3
  <2>2. s[m] \in Int
    BY <1>1, <1>3, <2>1
  <2>3. s[m + 1] = s[m] + weighed(ds, m + 1)
    BY <1>1, <2>1
  <2> QED
    BY <2>1, <2>2, <2>3, WeighedDigit
<1> HIDE DEF T
<1>4. T = Nat
  BY <1>2, <1>3, AllNat DEF T
<1>5. \A m \in Nat : m <= Len(ds) => s[m] \in Int
  BY <1>4, Zenon DEF T
<1> QED
  BY <1>1, <1>5

\* Two references that differ at most at k and the digit after it.
LEMMA SumsDiffer ==
  ASSUME NEW ds \in Digits, NEW es \in Digits, Len(es) = Len(ds), NEW k \in 1..Len(ds),
         \A i \in 1..Len(ds) : i # k /\ i # k + 1 => es[i] = ds[i],
         NEW s, NEW t, IsLuhn(s, ds, Len(ds)), IsLuhn(t, es, Len(ds))
  PROVE  t[Len(ds)] - s[Len(ds)]
           = (weighed(es, k) - weighed(ds, k))
             + (IF k < Len(ds) THEN weighed(es, k + 1) - weighed(ds, k + 1) ELSE 0)
<1> DEFINE n == Len(ds)
           D(i) == weighed(es, i) - weighed(ds, i)
           T == {m \in Nat : m <= n => t[m] - s[m] = (IF m >= k THEN D(k) ELSE 0)
                                                     + (IF m >= k + 1 THEN D(k + 1) ELSE 0)}
<1>1. /\ s = [i \in 0..n |-> IF i = 0 THEN 0 ELSE s[i - 1] + weighed(ds, i)]
      /\ t = [i \in 0..n |-> IF i = 0 THEN 0 ELSE t[i - 1] + weighed(es, i)]
      /\ n \in Nat /\ k \in 1..n
  <2>1. n \in Nat /\ k \in 1..n
    BY DEF Digits
  <2> QED
    BY <2>1, Zenon DEF IsLuhn
<1>2. \A m \in 0..n : s[m] \in Int /\ t[m] \in Int
  BY LuhnIsInt
<1>3. ASSUME NEW i \in 1..n
      PROVE  /\ D(i) \in Int /\ D(i) = weighed(es, i) - weighed(ds, i)
             /\ weighed(es, i) \in Int /\ weighed(ds, i) \in Int
             /\ i # k /\ i # k + 1 => D(i) = 0
  <2>1. weighed(es, i) \in 0..9 /\ weighed(ds, i) \in 0..9
    BY WeighedDigit
  <2>2. i # k /\ i # k + 1 => weighed(es, i) = weighed(ds, i)
    BY DEF weighed
  <2> QED
    BY <2>1, <2>2
<1> HIDE DEF n, D
<1>4. 0 \in T
  <2>1. s[0] = 0 /\ t[0] = 0
    BY <1>1
  <2> QED
    BY <1>1, <2>1
<1>5. ASSUME NEW m \in T
      PROVE  m + 1 \in T
  <2> SUFFICES ASSUME m + 1 <= n
               PROVE  t[m + 1] - s[m + 1] = (IF m + 1 >= k THEN D(k) ELSE 0)
                                            + (IF m + 1 >= k + 1 THEN D(k + 1) ELSE 0)
    BY <1>5
  <2>1. m \in Nat /\ m \in 0..n /\ m + 1 \in 0..n /\ m + 1 \in 1..n /\ m + 1 # 0
        /\ (m + 1) - 1 = m
    BY <1>1, <1>5
  <2>2. t[m] - s[m] = (IF m >= k THEN D(k) ELSE 0) + (IF m >= k + 1 THEN D(k + 1) ELSE 0)
    BY <1>1, <1>5, <2>1
  <2>3. s[m + 1] = s[m] + weighed(ds, m + 1) /\ t[m + 1] = t[m] + weighed(es, m + 1)
        /\ s[m] \in Int /\ t[m] \in Int
    BY <1>1, <1>2, <2>1
  <2>4. t[m + 1] - s[m + 1] = (t[m] - s[m]) + D(m + 1)
    BY <1>3, <2>1, <2>3
  <2>5. /\ D(k) \in Int /\ D(m + 1) \in Int
        /\ m + 1 # k /\ m + 1 # k + 1 => D(m + 1) = 0
    BY <1>1, <1>3, <2>1
  <2>6. CASE m + 1 < k
    BY <1>1, <2>1, <2>2, <2>4, <2>5, <2>6
  <2>7. CASE m + 1 = k
    BY <1>1, <2>1, <2>2, <2>4, <2>5, <2>7
  <2>8. CASE m + 1 = k + 1
    BY <1>1, <2>1, <2>2, <2>4, <2>5, <2>8
  <2>9. CASE m + 1 > k + 1
    <3>1. k + 1 \in 1..n
      BY <1>1, <2>1, <2>9
    <3>2. D(k + 1) \in Int
      BY <1>3, <3>1
    <3> QED
      BY <1>1, <2>1, <2>2, <2>4, <2>5, <2>9, <3>2
  <2> QED
    BY <1>1, <2>1, <2>6, <2>7, <2>8, <2>9
<1>6. T = Nat
  <2> HIDE DEF T
  <2> QED
    BY <1>4, <1>5, AllNat DEF T
<1>7. t[n] - s[n] = (IF n >= k THEN D(k) ELSE 0) + (IF n >= k + 1 THEN D(k + 1) ELSE 0)
  <2>1. \A m \in Nat : m <= n => t[m] - s[m] = (IF m >= k THEN D(k) ELSE 0)
                                             + (IF m >= k + 1 THEN D(k + 1) ELSE 0)
    <3> HIDE DEF T
    <3> QED
      BY <1>6, Zenon DEF T
  <2> QED
    BY <1>1, <2>1
<1>8. t[n] - s[n] = D(k) + (IF k < n THEN D(k + 1) ELSE 0)
  BY <1>1, <1>7
<1> QED
  BY <1>8, Zenon DEF n, D

\* A sum that changes by less than ten changes the check digit.
LEMMA TensSeen ==
  ASSUME NEW x \in Int, NEW y \in Int, NEW d \in -9..9, d # 0, y - x = d
  PROVE  (10 - (x % 10)) % 10 # (10 - (y % 10)) % 10
<1>1. x % 10 \in 0..9 /\ y % 10 \in 0..9
  OBVIOUS
<1>2. x % 10 # y % 10
  <2>1. x = 10 * (x \div 10) + (x % 10) /\ y = 10 * (y \div 10) + (y % 10)
        /\ x \div 10 \in Int /\ y \div 10 \in Int
    OBVIOUS
  <2> QED
    BY <2>1
<1> QED
  BY <1>1, <1>2

LEMMA CheckDigitChanges ==
  ASSUME NEW ds \in Digits, NEW es \in Digits, Len(es) = Len(ds), NEW k \in 1..Len(ds),
         \A i \in 1..Len(ds) : i # k /\ i # k + 1 => es[i] = ds[i],
         NEW d \in -9..9, d # 0,
         d = (weighed(es, k) - weighed(ds, k))
               + (IF k < Len(ds) THEN weighed(es, k + 1) - weighed(ds, k + 1) ELSE 0)
  PROVE  luhnCheckDigit(es) # luhnCheckDigit(ds)
<1>1. PICK s : /\ IsLuhn(s, ds, Len(ds))
               /\ luhnCheckDigit(ds) = (10 - (s[Len(ds)] % 10)) % 10
  BY LuhnIs
<1>2. PICK t : /\ IsLuhn(t, es, Len(ds))
               /\ luhnCheckDigit(es) = (10 - (t[Len(ds)] % 10)) % 10
  BY LuhnIs
<1>3. Len(ds) \in 0..Len(ds) /\ Len(ds) \in Nat
  BY DEF Digits
<1>4. s[Len(ds)] \in Int /\ t[Len(ds)] \in Int
  BY <1>1, <1>2, <1>3, LuhnIsInt
<1>5. t[Len(ds)] - s[Len(ds)] = d
  BY <1>1, <1>2, SumsDiffer
<1> QED
  BY <1>1, <1>2, <1>4, <1>5, TensSeen

LEMMA DoubledDistinct ==
  ASSUME NEW a \in 0..9, NEW b \in 0..9, a # b
  PROVE  /\ doubled(b) - doubled(a) \in -9..9 /\ doubled(b) - doubled(a) # 0
         /\ {a, b} # {0, 9} => /\ (doubled(b) - b) - (doubled(a) - a) \in -9..9
                               /\ (doubled(b) - b) - (doubled(a) - a) # 0
<1>1. doubled(b) - doubled(a) \in -9..9 /\ doubled(b) - doubled(a) # 0
  BY DEF doubled
<1>2. (doubled(b) - b) - (doubled(a) - a) \in -9..9
  BY DEF doubled
<1>3. (doubled(b) - b) - (doubled(a) - a) = 0 => (a = 0 /\ b = 9) \/ (a = 9 /\ b = 0)
  BY DEF doubled
<1>4. {0, 9} = {9, 0}
  OBVIOUS
<1> QED
  BY <1>1, <1>2, <1>3, <1>4

LEMMA DigitsApart ==
  ASSUME NEW a \in 0..9, NEW b \in 0..9, a # b
  PROVE  b - a \in -9..9 /\ b - a # 0
OBVIOUS

LEMMA TakenAway ==
  ASSUME NEW x \in Int, NEW y \in Int, y - x \in -9..9, y - x # 0
  PROVE  x - y \in -9..9 /\ x - y # 0
OBVIOUS

\* One digit replaced by another changes the check digit.
LEMMA SubstitutionSeen ==
  ASSUME NEW ds \in Digits, NEW k \in 1..Len(ds), NEW d \in 0..9, d # ds[k]
  PROVE  /\ [ds EXCEPT ![k] = d] \in Digits
         /\ Len([ds EXCEPT ![k] = d]) = Len(ds)
         /\ luhnCheckDigit([ds EXCEPT ![k] = d]) # luhnCheckDigit(ds)
<1> DEFINE es == [ds EXCEPT ![k] = d]
<1>1. /\ es \in Digits /\ Len(es) = Len(ds) /\ es[k] = d /\ ds[k] \in 0..9
      /\ \A i \in 1..Len(ds) : i # k => es[i] = ds[i]
  BY DEF Digits
<1>2. k < Len(ds) => weighed(es, k + 1) = weighed(ds, k + 1)
                     /\ weighed(ds, k + 1) \in 0..9
  <2> SUFFICES ASSUME k < Len(ds)
               PROVE  weighed(es, k + 1) = weighed(ds, k + 1) /\ weighed(ds, k + 1) \in 0..9
    OBVIOUS
  <2>1. k + 1 \in 1..Len(ds)
    BY DEF Digits
  <2>2. es[k + 1] = ds[k + 1]
    BY <1>1, <2>1
  <2> HIDE DEF es
  <2> QED
    BY <1>1, <2>1, <2>2, WeighedDigit DEF weighed
<1>3. /\ weighed(es, k) - weighed(ds, k) \in -9..9
      /\ weighed(es, k) - weighed(ds, k) # 0
  <2> HIDE DEF es
  <2>1. doubled(d) - doubled(ds[k]) \in -9..9 /\ doubled(d) - doubled(ds[k]) # 0
    BY <1>1, DoubledDistinct
  <2>2. /\ weighed(es, k) = IF (Len(ds) - k) % 2 = 0 THEN doubled(d) ELSE d
        /\ weighed(ds, k) = IF (Len(ds) - k) % 2 = 0 THEN doubled(ds[k]) ELSE ds[k]
    BY <1>1 DEF weighed
  <2>3. d - ds[k] \in -9..9 /\ d - ds[k] # 0
    BY <1>1, DigitsApart
  <2>4. CASE (Len(ds) - k) % 2 = 0
    BY <2>1, <2>2, <2>4
  <2>5. CASE (Len(ds) - k) % 2 # 0
    BY <2>2, <2>3, <2>5
  <2> QED
    BY <2>4, <2>5
<1> HIDE DEF es
<1>4. luhnCheckDigit(es) # luhnCheckDigit(ds)
  <2> DEFINE x == weighed(es, k) - weighed(ds, k)
  <2>1. x = x + (IF k < Len(ds) THEN weighed(es, k + 1) - weighed(ds, k + 1) ELSE 0)
    <3> HIDE DEF x
    <3>1. x \in Int
      BY <1>3 DEF x
    <3>2. CASE k < Len(ds)
      BY <1>2, <3>1, <3>2
    <3>3. CASE ~(k < Len(ds))
      BY <3>1, <3>3
    <3> QED
      BY <3>2, <3>3
  <2>2. \A i \in 1..Len(ds) : i # k /\ i # k + 1 => es[i] = ds[i]
    BY <1>1
  <2> QED
    BY <1>1, <1>3, <2>1, <2>2, CheckDigitChanges
<1> QED
  BY <1>1, <1>4 DEF es

\* So do two neighbours that change places, unless they are 0 and 9.
LEMMA TranspositionSeen ==
  ASSUME NEW ds \in Digits, NEW k \in 1..(Len(ds) - 1),
         ds[k] # ds[k + 1], {ds[k], ds[k + 1]} # {0, 9},
         NEW es, es = [ds EXCEPT ![k] = ds[k + 1], ![k + 1] = ds[k]]
  PROVE  /\ es \in Digits /\ Len(es) = Len(ds)
         /\ luhnCheckDigit(es) # luhnCheckDigit(ds)
<1>1. /\ Len(ds) \in Nat /\ k \in 1..Len(ds) /\ k + 1 \in 1..Len(ds) /\ k < Len(ds)
      /\ ds[k] \in 0..9 /\ ds[k + 1] \in 0..9
  BY DEF Digits
<1>2. /\ es \in Digits /\ Len(es) = Len(ds) /\ es[k] = ds[k + 1] /\ es[k + 1] = ds[k]
      /\ \A i \in 1..Len(ds) : i # k /\ i # k + 1 => es[i] = ds[i]
  BY <1>1 DEF Digits
<1> DEFINE a == ds[k]
           b == ds[k + 1]
           e == (weighed(es, k) - weighed(ds, k)) + (weighed(es, k + 1) - weighed(ds, k + 1))
<1>3. /\ (doubled(b) - b) - (doubled(a) - a) \in -9..9
      /\ (doubled(b) - b) - (doubled(a) - a) # 0
      /\ doubled(a) \in Int /\ doubled(b) \in Int /\ a \in Int /\ b \in Int
  <2>1. doubled(a) \in Int /\ doubled(b) \in Int
    BY <1>1 DEF doubled
  <2>2. a \in 0..9 /\ b \in 0..9 /\ a # b /\ {a, b} # {0, 9}
    BY <1>1
  <2> HIDE DEF a, b
  <2>3. /\ (doubled(b) - b) - (doubled(a) - a) \in -9..9
        /\ (doubled(b) - b) - (doubled(a) - a) # 0
    BY <2>2, DoubledDistinct
  <2> QED
    BY <2>1, <2>2, <2>3
<1>4. e = (doubled(b) - b) - (doubled(a) - a) \/ e = (doubled(a) - a) - (doubled(b) - b)
  <2>1. /\ weighed(es, k) = IF (Len(ds) - k) % 2 = 0 THEN doubled(b) ELSE b
        /\ weighed(ds, k) = IF (Len(ds) - k) % 2 = 0 THEN doubled(a) ELSE a
        /\ weighed(es, k + 1) = IF (Len(ds) - (k + 1)) % 2 = 0 THEN doubled(a) ELSE a
        /\ weighed(ds, k + 1) = IF (Len(ds) - (k + 1)) % 2 = 0 THEN doubled(b) ELSE b
    BY <1>2 DEF weighed
  <2>2. (Len(ds) - (k + 1)) % 2 = 0 <=> (Len(ds) - k) % 2 # 0
    BY <1>1
  <2> HIDE DEF a, b
  <2> QED
    BY <1>3, <2>1, <2>2
<1>5. e \in -9..9 /\ e # 0
  <2> DEFINE u == doubled(a) - a
             v == doubled(b) - b
  <2>1. v - u \in -9..9 /\ v - u # 0
    BY <1>3
  <2>2. u \in Int /\ v \in Int
    BY <1>3
  <2>3. e = v - u \/ e = u - v
    BY <1>4
  <2> HIDE DEF e, u, v
  <2>4. u - v \in -9..9 /\ u - v # 0
    BY <2>1, <2>2, TakenAway
  <2> QED
    BY <2>1, <2>3, <2>4
<1>6. luhnCheckDigit(es) # luhnCheckDigit(ds)
  <2>1. e = (weighed(es, k) - weighed(ds, k))
              + (IF k < Len(ds) THEN weighed(es, k + 1) - weighed(ds, k + 1) ELSE 0)
    BY <1>1
  <2>2. \A i \in 1..Len(ds) : i # k /\ i # k + 1 => es[i] = ds[i]
    BY <1>2
  <2> HIDE DEF e
  <2> QED
    BY <1>1, <1>2, <1>5, <2>1, <2>2, CheckDigitChanges
<1> QED
  BY <1>2, <1>6

-----------------------------------------------------------------------------
(* The digits of a number *)

IsDigits(a, n) ==
  a = [m \in 0..n |-> IF m < 10 THEN <<m>> ELSE Append(a[m \div 10], m % 10)]

LEMMA TenthIsLess ==
  ASSUME NEW m \in Nat
  PROVE  /\ m \div 10 \in Nat /\ m % 10 \in 0..9 /\ m = 10 * (m \div 10) + (m % 10)
         /\ m \div 10 <= m
         /\ m >= 10 => m \div 10 < m
OBVIOUS

LEMMA DigitsExist ==
  ASSUME NEW n \in Nat
  PROVE  \E a : IsDigits(a, n)
<1> DEFINE T == {m \in Nat : \E a : IsDigits(a, m)}
<1>1. 0 \in T
  <2> DEFINE a == [i \in {0} |-> <<i>>]
  <2>1. IsDigits(a, 0)
    <3>1. 0..0 = {0}
      OBVIOUS
    <3>2. \A m \in {0} : <<m>> = IF m < 10 THEN <<m>> ELSE Append(a[m \div 10], m % 10)
      OBVIOUS
    <3> QED
      BY <3>1, <3>2, Zenon DEF IsDigits
  <2> QED
    BY <2>1
<1>2. ASSUME NEW m \in T
      PROVE  m + 1 \in T
  <2>1. m \in Nat /\ m + 1 \in Nat
    BY <1>2
  <2>2. PICK a : IsDigits(a, m)
    BY <1>2
  <2> DEFINE last == IF m + 1 < 10 THEN <<m + 1>> ELSE Append(a[(m + 1) \div 10], (m + 1) % 10)
             b == [i \in 0..(m + 1) |-> IF i = m + 1 THEN last ELSE a[i]]
  <2>3. a = [i \in 0..m |-> IF i < 10 THEN <<i>> ELSE Append(a[i \div 10], i % 10)]
    BY <2>2, Zenon DEF IsDigits
  <2>4. ASSUME NEW i \in 0..(m + 1)
        PROVE  b[i] = IF i < 10 THEN <<i>> ELSE Append(b[i \div 10], i % 10)
    <3>1. i \in Nat /\ (i >= 10 => i \div 10 \in 0..m /\ i \div 10 \in 0..(m + 1)
                                   /\ i \div 10 # m + 1)
      BY <2>1, TenthIsLess
    <3>2. i >= 10 => b[i \div 10] = a[i \div 10]
      <4> HIDE DEF last
      <4> QED
        BY <3>1
    <3>3. CASE i = m + 1
      <4>1. b[i] = last
        BY <3>3
      <4>2. last = IF i < 10 THEN <<i>> ELSE Append(a[i \div 10], i % 10)
        BY <3>3
      <4> HIDE DEF b, last
      <4> QED
        BY <3>1, <3>2, <4>1, <4>2
    <3>4. CASE i # m + 1
      <4>1. i \in 0..m
        BY <2>1, <3>4
      <4>2. b[i] = a[i]
        BY <3>4
      <4>3. a[i] = IF i < 10 THEN <<i>> ELSE Append(a[i \div 10], i % 10)
        BY <2>3, <4>1
      <4> HIDE DEF b
      <4> QED
        BY <3>1, <3>2, <4>2, <4>3
    <3> QED
      BY <3>3, <3>4
  <2>5. IsDigits(b, m + 1)
    <3>1. b = [i \in 0..(m + 1) |-> b[i]]
      OBVIOUS
    <3> HIDE DEF b
    <3> QED
      BY <2>4, <3>1, Zenon DEF IsDigits
  <2> QED
    BY <2>1, <2>5
<1> HIDE DEF T
<1>3. T = Nat
  BY <1>1, <1>2, AllNat DEF T
<1> QED
  BY <1>3 DEF T

LEMMA DigitsDetermined ==
  ASSUME NEW n \in Nat, NEW k \in Nat, NEW a, NEW b, IsDigits(a, n), IsDigits(b, k),
         NEW m \in 0..n, m \in 0..k
  PROVE  a[m] = b[m]
<1> DEFINE S == {i \in Nat : i <= n /\ i <= k /\ a[i] # b[i]}
<1>1. SUFFICES ASSUME S # {}
               PROVE  FALSE
  BY <1>1
<1>2. S \in SUBSET Nat
  OBVIOUS
<1>3. PICK i \in S : \A y \in S : i <= y
  <2> HIDE DEF S
  <2> QED
    BY <1>1, <1>2, LeastNat
<1>4. i \in Nat /\ i \in 0..n /\ i \in 0..k /\ a[i] # b[i]
  OBVIOUS
<1>5. /\ a[i] = IF i < 10 THEN <<i>> ELSE Append(a[i \div 10], i % 10)
      /\ b[i] = IF i < 10 THEN <<i>> ELSE Append(b[i \div 10], i % 10)
  <2>1. /\ a = [j \in 0..n |-> IF j < 10 THEN <<j>> ELSE Append(a[j \div 10], j % 10)]
        /\ b = [j \in 0..k |-> IF j < 10 THEN <<j>> ELSE Append(b[j \div 10], j % 10)]
    BY Zenon DEF IsDigits
  <2> QED
    BY <1>4, <2>1
<1>6. i >= 10 => a[i \div 10] = b[i \div 10]
  <2> SUFFICES ASSUME i >= 10, a[i \div 10] # b[i \div 10]
               PROVE  FALSE
    OBVIOUS
  <2>1. i \div 10 \in Nat /\ i \div 10 < i /\ i \div 10 <= n /\ i \div 10 <= k
    BY <1>4, TenthIsLess
  <2>2. i \div 10 \in S
    BY <2>1
  <2> QED
    BY <1>3, <1>4, <2>1, <2>2
<1> QED
  BY <1>4, <1>5, <1>6

LEMMA DigitsEquation ==
  ASSUME NEW n \in Nat
  PROVE  digitsOf[n] = IF n < 10 THEN <<n>> ELSE Append(digitsOf[n \div 10], n % 10)
<1> DEFINE G(k) == CHOOSE a : IsDigits(a, k)
           F == [k \in Nat |-> G(k)[k]]
<1>1. ASSUME NEW k \in Nat
      PROVE  IsDigits(G(k), k)
  BY <1>1, DigitsExist
<1>2. ASSUME NEW k \in Nat
      PROVE  F[k] = IF k < 10 THEN <<k>> ELSE Append(F[k \div 10], k % 10)
  <2>1. IsDigits(G(k), k)
    BY <1>1
  <2> HIDE DEF G
  <2>2. F[k] = G(k)[k]
    OBVIOUS
  <2>3. G(k)[k] = IF k < 10 THEN <<k>> ELSE Append(G(k)[k \div 10], k % 10)
    <3> DEFINE a == G(k)
    <3>1. a = [j \in 0..k |-> IF j < 10 THEN <<j>> ELSE Append(a[j \div 10], j % 10)]
      BY <2>1, Zenon DEF IsDigits
    <3> HIDE DEF a
    <3>2. k \in 0..k
      OBVIOUS
    <3>3. a[k] = IF k < 10 THEN <<k>> ELSE Append(a[k \div 10], k % 10)
      BY <3>1, <3>2, Zenon
    <3> QED
      BY <3>3, Zenon DEF a
  <2>4. k >= 10 => F[k \div 10] = G(k)[k \div 10]
    <3> SUFFICES ASSUME k >= 10
                 PROVE  F[k \div 10] = G(k)[k \div 10]
      OBVIOUS
    <3>1. k \div 10 \in Nat /\ k \div 10 \in 0..(k \div 10) /\ k \div 10 \in 0..k
      BY TenthIsLess
    <3>2. F[k \div 10] = G(k \div 10)[k \div 10]
      BY <3>1
    <3>3. IsDigits(G(k \div 10), k \div 10)
      BY <1>1, <3>1
    <3>4. G(k \div 10)[k \div 10] = G(k)[k \div 10]
      BY <2>1, <3>1, <3>3, DigitsDetermined
    <3> QED
      BY <3>2, <3>4
  <2> HIDE DEF F
  <2> QED
    BY <2>2, <2>3, <2>4
<1>3. F = [k \in Nat |-> IF k < 10 THEN <<k>> ELSE Append(F[k \div 10], k % 10)]
  <2>1. F = [k \in Nat |-> F[k]]
    OBVIOUS
  <2> HIDE DEF F
  <2> QED
    BY <1>2, <2>1, Zenon
<1> HIDE DEF F
<1>4. digitsOf = [k \in Nat |-> IF k < 10 THEN <<k>> ELSE Append(digitsOf[k \div 10], k % 10)]
  BY <1>3, Zenon DEF digitsOf
<1> QED
  BY <1>4

LEMMA OneDigit ==
  ASSUME NEW n \in Nat, n < 10
  PROVE  digitsOf[n] = <<n>>
BY DigitsEquation, Zenon

LEMMA MoreDigits ==
  ASSUME NEW n \in Nat, n >= 10
  PROVE  digitsOf[n] = Append(digitsOf[n \div 10], n % 10)
<1>1. ~(n < 10)
  OBVIOUS
<1> QED
  BY <1>1, DigitsEquation, Zenon

LEMMA AppendedDigits ==
  ASSUME NEW s \in Digits, NEW t \in Digits, NEW d \in 0..9, NEW e \in 0..9
  PROVE  /\ Append(s, d) \in Digits /\ Len(Append(s, d)) = Len(s) + 1
         /\ Append(s, d)[Len(s) + 1] = d
         /\ \A i \in 1..Len(s) : Append(s, d)[i] = s[i]
         /\ Append(s, d) = Append(t, e) => s = t /\ d = e
<1>1. /\ Append(s, d) \in Digits /\ Len(Append(s, d)) = Len(s) + 1
      /\ Append(s, d)[Len(s) + 1] = d
      /\ \A i \in 1..Len(s) : Append(s, d)[i] = s[i]
  BY DEF Digits
<1>2. Len(Append(t, e)) = Len(t) + 1 /\ Append(t, e)[Len(t) + 1] = e
      /\ \A i \in 1..Len(t) : Append(t, e)[i] = t[i]
  BY DEF Digits
<1>3. ASSUME Append(s, d) = Append(t, e)
      PROVE  s = t /\ d = e
  <2>1. Len(s) \in Nat /\ Len(t) \in Nat
    BY DEF Digits
  <2>2. Len(s) = Len(t)
    BY <1>1, <1>2, <1>3, <2>1
  <2>3. d = e /\ \A i \in 1..Len(s) : s[i] = t[i]
    BY <1>1, <1>2, <1>3, <2>2
  <2>4. s \in Seq(0..9) /\ t \in Seq(0..9)
    BY DEF Digits
  <2>5. s = t
    BY <2>2, <2>3, <2>4, SeqEqual
  <2> QED
    BY <2>3, <2>5
<1> QED
  BY <1>1, <1>3

LEMMA DigitsShape ==
  ASSUME NEW n \in Nat
  PROVE  digitsOf[n] \in Digits /\ Len(digitsOf[n]) >= 1
<1> DEFINE S == {k \in Nat : ~(digitsOf[k] \in Digits /\ Len(digitsOf[k]) >= 1)}
<1>1. SUFFICES ASSUME S # {}
               PROVE  FALSE
  BY <1>1
<1>2. S \in SUBSET Nat
  OBVIOUS
<1>3. PICK k \in S : \A y \in S : k <= y
  <2> HIDE DEF S
  <2> QED
    BY <1>1, <1>2, LeastNat
<1>4. k \in Nat /\ ~(digitsOf[k] \in Digits /\ Len(digitsOf[k]) >= 1)
  OBVIOUS
<1>5. CASE k < 10
  <2>1. digitsOf[k] = <<k>>
    BY <1>4, <1>5, OneDigit
  <2>2. <<k>> \in Digits /\ Len(<<k>>) = 1
    BY <1>4, <1>5 DEF Digits
  <2> QED
    BY <1>4, <2>1, <2>2
<1>6. CASE k >= 10
  <2>1. k \div 10 \in Nat /\ k \div 10 < k /\ k % 10 \in 0..9
    BY <1>4, <1>6, TenthIsLess
  <2>2. digitsOf[k \div 10] \in Digits /\ Len(digitsOf[k \div 10]) >= 1
    <3>1. k \div 10 \notin S
      BY <1>3, <1>4, <2>1
    <3> QED
      BY <2>1, <3>1
  <2>3. digitsOf[k] = Append(digitsOf[k \div 10], k % 10)
    BY <1>4, <1>6, MoreDigits
  <2> DEFINE b == digitsOf[k \div 10]
  <2>4. digitsOf[k] \in Digits /\ Len(digitsOf[k]) = Len(b) + 1 /\ Len(b) \in Nat
    BY <2>1, <2>2, <2>3, AppendedDigits DEF Digits
  <2> QED
    BY <1>4, <2>2, <2>4
<1> QED
  BY <1>4, <1>5, <1>6

\* No two numbers have the same digits.
LEMMA DigitsInjective ==
  ASSUME NEW n \in Nat, NEW m \in Nat, digitsOf[n] = digitsOf[m]
  PROVE  n = m
<1> DEFINE S == {k \in Nat : \E j \in Nat : digitsOf[k] = digitsOf[j] /\ k # j}
<1>1. SUFFICES ASSUME S # {}
               PROVE  FALSE
  BY <1>1
<1>2. S \in SUBSET Nat
  OBVIOUS
<1>3. PICK k \in S : \A y \in S : k <= y
  <2> HIDE DEF S
  <2> QED
    BY <1>1, <1>2, LeastNat
<1>4. PICK j \in Nat : digitsOf[k] = digitsOf[j] /\ k # j
  OBVIOUS
<1>5. k \in Nat
  OBVIOUS
<1>6. ASSUME NEW i \in Nat, i < 10
      PROVE  digitsOf[i] = <<i>> /\ Len(digitsOf[i]) = 1
  <2>1. digitsOf[i] = <<i>>
    BY <1>6, OneDigit
  <2> QED
    BY <2>1
<1>7. ASSUME NEW i \in Nat, i >= 10
      PROVE  /\ i \div 10 \in Nat /\ i \div 10 < i /\ i % 10 \in 0..9
             /\ digitsOf[i \div 10] \in Digits
             /\ digitsOf[i] = Append(digitsOf[i \div 10], i % 10)
             /\ Len(digitsOf[i]) # 1
  <2>1. i \div 10 \in Nat /\ i \div 10 < i /\ i % 10 \in 0..9
    BY <1>7, TenthIsLess
  <2>2. digitsOf[i \div 10] \in Digits /\ Len(digitsOf[i \div 10]) >= 1
    BY <2>1, DigitsShape
  <2>3. digitsOf[i] = Append(digitsOf[i \div 10], i % 10)
    BY <1>7, MoreDigits
  <2>4. Len(digitsOf[i]) = Len(digitsOf[i \div 10]) + 1 /\ Len(digitsOf[i \div 10]) \in Nat
    BY <2>1, <2>2, <2>3, AppendedDigits DEF Digits
  <2> QED
    BY <2>1, <2>2, <2>3, <2>4
<1>8. CASE k < 10 /\ j < 10
  <2>1. <<k>> = <<j>>
    BY <1>4, <1>5, <1>6, <1>8
  <2> QED
    BY <1>4, <2>1
<1>9. CASE k >= 10 /\ j >= 10
  <2>1. digitsOf[k \div 10] = digitsOf[j \div 10] /\ k % 10 = j % 10
    <3>1. /\ k % 10 \in 0..9 /\ digitsOf[k \div 10] \in Digits
          /\ digitsOf[k] = Append(digitsOf[k \div 10], k % 10)
      BY <1>5, <1>7, <1>9
    <3>2. /\ j % 10 \in 0..9 /\ digitsOf[j \div 10] \in Digits
          /\ digitsOf[j] = Append(digitsOf[j \div 10], j % 10)
      BY <1>4, <1>7, <1>9
    <3>3. Append(digitsOf[k \div 10], k % 10) = Append(digitsOf[j \div 10], j % 10)
      BY <1>4, <3>1, <3>2, Zenon
    <3>4. /\ digitsOf[k \div 10] = digitsOf[j \div 10]
          /\ k % 10 = j % 10
      <4> DEFINE s == digitsOf[k \div 10]
                 t == digitsOf[j \div 10]
                 d == k % 10
                 e == j % 10
      <4>1. s \in Digits /\ t \in Digits /\ d \in 0..9 /\ e \in 0..9
        BY <3>1, <3>2
      <4>2. Append(s, d) = Append(t, e)
        BY <3>3, Zenon
      <4> HIDE DEF s, t, d, e
      <4>3. s = t /\ d = e
        BY <4>1, <4>2, AppendedDigits
      <4> QED
        BY <4>3, Zenon DEF s, t, d, e
    <3> QED
      BY <3>4
  <2>2. k \div 10 \in Nat /\ j \div 10 \in Nat /\ k \div 10 < k
    BY <1>4, <1>5, <1>7, <1>9
  <2>3. k \div 10 \notin S
    BY <1>3, <1>5, <2>2
  <2>4. k \div 10 = j \div 10
    BY <2>1, <2>2, <2>3
  <2>5. k = 10 * (k \div 10) + (k % 10) /\ j = 10 * (j \div 10) + (j % 10)
    BY <1>4, <1>5, TenthIsLess
  <2> HIDE DEF S
  <2> QED
    BY <1>4, <2>1, <2>4, <2>5
<1>10. CASE k < 10 /\ j >= 10
  BY <1>4, <1>5, <1>6, <1>7, <1>10
<1>11. CASE k >= 10 /\ j < 10
  BY <1>4, <1>5, <1>6, <1>7, <1>11
<1> QED
  BY <1>4, <1>5, <1>8, <1>9, <1>10, <1>11

-----------------------------------------------------------------------------
(* References *)

LEMMA LuhnDigit ==
  ASSUME NEW ds \in Digits
  PROVE  luhnCheckDigit(ds) \in 0..9
<1>1. PICK s : /\ IsLuhn(s, ds, Len(ds))
               /\ luhnCheckDigit(ds) = (10 - (s[Len(ds)] % 10)) % 10
  BY LuhnIs
<1>2. s[Len(ds)] \in Int
  <2>1. Len(ds) \in 0..Len(ds)
    BY DEF Digits
  <2> QED
    BY <1>1, <2>1, LuhnIsInt
<1> DEFINE x == s[Len(ds)]
<1> HIDE DEF x
<1>3. x \in Int
  BY <1>2 DEF x
<1>4. (10 - (x % 10)) % 10 \in 0..9
  BY <1>3
<1> QED
  BY <1>1, <1>4 DEF x

LEMMA BodyOfAppend ==
  ASSUME NEW ds \in Digits, NEW d \in 0..9
  PROVE  SubSeq(Append(ds, d), 1, Len(Append(ds, d)) - 1) = ds
<1> DEFINE a == Append(ds, d)
           b == SubSeq(a, 1, Len(a) - 1)
<1>1. /\ a \in Digits /\ Len(a) = Len(ds) + 1 /\ Len(ds) \in Nat
      /\ \A i \in 1..Len(ds) : a[i] = ds[i] /\ a[i] \in 0..9
  BY AppendedDigits DEF Digits
<1> HIDE DEF a
<1>2. Len(a) - 1 = Len(ds)
  BY <1>1
<1>3. b = SubSeq(a, 1, Len(ds))
  BY <1>2
<1> HIDE DEF b
<1>4. b \in Seq(0..9) /\ Len(b) = Len(ds) /\ \A i \in 1..Len(ds) : b[i] = ds[i]
  BY <1>1, <1>3, SubSeqProperties
<1>5. b = ds
  BY <1>4, SeqEqual DEF Digits
<1> QED
  BY <1>5 DEF a, b

\* The reference of an invoice number passes the check of payments.
LEMMA DerivedIsValid ==
  ASSUME NEW n \in Nat
  PROVE  deriveOcr(n) \in Digits /\ isValidOcr(deriveOcr(n))
<1> DEFINE base == digitsOf[n]
           l == (Len(base) + 2) % 10
           b == Append(base, l)
           c == luhnCheckDigit(b)
           r == Append(b, c)
<1>1. base \in Digits /\ Len(base) >= 1 /\ Len(base) \in Nat
  BY DigitsShape DEF Digits
<1>2. r = deriveOcr(n)
  BY DEF deriveOcr
<1> HIDE DEF base
<1>3. l \in 0..9
  BY <1>1
<1> HIDE DEF l
<1>4. b \in Digits /\ Len(b) = Len(base) + 1 /\ b[Len(base) + 1] = l
  BY <1>1, <1>3, AppendedDigits
<1> HIDE DEF b
<1>5. c \in 0..9
  BY <1>4, LuhnDigit
<1>6. SubSeq(r, 1, Len(r) - 1) = b
  BY <1>4, <1>5, BodyOfAppend
<1> HIDE DEF c
<1>7. /\ r \in Digits /\ Len(r) = Len(b) + 1 /\ r[Len(b) + 1] = c
      /\ r[Len(base) + 1] = l
  <2>1. Len(base) + 1 \in 1..Len(b)
    BY <1>1, <1>4
  <2> QED
    BY <1>4, <1>5, <2>1, AppendedDigits
<1> HIDE DEF r
<1>8. Len(r) = Len(base) + 2 /\ Len(r) - 1 = Len(base) + 1 /\ Len(r) >= 3
  BY <1>1, <1>4, <1>7
<1>9. r[Len(r) - 1] = l /\ r[Len(r)] = c /\ Len(r) % 10 = l
  BY <1>1, <1>4, <1>7, <1>8 DEF l
<1>10. isValidOcr(r)
  BY <1>6, <1>8, <1>9 DEF isValidOcr, c
<1> QED
  BY <1>2, <1>7, <1>10

\* Two invoice numbers have different references.
LEMMA DerivedInjective ==
  ASSUME NEW n \in Nat, NEW m \in Nat, deriveOcr(n) = deriveOcr(m)
  PROVE  n = m
<1> DEFINE base(k) == digitsOf[k]
           l(k) == (Len(base(k)) + 2) % 10
           b(k) == Append(base(k), l(k))
           c(k) == luhnCheckDigit(b(k))
<1>1. ASSUME NEW k \in Nat
      PROVE  /\ base(k) \in Digits /\ l(k) \in 0..9 /\ b(k) \in Digits /\ c(k) \in 0..9
             /\ deriveOcr(k) = Append(b(k), c(k))
  <2>1. base(k) \in Digits /\ Len(base(k)) \in Nat
    BY DigitsShape DEF Digits
  <2>2. deriveOcr(k) = Append(b(k), c(k))
    BY DEF deriveOcr
  <2> HIDE DEF base
  <2>3. l(k) \in 0..9
    BY <2>1
  <2> HIDE DEF l
  <2>4. b(k) \in Digits
    BY <2>1, <2>3, AppendedDigits
  <2> HIDE DEF b
  <2>5. c(k) \in 0..9
    BY <2>4, LuhnDigit
  <2> QED
    BY <2>1, <2>2, <2>3, <2>4, <2>5
<1> HIDE DEF c
<1>2. Append(b(n), c(n)) = Append(b(m), c(m))
  BY <1>1
<1> HIDE DEF b
<1>3. b(n) = b(m)
  <2> DEFINE s == b(n)
             t == b(m)
             d == c(n)
             e == c(m)
  <2>1. s \in Digits /\ t \in Digits /\ d \in 0..9 /\ e \in 0..9
    BY <1>1
  <2>2. Append(s, d) = Append(t, e)
    BY <1>2
  <2> HIDE DEF s, t, d, e
  <2>3. s = t
    BY <2>1, <2>2, AppendedDigits
  <2> QED
    BY <2>3 DEF s, t
<1>4. Append(base(n), l(n)) = Append(base(m), l(m))
  BY <1>3 DEF b
<1> HIDE DEF base, l
<1>5. base(n) = base(m)
  <2> DEFINE s == base(n)
             t == base(m)
             d == l(n)
             e == l(m)
  <2>1. s \in Digits /\ t \in Digits /\ d \in 0..9 /\ e \in 0..9
    BY <1>1
  <2>2. Append(s, d) = Append(t, e)
    BY <1>4
  <2> HIDE DEF s, t, d, e
  <2>3. s = t
    BY <2>1, <2>2, AppendedDigits
  <2> QED
    BY <2>3 DEF s, t
<1> QED
  BY <1>5, DigitsInjective DEF base

\* What a valid reference is made of.
LEMMA ValidShape ==
  ASSUME NEW ocr \in Digits, isValidOcr(ocr)
  PROVE  /\ Len(ocr) \in Nat /\ Len(ocr) >= 3 /\ Len(ocr) % 10 = ocr[Len(ocr) - 1]
         /\ SubSeq(ocr, 1, Len(ocr) - 1) \in Digits
         /\ Len(SubSeq(ocr, 1, Len(ocr) - 1)) = Len(ocr) - 1
         /\ \A i \in 1..(Len(ocr) - 1) : SubSeq(ocr, 1, Len(ocr) - 1)[i] = ocr[i]
         /\ luhnCheckDigit(SubSeq(ocr, 1, Len(ocr) - 1)) = ocr[Len(ocr)]
<1>1. Len(ocr) \in Nat /\ \A i \in 1..Len(ocr) : ocr[i] \in 0..9
  BY DEF Digits
<1>2. /\ Len(ocr) >= 3 /\ Len(ocr) % 10 = ocr[Len(ocr) - 1]
      /\ luhnCheckDigit(SubSeq(ocr, 1, Len(ocr) - 1)) = ocr[Len(ocr)]
  BY DEF isValidOcr
<1>3. \A i \in 1..(Len(ocr) - 1) : ocr[i] \in 0..9
  BY <1>1
<1>4. /\ SubSeq(ocr, 1, Len(ocr) - 1) \in Seq(0..9)
      /\ Len(SubSeq(ocr, 1, Len(ocr) - 1)) = Len(ocr) - 1
      /\ \A i \in 1..(Len(ocr) - 1) : SubSeq(ocr, 1, Len(ocr) - 1)[i] = ocr[i]
  BY <1>1, <1>2, <1>3, SubSeqProperties
<1> QED
  BY <1>1, <1>2, <1>4 DEF Digits

\* References that differ, but not in the length digit: what the check digit must see.
LEMMA BodyDiffers ==
  ASSUME NEW ocr \in Digits, isValidOcr(ocr), NEW es \in Digits, Len(es) = Len(ocr),
         es[Len(ocr)] = ocr[Len(ocr)], NEW bs \in Digits, Len(bs) = Len(ocr) - 1,
         \A i \in 1..(Len(ocr) - 1) : bs[i] = es[i],
         luhnCheckDigit(bs) # luhnCheckDigit(SubSeq(ocr, 1, Len(ocr) - 1))
  PROVE  ~isValidOcr(es)
<1>1. SUFFICES ASSUME isValidOcr(es)
               PROVE  FALSE
  OBVIOUS
<1> DEFINE cs == SubSeq(es, 1, Len(es) - 1)
<1>2. /\ cs \in Digits /\ Len(cs) = Len(ocr) - 1
      /\ \A i \in 1..(Len(ocr) - 1) : cs[i] = es[i]
      /\ luhnCheckDigit(cs) = ocr[Len(ocr)]
  BY <1>1, ValidShape
<1> HIDE DEF cs
<1>3. cs = bs
  BY <1>2, SeqEqual DEF Digits
<1> QED
  BY <1>2, <1>3, ValidShape

LEMMA SubstitutionRefused ==
  ASSUME NEW ocr \in Digits, isValidOcr(ocr), NEW i \in DOMAIN ocr, NEW d \in 0..9, d # ocr[i]
  PROVE  [ocr EXCEPT ![i] = d] \in Digits /\ ~isValidOcr([ocr EXCEPT ![i] = d])
<1> DEFINE es == [ocr EXCEPT ![i] = d]
           body == SubSeq(ocr, 1, Len(ocr) - 1)
<1>1. /\ i \in 1..Len(ocr) /\ Len(ocr) \in Nat
      /\ es \in Digits /\ Len(es) = Len(ocr) /\ es[i] = d
      /\ \A j \in 1..Len(ocr) : j # i => es[j] = ocr[j]
  BY DEF Digits
<1>2. /\ Len(ocr) >= 3 /\ Len(ocr) % 10 = ocr[Len(ocr) - 1]
      /\ body \in Digits /\ Len(body) = Len(ocr) - 1
      /\ \A j \in 1..(Len(ocr) - 1) : body[j] = ocr[j]
      /\ luhnCheckDigit(body) = ocr[Len(ocr)]
  BY ValidShape
<1> HIDE DEF es, body
<1>3. CASE i = Len(ocr)
  <2>1. SUFFICES ASSUME isValidOcr(es)
                 PROVE  FALSE
    BY <1>1 DEF es
  <2> DEFINE cs == SubSeq(es, 1, Len(es) - 1)
  <2>2. /\ cs \in Digits /\ Len(cs) = Len(ocr) - 1
        /\ \A j \in 1..(Len(ocr) - 1) : cs[j] = es[j]
        /\ luhnCheckDigit(cs) = es[Len(ocr)]
    BY <1>1, <2>1, ValidShape
  <2> HIDE DEF cs
  <2>3. \A j \in 1..(Len(ocr) - 1) : cs[j] = body[j]
    BY <1>1, <1>2, <1>3, <2>2
  <2>4. cs = body
    BY <1>2, <2>2, <2>3, SeqEqual DEF Digits
  <2> QED
    BY <1>1, <1>2, <1>3, <2>2, <2>4
<1>4. CASE i = Len(ocr) - 1
  <2>1. es[Len(es) - 1] # Len(es) % 10
    BY <1>1, <1>2, <1>4
  <2> QED
    BY <1>1, <2>1 DEF isValidOcr, es
<1>5. CASE i < Len(ocr) - 1
  <2> DEFINE bs == [body EXCEPT ![i] = d]
  <2>1. i \in 1..Len(body) /\ d # body[i]
    BY <1>1, <1>2, <1>5
  <2>2. /\ bs \in Digits /\ Len(bs) = Len(body)
        /\ luhnCheckDigit(bs) # luhnCheckDigit(body)
    BY <1>2, <2>1, SubstitutionSeen
  <2>3. \A j \in 1..(Len(ocr) - 1) : bs[j] = es[j]
    BY <1>1, <1>2, <2>1 DEF Digits
  <2>4. es[Len(ocr)] = ocr[Len(ocr)]
    BY <1>1, <1>2, <1>5
  <2> HIDE DEF bs
  <2>5. ~isValidOcr(es)
    BY <1>1, <1>2, <2>2, <2>3, <2>4, BodyDiffers DEF body
  <2> QED
    BY <1>1, <2>5 DEF es
<1> QED
  BY <1>1, <1>2, <1>3, <1>4, <1>5

LEMMA TranspositionRefused ==
  ASSUME NEW ocr \in Digits, isValidOcr(ocr), NEW i \in 1..(Len(ocr) - 1),
         ocr[i] # ocr[i + 1], {ocr[i], ocr[i + 1]} # {0, 9},
         NEW es, es = [ocr EXCEPT ![i] = ocr[i + 1], ![i + 1] = ocr[i]]
  PROVE  es \in Digits /\ ~isValidOcr(es)
<1> DEFINE body == SubSeq(ocr, 1, Len(ocr) - 1)
<1>1. /\ Len(ocr) \in Nat /\ i \in 1..Len(ocr) /\ i + 1 \in 1..Len(ocr)
      /\ ocr[i] \in 0..9 /\ ocr[i + 1] \in 0..9
  BY DEF Digits
<1>2. /\ es \in Digits /\ Len(es) = Len(ocr) /\ es[i] = ocr[i + 1] /\ es[i + 1] = ocr[i]
      /\ \A j \in 1..Len(ocr) : j # i /\ j # i + 1 => es[j] = ocr[j]
  BY <1>1 DEF Digits
<1>3. /\ Len(ocr) >= 3 /\ Len(ocr) % 10 = ocr[Len(ocr) - 1]
      /\ body \in Digits /\ Len(body) = Len(ocr) - 1
      /\ \A j \in 1..(Len(ocr) - 1) : body[j] = ocr[j]
  BY ValidShape
<1> HIDE DEF body
<1>4. CASE i = Len(ocr) - 1 \/ i = Len(ocr) - 2
  <2>1. es[Len(es) - 1] # Len(es) % 10
    BY <1>1, <1>2, <1>3, <1>4
  <2> QED
    BY <1>2, <2>1 DEF isValidOcr
<1>5. CASE i < Len(ocr) - 2
  <2> DEFINE bs == [body EXCEPT ![i] = body[i + 1], ![i + 1] = body[i]]
  <2>1. i \in 1..(Len(body) - 1) /\ body[i] = ocr[i] /\ body[i + 1] = ocr[i + 1]
    BY <1>1, <1>3, <1>5
  <2>2. /\ bs \in Digits /\ Len(bs) = Len(body)
        /\ luhnCheckDigit(bs) # luhnCheckDigit(body)
    BY <1>3, <2>1, TranspositionSeen
  <2>3. \A j \in 1..(Len(ocr) - 1) : bs[j] = es[j]
    <3>1. /\ bs[i] = body[i + 1] /\ bs[i + 1] = body[i]
          /\ \A j \in 1..Len(body) : j # i /\ j # i + 1 => bs[j] = body[j]
      BY <1>3, <2>1 DEF Digits
    <3> HIDE DEF bs
    <3> QED
      BY <1>1, <1>2, <1>3, <2>1, <3>1
  <2>4. es[Len(ocr)] = ocr[Len(ocr)]
    BY <1>1, <1>2, <1>3, <1>5
  <2> HIDE DEF bs
  <2>5. ~isValidOcr(es)
    <3>1. Len(bs) = Len(ocr) - 1 /\ luhnCheckDigit(bs) # luhnCheckDigit(SubSeq(ocr, 1, Len(ocr) - 1))
      BY <1>3, <2>2 DEF body
    <3> QED
      BY <1>2, <2>2, <2>3, <2>4, <3>1, BodyDiffers, Zenon
  <2> QED
    BY <1>2, <2>5
<1> QED
  BY <1>1, <1>4, <1>5

LEMMA NextLength ==
  ASSUME NEW n \in Nat, n >= 1
  PROVE  n % 10 # (n - 1) % 10 /\ n % 10 # (n + 1) % 10
OBVIOUS

\* A digit left out or written twice moves the length digit away from the length.
LEMMA LossRefused ==
  ASSUME NEW ocr \in Digits, isValidOcr(ocr), NEW i \in 1..(Len(ocr) - 2)
  PROVE  LET es == SubSeq(ocr, 1, i - 1) \o SubSeq(ocr, i + 1, Len(ocr))
         IN es \in Digits /\ ~isValidOcr(es)
<1> DEFINE u == SubSeq(ocr, 1, i - 1)
           v == SubSeq(ocr, i + 1, Len(ocr))
           es == u \o v
           n == Len(ocr)
<1>1. n \in Nat /\ n >= 3 /\ n % 10 = ocr[n - 1] /\ i \in 1..(n - 2)
      /\ \A j \in 1..n : ocr[j] \in 0..9
  BY ValidShape DEF Digits
<1>2. u \in Seq(0..9) /\ Len(u) = i - 1
  <2>1. \A j \in 1..(i - 1) : ocr[j] \in 0..9
    BY <1>1
  <2> QED
    BY <1>1, <2>1, SubSeqProperties
<1>3. v \in Seq(0..9) /\ Len(v) = n - i /\ v[(n - 1) - i] = ocr[n - 1]
  <2> HIDE DEF n
  <2>1. \A j \in (i + 1)..n : ocr[j] \in 0..9
    BY <1>1
  <2> DEFINE w == SubSeq(ocr, i + 1, n)
  <2>2. /\ w \in Seq(0..9) /\ Len(w) = (IF i + 1 <= n THEN n - (i + 1) + 1 ELSE 0)
        /\ \A j \in 1..(n - (i + 1) + 1) : w[j] = ocr[(i + 1) + j - 1]
    BY <1>1, <2>1, SubSeqProperties
  <2> HIDE DEF w
  <2>3. (n - 1) - i \in 1..(n - (i + 1) + 1) /\ (i + 1) + ((n - 1) - i) - 1 = n - 1
    BY <1>1
  <2>4. w[(n - 1) - i] = ocr[n - 1]
    BY <2>2, <2>3
  <2> QED
    BY <1>1, <2>2, <2>4 DEF n, w
<1> HIDE DEF u, v, n
<1>4. /\ es \in Seq(0..9) /\ Len(es) = n - 1 /\ es[n - 2] = v[(n - 1) - i]
  <2>1. /\ es \in Seq(0..9) /\ Len(es) = Len(u) + Len(v)
        /\ \A j \in 1..(Len(u) + Len(v)) : es[j] = IF j <= Len(u) THEN u[j] ELSE v[j - Len(u)]
    BY <1>2, <1>3, ConcatProperties
  <2> HIDE DEF es
  <2>2. n - 2 \in 1..(Len(u) + Len(v)) /\ ~(n - 2 <= Len(u)) /\ (n - 2) - Len(u) = (n - 1) - i
    BY <1>1, <1>2, <1>3
  <2>3. es[n - 2] = v[(n - 1) - i]
    BY <2>1, <2>2
  <2> QED
    BY <1>1, <1>2, <1>3, <2>1, <2>3
<1> HIDE DEF es
<1>5. es[Len(es) - 1] = n % 10 /\ Len(es) % 10 = (n - 1) % 10
  BY <1>1, <1>3, <1>4
<1>6. ~isValidOcr(es)
  BY <1>1, <1>5, NextLength DEF isValidOcr
<1> QED
  BY <1>4, <1>6 DEF es, u, v, n, Digits

LEMMA RepetitionRefused ==
  ASSUME NEW ocr \in Digits, isValidOcr(ocr), NEW i \in 1..(Len(ocr) - 2)
  PROVE  LET es == SubSeq(ocr, 1, i) \o SubSeq(ocr, i, Len(ocr))
         IN es \in Digits /\ ~isValidOcr(es)
<1> DEFINE u == SubSeq(ocr, 1, i)
           v == SubSeq(ocr, i, Len(ocr))
           es == u \o v
           n == Len(ocr)
<1>1. n \in Nat /\ n >= 3 /\ n % 10 = ocr[n - 1] /\ i \in 1..(n - 2)
      /\ \A j \in 1..n : ocr[j] \in 0..9
  BY ValidShape DEF Digits
<1>2. u \in Seq(0..9) /\ Len(u) = i
  <2>1. \A j \in 1..i : ocr[j] \in 0..9
    BY <1>1
  <2> QED
    BY <1>1, <2>1, SubSeqProperties
<1>3. v \in Seq(0..9) /\ Len(v) = (n + 1) - i /\ v[n - i] = ocr[n - 1]
  <2> HIDE DEF n
  <2>1. \A j \in i..n : ocr[j] \in 0..9
    BY <1>1
  <2> DEFINE w == SubSeq(ocr, i, n)
  <2>2. /\ w \in Seq(0..9) /\ Len(w) = (IF i <= n THEN n - i + 1 ELSE 0)
        /\ \A j \in 1..(n - i + 1) : w[j] = ocr[i + j - 1]
    BY <1>1, <2>1, SubSeqProperties
  <2> HIDE DEF w
  <2>3. n - i \in 1..(n - i + 1) /\ i + (n - i) - 1 = n - 1
    BY <1>1
  <2>4. w[n - i] = ocr[n - 1]
    BY <2>2, <2>3
  <2> QED
    BY <1>1, <2>2, <2>4 DEF n, w
<1> HIDE DEF u, v, n
<1>4. /\ es \in Seq(0..9) /\ Len(es) = n + 1 /\ es[n] = v[n - i]
  <2>1. /\ es \in Seq(0..9) /\ Len(es) = Len(u) + Len(v)
        /\ \A j \in 1..(Len(u) + Len(v)) : es[j] = IF j <= Len(u) THEN u[j] ELSE v[j - Len(u)]
    BY <1>2, <1>3, ConcatProperties
  <2> HIDE DEF es
  <2>2. n \in 1..(Len(u) + Len(v)) /\ ~(n <= Len(u)) /\ n - Len(u) = n - i
    BY <1>1, <1>2, <1>3
  <2>3. es[n] = v[n - i]
    BY <2>1, <2>2
  <2> QED
    BY <1>1, <1>2, <1>3, <2>1, <2>3
<1> HIDE DEF es
<1>5. es[Len(es) - 1] = n % 10 /\ Len(es) % 10 = (n + 1) % 10
  BY <1>1, <1>3, <1>4
<1>6. ~isValidOcr(es)
  BY <1>1, <1>5, NextLength DEF isValidOcr
<1> QED
  BY <1>4, <1>6 DEF es, u, v, n, Digits

-----------------------------------------------------------------------------
(* The steps of the system *)

\* What the state of the references always satisfies: the typed digits are the last
\* invoice's reference until a slip, and a slip makes them one that is refused.
OcrInvariant ==
  /\ OcrTypeOK
  /\ first \in Nat \ {0} /\ next \in Nat /\ first <= next
  /\ slip = "none" /\ next > first => typed = deriveOcr(next - 1)
  /\ SlipIsRejected

LEMMA OcrStarts ==
  ASSUME OcrAssumption, OcrInit
  PROVE  OcrInvariant
<1>1. first \in Nat \ {0} /\ first \in Starts /\ next = first /\ Count \in Nat
      /\ typed = <<>> /\ slip = "none"
  BY DEF OcrInit, OcrAssumption
<1>2. next \in first..(first + Count)
  BY <1>1
<1>3. <<>> \in Seq(0..9)
  OBVIOUS
<1>4. next \in Nat /\ first <= next /\ ~(next > first)
  BY <1>1
<1> QED
  BY <1>1, <1>2, <1>3, <1>4 DEF OcrInvariant, OcrTypeOK, SlipIsRejected

LEMMA OcrAllocates ==
  ASSUME OcrAssumption, OcrInvariant, numberInvoice
  PROVE  OcrInvariant'
<1>1. /\ first \in Nat \ {0} /\ first \in Starts /\ next \in Nat /\ first <= next
      /\ first' = first /\ next' = next + 1 /\ typed' = deriveOcr(next) /\ slip' = "none"
      /\ next < first + Count /\ Count \in Nat
  BY DEF OcrInvariant, OcrTypeOK, numberInvoice, OcrAssumption
<1>2. deriveOcr(next) \in Seq(0..9)
  BY <1>1, DerivedIsValid DEF Digits
<1>3. next' \in first..(first + Count) /\ next' - 1 = next /\ next' \in Nat /\ first <= next'
  BY <1>1
<1> QED
  BY <1>1, <1>2, <1>3 DEF OcrInvariant, OcrTypeOK, SlipIsRejected

\* Before a slip is made, what is typed is a valid reference.
LEMMA TypedIsValid ==
  ASSUME OcrInvariant, next > first, slip = "none"
  PROVE  typed \in Digits /\ isValidOcr(typed) /\ typed = deriveOcr(next - 1)
<1>1. next - 1 \in Nat /\ typed = deriveOcr(next - 1)
  BY DEF OcrInvariant
<1> QED
  BY <1>1, DerivedIsValid

LEMMA SlipKept ==
  ASSUME OcrInvariant, NEW kind \in {"substituted", "transposed", "dropped", "doubled"},
         NEW digits \in Digits, ~isValidOcr(digits), Slip(kind, digits)
  PROVE  OcrInvariant'
<1>1. /\ typed' = digits /\ slip' = kind /\ first' = first /\ next' = next
  BY DEF Slip
<1>2. ~isValidOcr(typed')
  BY <1>1
<1>3. slip' # "none" /\ slip' \in {"none", "substituted", "transposed", "dropped", "doubled"}
  BY <1>1
<1>4. SlipIsRejected'
  BY <1>2 DEF SlipIsRejected
<1>5. typed' \in Seq(0..9)
  BY <1>1 DEF Digits
<1> QED
  BY <1>1, <1>3, <1>4, <1>5 DEF OcrInvariant, OcrTypeOK

LEMMA OcrSlips ==
  ASSUME OcrInvariant, substitute \/ transpose \/ drop \/ double
  PROVE  OcrInvariant'
<1>1. CASE substitute
  <2>1. PICK i \in DOMAIN typed : \E d \in (0..9) \ {typed[i]} :
           Slip("substituted", [typed EXCEPT ![i] = d])
    BY <1>1 DEF substitute
  <2>2. PICK d \in (0..9) \ {typed[i]} : Slip("substituted", [typed EXCEPT ![i] = d])
    BY <2>1
  <2>3. typed \in Digits /\ isValidOcr(typed)
    BY <2>2, TypedIsValid DEF Slip
  <2>4. [typed EXCEPT ![i] = d] \in Digits /\ ~isValidOcr([typed EXCEPT ![i] = d])
    BY <2>1, <2>2, <2>3, SubstitutionRefused
  <2> QED
    BY <2>2, <2>4, SlipKept
<1>2. CASE transpose
  <2>1. PICK i \in 1..(Len(typed) - 1) :
          /\ typed[i] # typed[i + 1] /\ {typed[i], typed[i + 1]} # {0, 9}
          /\ Slip("transposed", [typed EXCEPT ![i] = typed[i + 1], ![i + 1] = typed[i]])
    BY <1>2, Zenon DEF transpose
  <2> DEFINE es == [typed EXCEPT ![i] = typed[i + 1], ![i + 1] = typed[i]]
  <2>2. typed \in Digits /\ isValidOcr(typed)
    BY <2>1, TypedIsValid DEF Slip
  <2>3. es \in Digits /\ ~isValidOcr(es)
    BY <2>1, <2>2, TranspositionRefused
  <2>4. Slip("transposed", es)
    BY <2>1
  <2> HIDE DEF es
  <2> QED
    BY <2>3, <2>4, SlipKept
<1>3. CASE drop
  <2>1. PICK i \in 1..(Len(typed) - 2) :
          Slip("dropped", SubSeq(typed, 1, i - 1) \o SubSeq(typed, i + 1, Len(typed)))
    BY <1>3 DEF drop
  <2> DEFINE es == SubSeq(typed, 1, i - 1) \o SubSeq(typed, i + 1, Len(typed))
  <2>2. typed \in Digits /\ isValidOcr(typed)
    BY <2>1, TypedIsValid DEF Slip
  <2>3. es \in Digits /\ ~isValidOcr(es)
    BY <2>2, LossRefused
  <2>4. Slip("dropped", es)
    BY <2>1
  <2> HIDE DEF es
  <2> QED
    BY <2>3, <2>4, SlipKept
<1>4. CASE double
  <2>1. PICK i \in 1..(Len(typed) - 2) :
          Slip("doubled", SubSeq(typed, 1, i) \o SubSeq(typed, i, Len(typed)))
    BY <1>4 DEF double
  <2> DEFINE es == SubSeq(typed, 1, i) \o SubSeq(typed, i, Len(typed))
  <2>2. typed \in Digits /\ isValidOcr(typed)
    BY <2>1, TypedIsValid DEF Slip
  <2>3. es \in Digits /\ ~isValidOcr(es)
    BY <2>2, RepetitionRefused
  <2>4. Slip("doubled", es)
    BY <2>1
  <2> HIDE DEF es
  <2> QED
    BY <2>3, <2>4, SlipKept
<1> QED
  BY <1>1, <1>2, <1>3, <1>4

LEMMA OcrStutters ==
  ASSUME OcrInvariant, UNCHANGED ocrVars
  PROVE  OcrInvariant'
BY DEF OcrInvariant, OcrTypeOK, SlipIsRejected, ocrVars, isValidOcr, deriveOcr

LEMMA OcrIsSafe ==
  ASSUME OcrInvariant
  PROVE  OcrTypeOK /\ ReferenceSafe
<1>1. ASSUME next > first, slip = "none"
      PROVE  /\ isValidOcr(typed)
             /\ {n \in first..(next - 1) : deriveOcr(n) = typed} = {next - 1}
  <2>1. isValidOcr(typed) /\ typed = deriveOcr(next - 1)
    BY <1>1, TypedIsValid
  <2>2. first \in Nat /\ next \in Nat /\ next - 1 \in Nat /\ next - 1 \in first..(next - 1)
    BY <1>1 DEF OcrInvariant
  <2>3. ASSUME NEW n \in first..(next - 1), deriveOcr(n) = typed
        PROVE  n = next - 1
    <3>1. n \in Nat
      BY <2>2
    <3> QED
      BY <2>1, <2>2, <2>3, <3>1, DerivedInjective
  <2> QED
    BY <2>1, <2>2, <2>3
<1>2. CopiedIsFound
  BY <1>1 DEF CopiedIsFound
<1> QED
  BY <1>2 DEF OcrInvariant, ReferenceSafe

\* For every company and every number of invoices: the reference copied from an invoice is
\* accepted by payments and belongs to that invoice alone, and one slip of the kinds the
\* model makes gives a reference that payments refuses (packages/shared/src/ocr).
THEOREM ReferenceSafeHolds ==
  ASSUME OcrAssumption
  PROVE  OcrSpec => [](OcrTypeOK /\ ReferenceSafe)
<1>1. OcrInit => OcrInvariant
  BY OcrStarts
<1>2. OcrInvariant /\ [OcrNext]_ocrVars => OcrInvariant'
  BY OcrAllocates, OcrSlips, OcrStutters DEF OcrNext
<1>3. OcrInvariant => OcrTypeOK /\ ReferenceSafe
  BY OcrIsSafe
<1> QED
  BY <1>1, <1>2, <1>3, PTL DEF OcrSpec

-----------------------------------------------------------------------------
(* Ten digits and twelve *)

\* In a year y the last two digits of a year of birth, with the plus from the year
\* in which the person turns a hundred, give that year of birth.
LEMMA CenturyFound ==
  ASSUME NEW y \in Nat, NEW b \in Nat, b <= y, y < b + 200,
         NEW guess, guess = (y \div 100) * 100 + (b % 100),
         NEW century, century = IF guess > y THEN guess - 100 ELSE guess
  PROVE  b = IF y - b >= 100 THEN century - 100 ELSE century
<1>1. PICK q \in Nat, r \in 0 .. 99 : b = 100 * q + r /\ b % 100 = r
  OBVIOUS
<1>2. PICK c \in Nat, d \in 0 .. 99 : y = 100 * c + d /\ y \div 100 = c
  OBVIOUS
<1>3. c = q \/ c = q + 1 \/ c = q + 2
  BY <1>1, <1>2
<1> QED
  BY <1>1, <1>2, <1>3

\* Whichever way the number of p is written, billing reads the twelve digits in it.
LEMMA FormsAreOfPerson ==
  ASSUME IdentityAssumption, NEW y \in Years, NEW p \in Persons, p[1] <= y,
         NEW input \in WrittenForms(p, y)
  PROVE  normalizePnr(input, y) = p
<1>1. /\ p = <<p[1], p[2]>> /\ p[1] \in Nat /\ y \in Nat /\ y < p[1] + 200
  BY DEF IdentityAssumption
<1>2. CASE input = [digits |-> 12, year |-> p[1], rest |-> p[2], plus |-> FALSE]
  BY <1>1, <1>2 DEF normalizePnr
<1>3. CASE input = [digits |-> 10, year |-> p[1] % 100, rest |-> p[2], plus |-> y - p[1] >= 100]
  <2> DEFINE guess == (y \div 100) * 100 + (p[1] % 100)
             century == IF guess > y THEN guess - 100 ELSE guess
  <2>1. p[1] <= y
    OBVIOUS
  <2>2. p[1] = IF y - p[1] >= 100 THEN century - 100 ELSE century
    BY <1>1, CenturyFound
  <2>3. /\ input.digits = 10 /\ input.year = p[1] % 100 /\ input.rest = p[2]
        /\ input.plus <=> y - p[1] >= 100
    BY <1>3
  <2>4. normalizePnr(input, y) = <<IF y - p[1] >= 100 THEN century - 100 ELSE century, p[2]>>
    BY <2>3 DEF normalizePnr
  <2> QED
    BY <1>1, <2>2, <2>4
<1> QED
  BY <1>2, <1>3 DEF WrittenForms

-----------------------------------------------------------------------------
(* Rows and lookups *)

Row == [tenant : Tenants, person : Persons, pnr : Persons, id : 0 .. (MaxRows - 1)]

IdentityInv ==
  /\ IdentityTypeOK
  /\ rows \subseteq Row
  /\ IdentityKept

LEMMA IdentityStep ==
  ASSUME IdentityAssumption, NewYear = FALSE
  PROVE  IdentityInv /\ [IdentityNext]_identityVars => IdentityInv'
<1> SUFFICES ASSUME IdentityInv, [IdentityNext]_identityVars
             PROVE  IdentityInv'
  OBVIOUS
<1> USE DEF IdentityInv, IdentityKept
<1>1. CASE UNCHANGED identityVars
  BY <1>1 DEF identityVars, IdentityTypeOK, SamePerson, FindsOnlySelf, OnePerTenant
<1>2. CASE createInTx
  <2>1. PICK t \in Tenants, p \in {q \in Persons : q[1] <= year} : \E input \in WrittenForms(p, year) :
          LET pnr == normalizePnr(input, IF firstHour THEN year - 1 ELSE year)
          IN /\ entered < MaxRows
             /\ firstHour => NewYear
             /\ ~Taken(t, pnr)
             /\ insert(t, p, pnr)
             /\ UNCHANGED <<year, firstHour, invoiced, found>>
    BY <1>2 DEF createInTx
  <2>2. PICK input \in WrittenForms(p, year) :
             /\ entered < MaxRows /\ ~firstHour
             /\ ~Taken(t, normalizePnr(input, year))
             /\ insert(t, p, normalizePnr(input, year))
             /\ UNCHANGED <<year, firstHour, invoiced, found>>
    BY <2>1
  <2>3. normalizePnr(input, year) = p
    BY FormsAreOfPerson DEF IdentityTypeOK
  <2> DEFINE new == [tenant |-> t, person |-> p, pnr |-> p, id |-> entered]
  <2>4. /\ rows' = rows \cup {new} /\ entered' = entered + 1 /\ ~Taken(t, p)
        /\ entered \in 0 .. (MaxRows - 1)
    BY <2>2, <2>3 DEF insert, IdentityTypeOK, IdentityAssumption
  <2>5. /\ new.tenant = t /\ new.person = p /\ new.pnr = p /\ new.id = entered /\ new \in Row
    BY <2>4 DEF Row
  <2> HIDE DEF new
  <2>6. \A r \in rows : r.tenant = t => r.person # p
    BY <2>4 DEF Taken, SamePerson
  <2>7. rows' \subseteq Row /\ SamePerson' /\ FindsOnlySelf' /\ OnePerTenant'
    BY <2>2, <2>4, <2>5, <2>6 DEF SamePerson, FindsOnlySelf, OnePerTenant
  <2>8. IdentityTypeOK'
    BY <2>2, <2>4, <2>5 DEF IdentityTypeOK, IdentityAssumption
  <2> QED
    BY <2>7, <2>8
<1>3. CASE invoiceCustomer
  BY <1>3 DEF invoiceCustomer, IdentityTypeOK, SamePerson, FindsOnlySelf, OnePerTenant
<1>4. CASE remove
  BY <1>4 DEF remove, removeRow, Referenced, IdentityTypeOK, SamePerson, FindsOnlySelf, OnePerTenant
<1>5. CASE lookupByPnrHmac
  <2>1. PICK p \in Persons : found' = [person |-> p, rows |-> {r \in rows : r.pnr = p}]
    BY <1>5 DEF lookupByPnrHmac
  <2>2. found'.person = p /\ \A r \in found'.rows : r \in rows /\ r.pnr = p
    BY <2>1
  <2>3. FindsOnlySelf'
    BY <2>2 DEF FindsOnlySelf, SamePerson
  <2> QED
    BY <1>5, <2>3 DEF lookupByPnrHmac, IdentityTypeOK, SamePerson, OnePerTenant
<1>6. CASE timePasses
  BY <1>6 DEF timePasses, IdentityTypeOK, SamePerson, FindsOnlySelf, OnePerTenant
<1> QED
  BY <1>1, <1>2, <1>3, <1>4, <1>5, <1>6 DEF IdentityNext

(***************************************************************************)
(* However a personal number was typed, billing hashes what BankID gives,  *)
(* a login finds nobody else's row and a company has one row at most for a *)
(* person; for customers that are not entered in the first hour of a year, *)
(* when the year of UTC is not yet the one of Sweden (shared/swedish-id,   *)
(* customers/services.ts).                                                 *)
(***************************************************************************)
THEOREM IdentityKeptHolds ==
  ASSUME IdentityAssumption, NewYear = FALSE
  PROVE  IdentitySpec => [](IdentityTypeOK /\ IdentityKept)
<1>1. IdentityInit => IdentityInv
  <2> SUFFICES ASSUME IdentityInit
               PROVE  IdentityInv
    OBVIOUS
  <2>1. FirstYear \in Years
    BY DEF FirstYear, IdentityAssumption
  <2>2. entered \in 0 .. MaxRows
    BY DEF IdentityInit, IdentityAssumption
  <2> QED
    BY <2>1, <2>2 DEF IdentityInit, IdentityInv, IdentityKept, IdentityTypeOK, SamePerson,
                FindsOnlySelf, OnePerTenant, IdentityAssumption
<1>2. IdentityInv /\ [IdentityNext]_identityVars => IdentityInv'
  BY IdentityStep
<1>3. IdentityInv => IdentityTypeOK /\ IdentityKept
  BY DEF IdentityInv
<1> QED
  BY <1>1, <1>2, <1>3, PTL DEF IdentitySpec

-----------------------------------------------------------------------------
(* Local time *)

LEMMA TimerConstants ==
  ASSUME TimerAssumption
  PROVE  /\ Days \in Nat \ {0} /\ SpringDay \in Nat /\ AutumnDay \in Nat
         /\ MaxLate \in Nat /\ MaxRun \in Nat /\ MaxCrashes \in Nat
         /\ SpringDay < AutumnDay /\ Hours \subseteq 0..23 /\ NoTime \notin Int
BY DEF TimerAssumption

LEMMA Offsets ==
  ASSUME NEW t
  PROVE  /\ Offset(t) \in {1, 2} /\ localParts(t) = t + Offset(t)
         /\ Offset(t) = 2 <=> 24 * SpringDay + 1 <= t /\ t < 24 * AutumnDay + 1
BY DEF Offset, localParts

\* Local time never runs backwards by a whole hour, and leads an hour at most once.
LEMMA LocalMonotone ==
  ASSUME TimerAssumption, NEW t \in Int, NEW u \in Int, t <= u
  PROVE  /\ localParts(t) \in Int /\ localParts(u) \in Int
         /\ localParts(t) <= localParts(u) /\ localParts(u) - localParts(t) <= u - t + 1
BY TimerConstants, Offsets

LEMMA DayAndHour ==
  ASSUME NEW x \in Int
  PROVE  x = 24 * (x \div 24) + (x % 24) /\ x \div 24 \in Int /\ x % 24 \in 0..23
OBVIOUS

\* A day has twenty-four hours, so a time has one date and one hour.
LEMMA OneDateAndHour ==
  ASSUME NEW a \in Int, NEW b \in Int, NEW g \in 0..23, NEW h \in 0..23,
         24 * a + g = 24 * b + h
  PROVE  a = b /\ g = h
OBVIOUS

\* Less than a day apart at the same hour is the same date.
LEMMA LessThanADay ==
  ASSUME NEW a \in Int, NEW b \in Int, NEW h \in 0..23,
         24 * a + h <= 24 * b + h, (24 * b + h) - (24 * a + h) < 24
  PROVE  a = b
OBVIOUS

LEMMA LocalTime ==
  ASSUME TimerAssumption, NEW t \in Int
  PROVE  /\ localParts(t) \in Int /\ LocalDate(t) \in Int /\ LocalHour(t) \in 0..23
         /\ localParts(t) = 24 * LocalDate(t) + LocalHour(t)
<1>1. localParts(t) \in Int
  BY LocalMonotone
<1> QED
  BY <1>1, DayAndHour DEF LocalDate, LocalHour

\* What is found for a date and an hour reads back as the two.
LEMMA InstantReadsBack ==
  ASSUME TimerAssumption, NEW date \in Int, NEW h \in Int,
         NEW u, u = utcInstantForLocalWallTime(date, h), u # NoTime
  PROVE  u \in Int /\ localParts(u) = 24 * date + h
<1>1. 24 * date + h \in Int
  OBVIOUS
<1> DEFINE wall == 24 * date + h
           guess1 == wall + (wall - localParts(wall))
           guess2 == guess1 + (wall - localParts(guess1))
<1>2. localParts(wall) \in Int
  BY LocalMonotone
<1>3. guess1 \in Int
  BY <1>1, <1>2
<1>4. localParts(guess1) \in Int
  BY <1>3, LocalMonotone
<1>5. guess2 \in Int
  BY <1>1, <1>3, <1>4
<1> QED
  BY <1>1, <1>3, <1>5 DEF utcInstantForLocalWallTime

\* Nothing is found only for the hour that the clock leaves out in spring.
LEMMA NothingInGap ==
  ASSUME TimerAssumption, NEW date \in Int, NEW h \in Int,
         utcInstantForLocalWallTime(date, h) = NoTime
  PROVE  /\ 24 * date + h = 24 * SpringDay + 2
         /\ \A t \in Int : localParts(t) # 24 * date + h
<1> DEFINE wall == 24 * date + h
           guess1 == wall + (wall - localParts(wall))
           guess2 == guess1 + (wall - localParts(guess1))
<1>1. wall \in Int /\ localParts(wall) \in Int /\ localParts(wall) = wall + Offset(wall)
  BY Offsets, LocalMonotone
<1>2. guess1 \in Int /\ localParts(guess1) \in Int /\ localParts(guess1) = guess1 + Offset(guess1)
  <2>1. guess1 \in Int
    BY <1>1
  <2> QED
    BY <2>1, Offsets, LocalMonotone
<1>3. guess2 \in Int /\ localParts(guess2) = guess2 + Offset(guess2)
  <2>1. guess2 \in Int
    BY <1>1, <1>2
  <2> QED
    BY <2>1, Offsets
<1>4. localParts(guess1) # wall /\ localParts(guess2) # wall
  <2>1. NoTime \notin Int
    BY TimerConstants
  <2> QED
    BY <1>1, <1>2, <1>3, <2>1 DEF utcInstantForLocalWallTime
<1>5. guess1 = wall - Offset(wall) /\ guess2 = wall - Offset(guess1)
  BY <1>1, <1>2, Offsets
<1> HIDE DEF wall, guess1, guess2
<1>6. wall = 24 * SpringDay + 2
  BY <1>1, <1>2, <1>3, <1>4, <1>5, Offsets, TimerConstants
<1>7. ASSUME NEW t \in Int
      PROVE  localParts(t) # wall
  BY <1>6, Offsets, TimerConstants
<1> QED
  BY <1>6, <1>7 DEF wall

-----------------------------------------------------------------------------
(* The next run *)

\* The date the next run is sought for.
NextDate(from, h) == IF LocalHour(from) >= h THEN LocalDate(from) + 1 ELSE LocalDate(from)

LEMMA NextDateIs ==
  ASSUME TimerAssumption, NEW from \in Int, NEW h \in 0..23
  PROVE  /\ NextDate(from, h) \in Int
         /\ nextDailyRunAt(from, h) = utcInstantForLocalWallTime(NextDate(from, h), h)
         /\ localParts(from) < 24 * NextDate(from, h) + h
         /\ 24 * NextDate(from, h) + h <= localParts(from) + 24
BY LocalTime DEF NextDate, nextDailyRunAt

\* The next run is later than the moment asked about, at the hour, and no hour of
\* the name lies between that the zone's clock strikes for the first time.
LEMMA NextRun ==
  ASSUME TimerAssumption, NEW from \in Int, NEW h \in 0..23,
         NEW u, u = nextDailyRunAt(from, h), u # NoTime
  PROVE  /\ u \in Int /\ from < u
         /\ LocalHour(u) = h /\ LocalDate(u) = NextDate(from, h)
         /\ localParts(u) = 24 * NextDate(from, h) + h
         /\ \A t \in (from + 1)..(u - 1) :
              LocalHour(t) = h => localParts(t) \in {localParts(u), localParts(from)}
<1> DEFINE date == NextDate(from, h)
<1>1. /\ date \in Int /\ u = utcInstantForLocalWallTime(date, h)
      /\ localParts(from) < 24 * date + h /\ 24 * date + h <= localParts(from) + 24
  BY NextDateIs
<1> HIDE DEF date
<1>2. u \in Int /\ localParts(u) = 24 * date + h
  BY <1>1, InstantReadsBack
<1>3. LocalHour(u) = h /\ LocalDate(u) = date
  <2>1. /\ LocalDate(u) \in Int /\ LocalHour(u) \in 0..23
        /\ localParts(u) = 24 * LocalDate(u) + LocalHour(u)
    BY <1>2, LocalTime
  <2>2. 24 * LocalDate(u) + LocalHour(u) = 24 * date + h
    BY <1>2, <2>1
  <2>3. date \in Int
    BY <1>1
  <2>4. ASSUME NEW a \in Int, NEW g \in 0..23, 24 * a + g = 24 * date + h
        PROVE  a = date /\ g = h
    BY <2>3, <2>4, OneDateAndHour
  <2> QED
    BY <2>1, <2>2, <2>4, Zenon
<1>4. from < u
  BY <1>1, <1>2, LocalMonotone
<1>5. ASSUME NEW t \in (from + 1)..(u - 1), LocalHour(t) = h
      PROVE  localParts(t) \in {localParts(u), localParts(from)}
  <2>1. t \in Int /\ from <= t /\ t <= u
    BY <1>2, <1>5
  <2>2. localParts(from) <= localParts(t) /\ localParts(t) <= localParts(u)
    BY <1>2, <2>1, LocalMonotone
  <2>3. localParts(t) = 24 * LocalDate(t) + h /\ LocalDate(t) \in Int
    BY <1>5, <2>1, LocalTime
  <2>4. localParts(from) \in Int
    BY LocalTime
  <2> QED
    BY <1>1, <1>2, <2>2, <2>3, <2>4
<1> QED
  BY <1>2, <1>3, <1>4, <1>5 DEF date

-----------------------------------------------------------------------------
(* The invariant *)

Up == proc \in {"waiting", "running"}

TimerTyped ==
  /\ TimerTypeOK
  /\ upSince <= now /\ armedAt <= now /\ runFrom <= now

\* A job has started only for dates whose hour has come.
StartedInPast ==
  \A d \in 0..Days : started[d] <= 1 /\ (started[d] > 0 => 24 * d + hour <= localParts(now))

\* The pending timeout is the answer for the moment it was set at.
ArmedRight ==
  /\ Up => at = nextDailyRunAt(armedAt, hour) /\ at # NoTime /\ upSince <= armedAt
  /\ proc = "failed" => nextDailyRunAt(armedAt, hour) = NoTime

WaitingRight ==
  proc = "waiting" => /\ now <= at + MaxLate
                      /\ \A d \in 0..Days : started[d] > 0 => d < LocalDate(at)

RunningRight ==
  proc = "running" => /\ at <= runFrom /\ runFrom <= at + MaxLate /\ now <= runFrom + MaxRun
                      /\ started[LocalDate(at)] > 0

\* Every night up to the moment the timeout was set has had its job.
Covered ==
  Up => \A t \in (upSince + 1)..armedAt :
          LocalHour(t) = hour /\ localParts(t - 1) # localParts(t) => started[LocalDate(t)] > 0

TimerInv ==
  TimerTyped /\ StartedInPast /\ ArmedRight /\ WaitingRight /\ RunningRight /\ Covered

-----------------------------------------------------------------------------
(* The steps *)

\* A moment the clock has shown lies on one of the dates that are counted.
LEMMA DateCounted ==
  ASSUME TimerAssumption, TimerTyped, NEW t \in 0..now
  PROVE  LocalDate(t) \in 0..Days
<1>1. t \in Int /\ 0 <= t /\ t < 24 * Days
  BY TimerConstants DEF TimerTyped, TimerTypeOK, Clock
<1>2. /\ localParts(t) \in 1..(24 * Days + 1)
  BY <1>1, Offsets, TimerConstants
<1>3. /\ LocalDate(t) \in Int /\ LocalHour(t) \in 0..23
      /\ localParts(t) = 24 * LocalDate(t) + LocalHour(t)
  BY <1>1, LocalTime
<1> QED
  BY <1>2, <1>3, TimerConstants

\* What the timer is armed for, whichever step set the timeout.
LEMMA ArmedFacts ==
  ASSUME TimerAssumption, TimerTyped, ArmedRight, Up
  PROVE  /\ at \in Int /\ armedAt < at /\ hour \in 0..23 /\ armedAt \in Nat
         /\ LocalHour(at) = hour /\ LocalDate(at) = NextDate(armedAt, hour)
         /\ localParts(at) = 24 * LocalDate(at) + hour
         /\ \A t \in (armedAt + 1)..(at - 1) :
              LocalHour(t) = hour => localParts(t) \in {localParts(at), localParts(armedAt)}
<1>1. armedAt \in Int /\ armedAt \in Nat /\ hour \in 0..23
  BY TimerConstants DEF TimerTyped, TimerTypeOK, Clock
<1> QED
  BY <1>1, NextRun DEF ArmedRight

\* The next run is on a date for which no job has started.
LEMMA ArmsForNewDate ==
  ASSUME TimerAssumption, TimerTyped, StartedInPast, NEW d \in 0..Days, started[d] > 0
  PROVE  d < NextDate(now, hour)
<1>1. now \in Int /\ hour \in 0..23 /\ d \in Int
  BY TimerConstants DEF TimerTyped, TimerTypeOK, Clock
<1>2. 24 * d + hour <= localParts(now)
  BY DEF StartedInPast
<1>3. localParts(now) < 24 * NextDate(now, hour) + hour /\ NextDate(now, hour) \in Int
  BY <1>1, NextDateIs
<1>4. localParts(now) \in Int
  BY <1>1, LocalTime
<1> QED
  BY <1>1, <1>2, <1>3, <1>4

\* Setting the timeout, at the start or after a job, once every night so far is covered.
LEMMA ScheduleStep ==
  ASSUME TimerAssumption, TimerInv, scheduleNext,
         UNCHANGED <<now, hour, runFrom, started, crashes>>,
         upSince' \in Clock, upSince' <= now,
         \A t \in (upSince' + 1)..now :
           LocalHour(t) = hour /\ localParts(t - 1) # localParts(t) => started[LocalDate(t)] > 0
  PROVE  TimerInv'
<1> USE DEF TimerInv
<1> DEFINE coming == nextDailyRunAt(now, hour)
<1>1. /\ at' = coming /\ armedAt' = now
      /\ proc' = IF coming = NoTime THEN "failed" ELSE "waiting"
  BY DEF scheduleNext
<1>2. now \in Int /\ hour \in 0..23 /\ MaxLate \in Nat /\ now \in Clock
  <2>1. now \in Clock /\ hour \in Hours
    BY DEF TimerTyped, TimerTypeOK
  <2>2. now \in Int
    BY <2>1, TimerConstants DEF Clock
  <2> QED
    BY <2>1, <2>2, TimerConstants
<1>3. coming # NoTime => coming \in Int /\ now < coming /\ LocalDate(coming) = NextDate(now, hour)
  BY <1>2, NextRun
<1>4. TimerTyped'
  BY <1>1, <1>2, <1>3 DEF TimerTyped, TimerTypeOK, Clock
<1>5. StartedInPast'
  BY DEF StartedInPast
<1>6. ArmedRight'
  BY <1>1 DEF ArmedRight, Up
<1>7. WaitingRight' /\ RunningRight'
  BY <1>1, <1>2, <1>3, ArmsForNewDate DEF WaitingRight, RunningRight
<1>8. Covered'
  BY <1>1 DEF Covered
<1> QED
  BY <1>4, <1>5, <1>6, <1>7, <1>8

\* A process that is not up has no timeout to be right about.
LEMMA DownStep ==
  ASSUME TimerInv, TimerTyped', UNCHANGED <<now, hour, started>>,
         proc' \in {"down", "stopping", "stopped"}
  PROVE  TimerInv'
BY DEF TimerInv, StartedInPast, ArmedRight, WaitingRight, RunningRight, Covered, Up

LEMMA StartStep ==
  ASSUME TimerAssumption, TimerInv, startDailyTimer
  PROVE  TimerInv'
<1>1. /\ upSince' = now /\ scheduleNext /\ UNCHANGED <<now, hour, runFrom, started, crashes>>
      /\ now \in Int /\ now \in Clock
  BY DEF startDailyTimer, TimerInv, TimerTyped, TimerTypeOK, Clock
<1>2. (upSince' + 1)..now = {}
  BY <1>1
<1> QED
  BY <1>1, <1>2, ScheduleStep

LEMMA TickStep ==
  ASSUME TimerAssumption, TimerInv, tick
  PROVE  TimerInv'
<1> USE DEF TimerInv
<1>1. /\ proc = "waiting" /\ Up /\ at <= now /\ proc' = "running" /\ runFrom' = now
      /\ started' = [started EXCEPT ![LocalDate(at)] = @ + 1]
      /\ UNCHANGED <<now, hour, upSince, armedAt, at, crashes>>
  BY DEF tick, Up
<1>2. /\ at \in Int /\ armedAt < at /\ armedAt \in Nat /\ now \in Int /\ hour \in 0..23
      /\ localParts(at) = 24 * LocalDate(at) + hour /\ MaxRun \in Nat
  BY <1>1, ArmedFacts, TimerConstants DEF TimerTyped, TimerTypeOK, Clock
<1> DEFINE date == LocalDate(at)
<1>3. date \in 0..Days
  BY <1>1, <1>2, DateCounted
<1>4. /\ started \in [0..Days -> Nat] /\ started' \in [0..Days -> Nat]
      /\ started[date] = 0 /\ started'[date] = 1
      /\ \A d \in 0..Days \ {date} : started'[d] = started[d]
  <2>1. started \in [0..Days -> Nat]
    BY DEF TimerTyped, TimerTypeOK
  <2>2. ~(started[date] > 0)
    BY <1>1, <1>3 DEF WaitingRight
  <2> QED
    BY <1>1, <1>3, <2>1, <2>2
<1>5. localParts(at) <= localParts(now)
  BY <1>1, <1>2, LocalMonotone
<1> HIDE DEF date
<1>6. TimerTyped'
  BY <1>1, <1>2, <1>4 DEF TimerTyped, TimerTypeOK
<1>7. StartedInPast'
  BY <1>1, <1>2, <1>3, <1>4, <1>5 DEF StartedInPast, date
<1>8. ArmedRight'
  BY <1>1 DEF ArmedRight, Up
<1>9. WaitingRight' /\ RunningRight'
  BY <1>1, <1>2, <1>4 DEF WaitingRight, RunningRight, date
<1>10. Covered'
  <2> SUFFICES ASSUME NEW t \in (upSince + 1)..armedAt, LocalHour(t) = hour,
                      localParts(t - 1) # localParts(t)
               PROVE  started'[LocalDate(t)] > 0
    BY <1>1 DEF Covered
  <2>1. started[LocalDate(t)] > 0
    BY <1>1 DEF Covered
  <2>2. LocalDate(t) \in 0..Days
    <3>1. t \in 0..now
      BY <1>2 DEF TimerTyped, TimerTypeOK, Clock
    <3> QED
      BY <3>1, DateCounted
  <2> QED
    BY <1>4, <2>1, <2>2
<1> QED
  BY <1>6, <1>7, <1>8, <1>9, <1>10

\* Until the job has ended, every night but the one it runs for is covered, and a
\* short job ends before the next night comes.
LEMMA RunEndsStep ==
  ASSUME TimerAssumption, MaxLate + MaxRun < 23, TimerInv, runEnds
  PROVE  TimerInv'
<1> USE DEF TimerInv
<1>1. /\ proc = "running" /\ Up /\ scheduleNext
      /\ UNCHANGED <<now, hour, upSince, runFrom, started, crashes>>
  BY DEF runEnds, Up
<1>2. /\ at \in Int /\ armedAt < at /\ armedAt \in Nat /\ hour \in 0..23
      /\ now \in Nat /\ upSince \in Clock /\ upSince \in Nat /\ upSince <= now
      /\ runFrom \in Nat /\ MaxLate \in Nat /\ MaxRun \in Nat
  BY <1>1, ArmedFacts, TimerConstants DEF TimerTyped, TimerTypeOK, Clock
<1>3. /\ at <= runFrom /\ runFrom <= at + MaxLate /\ now <= runFrom + MaxRun
      /\ started[LocalDate(at)] > 0
  BY <1>1 DEF RunningRight
<1>4. ASSUME NEW t \in (upSince + 1)..now, LocalHour(t) = hour,
             localParts(t - 1) # localParts(t)
      PROVE  started[LocalDate(t)] > 0
  <2>1. t \in Int /\ t - 1 \in Int /\ t - 1 <= t
    BY <1>2
  <2>2. localParts(t) = 24 * LocalDate(t) + hour /\ LocalDate(t) \in Int
    BY <1>4, <2>1, LocalTime
  <2>3. localParts(at) = 24 * LocalDate(at) + hour /\ LocalDate(at) \in Int
    BY <1>1, <1>2, ArmedFacts, LocalTime
  <2>4. localParts(t) = localParts(at) => LocalDate(t) = LocalDate(at)
    BY <1>2, <2>2, <2>3, OneDateAndHour
  <2>5. CASE t <= armedAt
    BY <1>1, <1>2, <1>4, <2>5 DEF Covered
  <2>6. CASE armedAt < t /\ t < at
    <3>1. localParts(t) \in {localParts(at), localParts(armedAt)}
      BY <1>1, <1>2, <1>4, <2>1, <2>6, ArmedFacts
    <3>2. localParts(armedAt) <= localParts(t - 1) /\ localParts(t - 1) <= localParts(t)
          /\ localParts(armedAt) \in Int /\ localParts(t - 1) \in Int /\ localParts(t) \in Int
      BY <1>2, <2>1, <2>6, LocalMonotone
    <3>3. localParts(t) = localParts(at)
      BY <1>4, <3>1, <3>2
    <3> QED
      BY <1>3, <2>4, <3>3
  <2>7. CASE at <= t
    <3>1. t - at < 23
      BY <1>2, <1>3, <1>4, <2>7
    <3>2. localParts(at) <= localParts(t) /\ localParts(t) - localParts(at) <= t - at + 1
      BY <1>2, <2>1, <2>7, LocalMonotone
    <3>3. /\ 24 * LocalDate(at) + hour <= 24 * LocalDate(t) + hour
          /\ (24 * LocalDate(t) + hour) - (24 * LocalDate(at) + hour) < 24
      <4>1. localParts(t) - localParts(at) < 24 /\ localParts(at) <= localParts(t)
        <5>1. localParts(t) \in Int /\ localParts(at) \in Int
          BY <1>2, <2>1, LocalTime
        <5> QED
          BY <1>2, <2>1, <3>1, <3>2, <5>1
      <4> QED
        BY <2>2, <2>3, <4>1
    <3>4. LocalDate(t) = LocalDate(at)
      BY <1>2, <2>2, <2>3, <3>3, LessThanADay
    <3> QED
      BY <1>3, <3>4
  <2> QED
    BY <1>2, <2>1, <2>5, <2>6, <2>7
<1> QED
  BY <1>1, <1>2, <1>4, ScheduleStep

LEMMA HourStep ==
  ASSUME TimerAssumption, TimerInv, hourPasses
  PROVE  TimerInv'
<1> USE DEF TimerInv
<1>1. /\ now + 1 \in Clock /\ now' = now + 1
      /\ UNCHANGED <<hour, proc, upSince, armedAt, at, runFrom, started, crashes>>
      /\ proc = "waiting" => now < at + MaxLate
      /\ proc = "running" => now < runFrom + MaxRun
  BY DEF hourPasses
<1>2. now \in Nat /\ runFrom \in Nat /\ upSince \in Nat /\ armedAt \in Nat /\ hour \in 0..23
      /\ MaxLate \in Nat /\ MaxRun \in Nat
  BY TimerConstants DEF TimerTyped, TimerTypeOK, Clock
<1>3. TimerTyped'
  BY <1>1, <1>2 DEF TimerTyped, TimerTypeOK
<1>4. StartedInPast'
  <2>1. /\ localParts(now) <= localParts(now + 1) /\ localParts(now) \in Int
        /\ localParts(now + 1) \in Int
    BY <1>2, LocalMonotone
  <2>2. localParts(now)' = localParts(now + 1)
    BY <1>1 DEF localParts, Offset
  <2> QED
    BY <1>1, <1>2, <2>1, <2>2 DEF StartedInPast
<1>5. ArmedRight' /\ Covered'
  BY <1>1 DEF ArmedRight, Covered, Up
<1>6. WaitingRight'
  <2>1. proc = "waiting" => at \in Int
    BY ArmedFacts DEF Up
  <2> QED
    BY <1>1, <1>2, <2>1 DEF WaitingRight
<1>7. RunningRight'
  BY <1>1, <1>2 DEF RunningRight
<1> QED
  BY <1>3, <1>4, <1>5, <1>6, <1>7

LEMMA TimerStep ==
  ASSUME TimerAssumption, MaxLate + MaxRun < 23
  PROVE  TimerInv /\ [TimerNext]_timerVars => TimerInv'
<1> SUFFICES ASSUME TimerInv, [TimerNext]_timerVars
             PROVE  TimerInv'
  OBVIOUS
<1>1. CASE UNCHANGED timerVars
  BY <1>1 DEF timerVars, TimerInv, TimerTyped, TimerTypeOK, StartedInPast, ArmedRight,
              WaitingRight, RunningRight, Covered, Up
<1>2. CASE stop \/ stoppedRunEnds \/ processEnds
  <2>1. /\ UNCHANGED <<now, hour, upSince, armedAt, runFrom, started>>
        /\ proc' \in {"down", "stopping", "stopped"}
        /\ at' \in {at, NoTime}
        /\ crashes' \in 0..MaxCrashes
    BY <1>2, TimerConstants
       DEF stop, stoppedRunEnds, processEnds, TimerInv, TimerTyped, TimerTypeOK
  <2>2. TimerTyped'
    BY <2>1 DEF TimerInv, TimerTyped, TimerTypeOK
  <2> QED
    BY <2>1, <2>2, DownStep
<1> QED
  BY <1>1, <1>2, StartStep, TickStep, RunEndsStep, HourStep DEF TimerNext

-----------------------------------------------------------------------------
(* What the invariant says of the nights *)

LEMMA TimerStarts ==
  ASSUME TimerAssumption, TimerInit
  PROVE  TimerInv
<1>1. /\ now = 0 /\ upSince = 0 /\ armedAt = 0 /\ runFrom = 0 /\ hour \in Hours
      /\ proc = "down" /\ at = NoTime /\ started = [d \in 0..Days |-> 0] /\ crashes = 0
  BY DEF TimerInit
<1>2. 0 \in Clock /\ 0 \in 0..MaxCrashes
  BY TimerConstants DEF Clock
<1>3. TimerTyped
  BY <1>1, <1>2 DEF TimerTyped, TimerTypeOK
<1>4. StartedInPast /\ ArmedRight /\ WaitingRight /\ RunningRight /\ Covered
  BY <1>1 DEF StartedInPast, ArmedRight, WaitingRight, RunningRight, Covered, Up
<1> QED
  BY <1>3, <1>4 DEF TimerInv

\* Two moments the zone's clock shows the same for are an hour apart at most.
LEMMA SameLocalTime ==
  ASSUME TimerAssumption, NEW t \in Int, NEW u \in Int, localParts(t) = localParts(u)
  PROVE  u - t <= 1
BY Offsets

LEMMA NoNightPassed ==
  ASSUME TimerAssumption, MaxRun >= 1, TimerInv
  PROVE  NoNightSkipped
<1> USE DEF TimerInv
<1> SUFFICES ASSUME Up, NEW t \in (upSince + 1)..(now - MaxLate - MaxRun - 1),
                    LocalHour(t) = hour, localParts(t - 1) # localParts(t)
             PROVE  started[LocalDate(t)] > 0
  BY DEF NoNightSkipped, Up
<1>1. /\ at \in Int /\ armedAt < at /\ armedAt \in Nat /\ hour \in 0..23
      /\ now \in Nat /\ upSince \in Nat /\ MaxLate \in Nat /\ MaxRun \in Nat
  BY ArmedFacts, TimerConstants DEF TimerTyped, TimerTypeOK, Clock
<1>2. t \in Int /\ t - 1 \in Int /\ upSince + 1 <= t /\ t <= now - MaxLate - MaxRun - 1
  BY <1>1
<1>3. CASE t <= armedAt
  BY <1>1, <1>2, <1>3 DEF Covered
<1>4. CASE armedAt < t
  <2>1. /\ proc = "waiting" => now <= at + MaxLate
        /\ proc = "running" => /\ at <= runFrom /\ runFrom <= at + MaxLate
                               /\ now <= runFrom + MaxRun /\ started[LocalDate(at)] > 0
        /\ runFrom \in Nat
    BY DEF WaitingRight, RunningRight, TimerTyped, TimerTypeOK, Clock
  <2>2. proc \in {"waiting", "running"}
    BY DEF Up
  <2>3. t < at /\ (proc = "waiting" => t < at - 1)
    BY <1>1, <1>2, <2>1, <2>2
  <2>4. localParts(t) \in {localParts(at), localParts(armedAt)}
    BY <1>1, <1>2, <1>4, <2>3, ArmedFacts
  <2>5. localParts(armedAt) <= localParts(t - 1) /\ localParts(t - 1) <= localParts(t)
        /\ localParts(armedAt) \in Int /\ localParts(t - 1) \in Int /\ localParts(t) \in Int
    <3>1. armedAt \in Int /\ armedAt <= t - 1 /\ t - 1 <= t
      BY <1>1, <1>2, <1>4
    <3>2. localParts(armedAt) <= localParts(t - 1) /\ localParts(armedAt) \in Int
          /\ localParts(t - 1) \in Int
      BY <1>2, <3>1, LocalMonotone
    <3>3. localParts(t - 1) <= localParts(t) /\ localParts(t) \in Int
      BY <1>2, <3>1, LocalMonotone
    <3> QED
      BY <3>2, <3>3
  <2>6. localParts(t) = localParts(at)
    BY <2>4, <2>5
  <2>7. proc = "running"
    <3>1. at - t <= 1
      BY <1>1, <1>2, <2>6, SameLocalTime
    <3> QED
      BY <1>1, <1>2, <2>2, <2>3, <3>1
  <2>8. LocalDate(t) = LocalDate(at)
    BY <2>6 DEF LocalDate
  <2> QED
    BY <2>1, <2>7, <2>8
<1> QED
  BY <1>1, <1>2, <1>3, <1>4

LEMMA ArmedNext ==
  ASSUME TimerAssumption, TimerInv
  PROVE  ArmedForNext
<1> SUFFICES ASSUME proc = "waiting"
             PROVE  /\ LocalHour(at) = hour /\ armedAt <= at
                    /\ \A t \in (armedAt + 1)..(at - 1) :
                         LocalHour(t) = hour =>
                           localParts(t) \in {localParts(at), localParts(armedAt)}
  BY DEF ArmedForNext
<1> QED
  BY ArmedFacts DEF TimerInv, Up

LEMMA FailsInGap ==
  ASSUME TimerAssumption, TimerInv
  PROVE  FailsOnlyInGap
<1> SUFFICES ASSUME proc = "failed"
             PROVE  /\ hour # 3
                    /\ \A t \in armedAt..(armedAt + 48) :
                         LocalHour(t) = hour =>
                           \/ LocalDate(t) = LocalDate(armedAt) /\ LocalHour(armedAt) >= hour
                           \/ LocalDate(t) > LocalDate(armedAt)
                                + (IF LocalHour(armedAt) >= hour THEN 1 ELSE 0)
  BY DEF FailsOnlyInGap
<1>1. nextDailyRunAt(armedAt, hour) = NoTime
  BY DEF TimerInv, ArmedRight
<1>2. armedAt \in Int /\ hour \in 0..23
  BY TimerConstants DEF TimerInv, TimerTyped, TimerTypeOK, Clock
<1> DEFINE date == NextDate(armedAt, hour)
<1>3. date \in Int /\ utcInstantForLocalWallTime(date, hour) = NoTime
  BY <1>1, <1>2, NextDateIs
<1>4. /\ 24 * date + hour = 24 * SpringDay + 2
      /\ \A t \in Int : localParts(t) # 24 * date + hour
  BY <1>2, <1>3, NothingInGap
<1>5. hour = 2
  <2>1. SpringDay \in Int /\ 2 \in 0..23
    BY TimerConstants
  <2> QED
    BY <1>2, <1>3, <1>4, <2>1, OneDateAndHour
<1>6. ASSUME NEW t \in armedAt..(armedAt + 48), LocalHour(t) = hour
      PROVE  \/ LocalDate(t) = LocalDate(armedAt) /\ LocalHour(armedAt) >= hour
             \/ LocalDate(t) > LocalDate(armedAt)
                  + (IF LocalHour(armedAt) >= hour THEN 1 ELSE 0)
  <2>1. t \in Int /\ armedAt <= t
    BY <1>2
  <2>2. /\ localParts(t) = 24 * LocalDate(t) + hour /\ LocalDate(t) \in Int
        /\ localParts(armedAt) = 24 * LocalDate(armedAt) + LocalHour(armedAt)
        /\ LocalDate(armedAt) \in Int /\ LocalHour(armedAt) \in 0..23
        /\ localParts(armedAt) <= localParts(t)
    BY <1>2, <1>6, <2>1, LocalTime, LocalMonotone
  <2>3. LocalDate(t) # date
    BY <1>4, <2>1, <2>2
  <2>4. date = IF LocalHour(armedAt) >= hour THEN LocalDate(armedAt) + 1 ELSE LocalDate(armedAt)
    BY DEF NextDate
  <2> HIDE DEF date
  <2>5. 24 * LocalDate(armedAt) + LocalHour(armedAt) <= 24 * LocalDate(t) + hour
    BY <2>2
  <2>6. CASE LocalHour(armedAt) >= hour
    <3>1. LocalDate(t) # LocalDate(armedAt) + 1
      BY <2>3, <2>4, <2>6
    <3>2. LocalDate(t) >= LocalDate(armedAt)
      BY <1>2, <2>2, <2>5, <2>6
    <3>3. LocalDate(t) = LocalDate(armedAt) \/ LocalDate(t) > LocalDate(armedAt) + 1
      BY <2>2, <3>1, <3>2
    <3> QED
      BY <2>6, <3>3
  <2>7. CASE LocalHour(armedAt) < hour
    BY <1>2, <2>2, <2>3, <2>4, <2>5, <2>7
  <2> QED
    BY <1>2, <2>2, <2>6, <2>7
<1> QED
  BY <1>5, <1>6

-----------------------------------------------------------------------------
\* The nightly job of billing and of auth (shared/cron) starts once at most for a
\* local date and passes over no night while its process stays up, on a clock of
\* any length, whichever days the zone's clock is changed on, wherever the process
\* ends. A late timeout and the job it starts are over within twenty-three hours.
THEOREM NightlyOnceHolds ==
  ASSUME TimerAssumption, MaxRun >= 1, MaxLate + MaxRun < 23
  PROVE  TimerSpec => [](TimerTypeOK /\ NightlyOnce)
<1>1. TimerInit => TimerInv
  BY TimerStarts
<1>2. TimerInv /\ [TimerNext]_timerVars => TimerInv'
  BY TimerStep
<1>3. TimerInv => TimerTypeOK /\ NightlyOnce
  <2> SUFFICES ASSUME TimerInv
               PROVE  TimerTypeOK /\ NightlyOnce
    OBVIOUS
  <2>1. OncePerDate
    BY DEF OncePerDate, TimerInv, StartedInPast
  <2> QED
    BY <2>1, NoNightPassed, ArmedNext, FailsInGap DEF NightlyOnce, TimerInv, TimerTyped
<1> QED
  BY <1>1, <1>2, <1>3, PTL DEF TimerSpec

-----------------------------------------------------------------------------
(* Recurring invoices. An interval ahead lies the same day of the month,   *)
(* or the last one if that month is shorter.                               *)

Clamped(day, d) == IF day <= LastDay(d[1], d[2]) THEN day ELSE LastDay(d[1], d[2])
Month(d) == 12 * d[1] + d[2]

\* The smaller of two numbers, as advanceByInterval takes it.
LEMMA LeastOf ==
  ASSUME NEW S \in SUBSET Int, NEW x \in S, \A y \in S : x <= y
  PROVE  Min(S) = x
<1>1. \A z \in S : (\A y \in S : z <= y) => z = x
  <2>1. SUFFICES ASSUME NEW z \in S, \A y \in S : z <= y PROVE z = x
    OBVIOUS
  <2>2. z <= x /\ x <= z /\ z \in Int /\ x \in Int
    BY <2>1
  <2> QED
    BY <2>2
<1> QED
  BY <1>1 DEF Min

LEMMA LastDayRange ==
  ASSUME NEW y \in Nat, NEW m \in 1..12
  PROVE  LastDay(y, m) \in 28..31
BY DEF LastDay

LEMMA RealParts ==
  ASSUME NEW d \in RealDate
  PROVE  /\ d[1] \in Nat /\ d[2] \in 1..12 /\ d[3] \in 1..31 /\ d[3] <= LastDay(d[1], d[2])
         /\ LastDay(d[1], d[2]) \in 28..31 /\ d = <<d[1], d[2], d[3]>>
<1>1. d[1] \in Nat /\ d[2] \in 1..12 /\ d[3] \in 1..31 /\ d[3] <= LastDay(d[1], d[2])
      /\ d = <<d[1], d[2], d[3]>>
  BY DEF RealDate
<1> QED
  BY <1>1, LastDayRange

LEMMA RealFrom ==
  ASSUME NEW y \in Nat, NEW m \in 1..12, NEW n \in 1..31, n <= LastDay(y, m)
  PROVE  <<y, m, n>> \in RealDate
<1>1. <<y, m, n>> \in Nat \X (1..12) \X (1..31)
  OBVIOUS
<1> QED
  BY <1>1 DEF RealDate

\* Of two dates, the one in a later month is not before the other.
LEMMA LaterMonth ==
  ASSUME NEW d \in RealDate, NEW e \in RealDate, Month(d) < Month(e)
  PROVE  ~Before(e, d)
<1>1. /\ d[1] \in Nat /\ d[2] \in 1..12 /\ d[3] \in 1..31
      /\ e[1] \in Nat /\ e[2] \in 1..12 /\ e[3] \in 1..31
  BY RealParts
<1>2. PICK y, m, n : y = d[1] /\ m = d[2] /\ n = d[3]
  OBVIOUS
<1>3. PICK z, p, q : z = e[1] /\ p = e[2] /\ q = e[3]
  OBVIOUS
<1>4. 12 * y + m < 12 * z + p
  BY <1>2, <1>3 DEF Month
<1>5. ~(372 * z + 31 * p + q < 372 * y + 31 * m + n)
  <2>1. y \in Nat /\ m \in 1..12 /\ n \in 1..31
    BY <1>1, <1>2
  <2>2. z \in Nat /\ p \in 1..12 /\ q \in 1..31
    BY <1>1, <1>3
  <2> QED
    BY <2>1, <2>2, <1>4
<1> QED
  BY <1>2, <1>3, <1>5 DEF Before

Steps == {1, 3, 12}

LEMMA StepOf ==
  ASSUME NEW i \in DOMAIN MONTHS_PER_INTERVAL
  PROVE  MONTHS_PER_INTERVAL[i] \in Steps
BY DEF MONTHS_PER_INTERVAL, Steps

LEMMA Advanced ==
  ASSUME NEW d \in RealDate, NEW i \in DOMAIN MONTHS_PER_INTERVAL, NEW day \in 1..31,
         NEW e, e = advanceByInterval(d, i, day)
  PROVE  /\ e \in RealDate /\ e[3] = Clamped(day, e) /\ ~Before(e, d)
         /\ Month(e) = Month(d) + MONTHS_PER_INTERVAL[i]
<1>1. MONTHS_PER_INTERVAL[i] \in Steps
  BY StepOf
<1>2. d[1] \in Nat /\ d[2] \in 1..12
  BY RealParts
<1>3. PICK y, m : /\ y = d[1] + (d[2] - 1 + MONTHS_PER_INTERVAL[i]) \div 12
                  /\ m = ((d[2] - 1 + MONTHS_PER_INTERVAL[i]) % 12) + 1
  OBVIOUS
<1>a. PICK yr, mo, step : yr = d[1] /\ mo = d[2] /\ step = MONTHS_PER_INTERVAL[i]
  OBVIOUS
<1>b. yr \in Nat /\ mo \in 1..12 /\ step \in Steps
  BY <1>1, <1>2, <1>a
<1>c. y = yr + (mo - 1 + step) \div 12 /\ m = ((mo - 1 + step) % 12) + 1
  BY <1>3, <1>a
<1>d. y \in Nat /\ m \in 1..12 /\ 12 * y + m = 12 * yr + mo + step
  <2>1. CASE step = 1
    BY <1>b, <1>c, <2>1
  <2>2. CASE step = 3
    BY <1>b, <1>c, <2>2
  <2>3. CASE step = 12
    BY <1>b, <1>c, <2>3
  <2> QED
    BY <1>b, <2>1, <2>2, <2>3 DEF Steps
<1>4. /\ y \in Nat /\ m \in 1..12
      /\ 12 * y + m = 12 * d[1] + d[2] + MONTHS_PER_INTERVAL[i]
  BY <1>a, <1>d
<1>5. PICK last : last = LastDay(y, m)
  OBVIOUS
<1>6. last \in 28..31
  BY <1>4, <1>5, LastDayRange
<1>7. PICK n : n = Min({day, last})
  OBVIOUS
<1>8. n = IF day <= last THEN day ELSE last
  <2>1. {day, last} \in SUBSET Int /\ day \in Int /\ last \in Int
    BY <1>6
  <2>2. CASE day <= last
    <3>1. \A z \in {day, last} : day <= z
      BY <2>1, <2>2
    <3> QED
      BY <1>7, <2>1, <2>2, <3>1, LeastOf
  <2>3. CASE ~(day <= last)
    <3>1. \A z \in {day, last} : last <= z
      BY <2>1, <2>3
    <3> QED
      BY <1>7, <2>1, <2>3, <3>1, LeastOf
  <2> QED
    BY <2>2, <2>3
<1>9. e = <<y, m, n>>
  BY <1>3, <1>5, <1>7 DEF advanceByInterval
<1>10. e[1] = y /\ e[2] = m /\ e[3] = n
  BY <1>9
<1>11. n \in 1..31 /\ n <= last
  BY <1>6, <1>8
<1>12. e \in RealDate
  BY <1>4, <1>5, <1>9, <1>11, RealFrom
<1>13. e[3] = Clamped(day, e)
  BY <1>5, <1>8, <1>10 DEF Clamped
<1>14. Month(e) = Month(d) + MONTHS_PER_INTERVAL[i]
  BY <1>4, <1>10 DEF Month
<1>15. Month(d) < Month(e)
  BY <1>1, <1>2, <1>14 DEF Month, Steps
<1> QED
  BY <1>12, <1>13, <1>14, <1>15, LaterMonth

LEMMA TheDayAfter ==
  ASSUME NEW d \in RealDate
  PROVE  addDay(d) \in RealDate
<1>1. /\ d[1] \in Nat /\ d[2] \in 1..12 /\ d[3] \in 1..31 /\ d[3] <= LastDay(d[1], d[2])
      /\ LastDay(d[1], d[2]) \in 28..31
  BY RealParts
<1>2. CASE d[3] < LastDay(d[1], d[2])
  <2>1. d[3] + 1 \in 1..31 /\ d[3] + 1 <= LastDay(d[1], d[2])
    BY <1>1, <1>2
  <2> QED
    BY <1>1, <1>2, <2>1, RealFrom DEF addDay
<1>3. CASE ~(d[3] < LastDay(d[1], d[2])) /\ d[2] < 12
  <2>1. PICK y, m, n : y = d[1] /\ m = d[2] + 1 /\ n = 1
    OBVIOUS
  <2>2. y \in Nat /\ m \in 1..12 /\ n \in 1..31
    BY <1>1, <1>3, <2>1
  <2>3. LastDay(y, m) \in 28..31
    BY <2>2, LastDayRange
  <2>4. n <= LastDay(y, m)
    BY <2>1, <2>3
  <2>5. <<y, m, n>> \in RealDate
    BY <2>2, <2>4, RealFrom
  <2> QED
    BY <1>3, <2>1, <2>5 DEF addDay
<1>4. CASE ~(d[3] < LastDay(d[1], d[2])) /\ ~(d[2] < 12)
  <2>1. PICK y, m, n : y = d[1] + 1 /\ m = 1 /\ n = 1
    OBVIOUS
  <2>2. y \in Nat /\ m \in 1..12 /\ n \in 1..31
    BY <1>1, <2>1
  <2>3. LastDay(y, m) \in 28..31
    BY <2>2, LastDayRange
  <2>4. n <= LastDay(y, m)
    BY <2>1, <2>3
  <2>5. <<y, m, n>> \in RealDate
    BY <2>2, <2>4, RealFrom
  <2> QED
    BY <1>4, <2>1, <2>5 DEF addDay
<1> QED
  BY <1>2, <1>3, <1>4

\* The day a date is clamped to, in the words of AnchorKept.
LEMMA ClampedIsLeast ==
  ASSUME NEW d \in RealDate, NEW day \in 1..31
  PROVE  Min({day, LastDay(d[1], d[2])}) = Clamped(day, d)
<1>1. PICK last : last = LastDay(d[1], d[2])
  OBVIOUS
<1>2. last \in 28..31
  BY <1>1, RealParts
<1>3. {day, last} \in SUBSET Int /\ day \in Int /\ last \in Int
  BY <1>2
<1>4. CASE day <= last
  <2>1. \A z \in {day, last} : day <= z
    BY <1>3, <1>4
  <2>2. Min({day, last}) = day
    BY <1>3, <2>1, LeastOf
  <2> QED
    BY <1>1, <1>4, <2>2 DEF Clamped
<1>5. CASE ~(day <= last)
  <2>1. \A z \in {day, last} : last <= z
    BY <1>3, <1>5
  <2>2. Min({day, last}) = last
    BY <1>3, <2>1, LeastOf
  <2> QED
    BY <1>1, <1>5, <2>2 DEF Clamped
<1> QED
  BY <1>4, <1>5

\* What lies not before a date lies not before what that one does not precede.
LEMMA NotBeforeTransitive ==
  ASSUME NEW d \in RealDate, NEW e \in RealDate, NEW s \in RealDate,
         ~Before(e, d), ~Before(d, s)
  PROVE  ~Before(e, s)
<1>1. PICK x, y, z : /\ x = 372 * d[1] + 31 * d[2] + d[3]
                     /\ y = 372 * e[1] + 31 * e[2] + e[3]
                     /\ z = 372 * s[1] + 31 * s[2] + s[3]
  OBVIOUS
<1>2. x \in Int /\ y \in Int /\ z \in Int
  BY <1>1, RealParts
<1>3. ~(y < x) /\ ~(x < z)
  BY <1>1 DEF Before
<1>4. ~(y < z)
  BY <1>2, <1>3
<1> QED
  BY <1>1, <1>4 DEF Before

-----------------------------------------------------------------------------
(* Periods: the months from f on, a step apart, up to the one before to.   *)

MonthsUpTo(f, to, step) == {m \in f..(to - 1) : (m - f) % step = 0}

LEMMA FirstPeriod ==
  ASSUME NEW f \in Int, NEW step \in Steps, NEW to, to = f + step
  PROVE  MonthsUpTo(f, to, step) = {f} /\ (to - f) % step = 0 /\ f < to
<1>1. CASE step = 1
  BY <1>1 DEF MonthsUpTo
<1>2. CASE step = 3
  BY <1>2 DEF MonthsUpTo
<1>3. CASE step = 12
  BY <1>3 DEF MonthsUpTo
<1> QED
  BY <1>1, <1>2, <1>3 DEF Steps

LEMMA NextPeriod ==
  ASSUME NEW f \in Int, NEW from \in Int, NEW step \in Steps, NEW to, to = from + step,
         f < from, (from - f) % step = 0
  PROVE  /\ MonthsUpTo(f, to, step) = MonthsUpTo(f, from, step) \cup {from}
         /\ (to - f) % step = 0 /\ f < to
<1>1. CASE step = 1
  BY <1>1 DEF MonthsUpTo
<1>2. CASE step = 3
  BY <1>2 DEF MonthsUpTo
<1>3. CASE step = 12
  BY <1>3 DEF MonthsUpTo
<1> QED
  BY <1>1, <1>2, <1>3 DEF Steps

LEMMA LeastPeriod ==
  ASSUME NEW f \in Int, NEW to \in Int, NEW step \in Steps, f < to
  PROVE  Min(MonthsUpTo(f, to, step)) = f
<1>1. 0 % step = 0
  BY DEF Steps
<1>2. f \in MonthsUpTo(f, to, step)
  BY <1>1 DEF MonthsUpTo
<1>3. MonthsUpTo(f, to, step) \in SUBSET Int /\ \A m \in MonthsUpTo(f, to, step) : f <= m
  BY DEF MonthsUpTo
<1> QED
  BY <1>2, <1>3, LeastOf

-----------------------------------------------------------------------------
(* The invariant.                                                          *)

TplRows == [next : RealDate, interval : Intervals, billingDay : 1..31, active : BOOLEAN]
FormRows == [edit : BOOLEAN, loaded : TplRows \cup {Absent}, date : RealDate,
             interval : Intervals, active : BOOLEAN, typed : BOOLEAN,
             opened : Dates \cup {Absent}]

BilledMonths(bs) == {Month(b.date) : b \in bs}

\* The pages: a form for a new template is open only before there is one.
Pages ==
  /\ todayIso \in Dates
  /\ form \in FormRows \cup {Absent}
  /\ form # Absent /\ ~form.edit => tpl = Absent /\ billed = {}

\* The row and the invoices have dates; the next one lies ahead of the last save.
Schedule ==
  /\ tpl \in TplRows \cup {Absent}
  /\ saves \in Nat
  /\ \A b \in billed : b.date \in RealDate
  /\ tpl # Absent =>
       anchor \in 1..31 /\ savedOn \in RealDate /\ ~Before(tpl.next, savedOn)

\* Unedited, the schedule still aims at the day the admin chose.
Aimed == tpl # Absent => tpl.billingDay = anchor /\ tpl.next[3] = Clamped(anchor, tpl.next)

\* Unedited, the months billed are those a step apart up to the next date's.
InStep ==
  tpl # Absent /\ billed # {} =>
    \E f \in Int :
      LET step == MONTHS_PER_INTERVAL[tpl.interval]
      IN /\ f < Month(tpl.next)
         /\ (Month(tpl.next) - f) % step = 0
         /\ BilledMonths(billed) = MonthsUpTo(f, Month(tpl.next), step)

DatesInv ==
  Pages /\ Schedule /\ NoBackdating /\ (saves = 0 => AnchorKept /\ Aimed /\ InStep)

LEMMA InvKept ==
  ASSUME DatesAssumption, DatesInv
  PROVE  DatesKept
<1>1. SUFFICES ASSUME saves = 0, tpl # Absent, billed # {}
               PROVE  LET step == MONTHS_PER_INTERVAL[tpl.interval]
                          months == BilledMonths(billed)
                      IN months = MonthsUpTo(Min(months), Month(tpl.next), step)
  BY DEF DatesInv, DatesKept, NoPeriodSkipped, BilledMonths, MonthsUpTo, Month
<1>2. PICK step, to : step = MONTHS_PER_INTERVAL[tpl.interval] /\ to = Month(tpl.next)
  OBVIOUS
<1>3. step \in Steps
  BY <1>1, <1>2, StepOf DEF DatesInv, Schedule, TplRows, DatesAssumption
<1>4. to \in Int
  BY <1>1, <1>2, RealParts DEF DatesInv, Schedule, TplRows, Month
<1>5. PICK f \in Int : f < to /\ BilledMonths(billed) = MonthsUpTo(f, to, step)
  BY <1>1, <1>2 DEF DatesInv, InStep
<1>6. Min(BilledMonths(billed)) = f
  BY <1>3, <1>4, <1>5, LeastPeriod
<1> QED
  BY <1>2, <1>5, <1>6

LEMMA InvInit ==
  ASSUME DatesAssumption, DatesInit
  PROVE  DatesInv
<1>1. todayIso \in Dates
  BY DEF DatesInit, Earliest
<1> QED
  BY <1>1 DEF DatesInit, DatesInv, Pages, Schedule, NoBackdating, AnchorKept, Aimed, InStep

\* What the pages do before a request leaves the schedule alone.
LEMMA ScheduleKept ==
  ASSUME DatesInv, UNCHANGED <<tpl, billed, anchor, savedOn, saves>>, Pages'
  PROVE  DatesInv'
<1>1. Schedule'
  BY DEF DatesInv, Schedule
<1>2. NoBackdating'
  BY DEF DatesInv, NoBackdating
<1>3. saves' = 0 => AnchorKept' /\ Aimed' /\ InStep'
  BY DEF DatesInv, AnchorKept, Aimed, InStep
<1> QED
  BY <1>1, <1>2, <1>3 DEF DatesInv

LEMMA StepClock ==
  ASSUME DatesAssumption, DatesInv, clockMoves
  PROVE  DatesInv'
<1>1. todayIso' \in Dates
  BY DEF clockMoves, Earliest, DatesInv, Pages
<1>2. Pages'
  BY <1>1 DEF clockMoves, DatesInv, Pages
<1> QED
  BY <1>2, ScheduleKept DEF clockMoves

LEMMA StepOpenNew ==
  ASSUME DatesAssumption, DatesInv, openNew
  PROVE  DatesInv'
<1>1. PICK i \in Intervals :
        form' = [edit |-> FALSE, loaded |-> Absent, date |-> tomorrowIso, interval |-> i,
                 active |-> TRUE, typed |-> FALSE, opened |-> todayIso]
  BY DEF openNew
<1>2. todayIso \in Dates /\ todayIso \in RealDate
  BY DEF DatesInv, Pages, DatesAssumption
<1>3. tomorrowIso \in RealDate
  BY <1>2, TheDayAfter DEF tomorrowIso
<1>4. form' \in FormRows
  BY <1>1, <1>2, <1>3 DEF FormRows
<1>5. Pages'
  BY <1>2, <1>4 DEF openNew, Pages, history
<1> QED
  BY <1>5, ScheduleKept DEF openNew, history

LEMMA LoadedForm ==
  ASSUME NEW row \in TplRows
  PROVE  Loaded(row) \in FormRows /\ Loaded(row).edit
BY DEF Loaded, TplRows, FormRows

LEMMA StepOpenTemplate ==
  ASSUME DatesAssumption, DatesInv, openTemplate
  PROVE  DatesInv'
<1>1. tpl \in TplRows
  BY DEF openTemplate, DatesInv, Schedule
<1>2. form' \in FormRows /\ form'.edit
  BY <1>1, LoadedForm DEF openTemplate
<1>3. Pages'
  BY <1>2 DEF openTemplate, DatesInv, Pages
<1> QED
  BY <1>3, ScheduleKept DEF openTemplate, history

LEMMA StepRefetch ==
  ASSUME DatesAssumption, DatesInv, refetch
  PROVE  DatesInv'
<1>1. tpl \in TplRows
  BY DEF refetch, DatesInv, Schedule
<1>2. form' \in FormRows /\ form'.edit
  BY <1>1, LoadedForm DEF refetch
<1>3. Pages'
  BY <1>2 DEF refetch, DatesInv, Pages
<1> QED
  BY <1>3, ScheduleKept DEF refetch, history

LEMMA StepPickDate ==
  ASSUME DatesAssumption, DatesInv, pickDate
  PROVE  DatesInv'
<1>1. form \in FormRows
  BY DEF pickDate, DatesInv, Pages
<1>2. PICK d \in IF form.edit THEN {addDay(todayIso)} ELSE {e \in Dates : Before(todayIso, e)} :
        form' = [form EXCEPT !.date = d, !.typed = TRUE]
  BY DEF pickDate
<1>3. d \in RealDate
  BY <1>2, TheDayAfter DEF DatesInv, Pages, DatesAssumption
<1>4. form' \in FormRows /\ form'.edit = form.edit
  BY <1>1, <1>2, <1>3 DEF FormRows
<1>5. Pages'
  BY <1>4 DEF pickDate, DatesInv, Pages, history
<1> QED
  BY <1>5, ScheduleKept DEF pickDate, history

LEMMA StepSetIsActive ==
  ASSUME DatesAssumption, DatesInv, setIsActive
  PROVE  DatesInv'
<1>1. form \in FormRows
  BY DEF setIsActive, DatesInv, Pages
<1>2. form' \in FormRows /\ form'.edit = form.edit
  BY <1>1 DEF setIsActive, FormRows
<1>3. Pages'
  BY <1>2 DEF setIsActive, DatesInv, Pages, history
<1> QED
  BY <1>3, ScheduleKept DEF setIsActive, history

LEMMA StepCloseForm ==
  ASSUME DatesAssumption, DatesInv, closeForm
  PROVE  DatesInv'
<1>1. Pages'
  BY DEF closeForm, DatesInv, Pages
<1> QED
  BY <1>1, ScheduleKept DEF closeForm, history

LEMMA StepCreate ==
  ASSUME DatesAssumption, DatesInv, createTemplateInTx
  PROVE  DatesInv'
<1>1. form \in FormRows /\ tpl = Absent /\ billed = {}
  BY DEF createTemplateInTx, DatesInv, Pages
<1>2. PICK d : d = form.date
  OBVIOUS
<1>3. d \in RealDate /\ form.interval \in Intervals
  BY <1>1, <1>2 DEF FormRows
<1>4. d[3] \in 1..31 /\ d[3] <= LastDay(d[1], d[2])
  BY <1>3, RealParts
<1>5. tpl' = [next |-> d, interval |-> form.interval, billingDay |-> d[3], active |-> TRUE]
  BY <1>2 DEF createTemplateInTx, dayOfMonth
<1>6. tpl' \in TplRows /\ tpl'.next = d /\ tpl'.billingDay = d[3]
  BY <1>3, <1>4, <1>5 DEF TplRows
<1>7. anchor' = d[3] /\ savedOn' = todayIso /\ ~Before(d, todayIso) /\ billed' = {}
  BY <1>1, <1>2 DEF createTemplateInTx, assertTemplateDate, dayOfMonth, history
<1>8. todayIso \in RealDate /\ saves' = saves
  BY DEF createTemplateInTx, DatesInv, Pages, DatesAssumption
<1>9. Pages'
  BY DEF createTemplateInTx, DatesInv, Pages
<1>10. Schedule'
  BY <1>4, <1>6, <1>7, <1>8 DEF Schedule, DatesInv
<1>11. Aimed'
  BY <1>4, <1>6, <1>7 DEF Aimed, Clamped
<1> QED
  BY <1>7, <1>9, <1>10, <1>11 DEF DatesInv, NoBackdating, AnchorKept, InStep

LEMMA StepUpdate ==
  ASSUME DatesAssumption, DatesInv, updateTemplate
  PROVE  DatesInv'
<1>1. form \in FormRows /\ tpl # Absent /\ saves \in Nat
  BY DEF updateTemplate, DatesInv, Pages, Schedule
<1>2. PICK d : d = form.date
  OBVIOUS
<1>3. d \in RealDate /\ form.interval \in Intervals /\ form.active \in BOOLEAN
  BY <1>1, <1>2 DEF FormRows
<1>4. d[3] \in 1..31
  BY <1>3, RealParts
<1>5. tpl' = [next |-> d, interval |-> form.interval, billingDay |-> d[3],
              active |-> form.active]
  BY <1>2 DEF updateTemplate, dayOfMonth
<1>6. tpl' \in TplRows /\ tpl'.next = d
  BY <1>3, <1>4, <1>5 DEF TplRows
<1>7. anchor' \in 1..31
  BY <1>1, <1>2, <1>4 DEF updateTemplate, dayOfMonth, DatesInv, Schedule
<1>8. savedOn' = todayIso /\ ~Before(d, todayIso) /\ billed' = billed
  BY <1>2 DEF updateTemplate, assertTemplateDate, history
<1>9. todayIso \in RealDate
  BY DEF DatesInv, Pages, DatesAssumption
<1>10. saves' \in Nat /\ saves' # 0
  BY <1>1 DEF updateTemplate
<1>11. Pages'
  BY DEF updateTemplate, DatesInv, Pages
<1>12. Schedule'
  BY <1>6, <1>7, <1>8, <1>9, <1>10 DEF Schedule, DatesInv
<1> QED
  BY <1>8, <1>10, <1>11, <1>12 DEF DatesInv, NoBackdating

LEMMA StepToggle ==
  ASSUME DatesAssumption, DatesInv, toggleActive
  PROVE  DatesInv'
<1>1. tpl \in TplRows /\ tpl # Absent
  BY DEF toggleActive, DatesInv, Schedule
<1>2. /\ tpl' \in TplRows /\ tpl'.next = tpl.next
      /\ tpl'.interval = tpl.interval /\ tpl'.billingDay = tpl.billingDay
  BY <1>1 DEF toggleActive, TplRows
<1>3. UNCHANGED <<todayIso, form, billed, anchor, savedOn, saves>>
  BY DEF toggleActive, history
<1>4. Pages'
  BY <1>1, <1>3 DEF DatesInv, Pages
<1>5. Schedule'
  BY <1>1, <1>2, <1>3 DEF DatesInv, Schedule
<1>6. NoBackdating' /\ (saves' = 0 => AnchorKept' /\ Aimed' /\ InStep')
  BY <1>1, <1>2, <1>3 DEF DatesInv, NoBackdating, AnchorKept, Aimed, InStep
<1> QED
  BY <1>4, <1>5, <1>6 DEF DatesInv

LEMMA StepRemove ==
  ASSUME DatesAssumption, DatesInv, removeTemplate
  PROVE  DatesInv'
<1>1. tpl' = Absent /\ UNCHANGED <<todayIso, form, billed, anchor, savedOn, saves>>
  BY DEF removeTemplate, history
<1>2. Pages' /\ Schedule'
  BY <1>1 DEF DatesInv, Pages, Schedule
<1>3. NoBackdating' /\ (saves' = 0 => AnchorKept' /\ Aimed' /\ InStep')
  BY <1>1 DEF DatesInv, NoBackdating, AnchorKept, Aimed, InStep
<1> QED
  BY <1>2, <1>3 DEF DatesInv

\* The invoice is dated as planned and the schedule moves one interval on.
LEMMA StepGenerate ==
  ASSUME DatesAssumption, DatesInv, generateFromTemplateInTx
  PROVE  DatesInv'
<1>1. /\ tpl \in TplRows /\ tpl # Absent
      /\ anchor \in 1..31 /\ savedOn \in RealDate /\ ~Before(tpl.next, savedOn)
  BY DEF generateFromTemplateInTx, DatesInv, Schedule
<1>2. PICK d, i, day, e : /\ d = tpl.next /\ i = tpl.interval /\ day = tpl.billingDay
                          /\ e = advanceByInterval(d, i, day)
  OBVIOUS
<1>3. d \in RealDate /\ i \in DOMAIN MONTHS_PER_INTERVAL /\ day \in 1..31
  BY <1>1, <1>2 DEF TplRows, DatesAssumption
<1>4. /\ e \in RealDate /\ e[3] = Clamped(day, e) /\ ~Before(e, d)
      /\ Month(e) = Month(d) + MONTHS_PER_INTERVAL[i]
  <2>1. e = advanceByInterval(d, i, day)
    BY <1>2
  <2> QED
    BY <1>3, <2>1, Advanced
<1>5. tpl' = [tpl EXCEPT !.next = e]
  BY <1>2 DEF generateFromTemplateInTx
<1>6. tpl' \in TplRows /\ tpl'.next = e /\ tpl'.interval = i /\ tpl'.billingDay = day
  BY <1>1, <1>2, <1>4, <1>5 DEF TplRows
<1>7. PICK new : new = [date |-> d, anchor |-> anchor, savedOn |-> savedOn]
  OBVIOUS
<1>8. billed' = billed \cup {new}
  BY <1>2, <1>7 DEF generateFromTemplateInTx
<1>9. UNCHANGED <<todayIso, form, anchor, savedOn, saves>>
  BY DEF generateFromTemplateInTx
<1>10. new.date = d /\ new.anchor = anchor /\ new.savedOn = savedOn
  BY <1>7
<1>11. ~Before(d, savedOn) /\ ~Before(e, savedOn)
  BY <1>1, <1>2, <1>3, <1>4, NotBeforeTransitive
<1>12. Pages'
  BY <1>1, <1>9 DEF DatesInv, Pages
<1>13. Schedule'
  BY <1>1, <1>3, <1>6, <1>8, <1>9, <1>10, <1>11 DEF DatesInv, Schedule
<1>14. NoBackdating'
  BY <1>8, <1>10, <1>11 DEF DatesInv, NoBackdating
<1>15. ASSUME saves' = 0 PROVE AnchorKept' /\ Aimed' /\ InStep'
  <2>1. AnchorKept /\ Aimed /\ InStep
    BY <1>9, <1>15 DEF DatesInv
  <2>2. day = anchor /\ d[3] = Clamped(anchor, d)
    BY <1>1, <1>2, <2>1 DEF Aimed
  <2>3. d[3] = Min({anchor, LastDay(d[1], d[2])})
    BY <1>1, <1>3, <2>2, ClampedIsLeast
  <2>4. AnchorKept'
    BY <1>8, <1>10, <2>1, <2>3 DEF AnchorKept
  <2>5. Aimed'
    BY <1>4, <1>6, <1>9, <2>2 DEF Aimed
  <2>6. PICK step, from, to : /\ step = MONTHS_PER_INTERVAL[i]
                              /\ from = Month(d) /\ to = Month(e)
    OBVIOUS
  <2>7. step \in Steps /\ from \in Int /\ to = from + step
    BY <1>3, <1>4, <2>6, StepOf, RealParts DEF Month
  <2>8. BilledMonths(billed') = BilledMonths(billed) \cup {from}
    BY <1>8, <1>10, <2>6 DEF BilledMonths
  <2>9. \E f \in Int : /\ f < to /\ (to - f) % step = 0
                       /\ BilledMonths(billed') = MonthsUpTo(f, to, step)
    <3>1. CASE billed = {}
      <4>1. BilledMonths(billed') = {from}
        BY <2>8, <3>1 DEF BilledMonths
      <4>2. MonthsUpTo(from, to, step) = {from} /\ (to - from) % step = 0 /\ from < to
        BY <2>7, FirstPeriod
      <4> QED
        BY <2>7, <4>1, <4>2
    <3>2. CASE billed # {}
      <4>1. PICK f \in Int : /\ f < from /\ (from - f) % step = 0
                             /\ BilledMonths(billed) = MonthsUpTo(f, from, step)
        BY <1>1, <1>2, <2>1, <2>6, <3>2 DEF InStep
      <4>2. /\ MonthsUpTo(f, to, step) = MonthsUpTo(f, from, step) \cup {from}
            /\ (to - f) % step = 0 /\ f < to
        BY <2>7, <4>1, NextPeriod
      <4> QED
        BY <2>8, <4>1, <4>2
    <3> QED
      BY <3>1, <3>2
  <2>10. InStep'
    <3>1. Month(tpl'.next) = to /\ MONTHS_PER_INTERVAL[tpl'.interval] = step
      BY <1>6, <2>6
    <3>2. \E f \in Int :
            /\ f < Month(tpl'.next)
            /\ (Month(tpl'.next) - f) % MONTHS_PER_INTERVAL[tpl'.interval] = 0
            /\ BilledMonths(billed') =
                 MonthsUpTo(f, Month(tpl'.next), MONTHS_PER_INTERVAL[tpl'.interval])
      BY <2>9, <3>1, Zenon
    <3> QED
      BY <3>2, Zenon DEF InStep, Month, BilledMonths, MonthsUpTo
  <2> QED
    BY <2>4, <2>5, <2>10
<1> QED
  BY <1>12, <1>13, <1>14, <1>15 DEF DatesInv

\* A short month does not move the billing dates after it, and late generation
\* and pauses neither shift nor drop a period, as long as no form is saved over
\* the schedule; and no invoice issued after a save is dated before that save:
\* for every calendar the clock visits, however many pauses and saves.
THEOREM DatesKeptHolds ==
  ASSUME DatesAssumption
  PROVE  DatesSpec => []DatesKept
<1>1. DatesInit => DatesInv
  BY InvInit
<1>2. DatesInv /\ [DatesNext]_dateVars => DatesInv'
  <2>1. SUFFICES ASSUME DatesInv, [DatesNext]_dateVars PROVE DatesInv'
    OBVIOUS
  <2>2. CASE UNCHANGED dateVars
    <3>1. UNCHANGED <<tpl, billed, anchor, savedOn, saves>> /\ Pages'
      BY <2>1, <2>2 DEF dateVars, DatesInv, Pages
    <3> QED
      BY <2>1, <3>1, ScheduleKept
  <2> QED
    BY <2>1, <2>2, StepClock, StepGenerate, StepOpenNew, StepOpenTemplate, StepRefetch,
       StepPickDate, StepSetIsActive, StepCloseForm, StepCreate, StepUpdate, StepToggle,
       StepRemove DEF DatesNext
<1>3. DatesInv => DatesKept
  BY InvKept
<1> QED
  BY <1>1, <1>2, <1>3, PTL DEF DatesSpec
=============================================================================

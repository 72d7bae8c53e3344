--------------------------- MODULE InvoiceAmounts ---------------------------
(***************************************************************************)
(* The amounts of one invoice: the arithmetic of billing (domain/vat.ts),  *)
(* the copy of it in the back office (apps/backoffice/src/lib/vat.ts), and *)
(* the form that adds, changes and removes lines, shows their total, saves *)
(* and is opened again (InvoiceFormPage.tsx).                              *)
(*                                                                         *)
(* A quantity is in thousandths, the precision of the input field and of   *)
(* the column; an amount is in öre. An amount that is not yet rounded is   *)
(* in the finer unit of its division, so that all arithmetic is exact.     *)
(***************************************************************************)
EXTENDS Integers, Sequences, FiniteSets

CONSTANTS Quantities,  \* quantities typed, in thousandths; 0 is an empty field
          Prices,      \* unit prices typed, in öre
          Rates,       \* VAT rates
          MaxLines,    \* bound: lines of an invoice
          MaxPatches,  \* bound: changes of a field in all
          NoInvoice

\* What is assumed of the constants; asserted where they get their values.
AmountsAssumption ==
  /\ Quantities \subseteq Nat /\ Prices \subseteq Nat
  /\ Rates \subseteq {0, 6, 12, 25} /\ 25 \in Rates
  /\ {MaxLines, MaxPatches} \subseteq Nat

VARIABLES
  lines,    \* the lines in the form
  mode,     \* the form: "new", "edit" or "closed"
  clean,    \* whether the form is as it was loaded
  shown,    \* the total on the screen when the form was last saved
  invoice,  \* the invoice with its items and totals, or NoInvoice
  credit,   \* its credit note, or NoInvoice
  patches

amountVars == <<lines, mode, clean, shown, invoice, credit, patches>>

-----------------------------------------------------------------------------
(* domain/vat.ts                                                           *)

\* Mutant of roundHalfUp: the fraction is cut off.
CutOff(numerator, unit) == numerator \div unit

\* floor(x + 0.5) of a number given in parts of a unit.
roundHalfUp(numerator, unit) == (2 * numerator + unit) \div (2 * unit)

\* quantity * unitPriceOre in thousandths of an öre, the whole and the
\* fractional part of the quantity apart.
exactLineExclVat(milli, unitPriceOre) ==
  LET whole == milli \div 1000
      frac == milli - whole * 1000
  IN 1000 * (whole * unitPriceOre) + frac * unitPriceOre

computeLine(l) ==
  LET excl == roundHalfUp(exactLineExclVat(l.milli, l.unitPriceOre), 1000)
      vat == roundHalfUp(excl * l.vatRate, 100)
  IN [excl |-> excl, vat |-> vat, incl |-> excl + vat]

noTotals == [excl |-> 0, vat |-> 0, incl |-> 0]

plus(a, b) == [excl |-> a.excl + b.excl, vat |-> a.vat + b.vat, incl |-> a.incl + b.incl]

\* Mutant of sumTotals: the total is built from unrounded VAT.
VatOnTotal(items) ==
  LET excl[i \in 0..Len(items)] == IF i = 0 THEN 0 ELSE excl[i - 1] + items[i].excl
      rated[i \in 0..Len(items)] ==
        IF i = 0 THEN 0 ELSE rated[i - 1] + items[i].excl * items[i].vatRate
      vat == roundHalfUp(rated[Len(items)], 100)
  IN [excl |-> excl[Len(items)], vat |-> vat, incl |-> excl[Len(items)] + vat]

sumTotals(items) ==
  LET acc[i \in 0..Len(items)] == IF i = 0 THEN noTotals ELSE plus(acc[i - 1], items[i])
  IN acc[Len(items)]

\* The rows of invoice_items.
toItems(ls) ==
  [i \in DOMAIN ls |->
     LET a == computeLine(ls[i])
     IN [milli |-> ls[i].milli, unitPriceOre |-> ls[i].unitPriceOre, vatRate |-> ls[i].vatRate,
         excl |-> a.excl, vat |-> a.vat, incl |-> a.incl]]

\* Mutant of creditItem: the amounts are computed from the negated quantity.
Recomputed(item) ==
  LET excl == roundHalfUp(-item.milli * item.unitPriceOre, 1000)
      vat == roundHalfUp(excl * item.vatRate, 100)
  IN [item EXCEPT !.milli = -@, !.excl = excl, !.vat = vat, !.incl = excl + vat]

\* A line of the credit note: the rounded amounts with the sign changed.
creditItem(item) ==
  [item EXCEPT !.milli = -@, !.excl = -@, !.vat = -@, !.incl = -@]

-----------------------------------------------------------------------------
(* lib/vat.ts of the back office, and the form.                            *)

\* The same amounts for the screen.
computeLineOre(milli, unitPriceOre, vatRate) ==
  LET whole == milli \div 1000
      thousandths == 1000 * (whole * unitPriceOre) + (milli - whole * 1000) * unitPriceOre
      excl == (2 * thousandths + 1000) \div 2000
      vat == (2 * excl * vatRate + 100) \div 200
  IN [excl |-> excl, vat |-> vat, incl |-> excl + vat]

totalsOre ==
  LET ore(l) == computeLineOre(l.milli, l.unitPriceOre, l.vatRate)
      acc[i \in 0..Len(lines)] ==
        IF i = 0 THEN noTotals ELSE plus(acc[i - 1], ore(lines[i]))
  IN acc[Len(lines)]

EMPTY_LINE == [milli |-> 1000, unitPriceOre |-> 0, vatRate |-> 25]

AmountsInit ==
  /\ lines = <<EMPTY_LINE>>
  /\ mode = "new"
  /\ clean = FALSE
  /\ shown = NoInvoice
  /\ invoice = NoInvoice
  /\ credit = NoInvoice
  /\ patches = 0

addLine ==
  /\ mode # "closed" /\ Len(lines) < MaxLines
  /\ lines' = Append(lines, EMPTY_LINE)
  /\ clean' = FALSE
  /\ UNCHANGED <<mode, shown, invoice, credit, patches>>

removeLine ==
  /\ mode # "closed" /\ Len(lines) > 1
  /\ \E i \in DOMAIN lines :
       lines' = SubSeq(lines, 1, i - 1) \o SubSeq(lines, i + 1, Len(lines))
  /\ clean' = FALSE
  /\ UNCHANGED <<mode, shown, invoice, credit, patches>>

updateLine ==
  /\ mode # "closed" /\ patches < MaxPatches
  /\ \E i \in DOMAIN lines :
       \/ \E q \in Quantities : lines' = [lines EXCEPT ![i].milli = q]
       \/ \E p \in Prices : lines' = [lines EXCEPT ![i].unitPriceOre = p]
       \/ \E r \in Rates : lines' = [lines EXCEPT ![i].vatRate = r]
  /\ clean' = FALSE
  /\ patches' = patches + 1
  /\ UNCHANGED <<mode, shown, invoice, credit>>

\* The request passes the schema (a quantity above zero); the invoice is
\* created or its items replaced, and the page is left.
saveInvoice ==
  /\ mode # "closed"
  /\ \A i \in DOMAIN lines : lines[i].milli > 0
  /\ mode = "edit" => invoice.status = "draft"
  /\ LET items == toItems(lines)
     IN invoice' = [status |-> "draft", items |-> items, totals |-> sumTotals(items)]
  /\ shown' = totalsOre
  /\ mode' = "closed"
  /\ UNCHANGED <<lines, clean, credit, patches>>

\* Mutant of toLineView: the unit price is sent in whole kronor.
WholeKronor(item) ==
  [milli |-> item.milli, unitPriceOre |-> 100 * roundHalfUp(item.unitPriceOre, 100),
   vatRate |-> item.vatRate]

\* What the form loads of an item: öre to kronor in the answer, and back to
\* öre from the field (kronorToOre).
toLineView(item) ==
  LET kronor == [whole |-> item.unitPriceOre \div 100, hundredths |-> item.unitPriceOre % 100]
  IN [milli |-> item.milli, unitPriceOre |-> 100 * kronor.whole + kronor.hundredths,
      vatRate |-> item.vatRate]

openEdit ==
  /\ mode = "closed" /\ invoice.status = "draft"
  /\ lines' = [i \in DOMAIN invoice.items |-> toLineView(invoice.items[i])]
  /\ mode' = "edit"
  /\ clean' = TRUE
  /\ UNCHANGED <<shown, invoice, credit, patches>>

sendInvoice ==
  /\ mode = "closed" /\ invoice.status = "draft"
  /\ invoice' = [invoice EXCEPT !.status = "sent"]
  /\ UNCHANGED <<lines, mode, clean, shown, credit, patches>>

creditInvoice ==
  /\ invoice # NoInvoice /\ invoice.status = "sent"
  /\ LET items == [i \in DOMAIN invoice.items |-> creditItem(invoice.items[i])]
     IN credit' = [items |-> items, totals |-> sumTotals(items)]
  /\ invoice' = [invoice EXCEPT !.status = "credited"]
  /\ UNCHANGED <<lines, mode, clean, shown, patches>>

AmountsNext ==
  \/ addLine \/ removeLine \/ updateLine \/ saveInvoice
  \/ openEdit \/ sendInvoice \/ creditInvoice

AmountsSpec == AmountsInit /\ [][AmountsNext]_amountVars

-----------------------------------------------------------------------------
(* Properties.                                                             *)

\* The state has its types, and an invoice has at least one line.
AmountsTypeOK ==
  /\ Len(lines) \in 1..MaxLines
  /\ \A i \in DOMAIN lines :
       lines[i] \in [milli : Nat, unitPriceOre : Nat, vatRate : Rates]
  /\ mode \in {"new", "edit", "closed"}
  /\ mode = "new" <=> invoice = NoInvoice
  /\ invoice # NoInvoice => Len(invoice.items) >= 1
  /\ (credit # NoInvoice) <=> (invoice # NoInvoice /\ invoice.status = "credited")
  /\ patches \in 0..MaxPatches

\* Each booked amount is the exact product rounded once, a half upwards: the
\* error is at most half an öre and never exactly half an öre downwards.
RoundedOnce ==
  invoice # NoInvoice =>
    \A i \in DOMAIN invoice.items :
      LET it == invoice.items[i]
          exclError == 2 * (1000 * it.excl - it.milli * it.unitPriceOre)
          vatError == 2 * (100 * it.vat - it.excl * it.vatRate)
      IN /\ -1000 < exclError /\ exclError <= 1000
         /\ -100 < vatError /\ vatError <= 100
         /\ it.incl = it.excl + it.vat

\* What the form showed when it was saved is what billing booked, through
\* every sequence of added, changed and removed lines.
PreviewIsBooked == invoice # NoInvoice => invoice.totals = shown

\* A form opened on an invoice and not yet touched shows the booked total, and
\* saving it books the same lines again.
ReopenShowsBooked ==
  mode = "edit" /\ clean =>
    totalsOre = invoice.totals /\ toItems(lines) = invoice.items

\* An invoice and its credit note cancel, line by line and in every total,
\* although both are rounded.
CreditCancels ==
  credit # NoInvoice =>
    /\ plus(credit.totals, invoice.totals) = noTotals
    /\ \A i \in DOMAIN invoice.items :
         /\ plus(credit.items[i], invoice.items[i]) = noTotals
         /\ credit.items[i].milli + invoice.items[i].milli = 0

\* Each booked amount is the exact product rounded once, a half upwards; what the
\* form showed, when saved and when opened again, is what was booked; an invoice
\* and its credit note cancel, line by line and in every total (domain/vat.ts,
\* InvoiceFormPage.tsx).
AmountsAgree == RoundedOnce /\ PreviewIsBooked /\ ReopenShowsBooked /\ CreditCancels
=============================================================================

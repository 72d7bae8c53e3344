----------------------------- MODULE OcrNumbers -----------------------------
(***************************************************************************)
(* The payment reference (packages/shared/src/ocr): billing derives it     *)
(* from the invoice number, the payer copies it, payments validates what   *)
(* arrives (matching/service.ts) before it looks the invoice up. A         *)
(* reference is the sequence of its digits. The payer makes at most one    *)
(* slip, of the kinds people make (transposed 0 and 9, and the loss of the *)
(* length or the check digit, are beyond this check and left out).         *)
(***************************************************************************)
EXTENDS Naturals, Sequences, FiniteSets

CONSTANTS Starts,  \* first invoice numbers of a company
          Count    \* bound: invoices issued

\* What is assumed of the constants; asserted where they get their values.
OcrAssumption == Starts \subseteq Nat \ {0} /\ Count \in Nat

VARIABLES
  first,  \* the company's first number
  next,   \* next_invoice_number
  typed,  \* the reference of a payment for the last invoice
  slip    \* "none", "substituted", "transposed", "dropped" or "doubled"

ocrVars == <<first, next, typed, slip>>

\* The decimal digits of a number (String).
digitsOf[n \in Nat] ==
  IF n < 10 THEN <<n>> ELSE Append(digitsOf[n \div 10], n % 10)

doubled(d) == IF 2 * d > 9 THEN 2 * d - 9 ELSE 2 * d

\* The digit next to the check digit is doubled, and every second before it.
weighed(digits, i) == IF (Len(digits) - i) % 2 = 0 THEN doubled(digits[i]) ELSE digits[i]

luhnCheckDigit(digits) ==
  LET sum[i \in 0..Len(digits)] == IF i = 0 THEN 0 ELSE sum[i - 1] + weighed(digits, i)
  IN (10 - (sum[Len(digits)] % 10)) % 10

\* Mutant of deriveOcr: the length digit does not count the two last digits.
ShortLength(invoiceNumber) ==
  LET base == digitsOf[invoiceNumber]
      withLength == Append(base, Len(base) % 10)
  IN Append(withLength, luhnCheckDigit(withLength))

deriveOcr(invoiceNumber) ==
  LET base == digitsOf[invoiceNumber]
      withLength == Append(base, (Len(base) + 2) % 10)
  IN Append(withLength, luhnCheckDigit(withLength))

\* Mutant of isValidOcr: the length digit is not looked at.
LuhnOnly(ocr) ==
  Len(ocr) >= 3 /\ luhnCheckDigit(SubSeq(ocr, 1, Len(ocr) - 1)) = ocr[Len(ocr)]

isValidOcr(ocr) ==
  /\ Len(ocr) >= 3
  /\ Len(ocr) % 10 = ocr[Len(ocr) - 1]
  /\ luhnCheckDigit(SubSeq(ocr, 1, Len(ocr) - 1)) = ocr[Len(ocr)]

-----------------------------------------------------------------------------
OcrInit ==
  /\ first \in Starts
  /\ next = first
  /\ typed = <<>>
  /\ slip = "none"

\* The number and the reference of a sent invoice (allocateNumber).
numberInvoice ==
  /\ next < first + Count
  /\ next' = next + 1
  /\ typed' = deriveOcr(next)
  /\ slip' = "none"
  /\ UNCHANGED first

Slip(kind, digits) ==
  /\ next > first /\ slip = "none"
  /\ typed' = digits
  /\ slip' = kind
  /\ UNCHANGED <<first, next>>

substitute ==
  \E i \in DOMAIN typed : \E d \in (0..9) \ {typed[i]} :
    Slip("substituted", [typed EXCEPT ![i] = d])

\* Two neighbours change places; 0 and 9 are the pair this check cannot tell.
transpose ==
  \E i \in 1..(Len(typed) - 1) :
    /\ typed[i] # typed[i + 1]
    /\ {typed[i], typed[i + 1]} # {0, 9}
    /\ Slip("transposed", [typed EXCEPT ![i] = typed[i + 1], ![i + 1] = typed[i]])

\* A digit of the invoice number is left out or written twice.
drop ==
  \E i \in 1..(Len(typed) - 2) :
    Slip("dropped", SubSeq(typed, 1, i - 1) \o SubSeq(typed, i + 1, Len(typed)))

double ==
  \E i \in 1..(Len(typed) - 2) :
    Slip("doubled", SubSeq(typed, 1, i) \o SubSeq(typed, i, Len(typed)))

OcrNext == numberInvoice \/ substitute \/ transpose \/ drop \/ double

OcrSpec == OcrInit /\ [][OcrNext]_ocrVars

-----------------------------------------------------------------------------
(* Properties.                                                             *)

\* A reference copied without a slip is accepted by payments and leads to one
\* invoice only: no two numbers of a company have the same reference.
CopiedIsFound ==
  next > first /\ slip = "none" =>
    /\ isValidOcr(typed)
    /\ {n \in first..(next - 1) : deriveOcr(n) = typed} = {next - 1}

\* One slip is never taken for another invoice's reference: payments rejects
\* what was typed before it looks anything up.
SlipIsRejected == slip # "none" => ~isValidOcr(typed)

\* The state has its types: a reference is digits, the number counts up.
OcrTypeOK ==
  /\ first \in Starts /\ next \in first..(first + Count)
  /\ typed \in Seq(0..9)
  /\ slip \in {"none", "substituted", "transposed", "dropped", "doubled"}

\* A reference copied from the invoice finds that invoice, one with a slip is
\* refused before anything is looked up (shared/ocr).
ReferenceSafe == CopiedIsFound /\ SlipIsRejected
=============================================================================

-------------------------- MODULE CustomerIdentity --------------------------
(***************************************************************************)
(* Private customers and the personal number that identifies them          *)
(* (billing/src/customers, packages/shared/src/swedish-id). An admin types *)
(* the number with ten or twelve digits; BankID gives twelve; billing and  *)
(* auth both hash the twelve-digit form, and a login finds the companies   *)
(* whose rows carry the same hash.                                         *)
(*                                                                         *)
(* A person is <<year of birth, the eight digits after the year>>; a hash  *)
(* is the form it is taken of. Ten digits carry the year's last two, and a *)
(* plus from the year in which the person turns a hundred. Typing errors   *)
(* are left out: the forms are the ones a person's number really has.      *)
(***************************************************************************)
EXTENDS Naturals, FiniteSets

CONSTANTS Persons,    \* people, as <<year of birth, remaining digits>>
          Tenants,    \* companies
          Years,      \* the years the clock visits
          NewYear,    \* whether customers are entered in the first hour of a year
          MaxRows,    \* bound: customers entered
          NoLookup

\* What is assumed of the constants; asserted where they get their values. Nobody is
\* two hundred years old.
IdentityAssumption ==
  /\ Years \subseteq Nat /\ \E first \in Years : \A y \in Years : first <= y
  /\ \A p \in Persons : p = <<p[1], p[2]>> /\ p[1] \in Nat /\ \A y \in Years : y < p[1] + 200
  /\ NewYear \in BOOLEAN /\ MaxRows \in Nat

VARIABLES
  year,      \* the year in Sweden
  firstHour, \* whether UTC is still in the year before
  rows,      \* customers: [tenant, person, pnr, id], pnr the form hashed
  invoiced,  \* customers with an invoice or a template
  found,     \* the last BankID lookup: [person, rows]
  entered    \* customers entered so far

identityVars == <<year, firstHour, rows, invoiced, found, entered>>

\* The ways the number of p is written in year y.
WrittenForms(p, y) ==
  {[digits |-> 12, year |-> p[1], rest |-> p[2], plus |-> FALSE],
   [digits |-> 10, year |-> p[1] % 100, rest |-> p[2], plus |-> y - p[1] >= 100]}

\* Mutant of normalizePnr: this year's births are put a hundred years back.
ThisYearIsPast(input, currentYear) ==
  LET guess == (currentYear \div 100) * 100 + input.year
      century == IF guess >= currentYear THEN guess - 100 ELSE guess
  IN IF input.digits = 12 THEN <<input.year, input.rest>>
     ELSE <<IF input.plus THEN century - 100 ELSE century, input.rest>>

normalizePnr(input, currentYear) ==
  LET guess == (currentYear \div 100) * 100 + input.year
      century == IF guess > currentYear THEN guess - 100 ELSE guess
  IN IF input.digits = 12 THEN <<input.year, input.rest>>
     ELSE <<IF input.plus THEN century - 100 ELSE century, input.rest>>

-----------------------------------------------------------------------------
FirstYear == CHOOSE y \in Years : \A z \in Years : y <= z

IdentityInit ==
  /\ year = FirstYear
  /\ firstHour = FALSE
  /\ rows = {}
  /\ invoiced = {}
  /\ found = NoLookup
  /\ entered = 0

\* The unique index finds the person among the company's customers.
Taken(t, pnr) == \E r \in rows : r.tenant = t /\ r.pnr = pnr

insert(t, p, pnr) ==
  /\ rows' = rows \cup {[tenant |-> t, person |-> p, pnr |-> pnr, id |-> entered]}
  /\ entered' = entered + 1

\* Mutant of createInTx: no unique index on the hash.
NoUniqueIndex ==
  \E t \in Tenants, p \in {q \in Persons : q[1] <= year} : \E input \in WrittenForms(p, year) :
    LET pnr == normalizePnr(input, IF firstHour THEN year - 1 ELSE year)
    IN /\ entered < MaxRows
       /\ firstHour => NewYear
       /\ insert(t, p, pnr)
       /\ UNCHANGED <<year, firstHour, invoiced, found>>

\* A second row of a company with the same hash is a conflict.
createInTx ==
  \E t \in Tenants, p \in {q \in Persons : q[1] <= year} : \E input \in WrittenForms(p, year) :
    LET pnr == normalizePnr(input, IF firstHour THEN year - 1 ELSE year)
    IN /\ entered < MaxRows
       /\ firstHour => NewYear
       /\ ~Taken(t, pnr)
       /\ insert(t, p, pnr)
       /\ UNCHANGED <<year, firstHour, invoiced, found>>

\* An invoice or a template is made for the customer.
invoiceCustomer ==
  /\ \E r \in rows : invoiced' = invoiced \cup {r.id}
  /\ UNCHANGED <<year, firstHour, rows, found, entered>>

\* The foreign key of an invoice or a template refuses the removal.
Referenced(r) == r.id \in invoiced

removeRow(r) == rows' = rows \ {r}

\* Only a customer that no invoice or template refers to can be removed.
remove ==
  /\ \E r \in rows : ~Referenced(r) /\ removeRow(r)
  /\ UNCHANGED <<year, firstHour, invoiced, found, entered>>

\* Mutant of lookupByPnrHmac: the century of the hash is not looked at.
ByTenDigits ==
  /\ \E p \in Persons :
       found' = [person |-> p, rows |-> {r \in rows : r.pnr[1] % 100 = p[1] % 100 /\ r.pnr[2] = p[2]}]
  /\ UNCHANGED <<year, firstHour, rows, invoiced, entered>>

\* A BankID login asks for all companies with the hash of its twelve digits.
lookupByPnrHmac ==
  /\ \E p \in Persons : found' = [person |-> p, rows |-> {r \in rows : r.pnr = p}]
  /\ UNCHANGED <<year, firstHour, rows, invoiced, entered>>

timePasses ==
  /\ IF firstHour THEN firstHour' = FALSE /\ UNCHANGED year
     ELSE /\ year + 1 \in Years
          /\ year' = year + 1
          /\ firstHour' = TRUE
  /\ found' = NoLookup
  /\ UNCHANGED <<rows, invoiced, entered>>

IdentityNext ==
  \/ createInTx \/ invoiceCustomer \/ remove \/ lookupByPnrHmac \/ timePasses

IdentitySpec == IdentityInit /\ [][IdentityNext]_identityVars

-----------------------------------------------------------------------------
(* Properties.                                                             *)

\* The state has its types, and every invoice has its customer.
IdentityTypeOK ==
  /\ year \in Years /\ firstHour \in BOOLEAN /\ entered \in 0..MaxRows
  /\ \A r \in rows : r.tenant \in Tenants /\ r.person \in Persons /\ r.id \in 0..(MaxRows - 1)
  /\ invoiced \subseteq {r.id : r \in rows}

\* However and whenever the number was typed, billing hashes the same twelve
\* digits as BankID gives for that person.
SamePerson == \A r \in rows : r.pnr = r.person

\* A login never finds the row of somebody else, also of a person whose ten
\* digits are the same and who was born in another century.
FindsOnlySelf == found # NoLookup => \A r \in found.rows : r.person = found.person

\* A company has one row at most for a person.
OnePerTenant ==
  \A r, s \in rows : r.tenant = s.tenant /\ r.person = s.person => r = s

\* However a personal number was typed, billing hashes the twelve digits BankID
\* gives; a login finds nobody else's row, and a company has one row at most for
\* a person (shared/swedish-id, customers/services.ts).
IdentityKept == SamePerson /\ FindsOnlySelf /\ OnePerTenant
=============================================================================

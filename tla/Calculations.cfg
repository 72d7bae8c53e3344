SPECIFICATION Calculations
CONSTANTS
  Scenarios = {"amounts", "dates", "editing", "timer", "ocr", "identity"}
\* Quantities and prices whose products end just below, at and above half an ore.
  Quantities = {0, 1, 500, 1115, 2333}
  Prices = {1, 50, 99, 350}
  Rates = {0, 6, 12, 25}
  MaxLines = 2
  MaxPatches = 4
  NoInvoice = NoInvoice
\* One template, paused and resumed, and one save of its form.
  Dates <- lastDays
  Opening <- yearEnd
  Intervals = {"monthly", "quarterly", "yearly"}
  Forms = TRUE
  MaxToggles = 2
  MaxSaves = 1
  Absent = Absent
\* One run and one edit of a template.
  MaxOriginals = 2
  MaxTemplates = 1
  MaxDay = 1
  PaymentId = {}
  Amount = {}
  PayAmount = {1}
  Fee = {0}
  Terms = {0}
  Run = {"run"}
  Editor = {"editor"}
  EditDate = {0, 1}
  TemplateAmount = {1}
  Interval = {1, 2}
  MaxCatchup = 1
  RunMayFail = TRUE
\* Number series across a change of length.
  Starts = {1, 990, 99990, 12345678}
  Count = 120
\* Days 1 and 3 have 23 and 25 hours.
  Days = 4
  SpringDay = 1
  AutumnDay = 3
  Hours = {0, 1, 2, 3, 23}
  MaxLate = 2
  MaxRun = 2
  MaxCrashes = 1
  NoTime = NoTime
  Persons <- people
  Years = {2025, 2026, 2027, 2028}
  Tenants = {"t1", "t2"}
  NewYear = FALSE
  MaxRows = 3
  NoLookup = NoLookup
INVARIANTS AmountsAgree DatesKept NotBilledAhead NightlyOnce ReferenceSafe IdentityKept
CHECK_DEADLOCK FALSE

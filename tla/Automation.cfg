SPECIFICATION Spec
CONSTANTS
  MaxOriginals = 2
  MaxTemplates = 1
  MaxDay = 1
  PaymentId = {}
  Amount = {1}
  PayAmount = {1}
  Fee = {0}
  Terms = {0}
  Run = {r1, r2}
  Editor = {}
  EditDate = {}
  TemplateAmount = {1}
  Interval = {1}
  MaxCatchup = 2
  RunMayFail = TRUE
SYMMETRY Symmetry
INVARIANTS OneSuccessor OneInvoicePerPeriod

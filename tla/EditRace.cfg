SPECIFICATION Spec
CONSTANTS
  MaxOriginals = 2
  MaxTemplates = 1
  MaxDay = 1
  PaymentId = {}
  Amount = {}
  PayAmount = {1}
  Fee = {0}
  Terms = {0}
  Run = {r1}
  Editor = {e1}
  EditDate = {}
  TemplateAmount = {1}
  Interval = {1}
  MaxCatchup = 1
  RunMayFail = FALSE
INVARIANTS OneInvoicePerPeriod

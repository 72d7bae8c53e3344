SPECIFICATION Spec
CONSTANTS
  MaxOriginals = 1
  MaxTemplates = 0
  MaxDay = 1
  PaymentId = {p1}
  Amount = {2}
  PayAmount = {1}
  Fee = {0}
  Terms = {0}
  Run = {r1}
  Editor = {}
  EditDate = {}
  TemplateAmount = {1}
  Interval = {1}
  MaxCatchup = 1
  RunMayFail = FALSE
PROPERTIES BookedAtChainEnd

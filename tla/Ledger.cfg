SPECIFICATION Spec
CONSTANTS
  MaxOriginals = 1
  MaxTemplates = 0
  MaxDay = 2
  PaymentId = {p1, p2}
  Amount = {0, 2}
  PayAmount = {1, 2}
  Fee = {0, 1}
  Terms = {0, 1}
  Run = {r1}
  Editor = {}
  EditDate = {}
  TemplateAmount = {1}
  Interval = {1}
  MaxCatchup = 2
  RunMayFail = TRUE
SYMMETRY Symmetry
INVARIANTS TypeOK NumbersGapless DunningAfterDue PaidIffCovered BookedOnce DocumentsFaithful
PROPERTIES StatusNeverBackwards

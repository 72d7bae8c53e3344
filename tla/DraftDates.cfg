SPECIFICATION Spec
CONSTANTS
  MaxOriginals = 1
  MaxTemplates = 0
  MaxDay = 1
  PaymentId = {}
  Amount = {1}
  PayAmount = {1}
  Fee = {0}
  Terms = {0}
  Run = {}
  Editor = {}
  EditDate = {}
  TemplateAmount = {1}
  Interval = {1}
  MaxCatchup = 1
  RunMayFail = FALSE
INVARIANTS DueNotBeforeIssued

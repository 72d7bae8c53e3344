SPECIFICATION FairSuite
CONSTANTS
  Jobs = {"file", "webhook"}
  Lines <- BankLines
  Requests = {x1, x2}
  InvoiceAnswers <- BillingAnswers
  MaxFailures = 1
  NoValue = NoValue
  payment = payment
INVARIANT SatisfiedIsDecided
PROPERTIES MovesAsTransactions ImplementsTransactions DuesAreMet

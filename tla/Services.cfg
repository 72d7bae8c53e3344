SPECIFICATION Suite
CONSTANTS
  NoValue = NoValue  night = night  admin = admin  consumer = consumer
  x1 = x1  x2 = x2  x3 = x3  y1 = y1  y2 = y2  y3 = y3
  i1 = i1  i2 = i2  i3 = i3  t1 = t1  c1 = c1  c2 = c2
\* Accounts
  Requests = {x1, x2}
  MaxTokens = 4
  MaxPasswords = 3
  Threshold = 2
  MaxGuesses = 0
\* BankID
  Pages = {"g1"}
  Polls = {"p1"}
  Tenants = {"t1", "t2"}
  InitMax = 1
  MaxOrders = 3
  MaxChanges = 2
  MaxCollectFaults = 0
  MaxCrashes = 1
  NULL = NULL
\* The browser
  Tabs = {"tab"}
  Calls = {y1, y2, y3}
  MaxRefreshTokens = 6
  MaxAnswersLost = 0
  MaxRaces = 0
  NoToken = NoToken
\* Mail
  Invoices = {x1, x2}
  Tasks = {y1, y2}
  Workers = {"w1"}
  MaxAttempts = 1
  Reports <- reports
  MaxMailFaults = 1
  MaxAddress = 0
\* Locks
  Request = {night, admin, consumer}  Task <- ledgerTasks  EventId = {"e1", "e2"}
  Invoice = {i1, i2, i3}  Template = {t1}  Customer = {c1, c2}
  Owner <- ownerOf  Parent <- parentOf  PoolMax = 4
SYMMETRY Symmetry
INVARIANTS SuiteTypes UsedOnce GuessesBounded NoWayBackIn SignedInRight SessionKept StatusConverges MailedOnce NoWaitCycle

SPECIFICATION FairSpec
CONSTANTS
  Requests = {tab}
  Sessions = {s1, s2}
  Hooks = {h1, h2}
  Total = 2
  Fee = 1
  MaxBank = 1
  MaxReminders = 1
  MaxFaults = 1
  MaxRepeats = 1
  NULL = NULL
INVARIANTS TypeOK PaidOnRecord OnePayable
PROPERTY PaidIsBooked
CHECK_DEADLOCK FALSE

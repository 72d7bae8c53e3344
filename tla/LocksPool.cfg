SPECIFICATION FairSuite
CONSTANTS
  Scenarios = {"creating"}
  Forms = {form1}
  Keys = {k1}
  Bodies = {b1, b2}
  Requests = {r1, r2, r3}
  SlowRequests = FALSE
  MaxFailures = 2
  NoValue = NoValue  night = night  admin = admin  other = other  consumer = consumer
  x1 = x1  y1 = y1  i1 = i1  i2 = i2  i3 = i3  t1 = t1  c1 = c1  c2 = c2
PROPERTY EveryRequestEnds

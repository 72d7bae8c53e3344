SPECIFICATION FairSuite
CONSTANTS
  Events = {1, 2}
  Malformed = {2}
  Publishers = {p1, p2}
  Tasks = {t1, t2}
  PublishMax = 2
  ConsumeMax = 2
  Republish = "confirmed"
  CheckedAtSource = FALSE
  MaxFaults = 1
  NoValue = NoValue  x1 = x1  y1 = y1  y2 = y2
INVARIANT NothingLostOrDoubled
PROPERTIES MovesAsDelivery 

SPECIFICATION FairSpec
CONSTANTS
  a1 = a1
  w1 = w1
  w2 = w2
  u1 = u1
  u2 = u2
  Automata = {a1}
  Workers = {w1, w2}
  Updates = {}
  Schedules <- MCCronOnly
  Batch = 1
  Grace = 1
  QueuedTimeout = 1
  RunningTimeout = 1
  MaxNow = 3
  MaxFaults = 1
  MaxManual = 0
  MaxEdits = 0
PROPERTIES PastIsLeft

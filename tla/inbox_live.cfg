SPECIFICATION FairSpec
CONSTANTS
  q1 = q1
  q2 = q2
  s1 = s1
  w1 = w1
  c1 = c1
  c2 = c2
  Queued = {q1}
  Steers = {s1}
  Completions = {w1}
  Callers = {c1}
  MaxChats = 0
  MaxFaults = 0

INVARIANTS InjectionKept
PROPERTIES EverythingArrives
CHECK_DEADLOCK FALSE

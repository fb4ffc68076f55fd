SPECIFICATION Spec
CONSTANTS
  q1 = q1
  q2 = q2
  s1 = s1
  w1 = w1
  c1 = c1
  c2 = c2
  Queued = {q1, q2}
  Steers = {s1}
  Completions = {}
  Callers = {c1, c2}
  MaxChats = 1
  MaxFaults = 2
SYMMETRY Twins
INVARIANTS TypeOK OneWaiting QueuedKept WithdrawnStaysOut InjectionKept BufferIsDrained
PROPERTIES ActiveTurnIsSafe KeepsQueueContract
CHECK_DEADLOCK FALSE

SPECIFICATION Spec
CONSTANTS
  a1 = a1
  w1 = w1
  w2 = w2
  u1 = u1
  u2 = u2
  Automata = {a1}
  Workers = {w1, w2}
  Updates = {u1, u2}
  Schedules <- MCSchedules
  Batch = 1
  Grace = 0
  QueuedTimeout = 0
  RunningTimeout = 0
  MaxNow = 2
  MaxFaults = 1
  MaxManual = 1
  MaxEdits = 2
SYMMETRY Symmetry
INVARIANTS TypeOK OneTurnPerDue OneLiveRun DueFitsSchedule
PROPERTIES RunsAreFinal
CONSTRAINT AnyTwo

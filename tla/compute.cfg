SPECIFICATION Spec
CONSTANTS
    c1 = c1
    c2 = c2
    i1 = i1
    i2 = i2
    Callers = {c1, c2}
    Instances = {i1, i2}
    NoFiles = NoFiles
    MaxWork = 2
    MaxFailures = 2
    MaxLosses = 2
INVARIANTS TypeOK WorkSurvives BitIsHonest
CONSTRAINT Undisturbed
SYMMETRY Symmetry
CHECK_DEADLOCK FALSE

CONSTANTS
    Users = {u1, u2}
    Flows = {f1, f2, f3}
    Photo = photo
    Nil = Nil
    MaxKills = 1
    Failures = TRUE
    Patient = TRUE
SPECIFICATION Spec
SYMMETRY Symmetry
INVARIANTS TypeOK SeenOnlyAfterGetStarted SignedOutSeesLogin ProfileImageStored
PROPERTY SeenNeverReverts
CHECK_DEADLOCK FALSE

CONSTANTS
    Users = {u1, u2}
    Flows = {f1, f2, f3}
    Photo = photo
    Nil = Nil
    MaxKills = 2
    Failures = FALSE
    Patient = TRUE
SPECIFICATION Spec
SYMMETRY Symmetry
INVARIANTS OnboardingNotRepeated HomeShowsSignedInUser
CHECK_DEADLOCK FALSE

CONSTANTS
    Logins = {l1, l2}
    Registrations = {g1}
    Resets = {r1, r2}
    Home = home
    Ops = {o1, o2, o3}
    Nil = Nil
    StorageFails = TRUE
    Hasty = FALSE
SPECIFICATION Spec
SYMMETRY Symmetry
INVARIANT TypeOK
PROPERTIES ResetPopsItself EndIsReported
CHECK_DEADLOCK FALSE

CONSTANTS
    Names = {n1, n2}
    OldName = n1
    Uploads = {img1}
    OldImage = img0
    Sessions = {e1, e2}
    Home = home
    Nil = Nil
    MaxPending = 1
    MaxKills = 1
    Rejects = FALSE
SPECIFICATION Spec
SYMMETRY Symmetry
INVARIANT UnwrapsSucceed
CHECK_DEADLOCK FALSE

CONSTANTS
    Names = {n1, n2}
    OldName = n1
    Uploads = {img1}
    OldImage = img0
    Sessions = {e1, e2}
    Home = home
    Nil = Nil
    MaxPending = 2
    MaxKills = 1
    Rejects = FALSE
SPECIFICATION Spec
SYMMETRY Symmetry
INVARIANTS TypeOK NoDanglingImage NameConverges SavedNameDurable FetchReadsSavedName
CHECK_DEADLOCK FALSE

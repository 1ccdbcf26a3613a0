CONSTANTS
    Names = {n1}
    OldName = n1
    Uploads = {img1}
    OldImage = img0
    Sessions = {e1, e2}
    Home = home
    Nil = Nil
    MaxPending = 1
    MaxKills = 1
    Rejects = TRUE
SPECIFICATION FairSpec
PROPERTIES ImplementsLoader LoaderLeavesClosedScreen
CHECK_DEADLOCK FALSE

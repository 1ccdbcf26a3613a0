CONSTANTS
    Logins = {l1, l2}
    Registrations = {g1}
    Resets = {}
    Home = home
    Ops = {o1, o2}
    Nil = Nil
    StorageFails = TRUE
    Hasty = TRUE
SPECIFICATION FairSpec
PROPERTIES ImplementsLoader LoaderLeaves
CHECK_DEADLOCK FALSE

CONSTANTS
    Users = {u1, u2}
    Flows = {f1, f2}
    Photo = photo
    Nil = Nil
    MaxKills = 0
    Failures = FALSE
    Patient = FALSE
SPECIFICATION FairSpec
 
PROPERTY SignInLeavesLogin
CHECK_DEADLOCK FALSE

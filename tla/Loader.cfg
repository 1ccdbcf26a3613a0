CONSTANTS
    Views = {v1, v2, v3}
    NoView = NoView
    Ops = {o1, o2, o3}
SPECIFICATION FairSpec
INVARIANTS TypeOK SteadyLoaderHasOwner
PROPERTY DismissTakesEffect

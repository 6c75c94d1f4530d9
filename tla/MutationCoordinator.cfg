\* Four calls: a writer behind two readers with a third reader behind it.
SPECIFICATION FairSpec
CONSTANTS
    Calls = {c1, c2, c3, c4}
    NoCall = NoCall
PROPERTIES NoOvertaking FatalFence ImplementsLock EveryCallSettles

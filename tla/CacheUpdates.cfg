CONSTANTS
    t1 = t1  t2 = t2  t3 = t3
    h1 = h1  h2 = h2
    Threads = {t1, t2, t3}
    ThreadLists <- Lists
    Handlers = {h1, h2}
    Suspending = {h1}
    Target <- AsksSecond
    MaxUpdates = 3
SPECIFICATION FairSpec
INVARIANTS
    SafeLookup
    NothingLeaks
PROPERTIES
    FreezeHolds
    Refreshed
CHECK_DEADLOCK FALSE

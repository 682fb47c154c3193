CONSTANTS
    Tasks = {t1, t2, t3}
SPECIFICATION FairSpec
INVARIANT TypeOK
INVARIANT Exclusion
INVARIANT WriterWaitsFirst
INVARIANT NoLostWakeup
PROPERTY ImplementsRwLock
PROPERTY EveryoneServed

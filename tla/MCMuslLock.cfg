CONSTANTS
    Threads = {t1, t2, t3}
    Main = t1
    INT_MIN <- MCIntMin
    Spins = 1
    Kernels = {TRUE, FALSE}
SPECIFICATION FairSpec
INVARIANT TypeOK
INVARIANT MutualExclusion
INVARIANT Congestion
INVARIANT CountIncludesUs
INVARIANT SkipOnlyAlone
PROPERTY LockProgress

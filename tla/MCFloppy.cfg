CONSTANTS
    Procs = {p1, p2}
    Reqs = {r1, r2}
    Ops = {"format", "raw", "poll", "reset"}
    NoReq = NoReq
    MaxErrors = 1
    Glitches = 1
    MaxWaits = 1
SPECIFICATION Spec
INVARIANT TypeOK
INVARIANT NoMishapUntilLate
INVARIANT Exclusive
INVARIANT TimeoutAlive
PROPERTY ErrorsOfCurrent
PROPERTY WaitReturns
PROPERTY RequestEnds

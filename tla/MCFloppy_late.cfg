CONSTANTS
    Procs = {p1}
    Reqs = {r1}
    Ops = {"raw"}
    NoReq = NoReq
    MaxErrors = 1
    Glitches = 0
    MaxWaits = 0
SPECIFICATION UncutSpec
INVARIANT NoConflict

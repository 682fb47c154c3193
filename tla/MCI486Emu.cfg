CONSTANTS
    B = 16
    TASK_SIZE = 49152
    Cells <- MCCells
    Programs <- MCPrograms
    InitRegs <- MCRegs
    InitMem <- MCMem
    ModRMs <- MCModRMs
    Disps <- MCDisps
SPECIFICATION Spec
INVARIANT TypeOK
PROPERTY ImplementsIsa
PROPERTY KernelUntouched
PROPERTY SigillIsPrecise
PROPERTY SystemFlagsKept
CHECK_DEADLOCK FALSE

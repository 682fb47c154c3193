CONSTANTS
    B = 16
    TASK_SIZE = 49152
    Cells <- MCCells
    Programs <- MCPrograms
    InitRegs <- MCRegs
    InitMem <- MCMem
    ModRMs <- MCModRMs
    Disps <- MCDisps
SPECIFICATION Spec
PROPERTY RunsAsOn486
CHECK_DEADLOCK FALSE

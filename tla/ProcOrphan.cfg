SPECIFICATION Spec
CONSTANTS
    NPROC = 3
    MaxPid = 5
    NULL = NULL
    Chan = Chan
    SyscallMasksIrq = FALSE
INVARIANTS NoStranger

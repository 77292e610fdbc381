SPECIFICATION Spec
CONSTANTS
    NPROC = 3
    MaxPid = 4
    NULL = NULL
    Chan = Chan
    SyscallMasksIrq = TRUE
INVARIANTS IdleListens

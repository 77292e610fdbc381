SPECIFICATION MCSpec
CONSTANTS
    NPROC = 3
    MaxPid = 5
    NULL = NULL
    Chan = Chan
    SyscallMasksIrq = FALSE
INVARIANTS TypeOK CurrentOwnsCpu NoLostExit ParentOlder
PROPERTIES NoDoubleBypass RunnableRuns WaitReturns
